----------------------------- MODULE MCCatalog -----------------------------
(***************************************************************************)
(* Instances of Catalog for TLC: who the sessions are, what each does, and *)
(* the inventor lists they send.                                           *)
(***************************************************************************)
EXTENDS Catalog, TLC

CONSTANTS author, admin, alice, bob, mail, mail2, chem, Chem

MCUserOf == alice :> author @@ bob :> admin

\* Names that differ in case only.
MCFolded == [n \in Names |-> "chem"]

Entry(i, o) == [inventor |-> i, order |-> o]

\* One and two inventors, in either order; a repeated one, a gap, and a mixture
\* of explicit and positional orders.
MCLists ==
    {<<Entry(1, None)>>, <<Entry(2, 1), Entry(1, 2)>>, <<Entry(1, None), Entry(1, None)>>,
     <<Entry(1, 1), Entry(2, 3)>>, <<Entry(1, 1), Entry(2, None)>>}

\* Inventors are created and edited by both, and deleted and tagged by bob.
MCDoes ==
    alice :> {"createInventor", "updateInventor", "createPatent", "updatePatent"} @@
    bob :> {"createInventor", "updateInventor", "deleteInventor",
            "createCategory", "updateCategory", "deleteCategory"}

\* Addresses are interchangeable, and so are names.
TextSymmetry == Permutations(Emails) \cup Permutations(Names)

=============================================================================
