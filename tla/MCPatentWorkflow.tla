-------------------------- MODULE MCPatentWorkflow --------------------------
(***************************************************************************)
(* Instances of PatentWorkflow for TLC: who the sessions are, which        *)
(* operations each one uses and which keys each user was issued.           *)
(***************************************************************************)
EXTENDS PatentWorkflow, TLC

CONSTANTS author, admin, admin2, k1, k2, k3, c1, c2,
          alice,   \* the author's first tab
          alice2,  \* the author's second tab
          bob, bea \* two admins

\* Every session in these instances and the user behind it.
Owner == alice :> author @@ alice2 :> author @@ bob :> admin @@ bea :> admin2

MCUserOf == [s \in Sessions |-> Owner[s]]

AuthorOps == {"create", "update", "submit", "delete"}
AdminOps == {"approve", "decline"}

\* Authors draft, edit, submit and delete; admins review.
DoesByRole ==
    [s \in Sessions |-> IF Owner[s] \in Admins THEN AdminOps ELSE AuthorOps]

\* bob also edits and deletes what authors submit; bea only reviews.
DoesOnBoard ==
    [s \in Sessions |-> IF s = bob THEN Ops \ {"create"} ELSE DoesByRole[s]]

\* k3 was issued to the admin, the other keys to the author.
MCKeyOwner == [k \in Keys |-> IF k = k3 THEN admin ELSE author]

\* The texts are interchangeable, and so are the tabs of one user.
TextSymmetry == Permutations(Contents)
TabSymmetry == Permutations(Contents) \cup Permutations({alice, alice2} \cap Sessions)

=============================================================================
