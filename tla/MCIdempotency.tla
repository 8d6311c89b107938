--------------------------- MODULE MCIdempotency ---------------------------
(***************************************************************************)
(* Instances of Idempotency for TLC: two tabs of one author.               *)
(***************************************************************************)
EXTENDS Idempotency, TLC

CONSTANTS author, alice, alice2, k1, k2, c1, tag

MCUserOf == [s \in Sessions |-> author]

MCDoes == [s \in Sessions |-> {"create", "update", "delete"}]

MCKeyOwner == [k \in Keys |-> author]

\* The tabs and the documents are interchangeable.
TabSymmetry == Permutations(Sessions) \cup Permutations(Keys)

=============================================================================
