----------------------------- MODULE MCAccounts -----------------------------
(***************************************************************************)
(* Instances of Accounts for TLC.                                          *)
(***************************************************************************)
EXTENDS Accounts, TLC

CONSTANTS r1, r2, root, mail

\* Requests are interchangeable.
RequestSymmetry == Permutations(Requests)

=============================================================================
