-------------------------- MODULE MCBrowserSession --------------------------
(***************************************************************************)
(* Instances of BrowserSession for TLC.                                    *)
(***************************************************************************)
EXTENDS BrowserSession, TLC

CONSTANTS call1, call2, device, tab, root, mail

MCTabOf == [c \in Calls |-> tab]

\* The calls of a tab are interchangeable.
CallSymmetry == Permutations(Calls)

=============================================================================
