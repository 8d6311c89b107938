------------------------------ MODULE Lifecycle ------------------------------
(***************************************************************************)
(* What the API promises about the life of a patent, with no handlers, no  *)
(* transactions and no races: the diagram of services/patents/lifecycle.js *)
(* and the rules that only a draft or a declined patent is edited, that an *)
(* edit moves the version by at most one, that only a draft is deleted,    *)
(* and that an id is never used twice.  PatentWorkflow implements it.      *)
(***************************************************************************)
EXTENDS Naturals

CONSTANTS Ids,    \* ids a patent can have
          Texts   \* everything `version` counts: text and document

VARIABLES status,   \* where each patent is in its life
          text,     \* what it says
          version,  \* how often that changed, as far as the service knows
          retired   \* the ids that no patent will have any more

vars == <<status, text, version, retired>>

Statuses == {"draft", "pending_admin", "approved", "declined", "absent"}

Init ==
    /\ status = [p \in Ids |-> "absent"]
    /\ text \in [Ids -> Texts]
    /\ version = [p \in Ids |-> 0]
    /\ retired = {}

Become(p, from, to) ==
    /\ status[p] \in from
    /\ status' = [status EXCEPT ![p] = to]

Create(p) ==
    /\ p \notin retired
    /\ Become(p, {"absent"}, "draft")
    /\ version' = [version EXCEPT ![p] = 1]
    /\ \E t \in Texts : text' = [text EXCEPT ![p] = t]
    /\ UNCHANGED retired

\* A create that is refused at the last moment uses its id up.
Skip(p) ==
    /\ status[p] = "absent"
    /\ retired' = retired \cup {p}
    /\ UNCHANGED <<status, text, version>>

Edit(p) ==
    /\ status[p] \in {"draft", "declined"}
    /\ \E t \in Texts : text' = [text EXCEPT ![p] = t]
    /\ \E n \in {0, 1} : version' = [version EXCEPT ![p] = @ + n]
    /\ UNCHANGED <<status, retired>>

Submit(p) ==
    /\ Become(p, {"draft", "declined"}, "pending_admin")
    /\ UNCHANGED <<text, version, retired>>

Approve(p) ==
    /\ Become(p, {"pending_admin"}, "approved")
    /\ UNCHANGED <<text, version, retired>>

Decline(p) ==
    /\ Become(p, {"pending_admin", "approved"}, "declined")
    /\ UNCHANGED <<text, version, retired>>

Delete(p) ==
    /\ Become(p, {"draft"}, "absent")
    /\ version' = [version EXCEPT ![p] = 0]
    /\ \E t \in Texts : text' = [text EXCEPT ![p] = t]
    /\ retired' = retired \cup {p}

Next ==
    \E p \in Ids : Create(p) \/ Skip(p) \/ Edit(p) \/ Submit(p) \/ Approve(p) \/ Decline(p) \/ Delete(p)

Spec == Init /\ [][Next]_vars

=============================================================================
