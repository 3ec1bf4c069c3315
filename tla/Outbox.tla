-------------------------------- MODULE Outbox --------------------------------
(***************************************************************************)
(* What the two transactional outboxes of the platform promise, whatever   *)
(* drains race and die: revise & resubmit (RevisionOutbox) and the hand-   *)
(* over of a departure (Departures).  A source that has recorded a wish is *)
(* answered at most once and for good, by a request that was made for it,  *)
(* and nothing is answered that was never wished.  A wish may be dropped   *)
(* instead; an answer that was already on its way still counts.            *)
(***************************************************************************)

CONSTANTS Sources, Requests, None

VARIABLES
  wish,   \* per source: "none", "wanted", "dropped" or "answered"
  made,   \* per source, the requests made for it so far
  answer  \* per source, the request that answers it, None before that

vars == <<wish, made, answer>>

Init ==
  /\ wish   = [s \in Sources |-> "none"]
  /\ made   = [s \in Sources |-> {}]
  /\ answer = [s \in Sources |-> None]

\* A request is submitted; it may do for several sources.
Make ==
  /\ UNCHANGED <<wish, answer>>
  /\ made' \in [Sources -> SUBSET Requests]
  /\ \A s \in Sources : made[s] \subseteq made'[s]

Want(s) ==
  /\ wish[s] = "none"
  /\ wish' = [wish EXCEPT ![s] = "wanted"]
  /\ UNCHANGED <<made, answer>>

Drop(s) ==
  /\ wish[s] = "wanted"
  /\ wish' = [wish EXCEPT ![s] = "dropped"]
  /\ UNCHANGED <<made, answer>>

Answer(s, r) ==
  /\ wish[s] \in {"wanted", "dropped"}
  /\ r \in made[s]
  /\ wish'   = [wish EXCEPT ![s] = "answered"]
  /\ answer' = [answer EXCEPT ![s] = r]
  /\ UNCHANGED made

Next ==
  \/ Make
  \/ \E s \in Sources : Want(s) \/ Drop(s) \/ \E r \in Requests : Answer(s, r)

Spec == Init /\ [][Next]_vars
=============================================================================
