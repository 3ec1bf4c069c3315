-------------------------- MODULE ApprovalContract --------------------------
(***************************************************************************)
(* What the governed pipeline promises, with nothing of how: a request's   *)
(* content may be changed by its author until somebody else agrees to it;  *)
(* an agreed content takes effect once, exactly as agreed; a dropped       *)
(* request never takes effect.                                             *)
(***************************************************************************)
EXTENDS Sequences

CONSTANTS Ids, Users, Payloads, Nobody

VARIABLES
  phase,     \* "absent", "open", "agreed", "done" or "dropped"
  author,    \* who asked
  content,   \* what is asked for
  agreedBy,  \* who agreed, Nobody before that
  effect     \* the contents put in effect

vars == <<phase, author, content, agreedBy, effect>>

Init ==
  /\ phase    = [a \in Ids |-> "absent"]
  /\ author   = [a \in Ids |-> Nobody]
  /\ content  = [a \in Ids |-> Nobody]
  /\ agreedBy = [a \in Ids |-> Nobody]
  /\ effect   = [a \in Ids |-> <<>>]

Ask(a, u, p) ==
  /\ phase[a] = "absent"
  /\ phase'   = [phase EXCEPT ![a] = "open"]
  /\ author'  = [author EXCEPT ![a] = u]
  /\ content' = [content EXCEPT ![a] = p]
  /\ UNCHANGED <<agreedBy, effect>>

Amend(a, p) ==
  /\ phase[a] = "open"
  /\ content' = [content EXCEPT ![a] = p]
  /\ UNCHANGED <<phase, author, agreedBy, effect>>

Agree(a, u) ==
  /\ phase[a] = "open" /\ u # author[a]
  /\ phase'    = [phase EXCEPT ![a] = "agreed"]
  /\ agreedBy' = [agreedBy EXCEPT ![a] = u]
  /\ UNCHANGED <<author, content, effect>>

Drop(a) ==
  /\ phase[a] = "open"
  /\ phase' = [phase EXCEPT ![a] = "dropped"]
  /\ UNCHANGED <<author, content, agreedBy, effect>>

TakeEffect(a) ==
  /\ phase[a] = "agreed"
  /\ phase'  = [phase EXCEPT ![a] = "done"]
  /\ effect' = [effect EXCEPT ![a] = Append(@, content[a])]
  /\ UNCHANGED <<author, content, agreedBy>>

Next ==
  \E a \in Ids :
    \/ \E u \in Users, p \in Payloads : Ask(a, u, p)
    \/ \E p \in Payloads : Amend(a, p)
    \/ \E u \in Users : Agree(a, u)
    \/ Drop(a)
    \/ TakeEffect(a)

Spec == Init /\ [][Next]_vars
=============================================================================
