----------------------------- MODULE Departures -----------------------------
(***************************************************************************)
(* Offboarding (departureOps.ts) and the governed person requests it hands *)
(* over to (submitPersonOps.ts).  Completing a departure records, in the   *)
(* same transaction, that a DeactivatePerson request is wanted; a drain    *)
(* finds or submits that request and links it to the departure.  Ordinary  *)
(* submits, drains, decisions and executions run concurrently, and a drain *)
(* may die between any two of its steps.                                   *)
(*                                                                         *)
(* A submit is the reads its checks are made of, each a step, followed by  *)
(* its transaction.  A row's lifecycle is taken from Approvals with each   *)
(* of its transactions as one step.  Departure versions are left out:      *)
(* every write that bumps one closes the departure, so the version check   *)
(* and the status check refuse the same calls.                             *)
(***************************************************************************)
EXTENDS Lifecycle, Naturals, FiniteSets

CONSTANTS
  People,        \* person ids
  Workers,       \* API requests in flight
  MaxRows,       \* bound on approval ids allocated
  MaxDepartures, \* bound on departure ids allocated
  MaxLosses,     \* bound on requests that fail or die before they are done
  Nobody         \* no person: a task that is not about one yet

ASSUME BoundsAssumption ==
  MaxRows \in Nat /\ MaxDepartures \in Nat /\ MaxLosses \in Nat
ASSUME NobodyAssumption == Nobody \notin People

VARIABLES
  active,    \* person.is_active
  approval,  \* the person requests allocated so far, by id
  departure, \* the departures allocated so far, by id
  task,      \* per worker, what it is in the middle of
  losses     \* requests lost so far

vars == <<active, approval, departure, task, losses>>

Ids == 1..MaxRows
DepartureIds == 1..MaxDepartures
None == 0

PersonOps == {"UpdatePersonIdentity", "DeactivatePerson", "ReactivatePerson"}

NoRow == [status |-> "None"]
Idle  == [pc |-> "idle"]

Rows == [status: ApprovalStatuses, op: PersonOps, person: People]

\* "request" is deactivation_approval_id, "wanted" deactivation_requested.
DepartureRows == [status: {"InProgress", "Completed", "Cancelled"}, person: People,
                  wanted: BOOLEAN, request: Ids \cup {None}]

\* "next": a drain between two departures of its list.  The other labels are
\* the awaits of a submit, of the drain around it, or of both.
Tasks == [pc: {"next", "find", "active", "open", "insert", "refind", "link"},
          op: PersonOps, person: People \cup {Nobody}, todo: SUBSET DepartureIds,
          departure: DepartureIds \cup {None}, request: Ids \cup {None}]

Exists(a)  == approval[a] # NoRow
Recorded(d) == departure[d] # NoRow

Init ==
  /\ active    = [p \in People |-> TRUE]
  /\ approval  = [a \in Ids |-> NoRow]
  /\ departure = [d \in DepartureIds |-> NoRow]
  /\ task      = [w \in Workers |-> Idle]
  /\ losses    = 0

-----------------------------------------------------------------------------
\* Open person requests: what both "find" reads and the submit's guard list.
OpenRequests(p, ops) ==
  {a \in Ids : Exists(a) /\ approval[a].person = p /\ approval[a].op \in ops
                         /\ approval[a].status \in OpenStatuses}

\* Mutated form: the search for an open request forgets the operation.
OpenPersonRequests(p) == OpenRequests(p, PersonOps)

\* Mutated form: the search forgets the status.
DeactivationsOfAnyStatus(p) ==
  {a \in Ids : Exists(a) /\ approval[a].person = p /\ approval[a].op = "DeactivatePerson"}

OpenDeactivations(p) == OpenRequests(p, {"DeactivatePerson"})

\* listDeparturesAwaitingDeactivation.
Awaiting == {d \in DepartureIds :
               Recorded(d) /\ departure[d].wanted /\ departure[d].request = None}

At(w, pc) == task[w] # Idle /\ task[w].pc = pc
Go(w, pc) == task' = [task EXCEPT ![w].pc = pc]
Done(w)   == task' = [task EXCEPT ![w] = Idle]

\* The state of the person that makes a lifecycle flip moot.
Moot(op, p) ==
  \/ op = "DeactivatePerson" /\ ~active[p]
  \/ op = "ReactivatePerson" /\ active[p]

-----------------------------------------------------------------------------
(* The departure record.                                                   *)

\* initiateDeparture: one in progress per person, behind a unique index.
Initiate(p, d) ==
  /\ ~Recorded(d) /\ \A c \in 1..(d - 1) : Recorded(c)
  /\ \A c \in DepartureIds :
       Recorded(c) /\ departure[c].person = p => departure[c].status # "InProgress"
  /\ departure' = [departure EXCEPT ![d] =
       [status |-> "InProgress", person |-> p, wanted |-> FALSE, request |-> None]]
  /\ UNCHANGED <<active, approval, task, losses>>

\* completeDeparture: the status and the wish for a deactivation, together.
\* Its caller then starts a drain of its own (List), unless it dies first.
Complete(d, wanted) ==
  /\ Recorded(d) /\ departure[d].status = "InProgress"
  /\ departure' = [departure EXCEPT ![d].status = "Completed", ![d].wanted = wanted]
  /\ UNCHANGED <<active, approval, task, losses>>

Cancel(d) ==
  /\ Recorded(d) /\ departure[d].status = "InProgress"
  /\ departure' = [departure EXCEPT ![d].status = "Cancelled"]
  /\ UNCHANGED <<active, approval, task, losses>>

-----------------------------------------------------------------------------
(* The submit of a person request, by a user or from inside a drain.       *)

\* A user's submit begins.
Ask(w, op, p) ==
  /\ task[w] = Idle
  /\ task' = [task EXCEPT ![w] =
       [pc |-> "active", op |-> op, person |-> p, todo |-> {},
        departure |-> None, request |-> None]]
  /\ UNCHANGED <<active, approval, departure, losses>>

\* The submit refuses or fails: a user is told, a drain looks again.
Refused(w) == IF task[w].departure = None THEN Done(w) ELSE Go(w, "refind")

\* The read of the person that refuses an obviously moot request.
ReadPerson(w) ==
  /\ At(w, "active")
  /\ IF Moot(task[w].op, task[w].person) THEN Refused(w) ELSE Go(w, "open")
  /\ UNCHANGED <<active, approval, departure, losses>>

\* assertNoOpenPersonOp.
ReadOpen(w) ==
  /\ At(w, "open")
  /\ IF OpenRequests(task[w].person, PersonOps) # {} THEN Refused(w) ELSE Go(w, "insert")
  /\ UNCHANGED <<active, approval, departure, losses>>

\* Mutated form: no unique index on open deactivations.
NoConflict(op, p) == FALSE

\* approval_one_open_deactivate_person (0062, realigned by 0065).
Conflict(op, p) == op = "DeactivatePerson" /\ OpenDeactivations(p) # {}

\* The submit's transaction.
Insert(w) ==
  /\ At(w, "insert")
  /\ ~Conflict(task[w].op, task[w].person)
  /\ \E a \in Ids :
       /\ ~Exists(a) /\ \A b \in 1..(a - 1) : Exists(b)
       /\ approval' = [approval EXCEPT ![a] =
            [status |-> "Submitted", op |-> task[w].op, person |-> task[w].person]]
       /\ IF task[w].departure = None
            THEN Done(w)
            ELSE task' = [task EXCEPT ![w].pc = "link", ![w].request = a]
  /\ UNCHANGED <<active, departure, losses>>

IdsExhausted == \A a \in Ids : Exists(a)

\* The index refuses the row (in the model also an id sequence at its bound).
InsertRefused(w) ==
  /\ At(w, "insert")
  /\ Conflict(task[w].op, task[w].person) \/ IdsExhausted
  /\ Refused(w)
  /\ UNCHANGED <<active, approval, departure, losses>>

-----------------------------------------------------------------------------
(* drainDepartureDeactivations: the list is read once, then walked.        *)

List(w) ==
  /\ task[w] = Idle
  /\ Awaiting # {}
  /\ task' = [task EXCEPT ![w] =
       [pc |-> "next", op |-> "DeactivatePerson", person |-> Nobody,
        todo |-> Awaiting, departure |-> None, request |-> None]]
  /\ UNCHANGED <<active, approval, departure, losses>>

TakeUp(w) ==
  /\ At(w, "next")
  /\ \E d \in task[w].todo :
       task' = [task EXCEPT ![w].pc = "find", ![w].todo = @ \ {d},
                            ![w].departure = d, ![w].person = departure[d].person]
  /\ UNCHANGED <<active, approval, departure, losses>>

\* On to the next departure of the list; the drain ends with it.
MoveOn(w) ==
  IF task[w].todo = {} THEN Done(w)
  ELSE task' = [task EXCEPT ![w].pc = "next", ![w].person = Nobody,
                            ![w].departure = None, ![w].request = None]

\* The two searches for an open DeactivatePerson: before the submit, and after
\* its failure.  The second failing leaves the departure to a later drain.
Find(w) ==
  /\ At(w, "find") \/ At(w, "refind")
  /\ \/ \E a \in OpenDeactivations(task[w].person) :
          task' = [task EXCEPT ![w].pc = "link", ![w].request = a]
     \/ /\ OpenDeactivations(task[w].person) = {}
        /\ IF At(w, "find") THEN Go(w, "active") ELSE MoveOn(w)
  /\ UNCHANGED <<active, approval, departure, losses>>

\* Mutated form: the later drain's link wins.
SetRequestAlways(d, a) == departure' = [departure EXCEPT ![d].request = a]

\* linkDepartureDeactivation: write-once.
SetRequest(d, a) ==
  departure' = IF departure[d].request = None
                 THEN [departure EXCEPT ![d].request = a] ELSE departure

\* Mutated form: the drain stops without linking what it found.
LinkForgotten(w) ==
  /\ At(w, "link")
  /\ MoveOn(w)
  /\ UNCHANGED <<active, approval, departure, losses>>

\* Whether the link was made is not looked at.
Link(w) ==
  /\ At(w, "link")
  /\ SetRequest(task[w].departure, task[w].request)
  /\ MoveOn(w)
  /\ UNCHANGED <<active, approval, losses>>

\* A transient fault: the submit's is answered like a refusal, any other ends
\* the departure's turn.
Fault(w) ==
  /\ task[w] # Idle /\ ~At(w, "next")
  /\ losses < MaxLosses
  /\ losses' = losses + 1
  /\ IF task[w].pc \in {"active", "open", "insert"} THEN Refused(w) ELSE MoveOn(w)
  /\ UNCHANGED <<active, approval, departure>>

\* The request dies: its committed steps stay.
Lose(w) ==
  /\ task[w] # Idle
  /\ losses < MaxLosses
  /\ losses' = losses + 1
  /\ Done(w)
  /\ UNCHANGED <<active, approval, departure>>

-----------------------------------------------------------------------------
(* Decisions and executions, each transaction one step.                    *)

SetStatus(a, status) == approval' = [approval EXCEPT ![a].status = status]

Decide(a) ==
  /\ Exists(a)
  /\ \/ \E action \in ReviewActions :
          CanApply(action, approval[a].status) /\ SetStatus(a, TargetStatus(action))
     \/ CanApply("withdraw", approval[a].status) /\ SetStatus(a, "Withdrawn")
  /\ UNCHANGED <<active, departure, task, losses>>

\* Mutated form: the person is not looked at again when the request executes.
ExecuteUnchecked(a) ==
  /\ Exists(a) /\ CanApply("execute", approval[a].status)
  /\ SetStatus(a, "Executed")
  /\ active' = [active EXCEPT ![approval[a].person] =
       CASE approval[a].op = "DeactivatePerson" -> FALSE
         [] approval[a].op = "ReactivatePerson" -> TRUE
         [] OTHER -> @]
  /\ UNCHANGED <<departure, task, losses>>

\* executeApproval: under the lock of the row and of the person.
Execute(a) ==
  /\ Exists(a) /\ CanApply("execute", approval[a].status)
  /\ ~Moot(approval[a].op, approval[a].person)
  /\ SetStatus(a, "Executed")
  /\ active' = [active EXCEPT ![approval[a].person] =
       CASE approval[a].op = "DeactivatePerson" -> FALSE
         [] approval[a].op = "ReactivatePerson" -> TRUE
         [] OTHER -> @]
  /\ UNCHANGED <<departure, task, losses>>

\* Mutated form: a status the CHECK of 0001 does not know.
ExecuteFailsUnknown(a) ==
  /\ Exists(a) /\ CanApply("execute", approval[a].status)
  /\ SetStatus(a, "Failed")
  /\ UNCHANGED <<active, departure, task, losses>>

\* It is moot, or fails past its point of no return, and that is recorded.
ExecuteFails(a) ==
  /\ Exists(a) /\ CanApply("execute", approval[a].status)
  /\ SetStatus(a, "ExecutionFailed")
  /\ UNCHANGED <<active, departure, task, losses>>

-----------------------------------------------------------------------------
Step(w) ==
  \/ ReadPerson(w) \/ ReadOpen(w) \/ Insert(w) \/ InsertRefused(w)
  \/ TakeUp(w) \/ Find(w) \/ Link(w)

Next ==
  \/ \E p \in People, d \in DepartureIds : Initiate(p, d)
  \/ \E d \in DepartureIds : (\E b \in BOOLEAN : Complete(d, b)) \/ Cancel(d)
  \/ \E w \in Workers, op \in PersonOps, p \in People : Ask(w, op, p)
  \/ \E w \in Workers : List(w) \/ Step(w) \/ Fault(w) \/ Lose(w)
  \/ \E a \in Ids : Decide(a) \/ Execute(a) \/ ExecuteFails(a)

Spec == Init /\ [][Next]_vars

\* A request that has not died goes on.  That the drain is called again for as
\* long as a hand-off is pending is asked of whoever operates the platform: the
\* endpoint is called by hand, any completion with the wish to deactivate drains
\* the whole list, and no timer does.
FairSpec ==
  /\ Spec
  /\ \A w \in Workers : WF_vars(Step(w))
  /\ SF_vars(\E w \in Workers : List(w))

-----------------------------------------------------------------------------
(* What must hold.                                                         *)

\* Every variable has its type.
TypeOK ==
  /\ active    \in [People -> BOOLEAN]
  /\ approval  \in [Ids -> Rows \cup {NoRow}]
  /\ departure \in [DepartureIds -> DepartureRows \cup {NoRow}]
  /\ task      \in [Workers -> Tasks \cup {Idle}]
  /\ losses    \in 0..MaxLosses

\* Users and drains racing each other never leave a person with two open
\* deactivation requests, a failed one included.
OneOpenDeactivation == \A p \in People : Cardinality(OpenDeactivations(p)) <= 1

Executions(p, op) ==
  {a \in Ids : Exists(a) /\ approval[a].person = p /\ approval[a].op = op
                         /\ approval[a].status = "Executed"}

\* The record explains the person: executed deactivations and reactivations
\* alternate, so a person is active exactly when as many of one as of the
\* other have been executed, however many requests raced their checks.
ActiveMatchesExecutions ==
  \A p \in People :
    Cardinality(Executions(p, "DeactivatePerson"))
      = Cardinality(Executions(p, "ReactivatePerson")) + (IF active[p] THEN 0 ELSE 1)

\* A hand-off is what it says: only a departure completed with the wish for it
\* has one, and it is a deactivation of the person who departs.
HandOffIsDeactivation ==
  \A d \in DepartureIds : Recorded(d) /\ departure[d].request # None =>
    /\ departure[d].status = "Completed" /\ departure[d].wanted
    /\ Exists(departure[d].request)
    /\ approval[departure[d].request].op = "DeactivatePerson"
    /\ approval[departure[d].request].person = departure[d].person

Closed(a) == Exists(a) /\ approval[a].status \notin OpenStatuses
LinkedTo(d, a) == Recorded(d) /\ departure[d].request = a

\* A hand-off is a fresh request: one that was closed while the departure was
\* still in progress (an earlier departure's, since rejected or executed) is
\* never linked to it.
HandOffIsFresh ==
  \A d \in DepartureIds, a \in Ids :
    [](Recorded(d) /\ departure[d].status = "InProgress" /\ Closed(a)
         => []~LinkedTo(d, a))

\* A hand-off, once made, is final: a drain that comes late changes nothing.
HandOffIsFinal ==
  [][\A d \in DepartureIds : Recorded(d) /\ departure[d].request # None =>
       departure'[d] = departure[d]]_vars

\* The departures as the outbox sees them.
wishOf ==
  [d \in DepartureIds |->
     IF ~Recorded(d) \/ ~departure[d].wanted THEN "none"
     ELSE IF departure[d].request = None THEN "wanted" ELSE "answered"]
madeOf ==
  [d \in DepartureIds |->
     {a \in Ids : /\ Recorded(d) /\ Exists(a) /\ approval[a].op = "DeactivatePerson"
                  /\ approval[a].person = departure[d].person}]
answerOf == [d \in DepartureIds |-> IF Recorded(d) THEN departure[d].request ELSE None]

Contract == INSTANCE Outbox WITH
  Sources <- DepartureIds, Requests <- Ids,
  wish <- wishOf, made <- madeOf, answer <- answerOf

\* The hand-over implements the outbox: a departure is answered at most once and
\* for good, only if its completion asked for it, and by a deactivation of the
\* person who departs; nothing takes the wish back.
ImplementsOutbox == Contract!Spec

HeldUp(d) ==
  Recorded(d) /\ (\/ ~active[departure[d].person]
                  \/ OpenRequests(departure[d].person, PersonOps \ {"DeactivatePerson"}) # {})

\* A hand-off is not lost: with the drain called again, it stays pending for good
\* only if the person keeps being inactive or having a request of another kind
\* open (or ids run out).
HandOffIsNotLost ==
  \A d \in DepartureIds :
    <>[](d \in Awaiting) =>
      []<>(HeldUp(d) \/ IdsExhausted)

\* submitPersonOps.ts: "One open request per person across this family (a
\* second would race the first's snapshot)."
OneOpenPersonRequest ==
  \A p \in People : Cardinality(OpenRequests(p, PersonOps)) <= 1

\* app.ts: "the hand-off is never lost and never duplicated".  No drain submits
\* a deactivation for a departure that has been handed off already.
HandedOffOnce ==
  [][\A w \in Workers :
       At(w, "insert") /\ task[w].departure # None /\ approval' # approval
         /\ task'[w] # task[w]
       => departure[task[w].departure].request = None]_vars
=============================================================================
