--------------------------- MODULE DeparturesProofs ---------------------------
(***************************************************************************)
(* Theorems about departures and the person requests they hand over to,    *)
(* for any set of people and workers and any bound on requests, departures *)
(* and losses.                                                             *)
(***************************************************************************)
EXTENDS Departures, FiniteSetTheorems, TLAPS

-----------------------------------------------------------------------------
(* The invariant.                                                           *)

Busy(w) == task[w] # Idle

\* A departure that is waiting for its deactivation, or has it.
HandedOver(d) ==
  d \in DepartureIds /\ Recorded(d) /\ departure[d].status = "Completed" /\ departure[d].wanted

\* A drain walks departures that want a deactivation, and what it is about to
\* link is a deactivation of the person who departs.
TaskSound(w) ==
  Busy(w) =>
    /\ \A d \in task[w].todo : HandedOver(d)
    /\ task[w].pc = "next" \/ task[w].departure # None => task[w].op = "DeactivatePerson"
    /\ task[w].pc = "next" => task[w].departure = None
    /\ task[w].pc # "next" => task[w].person \in People
    /\ task[w].pc \in {"find", "refind", "link"} => task[w].departure # None
    /\ task[w].departure # None =>
         /\ HandedOver(task[w].departure)
         /\ departure[task[w].departure].person = task[w].person
    /\ task[w].pc = "link" =>
         /\ task[w].request \in Ids /\ Exists(task[w].request)
         /\ approval[task[w].request].op = "DeactivatePerson"
         /\ approval[task[w].request].person = task[w].person

TasksSound == \A w \in Workers : TaskSound(w)

\* Only a completed departure wants a deactivation.
WantedCompleted ==
  \A d \in DepartureIds :
    Recorded(d) /\ departure[d].wanted => departure[d].status = "Completed"

OpenAgree ==
  \A p \in People : \A a, b \in OpenDeactivations(p) : a = b

IInv ==
  /\ TypeOK
  /\ TasksSound
  /\ WantedCompleted
  /\ HandOffIsDeactivation
  /\ OpenAgree
  /\ ActiveMatchesExecutions

-----------------------------------------------------------------------------
(* What the small operators do.                                             *)

LEMMA BusyTyped ==
  ASSUME TypeOK, NEW w \in Workers, Busy(w)
  PROVE  task[w] \in Tasks
BY DEF TypeOK, Busy

LEMMA RowTyped ==
  ASSUME TypeOK, NEW a \in Ids, Exists(a)
  PROVE  approval[a] \in Rows
BY DEF TypeOK, Exists

LEMMA DepartureTyped ==
  ASSUME TypeOK, NEW d \in DepartureIds, Recorded(d)
  PROVE  departure[d] \in DepartureRows
BY DEF TypeOK, Recorded

\* A worker is given a task, the others keep theirs.
Given(w, t) ==
  /\ task' \in [Workers -> Tasks \cup {Idle}]
  /\ task'[w] = t
  /\ \A v \in Workers \ {w} : task'[v] = task[v]

LEMMA DoneEffect ==
  ASSUME TypeOK, NEW w \in Workers, Done(w)
  PROVE  Given(w, Idle)
BY DEF TypeOK, Done, Given

LEMMA GoEffect ==
  ASSUME TypeOK, NEW w \in Workers, Busy(w),
         NEW pc \in {"find", "active", "open", "insert", "refind"}, Go(w, pc)
  PROVE  Given(w, [pc |-> pc, op |-> task[w].op, person |-> task[w].person,
                   todo |-> task[w].todo, departure |-> task[w].departure,
                   request |-> task[w].request])
<1> DEFINE new == [pc |-> pc, op |-> task[w].op, person |-> task[w].person,
                   todo |-> task[w].todo, departure |-> task[w].departure,
                   request |-> task[w].request]
<1>1. task[w] \in Tasks  BY BusyTyped
<1>2. [task[w] EXCEPT !.pc = pc] = new /\ new \in Tasks  BY <1>1 DEF Tasks
<1>3. task' = [task EXCEPT ![w] = new]  BY <1>2 DEF Go
<1> HIDE DEF new
<1>4. Given(w, new)  BY <1>2, <1>3 DEF TypeOK, Given
<1> QED  BY <1>4 DEF new

\* A search that finds, or an insert: the task goes on to link request a.
LEMMA LinkNext ==
  ASSUME TypeOK, NEW w \in Workers, Busy(w), NEW a \in Ids,
         task' = [task EXCEPT ![w].pc = "link", ![w].request = a]
  PROVE  Given(w, [pc |-> "link", op |-> task[w].op, person |-> task[w].person,
                   todo |-> task[w].todo, departure |-> task[w].departure,
                   request |-> a])
<1> DEFINE mid == [pc |-> "link", op |-> task[w].op, person |-> task[w].person,
                   todo |-> task[w].todo, departure |-> task[w].departure,
                   request |-> task[w].request]
           new == [pc |-> "link", op |-> task[w].op, person |-> task[w].person,
                   todo |-> task[w].todo, departure |-> task[w].departure,
                   request |-> a]
<1>1. task[w] \in Tasks  BY BusyTyped
<1>2. [task[w] EXCEPT !.pc = "link"] = mid  BY <1>1 DEF Tasks
<1>3. [mid EXCEPT !.request = a] = new  OBVIOUS
<1>4. new \in Tasks  BY <1>1 DEF Tasks
<1> HIDE DEF mid, new
<1>5. task' = [task EXCEPT ![w] = new]  BY <1>2, <1>3 DEF TypeOK
<1>6. Given(w, new)  BY <1>4, <1>5 DEF TypeOK, Given
<1> QED  BY <1>6 DEF new

\* The task takes up departure d, of person p.
Taking(w, d, p) ==
  task' = [task EXCEPT ![w].pc = "find", ![w].todo = @ \ {d},
                       ![w].departure = d, ![w].person = p]

LEMMA TakeUpEffect ==
  ASSUME TypeOK, NEW w \in Workers, Busy(w), NEW d \in DepartureIds, NEW p \in People,
         Taking(w, d, p)
  PROVE  Given(w, [pc |-> "find", op |-> task[w].op, person |-> p,
                   todo |-> task[w].todo \ {d}, departure |-> d,
                   request |-> task[w].request])
<1> DEFINE t1 == [pc |-> "find", op |-> task[w].op, person |-> task[w].person,
                   todo |-> task[w].todo, departure |-> task[w].departure,
                   request |-> task[w].request]
           t2 == [pc |-> "find", op |-> task[w].op, person |-> task[w].person,
                   todo |-> task[w].todo \ {d}, departure |-> task[w].departure,
                   request |-> task[w].request]
           t3 == [pc |-> "find", op |-> task[w].op, person |-> task[w].person,
                   todo |-> task[w].todo \ {d}, departure |-> d,
                   request |-> task[w].request]
           new == [pc |-> "find", op |-> task[w].op, person |-> p,
                   todo |-> task[w].todo \ {d}, departure |-> d,
                   request |-> task[w].request]
<1>1. task[w] \in Tasks  BY BusyTyped
<1>2. [task[w] EXCEPT !.pc = "find"] = t1  BY <1>1 DEF Tasks
<1>3. [t1 EXCEPT !.todo = task[w].todo \ {d}] = t2  OBVIOUS
<1>4. [t2 EXCEPT !.departure = d] = t3  OBVIOUS
<1>5. [t3 EXCEPT !.person = p] = new  OBVIOUS
<1>6. new \in Tasks  BY <1>1 DEF Tasks
<1> HIDE DEF t1, t2, t3, new
<1>7. task' = [task EXCEPT ![w] = new]  BY <1>2, <1>3, <1>4, <1>5 DEF TypeOK, Taking
<1>8. Given(w, new)  BY <1>6, <1>7 DEF TypeOK, Given
<1> QED  BY <1>8 DEF new

LEMMA MoveOnEffect ==
  ASSUME TypeOK, NEW w \in Workers, Busy(w), MoveOn(w)
  PROVE  \/ Given(w, Idle)
         \/ Given(w, [pc |-> "next", op |-> task[w].op, person |-> Nobody,
                      todo |-> task[w].todo, departure |-> None, request |-> None])
<1>1. CASE task[w].todo = {}  BY <1>1, DoneEffect DEF MoveOn
<1>2. CASE task[w].todo # {}
  <2> DEFINE t1 == [pc |-> "next", op |-> task[w].op, person |-> task[w].person,
                     todo |-> task[w].todo, departure |-> task[w].departure,
                     request |-> task[w].request]
             t2 == [pc |-> "next", op |-> task[w].op, person |-> Nobody,
                     todo |-> task[w].todo, departure |-> task[w].departure,
                     request |-> task[w].request]
             t3 == [pc |-> "next", op |-> task[w].op, person |-> Nobody,
                     todo |-> task[w].todo, departure |-> None,
                     request |-> task[w].request]
             new == [pc |-> "next", op |-> task[w].op, person |-> Nobody,
                     todo |-> task[w].todo, departure |-> None, request |-> None]
  <2>1. task[w] \in Tasks  BY BusyTyped
  <2>2. [task[w] EXCEPT !.pc = "next"] = t1  BY <2>1 DEF Tasks
  <2>3. [t1 EXCEPT !.person = Nobody] = t2  OBVIOUS
  <2>4. [t2 EXCEPT !.departure = None] = t3  OBVIOUS
  <2>5. [t3 EXCEPT !.request = None] = new  OBVIOUS
  <2>6. new \in Tasks  BY <2>1 DEF Tasks
  <2> HIDE DEF t1, t2, t3, new
  <2>7. task' = [task EXCEPT ![w] = new]
    BY <1>2, <2>2, <2>3, <2>4, <2>5 DEF MoveOn, TypeOK
  <2>8. Given(w, new)  BY <2>6, <2>7 DEF TypeOK, Given
  <2> QED  BY <2>8 DEF new
<1> QED  BY <1>1, <1>2

\* A decision or an execution: an open request gets another status.
StatusChange(a, to) ==
  /\ approval' \in [Ids -> Rows \cup {NoRow}]
  /\ approval[a] \in Rows /\ approval'[a] \in Rows
  /\ Exists(a) /\ Exists(a)'
  /\ approval[a].status \in OpenStatuses /\ approval'[a].status = to
  /\ approval'[a].op = approval[a].op
  /\ approval'[a].person = approval[a].person
  /\ \A c \in Ids \ {a} : approval'[c] = approval[c]

LEMMA StatusEffect ==
  ASSUME TypeOK, NEW a \in Ids, Exists(a), NEW to \in ApprovalStatuses,
         approval[a].status \in OpenStatuses, SetStatus(a, to)
  PROVE  StatusChange(a, to)
<1> DEFINE new == [status |-> to, op |-> approval[a].op, person |-> approval[a].person]
<1>1. approval[a] \in Rows  BY RowTyped
<1>2. [approval[a] EXCEPT !.status = to] = new  BY <1>1 DEF Rows
<1>3. new \in Rows /\ new # NoRow  BY <1>1 DEF Rows, NoRow
<1>4. approval' = [approval EXCEPT ![a] = new]  BY <1>2 DEF SetStatus
<1> QED  BY <1>1, <1>3, <1>4 DEF TypeOK, Exists, StatusChange

\* An action that may be applied is applied to an open request.
LEMMA CanApplyOpen ==
  ASSUME NEW action, NEW status, CanApply(action, status)
  PROVE  status \in OpenStatuses
BY DEF CanApply, OpenStatuses

LEMMA TargetTyped ==
  ASSUME NEW action \in ReviewActions
  PROVE  TargetStatus(action) \in ApprovalStatuses \ {"Executed"}
BY DEF ReviewActions, TargetStatus, ApprovalStatuses

-----------------------------------------------------------------------------
(* The parts of the invariant under each kind of change.                    *)

\* No request is lost, and none changes its operation or its person.
RowsKept ==
  \A c \in Ids : Exists(c) =>
    /\ Exists(c)'
    /\ approval'[c].op = approval[c].op /\ approval'[c].person = approval[c].person

\* A departure that was handed over still is.
HandedKept ==
  \A d \in DepartureIds : HandedOver(d) =>
    HandedOver(d)' /\ departure'[d].person = departure[d].person

LEMMA TasksAfter ==
  ASSUME TypeOK, TasksSound, RowsKept, HandedKept, NEW w \in Workers,
         \A v \in Workers \ {w} : task'[v] = task[v],
         task'[w] # task[w] => TaskSound(w)'
  PROVE  TasksSound'
<1> SUFFICES ASSUME NEW v \in Workers, task'[v] = task[v], Busy(v)
             PROVE  TaskSound(v)'
  BY DEF TasksSound, TaskSound, Busy
<1>1. TaskSound(v)  BY DEF TasksSound
<1>2. task[v] \in Tasks  BY BusyTyped
<1>3. task[v].departure \in DepartureIds \cup {None} /\ task[v].todo \subseteq DepartureIds
  BY <1>2 DEF Tasks
<1>4. \A d \in task[v].todo : HandedOver(d)'  BY <1>1, <1>3 DEF TaskSound, HandedKept
<1>5. task[v].departure # None =>
        /\ HandedOver(task[v].departure)'
        /\ departure'[task[v].departure].person = task[v].person
  BY <1>1, <1>3 DEF TaskSound, HandedKept
<1>6. task[v].pc = "link" =>
        /\ task[v].request \in Ids /\ Exists(task[v].request)'
        /\ approval'[task[v].request].op = "DeactivatePerson"
        /\ approval'[task[v].request].person = task[v].person
  BY <1>1 DEF TaskSound, RowsKept
<1> QED  BY <1>1, <1>4, <1>5, <1>6 DEF TaskSound, Busy

LEMMA HandOffAfterRows ==
  ASSUME TypeOK, HandOffIsDeactivation, RowsKept, UNCHANGED departure
  PROVE  HandOffIsDeactivation'
<1> SUFFICES ASSUME NEW d \in DepartureIds, Recorded(d), departure[d].request # None
             PROVE  /\ departure[d].status = "Completed" /\ departure[d].wanted
                    /\ Exists(departure[d].request)'
                    /\ approval'[departure[d].request].op = "DeactivatePerson"
                    /\ approval'[departure[d].request].person = departure[d].person
  BY DEF HandOffIsDeactivation, Recorded, Exists
<1>1. departure[d].request \in Ids  BY DepartureTyped DEF DepartureRows
<1> QED  BY <1>1 DEF HandOffIsDeactivation, RowsKept

\* The open deactivations and the executions, when no row joins them.
LEMMA OpenAfter ==
  ASSUME OpenAgree, \A p \in People : OpenDeactivations(p)' \subseteq OpenDeactivations(p)
  PROVE  OpenAgree'
BY DEF OpenAgree

LEMMA SameExecutions ==
  ASSUME ActiveMatchesExecutions, UNCHANGED active,
         \A p \in People, op \in PersonOps : Executions(p, op)' = Executions(p, op)
  PROVE  ActiveMatchesExecutions'
BY DEF ActiveMatchesExecutions, PersonOps

\* Only tasks move.
LEMMA MoveStep ==
  ASSUME IInv, UNCHANGED <<active, approval, departure>>, losses' \in 0..MaxLosses,
         NEW w \in Workers, NEW t, Given(w, t), TaskSound(w)'
  PROVE  IInv'
<1> USE DEF IInv
<1>1. TypeOK'  BY DEF TypeOK, Given
<1>2. RowsKept /\ HandedKept  BY DEF RowsKept, HandedKept, HandedOver, Exists, Recorded
<1>3. TasksSound'  BY <1>2, TasksAfter DEF Given
<1>4. WantedCompleted'  BY DEF WantedCompleted, Recorded
<1>5. HandOffIsDeactivation'  BY <1>2, HandOffAfterRows
<1>6. OpenAgree'
  BY OpenAfter DEF OpenDeactivations, OpenRequests, Exists
<1>7. ActiveMatchesExecutions'  BY SameExecutions DEF Executions, Exists
<1> QED  BY <1>1, <1>3, <1>4, <1>5, <1>6, <1>7

\* Only the status of one request changes, and not to Executed.
LEMMA StatusStep ==
  ASSUME IInv, NEW a \in Ids, NEW to \in ApprovalStatuses \ {"Executed"},
         StatusChange(a, to), UNCHANGED <<active, departure, task, losses>>
  PROVE  IInv'
<1> USE DEF IInv
<1>1. TypeOK'  BY DEF TypeOK, StatusChange
<1>2. RowsKept  BY DEF RowsKept, StatusChange, Exists
<1>3. HandedKept  BY DEF HandedKept, HandedOver, Recorded
<1>4. TasksSound'
  <2>1. CASE Workers = {}  BY <2>1 DEF TasksSound
  <2>2. CASE Workers # {}
    <3>1. PICK w \in Workers : TRUE  BY <2>2
    <3> QED  BY <1>2, <1>3, <3>1, TasksAfter
  <2> QED  BY <2>1, <2>2
<1>5. WantedCompleted'  BY DEF WantedCompleted, Recorded
<1>6. HandOffIsDeactivation'  BY <1>2, HandOffAfterRows
<1>7. OpenAgree'
  <2>1. \A p \in People : OpenDeactivations(p)' \subseteq OpenDeactivations(p)
    BY DEF OpenDeactivations, OpenRequests, StatusChange, Exists
  <2> QED  BY <2>1, OpenAfter
<1>8. ActiveMatchesExecutions'
  <2>1. \A p \in People, op \in PersonOps : Executions(p, op)' = Executions(p, op)
    BY DEF Executions, StatusChange, Exists, OpenStatuses
  <2> QED  BY <2>1, SameExecutions
<1> QED  BY <1>1, <1>4, <1>5, <1>6, <1>7, <1>8

-----------------------------------------------------------------------------
(* Every step keeps the invariant.                                          *)

LEMMA DecideStep ==
  ASSUME IInv, NEW a \in Ids, Decide(a)
  PROVE  IInv'
<1>1. PICK to \in ApprovalStatuses \ {"Executed"} :
        approval[a].status \in OpenStatuses /\ SetStatus(a, to)
  <2>1. CASE \E action \in ReviewActions :
               CanApply(action, approval[a].status) /\ SetStatus(a, TargetStatus(action))
    BY <2>1, CanApplyOpen, TargetTyped
  <2>2. CASE CanApply("withdraw", approval[a].status) /\ SetStatus(a, "Withdrawn")
    BY <2>2, CanApplyOpen DEF ApprovalStatuses
  <2> QED  BY <2>1, <2>2 DEF Decide
<1>2. StatusChange(a, to)  BY <1>1, StatusEffect DEF Decide, IInv
<1> QED  BY <1>2, StatusStep DEF Decide

LEMMA ExecuteFailsStep ==
  ASSUME IInv, NEW a \in Ids, ExecuteFails(a)
  PROVE  IInv'
<1>1. approval[a].status \in OpenStatuses  BY CanApplyOpen DEF ExecuteFails
<1>2. "ExecutionFailed" \in ApprovalStatuses \ {"Executed"}  BY DEF ApprovalStatuses
<1>3. StatusChange(a, "ExecutionFailed")
  BY <1>1, <1>2, StatusEffect DEF ExecuteFails, IInv
<1> QED  BY <1>2, <1>3, StatusStep DEF ExecuteFails

LEMMA ExecutionsFinite ==
  ASSUME NEW p, NEW op
  PROVE  IsFiniteSet(Executions(p, op))
<1>1. IsFiniteSet(Ids)  BY BoundsAssumption, FS_Interval DEF Ids
<1>2. Executions(p, op) \subseteq Ids  BY DEF Executions
<1> QED  BY <1>1, <1>2, FS_Subset

\* An execution is one more of its kind for its person, and of no other.
LEMMA ExecutionCounts ==
  ASSUME TypeOK, NEW a \in Ids, StatusChange(a, "Executed"), NEW p, NEW op
  PROVE  LET counted == approval[a].person = p /\ approval[a].op = op IN
         /\ Cardinality(Executions(p, op)) \in Nat
         /\ Cardinality(Executions(p, op)')
              = Cardinality(Executions(p, op)) + (IF counted THEN 1 ELSE 0)
<1> DEFINE counted == approval[a].person = p /\ approval[a].op = op
<1>1. a \notin Executions(p, op)  BY DEF Executions, StatusChange, OpenStatuses
<1>2. IsFiniteSet(Executions(p, op)) /\ Cardinality(Executions(p, op)) \in Nat
  BY ExecutionsFinite, FS_CardinalityType
<1>3. CASE counted
  <2>1. Executions(p, op)' = Executions(p, op) \cup {a}
    BY <1>3 DEF Executions, StatusChange, Exists
  <2> QED  BY <1>1, <1>2, <1>3, <2>1, FS_AddElement
<1>4. CASE ~counted
  <2>1. Executions(p, op)' = Executions(p, op)
    BY <1>4 DEF Executions, StatusChange, Exists, OpenStatuses
  <2> QED  BY <1>2, <1>4, <2>1
<1> QED  BY <1>3, <1>4

LEMMA ExecuteStep ==
  ASSUME IInv, NEW a \in Ids, Execute(a)
  PROVE  IInv'
<1> USE DEF IInv
<1> DEFINE p == approval[a].person
           op == approval[a].op
<1>1. approval[a].status \in OpenStatuses  BY CanApplyOpen DEF Execute
<1>2. StatusChange(a, "Executed")  BY <1>1, StatusEffect DEF Execute, ApprovalStatuses
<1>3. UNCHANGED <<departure, task, losses>>  BY DEF Execute
<1>4. p \in People /\ op \in PersonOps  BY <1>2 DEF StatusChange, Rows
<1>5. /\ active' \in [People -> BOOLEAN]
      /\ op = "DeactivatePerson" => active[p] /\ ~active'[p]
      /\ op = "ReactivatePerson" => ~active[p] /\ active'[p]
      /\ op = "UpdatePersonIdentity" => active'[p] = active[p]
      /\ \A q \in People \ {p} : active'[q] = active[q]
  <2>1. ~Moot(op, p)  BY DEF Execute
  <2>2. active' = [active EXCEPT ![p] =
          CASE op = "DeactivatePerson" -> FALSE
            [] op = "ReactivatePerson" -> TRUE
            [] OTHER -> @]
    BY DEF Execute
  <2>3. active \in [People -> BOOLEAN]  BY DEF TypeOK
  <2> HIDE DEF p, op
  <2>4. CASE op = "DeactivatePerson"
    <3>1. active' = [active EXCEPT ![p] = FALSE]  BY <2>2, <2>4
    <3> QED  BY <1>4, <2>1, <2>3, <2>4, <3>1 DEF Moot
  <2>5. CASE op = "ReactivatePerson"
    <3>1. active' = [active EXCEPT ![p] = TRUE]  BY <2>2, <2>5
    <3> QED  BY <1>4, <2>1, <2>3, <2>5, <3>1 DEF Moot
  <2>6. CASE op = "UpdatePersonIdentity"
    <3>1. active' = active  BY <1>4, <2>2, <2>3, <2>6
    <3> QED  BY <1>4, <2>3, <2>6, <3>1
  <2> QED  BY <1>4, <2>4, <2>5, <2>6 DEF PersonOps
<1>6. TypeOK'  BY <1>2, <1>3, <1>5 DEF TypeOK, StatusChange
<1>7. RowsKept  BY <1>2 DEF RowsKept, StatusChange, Exists
<1>8. HandedKept  BY <1>3 DEF HandedKept, HandedOver, Recorded
<1>9. TasksSound'
  <2>1. CASE Workers = {}  BY <2>1 DEF TasksSound
  <2>2. CASE Workers # {}
    <3>1. PICK w \in Workers : TRUE  BY <2>2
    <3> QED  BY <1>3, <1>7, <1>8, <3>1, TasksAfter
  <2> QED  BY <2>1, <2>2
<1>10. WantedCompleted'  BY <1>3 DEF WantedCompleted, Recorded
<1>11. HandOffIsDeactivation'  BY <1>3, <1>7, HandOffAfterRows
<1>12. OpenAgree'
  <2>1. \A q \in People : OpenDeactivations(q)' \subseteq OpenDeactivations(q)
    BY <1>2 DEF OpenDeactivations, OpenRequests, StatusChange, Exists
  <2> QED  BY <2>1, OpenAfter
<1>13. ActiveMatchesExecutions'
  <2> SUFFICES ASSUME NEW q \in People
               PROVE  Cardinality(Executions(q, "DeactivatePerson")')
                      = Cardinality(Executions(q, "ReactivatePerson")')
                          + (IF active'[q] THEN 0 ELSE 1)
    BY DEF ActiveMatchesExecutions
  <2>1. Cardinality(Executions(q, "DeactivatePerson"))
          = Cardinality(Executions(q, "ReactivatePerson")) + (IF active[q] THEN 0 ELSE 1)
    BY DEF ActiveMatchesExecutions
  <2> DEFINE offs == Cardinality(Executions(q, "DeactivatePerson"))
             ons  == Cardinality(Executions(q, "ReactivatePerson"))
  <2>2. /\ offs \in Nat
        /\ Cardinality(Executions(q, "DeactivatePerson")')
             = offs + (IF p = q /\ op = "DeactivatePerson" THEN 1 ELSE 0)
    BY <1>2, ExecutionCounts
  <2>3. /\ ons \in Nat
        /\ Cardinality(Executions(q, "ReactivatePerson")')
             = ons + (IF p = q /\ op = "ReactivatePerson" THEN 1 ELSE 0)
    BY <1>2, ExecutionCounts
  <2>4. active[q] \in BOOLEAN /\ active'[q] \in BOOLEAN  BY <1>5 DEF TypeOK
  <2> HIDE DEF offs, ons, p, op
  <2>5. CASE p # q  BY <1>5, <2>1, <2>2, <2>3, <2>5 DEF offs, ons
  <2>6. CASE p = q /\ op = "DeactivatePerson"
    BY <1>5, <2>1, <2>2, <2>3, <2>4, <2>6 DEF offs, ons
  <2>7. CASE p = q /\ op = "ReactivatePerson"
    BY <1>5, <2>1, <2>2, <2>3, <2>4, <2>7 DEF offs, ons
  <2>8. CASE p = q /\ op = "UpdatePersonIdentity"
    BY <1>5, <2>1, <2>2, <2>3, <2>4, <2>8 DEF offs, ons
  <2> QED  BY <1>4, <2>5, <2>6, <2>7, <2>8 DEF PersonOps
<1> QED  BY <1>6, <1>9, <1>10, <1>11, <1>12, <1>13

LEMMA InsertStep ==
  ASSUME IInv, NEW w \in Workers, Insert(w)
  PROVE  IInv'
<1> USE DEF IInv
<1>1. Busy(w) /\ task[w] \in Tasks /\ task[w].pc = "insert" /\ TaskSound(w)
  BY BusyTyped DEF Insert, At, Busy, TasksSound
<1>2. PICK op \in PersonOps : op = task[w].op  BY <1>1 DEF Tasks
<1>3. PICK p \in People : p = task[w].person  BY <1>1 DEF TaskSound
<1>4. PICK a \in Ids :
        /\ ~Exists(a)
        /\ approval' = [approval EXCEPT ![a] =
             [status |-> "Submitted", op |-> op, person |-> p]]
        /\ IF task[w].departure = None
             THEN Done(w)
             ELSE task' = [task EXCEPT ![w].pc = "link", ![w].request = a]
  BY <1>2, <1>3 DEF Insert
<1>5. UNCHANGED <<active, departure, losses>> /\ ~Conflict(op, p)
  BY <1>2, <1>3 DEF Insert
<1>6. /\ approval' \in [Ids -> Rows \cup {NoRow}]
      /\ Exists(a)'
      /\ approval'[a].status = "Submitted"
      /\ approval'[a].op = op /\ approval'[a].person = p
      /\ \A c \in Ids \ {a} : approval'[c] = approval[c]
  <2> DEFINE new == [status |-> "Submitted", op |-> op, person |-> p]
  <2>1. new \in Rows /\ new # NoRow  BY DEF Rows, NoRow, ApprovalStatuses
  <2>2. approval' = [approval EXCEPT ![a] = new]  BY <1>4
  <2> QED  BY <2>1, <2>2 DEF TypeOK, Exists
<1>7. RowsKept  BY <1>4, <1>6 DEF RowsKept, Exists
<1>8. HandedKept  BY <1>5 DEF HandedKept, HandedOver, Recorded
<1>9. PICK t : Given(w, t) /\ (t # Idle =>
        t = [pc |-> "link", op |-> task[w].op, person |-> task[w].person,
             todo |-> task[w].todo, departure |-> task[w].departure, request |-> a]
        /\ task[w].departure # None)
  BY <1>1, <1>4, DoneEffect, LinkNext
<1>10. TaskSound(w)'
  <2>1. CASE t = Idle  BY <1>9, <2>1 DEF TaskSound, Busy, Given
  <2>2. CASE t # Idle
    <3>1. /\ task'[w].pc = "link" /\ task'[w].op = op /\ task'[w].person = p
          /\ task'[w].todo = task[w].todo /\ task'[w].departure = task[w].departure
          /\ task'[w].request = a /\ task[w].departure # None
      BY <1>2, <1>3, <1>9, <2>2 DEF Given
    <3>2. /\ \A d \in task[w].todo : HandedOver(d)'
          /\ HandedOver(task[w].departure)'
          /\ departure'[task[w].departure].person = p
          /\ op = "DeactivatePerson"
      BY <1>1, <1>2, <1>3, <1>8, <3>1 DEF TaskSound, HandedKept, HandedOver
    <3> QED  BY <1>6, <3>1, <3>2 DEF TaskSound
  <2> QED  BY <2>1, <2>2
<1>11. TypeOK'  BY <1>5, <1>6, <1>9 DEF TypeOK, Given
<1>12. TasksSound'  BY <1>7, <1>8, <1>9, <1>10, TasksAfter DEF Given
<1>13. WantedCompleted'  BY <1>5 DEF WantedCompleted, Recorded
<1>14. HandOffIsDeactivation'  BY <1>5, <1>7, HandOffAfterRows
<1>15. OpenAgree'
  <2>1. \A q \in People : OpenDeactivations(q)' \subseteq
          IF q = p /\ op = "DeactivatePerson" THEN OpenDeactivations(q) \cup {a}
          ELSE OpenDeactivations(q)
    BY <1>6 DEF OpenDeactivations, OpenRequests, Exists
  <2>2. op = "DeactivatePerson" => OpenDeactivations(p) = {}  BY <1>5 DEF Conflict
  <2> QED  BY <2>1, <2>2 DEF OpenAgree
<1>16. ActiveMatchesExecutions'
  <2>1. \A q \in People, o \in PersonOps : Executions(q, o)' = Executions(q, o)
    BY <1>4, <1>6 DEF Executions, Exists
  <2> QED  BY <1>5, <2>1, SameExecutions
<1> QED  BY <1>11, <1>12, <1>13, <1>14, <1>15, <1>16

\* A step within a submit.
LEMMA GoStep ==
  ASSUME IInv, NEW w \in Workers, Busy(w), task[w].pc # "next",
         UNCHANGED <<active, approval, departure>>, losses' \in 0..MaxLosses,
         NEW pc \in {"active", "open", "insert", "refind"}, Go(w, pc),
         pc = "refind" => task[w].departure # None
  PROVE  IInv'
<1>1. TypeOK /\ TaskSound(w)  BY DEF IInv, TasksSound
<1>2. PICK t : /\ t = [pc |-> pc, op |-> task[w].op, person |-> task[w].person,
                       todo |-> task[w].todo, departure |-> task[w].departure,
                       request |-> task[w].request]
               /\ Given(w, t)
  BY <1>1, GoEffect
<1>3. TaskSound(w)'
  <2>1. /\ task'[w].pc = pc /\ task'[w].op = task[w].op /\ task'[w].person = task[w].person
        /\ task'[w].todo = task[w].todo /\ task'[w].departure = task[w].departure
    BY <1>2 DEF Given
  <2> QED  BY <1>1, <2>1 DEF TaskSound, Busy, HandedOver, Recorded
<1> QED  BY <1>2, <1>3, MoveStep

LEMMA DoneStep ==
  ASSUME IInv, NEW w \in Workers,
         UNCHANGED <<active, approval, departure>>, losses' \in 0..MaxLosses, Done(w)
  PROVE  IInv'
<1>1. Given(w, Idle)  BY DoneEffect DEF IInv
<1>2. TaskSound(w)'  BY <1>1 DEF TaskSound, Busy, Given
<1> QED  BY <1>1, <1>2, MoveStep

\* A submit that is refused.
LEMMA RefusedStep ==
  ASSUME IInv, NEW w \in Workers, Busy(w), task[w].pc # "next",
         UNCHANGED <<active, approval, departure>>, losses' \in 0..MaxLosses, Refused(w)
  PROVE  IInv'
BY GoStep, DoneStep DEF Refused

\* A drain is done with a departure, linked or not.
LEMMA MovedOn ==
  ASSUME IInv, NEW w \in Workers, Busy(w), task[w].departure # None,
         HandedKept, MoveOn(w)
  PROVE  TaskSound(w)' /\ \E t : Given(w, t)
<1>1. TypeOK /\ TaskSound(w)  BY DEF IInv, TasksSound
<1>2. CASE Given(w, Idle)  BY <1>2 DEF TaskSound, Busy, Given
<1>3. CASE Given(w, [pc |-> "next", op |-> task[w].op, person |-> Nobody,
                     todo |-> task[w].todo, departure |-> None, request |-> None])
  <2>1. /\ task'[w].pc = "next" /\ task'[w].op = task[w].op
        /\ task'[w].todo = task[w].todo /\ task'[w].departure = None
    BY <1>3 DEF Given
  <2>2. \A d \in task[w].todo : HandedOver(d)'
    BY <1>1 DEF TaskSound, HandedKept, HandedOver
  <2>3. TaskSound(w)'  BY <1>1, <2>1, <2>2 DEF TaskSound
  <2> QED  BY <1>3, <2>3
<1> QED  BY <1>1, <1>2, <1>3, MoveOnEffect

LEMMA MoveOnStep ==
  ASSUME IInv, NEW w \in Workers, Busy(w), task[w].departure # None,
         UNCHANGED <<active, approval, departure>>, losses' \in 0..MaxLosses, MoveOn(w)
  PROVE  IInv'
<1>1. HandedKept  BY DEF HandedKept, HandedOver, Recorded
<1> QED  BY <1>1, MovedOn, MoveStep

LEMMA AskStep ==
  ASSUME IInv, NEW w \in Workers, NEW op \in PersonOps, NEW p \in People, Ask(w, op, p)
  PROVE  IInv'
<1> DEFINE new == [pc |-> "active", op |-> op, person |-> p, todo |-> {},
                   departure |-> None, request |-> None]
<1>1. new \in Tasks  BY DEF Tasks
<1>2. task' = [task EXCEPT ![w] = new]  BY DEF Ask
<1>3. Given(w, new)
  <2> HIDE DEF new
  <2> QED  BY <1>1, <1>2 DEF Given, IInv, TypeOK
<1>4. TaskSound(w)'  BY <1>3 DEF TaskSound, Given
<1>5. losses' \in 0..MaxLosses  BY DEF Ask, IInv, TypeOK
<1> QED  BY <1>3, <1>4, <1>5, MoveStep DEF Ask

LEMMA ListStep ==
  ASSUME IInv, NEW w \in Workers, List(w)
  PROVE  IInv'
<1> DEFINE new == [pc |-> "next", op |-> "DeactivatePerson", person |-> Nobody,
                   todo |-> Awaiting, departure |-> None, request |-> None]
<1>1. new \in Tasks  BY DEF Tasks, PersonOps, Awaiting
<1>2. task' = [task EXCEPT ![w] = new]  BY DEF List
<1>3. Given(w, new)
  <2> HIDE DEF new
  <2> QED  BY <1>1, <1>2 DEF Given, IInv, TypeOK
<1>4. \A d \in Awaiting : HandedOver(d)'
  BY DEF Awaiting, HandedOver, Recorded, IInv, WantedCompleted, List
<1>5. TaskSound(w)'  BY <1>3, <1>4 DEF TaskSound, Given
<1>6. losses' \in 0..MaxLosses  BY DEF List, IInv, TypeOK
<1> QED  BY <1>3, <1>5, <1>6, MoveStep DEF List

LEMMA TakeUpStep ==
  ASSUME IInv, NEW w \in Workers, TakeUp(w)
  PROVE  IInv'
<1>1. Busy(w) /\ task[w] \in Tasks /\ task[w].pc = "next" /\ TaskSound(w) /\ TypeOK
  BY BusyTyped DEF TakeUp, At, Busy, TasksSound, IInv
<1>2. PICK d \in task[w].todo : Taking(w, d, departure[d].person)
  BY DEF TakeUp, Taking
<1>3. d \in DepartureIds /\ HandedOver(d)  BY <1>1, <1>2 DEF TaskSound, HandedOver
<1>4. PICK p \in People : p = departure[d].person
  BY <1>1, <1>3, DepartureTyped DEF HandedOver, DepartureRows
<1>5. PICK t : /\ t = [pc |-> "find", op |-> task[w].op, person |-> p,
                       todo |-> task[w].todo \ {d}, departure |-> d,
                       request |-> task[w].request]
               /\ Given(w, t)
  BY <1>1, <1>2, <1>3, <1>4, TakeUpEffect
<1>6. UNCHANGED <<active, approval, departure, losses>>  BY DEF TakeUp
<1>7. TaskSound(w)'
  <2>1. /\ task'[w].pc = "find" /\ task'[w].op = "DeactivatePerson" /\ task'[w].person = p
        /\ task'[w].todo = task[w].todo \ {d} /\ task'[w].departure = d
    BY <1>1, <1>5 DEF Given, TaskSound
  <2>2. \A c \in DepartureIds : HandedOver(c) => HandedOver(c)'
    BY <1>6 DEF HandedOver, Recorded
  <2>3. \A c \in task[w].todo : HandedOver(c)'  BY <1>1, <2>2 DEF TaskSound, HandedOver
  <2>4. HandedOver(d)' /\ d # None  BY <1>3, <2>2 DEF DepartureIds, None
  <2>5. departure'[d].person = p  BY <1>4, <1>6
  <2> QED  BY <1>4, <2>1, <2>3, <2>4, <2>5 DEF TaskSound
<1>8. losses' \in 0..MaxLosses  BY <1>1, <1>6 DEF TypeOK
<1> QED  BY <1>5, <1>6, <1>7, <1>8, MoveStep

LEMMA FindStep ==
  ASSUME IInv, NEW w \in Workers, Find(w)
  PROVE  IInv'
<1>1. /\ Busy(w) /\ task[w] \in Tasks /\ task[w].pc \in {"find", "refind"}
      /\ TaskSound(w) /\ TypeOK
  BY BusyTyped DEF Find, At, Busy, TasksSound, IInv
<1>2. task[w].departure # None  BY <1>1 DEF TaskSound
<1>3. UNCHANGED <<active, approval, departure, losses>> /\ losses' \in 0..MaxLosses
  BY <1>1 DEF Find, TypeOK
<1>4. ASSUME NEW a \in OpenDeactivations(task[w].person),
             task' = [task EXCEPT ![w].pc = "link", ![w].request = a]
      PROVE  IInv'
  <2>1. a \in Ids /\ Exists(a) /\ approval[a].op = "DeactivatePerson"
        /\ approval[a].person = task[w].person
    BY <1>4 DEF OpenDeactivations, OpenRequests
  <2>2. PICK t : /\ t = [pc |-> "link", op |-> task[w].op, person |-> task[w].person,
                         todo |-> task[w].todo, departure |-> task[w].departure,
                         request |-> a]
                 /\ Given(w, t)
    BY <1>1, <1>4, <2>1, LinkNext
  <2>3. TaskSound(w)'
    <3>1. /\ task'[w].pc = "link" /\ task'[w].op = task[w].op
          /\ task'[w].person = task[w].person /\ task'[w].todo = task[w].todo
          /\ task'[w].departure = task[w].departure /\ task'[w].request = a
      BY <2>2 DEF Given
    <3> QED
      BY <1>1, <1>3, <2>1, <3>1 DEF TaskSound, Busy, HandedOver, Recorded, Exists
  <2> QED  BY <1>3, <2>2, <2>3, MoveStep
<1>5. CASE Go(w, "active")  BY <1>1, <1>3, <1>5, GoStep
<1>6. CASE MoveOn(w)  BY <1>1, <1>2, <1>3, <1>6, MoveOnStep
<1> QED  BY <1>4, <1>5, <1>6 DEF Find

LEMMA SubmitSteps ==
  ASSUME IInv, NEW w \in Workers, ReadPerson(w) \/ ReadOpen(w) \/ InsertRefused(w)
  PROVE  IInv'
<1>1. Busy(w) /\ task[w].pc # "next"
  BY DEF ReadPerson, ReadOpen, InsertRefused, At, Busy
<1>2. UNCHANGED <<active, approval, departure, losses>> /\ losses' \in 0..MaxLosses
  BY DEF ReadPerson, ReadOpen, InsertRefused, IInv, TypeOK
<1>3. Refused(w) \/ Go(w, "open") \/ Go(w, "insert")
  BY DEF ReadPerson, ReadOpen, InsertRefused
<1> QED  BY <1>1, <1>2, <1>3, RefusedStep, GoStep

LEMMA LoseSteps ==
  ASSUME IInv, NEW w \in Workers, Fault(w) \/ Lose(w)
  PROVE  IInv'
<1>1. UNCHANGED <<active, approval, departure>> /\ losses' \in 0..MaxLosses
  BY BoundsAssumption DEF Fault, Lose, IInv, TypeOK
<1>2. CASE Lose(w)  BY <1>1, <1>2, DoneStep DEF Lose
<1>3. CASE Fault(w)
  <2>1. Busy(w) /\ task[w] \in Tasks /\ task[w].pc # "next" /\ TaskSound(w)
    BY <1>3, BusyTyped DEF Fault, At, Busy, IInv, TasksSound
  <2>2. CASE task[w].pc \in {"active", "open", "insert"}
    BY <1>1, <1>3, <2>1, <2>2, RefusedStep DEF Fault
  <2>3. CASE task[w].pc \in {"find", "refind", "link"}
    <3>1. task[w].departure # None  BY <2>1, <2>3 DEF TaskSound
    <3> QED  BY <1>1, <1>3, <2>1, <2>3, <3>1, MoveOnStep DEF Fault
  <2> QED  BY <2>1, <2>2, <2>3 DEF Tasks
<1> QED  BY <1>2, <1>3

\* What a step of the departures leaves alone.
LEMMA DepartureStep ==
  ASSUME IInv, UNCHANGED <<active, approval, losses>>,
         departure' \in [DepartureIds -> DepartureRows \cup {NoRow}],
         task' \in [Workers -> Tasks \cup {Idle}],
         TasksSound', WantedCompleted', HandOffIsDeactivation'
  PROVE  IInv'
<1>1. TypeOK'  BY DEF IInv, TypeOK
<1>2. OpenAgree'
  BY OpenAfter DEF IInv, OpenDeactivations, OpenRequests, Exists
<1>3. ActiveMatchesExecutions'
  BY SameExecutions DEF IInv, Executions, Exists
<1> QED  BY <1>1, <1>2, <1>3 DEF IInv

\* A departure that is in progress, or is not yet recorded, is given a row that
\* carries no request.
Rerecorded(d, new) ==
  /\ Recorded(d) => departure[d].status = "InProgress"
  /\ new \in DepartureRows
  /\ new.request = None /\ (new.wanted => new.status = "Completed")
  /\ departure' = [departure EXCEPT ![d] = new]

LEMMA RecordStep ==
  ASSUME IInv, NEW d \in DepartureIds, NEW new, Rerecorded(d, new),
         UNCHANGED <<active, approval, task, losses>>
  PROVE  IInv'
<1> USE DEF IInv
<1>1. /\ departure' \in [DepartureIds -> DepartureRows \cup {NoRow}]
      /\ departure'[d] = new /\ new \in DepartureRows
      /\ \A c \in DepartureIds \ {d} : departure'[c] = departure[c]
  BY DEF Rerecorded, TypeOK
<1>2. HandedKept  BY <1>1 DEF HandedKept, HandedOver, Recorded, Rerecorded
<1>3. RowsKept  BY DEF RowsKept, Exists
<1>4. TasksSound'
  <2>1. CASE Workers = {}  BY <2>1 DEF TasksSound
  <2>2. CASE Workers # {}
    <3>1. PICK w \in Workers : TRUE  BY <2>2
    <3> QED  BY <1>2, <1>3, <3>1, TasksAfter
  <2> QED  BY <2>1, <2>2
<1>5. WantedCompleted'  BY <1>1 DEF WantedCompleted, Rerecorded, Recorded
<1>6. HandOffIsDeactivation'
  BY <1>1 DEF HandOffIsDeactivation, Rerecorded, Recorded, Exists
<1> QED  BY <1>1, <1>4, <1>5, <1>6, DepartureStep DEF TypeOK

LEMMA InitiateStep ==
  ASSUME IInv, NEW p \in People, NEW d \in DepartureIds, Initiate(p, d)
  PROVE  IInv'
<1> DEFINE new == [status |-> "InProgress", person |-> p, wanted |-> FALSE, request |-> None]
<1>1. new \in DepartureRows  BY DEF DepartureRows
<1>2. Rerecorded(d, new)  BY <1>1 DEF Initiate, Rerecorded
<1> HIDE DEF new
<1> QED  BY <1>2, RecordStep DEF Initiate

\* A departure in progress has no request yet.
LEMMA InProgressUnlinked ==
  ASSUME IInv, NEW d \in DepartureIds, Recorded(d), departure[d].status = "InProgress"
  PROVE  /\ departure[d] \in DepartureRows /\ departure[d].request = None
         /\ departure[d].wanted = FALSE
<1>1. departure[d] \in DepartureRows  BY DepartureTyped DEF IInv
<1>2. departure[d].request = None  BY DEF IInv, HandOffIsDeactivation
<1>3. departure[d].wanted \in BOOLEAN /\ ~departure[d].wanted
  BY <1>1 DEF IInv, WantedCompleted, DepartureRows
<1> QED  BY <1>1, <1>2, <1>3

LEMMA CompleteEffect ==
  ASSUME IInv, NEW d \in DepartureIds, NEW b \in BOOLEAN, Complete(d, b)
  PROVE  departure' = [departure EXCEPT ![d] =
           [status |-> "Completed", person |-> departure[d].person,
            wanted |-> b, request |-> None]]
<1> DEFINE row == departure[d]
           mid == [status |-> "Completed", person |-> row.person,
                   wanted |-> row.wanted, request |-> row.request]
           new == [status |-> "Completed", person |-> row.person,
                   wanted |-> b, request |-> row.request]
<1>1. row \in DepartureRows /\ row.request = None  BY InProgressUnlinked DEF Complete
<1>2. departure' = [departure EXCEPT ![d] =
                      [[row EXCEPT !.status = "Completed"] EXCEPT !.wanted = b]]
  BY DEF Complete, IInv, TypeOK
<1>3. [row EXCEPT !.status = "Completed"] = mid  BY <1>1 DEF DepartureRows
<1>4. [mid EXCEPT !.wanted = b] = new  OBVIOUS
<1>5. departure' = [departure EXCEPT ![d] = new]
  <2> HIDE DEF row, mid, new
  <2> QED  BY <1>2, <1>3, <1>4
<1> QED  BY <1>1, <1>5

LEMMA CompleteStep ==
  ASSUME IInv, NEW d \in DepartureIds, NEW b \in BOOLEAN, Complete(d, b)
  PROVE  IInv'
<1> DEFINE new == [status |-> "Completed", person |-> departure[d].person,
                   wanted |-> b, request |-> None]
<1>1. departure[d] \in DepartureRows  BY InProgressUnlinked DEF Complete
<1>2. new \in DepartureRows  BY <1>1 DEF DepartureRows
<1>3. departure' = [departure EXCEPT ![d] = new]  BY CompleteEffect
<1>4. Rerecorded(d, new)  BY <1>2, <1>3 DEF Complete, Rerecorded
<1> HIDE DEF new
<1> QED  BY <1>4, RecordStep DEF Complete

LEMMA CancelEffect ==
  ASSUME IInv, NEW d \in DepartureIds, Cancel(d)
  PROVE  departure' = [departure EXCEPT ![d] =
           [status |-> "Cancelled", person |-> departure[d].person,
            wanted |-> FALSE, request |-> None]]
<1> DEFINE row == departure[d]
           new == [status |-> "Cancelled", person |-> row.person,
                   wanted |-> row.wanted, request |-> row.request]
<1>1. row \in DepartureRows /\ row.request = None /\ row.wanted = FALSE
  BY InProgressUnlinked DEF Cancel
<1>2. [row EXCEPT !.status = "Cancelled"] = new  BY <1>1 DEF DepartureRows
<1>3. departure' = [departure EXCEPT ![d] = [row EXCEPT !.status = "Cancelled"]]
  BY DEF Cancel, IInv, TypeOK
<1>4. departure' = [departure EXCEPT ![d] = new]
  <2> HIDE DEF row, new
  <2> QED  BY <1>2, <1>3
<1> QED  BY <1>1, <1>4

LEMMA CancelStep ==
  ASSUME IInv, NEW d \in DepartureIds, Cancel(d)
  PROVE  IInv'
<1> DEFINE new == [status |-> "Cancelled", person |-> departure[d].person,
                   wanted |-> FALSE, request |-> None]
<1>1. departure[d] \in DepartureRows  BY InProgressUnlinked DEF Cancel
<1>2. new \in DepartureRows  BY <1>1 DEF DepartureRows
<1>3. departure' = [departure EXCEPT ![d] = new]  BY CancelEffect
<1>4. Rerecorded(d, new)  BY <1>2, <1>3 DEF Cancel, Rerecorded
<1> HIDE DEF new
<1> QED  BY <1>4, RecordStep DEF Cancel

\* What a task is about to link is a deactivation of the person who departs.
LEMMA LinkSound ==
  ASSUME IInv, NEW w \in Workers, Link(w)
  PROVE  LET d == task[w].departure
             a == task[w].request
         IN  /\ Busy(w) /\ TaskSound(w) /\ task[w].pc = "link"
             /\ d \in DepartureIds /\ HandedOver(d)
             /\ a \in Ids /\ Exists(a) /\ approval[a].op = "DeactivatePerson"
             /\ approval[a].person = departure[d].person
<1>1. /\ Busy(w) /\ task[w].pc = "link" /\ TaskSound(w)
  BY DEF Link, At, Busy, TasksSound, IInv
<1> QED  BY <1>1 DEF TaskSound, HandedOver

\* The link is made, or was made before.
LEMMA LinkEffect ==
  ASSUME IInv, NEW w \in Workers, Link(w), NEW d, d = task[w].departure
  PROVE  \/ departure' = departure
         \/ /\ departure[d].request = None
            /\ departure' = [departure EXCEPT ![d] =
                 [status |-> departure[d].status, person |-> departure[d].person,
                  wanted |-> departure[d].wanted, request |-> task[w].request]]
<1> DEFINE row == departure[d]
           a   == task[w].request
           new == [status |-> row.status, person |-> row.person,
                   wanted |-> row.wanted, request |-> a]
<1>1. d \in DepartureIds /\ row \in DepartureRows
  BY LinkSound, DepartureTyped DEF HandedOver, IInv
<1>2. CASE row.request # None  BY <1>2 DEF Link, SetRequest
<1>3. CASE row.request = None
  <2>1. departure' = [departure EXCEPT ![d] = [row EXCEPT !.request = a]]
    BY <1>1, <1>3 DEF Link, SetRequest, IInv, TypeOK
  <2>2. [row EXCEPT !.request = a] = new  BY <1>1 DEF DepartureRows
  <2>3. departure' = [departure EXCEPT ![d] = new]
    <3> HIDE DEF row, new, a
    <3> QED  BY <2>1, <2>2
  <2> QED  BY <1>3, <2>3
<1> QED  BY <1>2, <1>3

LEMMA LinkStep ==
  ASSUME IInv, NEW w \in Workers, Link(w)
  PROVE  IInv'
<1> USE DEF IInv
<1>1. /\ Busy(w) /\ task[w].pc = "link" /\ TaskSound(w)
  BY LinkSound
<1>2. PICK d \in DepartureIds : d = task[w].departure  BY LinkSound
<1>3. PICK a \in Ids : a = task[w].request  BY LinkSound
<1>4. /\ HandedOver(d) /\ departure[d].person = task[w].person
      /\ Exists(a) /\ approval[a].op = "DeactivatePerson"
      /\ approval[a].person = departure[d].person
  BY <1>1, <1>2, <1>3, LinkSound DEF TaskSound
<1>5. UNCHANGED <<active, approval, losses>> /\ MoveOn(w)  BY DEF Link
<1>6. /\ departure' \in [DepartureIds -> DepartureRows \cup {NoRow}]
      /\ departure'[d].request \in {departure[d].request, a} /\ Recorded(d)'
      /\ departure'[d].status = departure[d].status
      /\ departure'[d].wanted = departure[d].wanted
      /\ departure'[d].person = departure[d].person
      /\ \A c \in DepartureIds \ {d} : departure'[c] = departure[c]
  <2>1. departure[d] \in DepartureRows  BY <1>4, DepartureTyped DEF HandedOver
  <2>2. CASE departure' = departure  BY <1>4, <2>2 DEF TypeOK, HandedOver, Recorded
  <2>3. CASE departure' # departure
    <3> DEFINE new == [status |-> departure[d].status, person |-> departure[d].person,
                       wanted |-> departure[d].wanted, request |-> a]
    <3>1. departure' = [departure EXCEPT ![d] = new]  BY <1>2, <1>3, <2>3, LinkEffect
    <3>2. new \in DepartureRows /\ new # NoRow  BY <2>1 DEF DepartureRows, NoRow
    <3> QED  BY <3>1, <3>2 DEF TypeOK, Recorded
  <2> QED  BY <2>2, <2>3
<1>7. HandedKept  BY <1>6 DEF HandedKept, HandedOver, Recorded
<1>8. RowsKept  BY <1>5 DEF RowsKept, Exists
<1>9. TaskSound(w)' /\ \E t : Given(w, t)
  <2>1. task[w].departure # None  BY <1>1 DEF TaskSound
  <2> QED  BY <1>1, <1>5, <1>7, <2>1, MovedOn
<1>10. TasksSound'  BY <1>7, <1>8, <1>9, TasksAfter DEF Given
<1>11. WantedCompleted'
  BY <1>4, <1>6 DEF WantedCompleted, Recorded, HandedOver
<1>12. HandOffIsDeactivation'
  <2> SUFFICES ASSUME NEW c \in DepartureIds, Recorded(c)', departure'[c].request # None
               PROVE  /\ departure'[c].status = "Completed" /\ departure'[c].wanted
                      /\ Exists(departure[c].request)'
                      /\ approval'[departure'[c].request].op = "DeactivatePerson"
                      /\ approval'[departure'[c].request].person = departure'[c].person
    BY DEF HandOffIsDeactivation, Exists
  <2>1. CASE c # d
    <3>1. departure'[c] = departure[c] /\ Recorded(c)  BY <1>6, <2>1 DEF Recorded
    <3> QED  BY <1>5, <3>1 DEF HandOffIsDeactivation, Exists
  <2>2. CASE c = d
    <3>1. CASE departure'[d].request = a
      BY <1>4, <1>5, <1>6, <2>2, <3>1 DEF HandedOver, Exists
    <3>2. CASE departure'[d].request = departure[d].request
      BY <1>4, <1>5, <1>6, <2>2, <3>2 DEF HandedOver, Exists, HandOffIsDeactivation
    <3> QED  BY <1>6, <3>1, <3>2
  <2> QED  BY <2>1, <2>2
<1> QED  BY <1>5, <1>6, <1>9, <1>10, <1>11, <1>12, DepartureStep DEF Given

LEMMA InitInv == Init => IInv
<1> SUFFICES ASSUME Init PROVE IInv  OBVIOUS
<1> USE DEF Init
<1>1. TypeOK  BY BoundsAssumption DEF TypeOK
<1>2. TasksSound  BY DEF TasksSound, TaskSound, Busy
<1>3. WantedCompleted /\ HandOffIsDeactivation
  BY DEF WantedCompleted, HandOffIsDeactivation, Recorded
<1>4. OpenAgree  BY DEF OpenAgree, OpenDeactivations, OpenRequests, Exists
<1>5. ActiveMatchesExecutions
  <2>1. \A p, op : Executions(p, op) = {}  BY DEF Executions, Exists
  <2>2. \A p, op : Cardinality(Executions(p, op)) = 0  BY <2>1, FS_EmptySet
  <2>3. \A p \in People : active[p] = TRUE  OBVIOUS
  <2> QED  BY <2>2, <2>3 DEF ActiveMatchesExecutions
<1> QED  BY <1>1, <1>2, <1>3, <1>4, <1>5 DEF IInv

LEMMA NextInv == IInv /\ [Next]_vars => IInv'
<1> SUFFICES ASSUME IInv, [Next]_vars PROVE IInv'  OBVIOUS
<1>1. ASSUME NEW p \in People, NEW d \in DepartureIds, Initiate(p, d) PROVE IInv'
  BY <1>1, InitiateStep
<1>2. ASSUME NEW d \in DepartureIds, (\E b \in BOOLEAN : Complete(d, b)) \/ Cancel(d)
      PROVE  IInv'
  BY <1>2, CompleteStep, CancelStep
<1>3. ASSUME NEW w \in Workers, NEW op \in PersonOps, NEW p \in People, Ask(w, op, p)
      PROVE  IInv'
  BY <1>3, AskStep
<1>4. ASSUME NEW w \in Workers, List(w) \/ Step(w) \/ Fault(w) \/ Lose(w) PROVE IInv'
  BY <1>4, ListStep, SubmitSteps, InsertStep, TakeUpStep, FindStep, LinkStep, LoseSteps
     DEF Step
<1>5. ASSUME NEW a \in Ids, Decide(a) \/ Execute(a) \/ ExecuteFails(a) PROVE IInv'
  BY <1>5, DecideStep, ExecuteStep, ExecuteFailsStep
<1>6. CASE UNCHANGED vars
  <2> USE <1>6 DEF vars, IInv
  <2>1. TypeOK'  BY DEF TypeOK
  <2>2. TasksSound'  BY DEF TasksSound, TaskSound, Busy, HandedOver, Recorded, Exists
  <2>3. WantedCompleted' /\ HandOffIsDeactivation'
    BY DEF WantedCompleted, HandOffIsDeactivation, Recorded, Exists
  <2>4. OpenAgree'  BY OpenAfter DEF OpenDeactivations, OpenRequests, Exists
  <2>5. ActiveMatchesExecutions'  BY SameExecutions DEF Executions, Exists
  <2> QED  BY <2>1, <2>2, <2>3, <2>4, <2>5
<1> QED  BY <1>1, <1>2, <1>3, <1>4, <1>5, <1>6 DEF Next

\* What a step can do to the departures.
LEMMA DeparturesStep ==
  ASSUME [Next]_vars
  PROVE  \/ departure' = departure
         \/ \E p \in People, d \in DepartureIds : Initiate(p, d)
         \/ \E d \in DepartureIds : (\E b \in BOOLEAN : Complete(d, b)) \/ Cancel(d)
         \/ \E w \in Workers : Link(w)
BY DEF Next, Step, Ask, List, ReadPerson, ReadOpen, Insert, InsertRefused, TakeUp, Find,
       Fault, Lose, Decide, Execute, ExecuteFails, vars

\* A departure that has its request is closed, and is written no more.
LEMMA LinkedStays ==
  ASSUME IInv, [Next]_vars, NEW d \in DepartureIds, Recorded(d), departure[d].request # None
  PROVE  departure'[d] = departure[d]
<1>1. departure[d].status = "Completed"  BY DEF IInv, HandOffIsDeactivation
<1>2. ASSUME NEW p \in People, NEW c \in DepartureIds, Initiate(p, c)
      PROVE  departure'[d] = departure[d]
  BY <1>2 DEF Initiate, IInv, TypeOK
<1>3. ASSUME NEW c \in DepartureIds, (\E b \in BOOLEAN : Complete(c, b)) \/ Cancel(c)
      PROVE  departure'[d] = departure[d]
  <2>1. c # d  BY <1>1, <1>3 DEF Complete, Cancel
  <2> QED  BY <1>3, <2>1 DEF Complete, Cancel, IInv, TypeOK
<1>4. ASSUME NEW w \in Workers, Link(w) PROVE departure'[d] = departure[d]
  <2>1. SetRequest(task[w].departure, task[w].request)  BY <1>4 DEF Link
  <2>2. CASE departure' = departure  BY <2>2
  <2>3. CASE departure' # departure
    <3>1. task[w].departure # d  BY <2>1, <2>3 DEF SetRequest
    <3> QED  BY <2>1, <2>3, <3>1 DEF SetRequest, IInv, TypeOK
  <2> QED  BY <2>2, <2>3
<1> QED  BY <1>2, <1>3, <1>4, DeparturesStep

-----------------------------------------------------------------------------
(* A hand-off is fresh.  A request that is closed stays closed, and no drain  *)
(* picks it up again: what a drain finds is open, what it submits is new.     *)

\* Nothing, or nothing closed, is what worker w is now about to link.
PicksUpOpen(w) ==
  \E t : Given(w, t) /\ (t # Idle /\ t.pc = "link" => ~Closed(t.request))

LEMMA MovesOnOpen ==
  ASSUME TypeOK, NEW w \in Workers, Busy(w), MoveOn(w)
  PROVE  PicksUpOpen(w)
<1> DEFINE t == [pc |-> "next", op |-> task[w].op, person |-> Nobody,
                 todo |-> task[w].todo, departure |-> None, request |-> None]
<1>1. t.pc # "link"  OBVIOUS
<1>2. Given(w, Idle) \/ Given(w, t)  BY MoveOnEffect
<1> HIDE DEF t
<1> QED  BY <1>1, <1>2 DEF PicksUpOpen

LEMMA GoesOnOpen ==
  ASSUME TypeOK, NEW w \in Workers, Busy(w),
         NEW pc \in {"find", "active", "open", "insert", "refind"}, Go(w, pc)
  PROVE  PicksUpOpen(w)
<1> DEFINE t == [pc |-> pc, op |-> task[w].op, person |-> task[w].person,
                 todo |-> task[w].todo, departure |-> task[w].departure,
                 request |-> task[w].request]
<1>1. t.pc # "link"  OBVIOUS
<1>2. Given(w, t)  BY GoEffect
<1> HIDE DEF t
<1> QED  BY <1>1, <1>2 DEF PicksUpOpen

LEMMA LinksOpen ==
  ASSUME TypeOK, NEW w \in Workers, Busy(w), NEW a \in Ids, ~Closed(a),
         task' = [task EXCEPT ![w].pc = "link", ![w].request = a]
  PROVE  PicksUpOpen(w)
<1> DEFINE t == [pc |-> "link", op |-> task[w].op, person |-> task[w].person,
                 todo |-> task[w].todo, departure |-> task[w].departure,
                 request |-> a]
<1>1. t.request = a  OBVIOUS
<1>2. Given(w, t)  BY LinkNext
<1> HIDE DEF t
<1> QED  BY <1>1, <1>2 DEF PicksUpOpen

LEMMA DoneOpen ==
  ASSUME TypeOK, NEW w \in Workers, Done(w)
  PROVE  PicksUpOpen(w)
BY DoneEffect DEF PicksUpOpen

LEMMA StartsOpen ==
  ASSUME TypeOK, NEW w \in Workers,
         (\E op \in PersonOps, p \in People : Ask(w, op, p)) \/ List(w)
  PROVE  PicksUpOpen(w)
<1>1. PICK t \in Tasks : t.pc # "link" /\ task' = [task EXCEPT ![w] = t]
  <2>1. ASSUME NEW op \in PersonOps, NEW p \in People, Ask(w, op, p)
        PROVE  \E t \in Tasks : t.pc # "link" /\ task' = [task EXCEPT ![w] = t]
    <3>1. [pc |-> "active", op |-> op, person |-> p, todo |-> {},
           departure |-> None, request |-> None] \in Tasks
      BY DEF Tasks
    <3> QED  BY <2>1, <3>1 DEF Ask
  <2>2. ASSUME List(w)
        PROVE  \E t \in Tasks : t.pc # "link" /\ task' = [task EXCEPT ![w] = t]
    <3>1. [pc |-> "next", op |-> "DeactivatePerson", person |-> Nobody,
           todo |-> Awaiting, departure |-> None, request |-> None] \in Tasks
      BY DEF Tasks, PersonOps, Awaiting
    <3> QED  BY <2>2, <3>1 DEF List
  <2> QED  BY <2>1, <2>2
<1>2. Given(w, t)  BY <1>1 DEF Given, TypeOK
<1> QED  BY <1>1, <1>2 DEF PicksUpOpen

LEMMA StepOpen ==
  ASSUME IInv, NEW w \in Workers, Step(w) \/ Fault(w) \/ Lose(w)
  PROVE  PicksUpOpen(w)
<1> USE DEF IInv
<1>1. Busy(w)
  BY DEF Step, ReadPerson, ReadOpen, Insert, InsertRefused, TakeUp, Find, Link, Fault,
         Lose, At, Busy
<1>2. CASE Refused(w) \/ Go(w, "open") \/ Go(w, "insert") \/ Go(w, "active")
  BY <1>1, <1>2, DoneOpen, GoesOnOpen DEF Refused
<1>3. CASE MoveOn(w) \/ Done(w)  BY <1>1, <1>3, DoneOpen, MovesOnOpen
<1>4. CASE Insert(w)
  <2>1. CASE Done(w)  BY <2>1, DoneOpen
  <2>2. CASE \E a \in Ids : /\ ~Exists(a)
                            /\ task' = [task EXCEPT ![w].pc = "link", ![w].request = a]
    BY <1>1, <2>2, LinksOpen DEF Closed
  <2> QED  BY <1>4, <2>1, <2>2 DEF Insert
<1>5. CASE \E a \in OpenDeactivations(task[w].person) :
             task' = [task EXCEPT ![w].pc = "link", ![w].request = a]
  BY <1>1, <1>5, LinksOpen DEF OpenDeactivations, OpenRequests, Closed
<1>6. CASE TakeUp(w)
  <2>1. task[w] \in Tasks /\ task[w].pc = "next" /\ TaskSound(w)
    BY <1>1, <1>6, BusyTyped DEF TakeUp, At, TasksSound, IInv
  <2>2. PICK d \in task[w].todo : Taking(w, d, departure[d].person)
    BY <1>6 DEF TakeUp, Taking
  <2>3. d \in DepartureIds /\ HandedOver(d)
    BY <1>1, <2>1, <2>2 DEF TaskSound, HandedOver
  <2>4. PICK p \in People : p = departure[d].person
    BY <2>3, DepartureTyped DEF HandedOver, DepartureRows
  <2> DEFINE t == [pc |-> "find", op |-> task[w].op, person |-> p,
                   todo |-> task[w].todo \ {d}, departure |-> d,
                   request |-> task[w].request]
  <2>5. t.pc # "link"  OBVIOUS
  <2>6. Given(w, t)  BY <1>1, <2>2, <2>3, <2>4, TakeUpEffect
  <2> HIDE DEF t
  <2> QED  BY <2>5, <2>6 DEF PicksUpOpen
<1> QED
  BY <1>2, <1>3, <1>4, <1>5, <1>6
     DEF Step, ReadPerson, ReadOpen, InsertRefused, Find, Link, Fault, Lose

\* What a step does to the requests: nothing, one changes its status, or a new
\* one is submitted.
LEMMA RequestsStep ==
  ASSUME IInv, [Next]_vars
  PROVE  \/ approval' = approval
         \/ \E b \in Ids, to \in ApprovalStatuses : StatusChange(b, to)
         \/ \E b \in Ids : ~Exists(b) /\ \A c \in Ids \ {b} : approval'[c] = approval[c]
<1> USE DEF IInv
<1>1. ASSUME NEW b \in Ids, Decide(b)
      PROVE  \E to \in ApprovalStatuses : StatusChange(b, to)
  <2>1. CASE \E action \in ReviewActions :
               CanApply(action, approval[b].status) /\ SetStatus(b, TargetStatus(action))
    BY <1>1, <2>1, StatusEffect, CanApplyOpen, TargetTyped DEF Decide
  <2>2. CASE CanApply("withdraw", approval[b].status) /\ SetStatus(b, "Withdrawn")
    BY <1>1, <2>2, StatusEffect, CanApplyOpen DEF Decide, ApprovalStatuses
  <2> QED  BY <1>1, <2>1, <2>2 DEF Decide
<1>2. ASSUME NEW b \in Ids, Execute(b) \/ ExecuteFails(b)
      PROVE  \E to \in ApprovalStatuses : StatusChange(b, to)
  BY <1>2, StatusEffect, CanApplyOpen DEF Execute, ExecuteFails, ApprovalStatuses
<1>3. ASSUME NEW w \in Workers, Insert(w)
      PROVE  \E b \in Ids : ~Exists(b) /\ \A c \in Ids \ {b} : approval'[c] = approval[c]
  BY <1>3 DEF Insert, TypeOK
<1>4. \/ approval' = approval
      \/ \E w \in Workers : Insert(w)
      \/ \E b \in Ids : Decide(b) \/ Execute(b) \/ ExecuteFails(b)
  BY DEF Next, Initiate, Complete, Cancel, Step, Ask, List, ReadPerson, ReadOpen,
         InsertRefused, TakeUp, Find, Link, Fault, Lose, vars
<1> QED  BY <1>1, <1>2, <1>3, <1>4

LEMMA ClosedStays ==
  ASSUME IInv, [Next]_vars, NEW a \in Ids, Closed(a)
  PROVE  Closed(a)'
<1>1. ASSUME NEW b \in Ids, NEW to \in ApprovalStatuses, StatusChange(b, to)
      PROVE  Closed(a)'
  <2>1. a # b  BY <1>1 DEF StatusChange, Closed
  <2> QED  BY <1>1, <2>1 DEF StatusChange, Closed, Exists
<1>2. ASSUME NEW b \in Ids, ~Exists(b), \A c \in Ids \ {b} : approval'[c] = approval[c]
      PROVE  Closed(a)'
  <2>1. a # b  BY <1>2 DEF Closed
  <2> QED  BY <1>2, <2>1 DEF Closed, Exists
<1>3. CASE approval' = approval  BY <1>3 DEF Closed, Exists
<1> QED  BY <1>1, <1>2, <1>3, RequestsStep

LEMMA RowsStay ==
  ASSUME IInv, [Next]_vars
  PROVE  RowsKept
<1>1. ASSUME NEW b \in Ids, NEW to \in ApprovalStatuses, StatusChange(b, to)
      PROVE  RowsKept
  BY <1>1 DEF StatusChange, RowsKept, Exists
<1>2. ASSUME NEW b \in Ids, ~Exists(b), \A c \in Ids \ {b} : approval'[c] = approval[c]
      PROVE  RowsKept
  BY <1>2 DEF RowsKept, Exists
<1>3. CASE approval' = approval  BY <1>3 DEF RowsKept, Exists
<1> QED  BY <1>1, <1>2, <1>3, RequestsStep

\* Worker w is about to link request a to departure d.
Carries(w, d, a) ==
  Busy(w) /\ task[w].pc = "link" /\ task[w].departure = d /\ task[w].request = a

LEMMA ClosedNotPickedUp ==
  ASSUME IInv, [Next]_vars, NEW a, Closed(a), NEW d, NEW w \in Workers,
         ~Carries(w, d, a)
  PROVE  ~Carries(w, d, a)'
<1>1. ASSUME NEW v \in Workers, PicksUpOpen(v) PROVE ~Carries(w, d, a)'
  BY <1>1 DEF PicksUpOpen, Given, Carries, Busy
<1>2. CASE task' = task  BY <1>2 DEF Carries, Busy
<1>3. \/ task' = task
      \/ \E v \in Workers : \/ \E op \in PersonOps, p \in People : Ask(v, op, p)
                           \/ List(v) \/ Step(v) \/ Fault(v) \/ Lose(v)
  BY DEF Next, Initiate, Complete, Cancel, Decide, Execute, ExecuteFails, vars
<1> QED  BY <1>1, <1>2, <1>3, StartsOpen, StepOpen DEF IInv

\* Once a closed request is linked to departure d by nobody, and is not about
\* to be, it stays so.
Apart(d, a) ==
  Recorded(d) /\ Closed(a) /\ ~LinkedTo(d, a) /\ \A w \in Workers : ~Carries(w, d, a)

\* No drain is busy with a departure that is still in progress.
LEMMA InProgressApart ==
  ASSUME IInv, NEW d \in DepartureIds, NEW a \in Ids,
         Recorded(d), departure[d].status = "InProgress", Closed(a)
  PROVE  Apart(d, a)
<1>1. ~LinkedTo(d, a)
  <2>1. a # None  BY BoundsAssumption DEF Ids, None
  <2>2. departure[d].request = None  BY InProgressUnlinked
  <2> QED  BY <2>1, <2>2 DEF LinkedTo
<1>2. ASSUME NEW w \in Workers, Carries(w, d, a) PROVE FALSE
  BY <1>2 DEF IInv, TasksSound, TaskSound, Carries, HandedOver, DepartureIds, None
<1> QED  BY <1>1, <1>2 DEF Apart

LEMMA ApartStays ==
  ASSUME IInv, [Next]_vars, NEW d \in DepartureIds, NEW a \in Ids, Apart(d, a)
  PROVE  Apart(d, a)'
<1> USE DEF IInv
<1>1. Closed(a)'  BY ClosedStays DEF Apart
<1>2. \A w \in Workers : ~Carries(w, d, a)'  BY ClosedNotPickedUp DEF Apart
<1>3. Recorded(d)' /\ (departure'[d].request = departure[d].request \/ ~LinkedTo(d, a)')
  <2>1. ASSUME NEW p \in People, NEW c \in DepartureIds, Initiate(p, c)
        PROVE  departure'[d] = departure[d]
    BY <2>1 DEF Initiate, TypeOK, Apart
  <2>2. ASSUME NEW c \in DepartureIds, NEW b \in BOOLEAN, Complete(c, b)
        PROVE  Recorded(d)' /\ departure'[d].request = departure[d].request
    <3> DEFINE new == [status |-> "Completed", person |-> departure[c].person,
                       wanted |-> b, request |-> None]
    <3>1. departure' = [departure EXCEPT ![c] = new]  BY <2>2, CompleteEffect
    <3>2. departure[c].request = None  BY <2>2, InProgressUnlinked DEF Complete
    <3>3. new # NoRow /\ new.request = None  BY DEF NoRow
    <3> HIDE DEF new
    <3> QED  BY <3>1, <3>2, <3>3 DEF TypeOK, Apart, Recorded
  <2>3. ASSUME NEW c \in DepartureIds, Cancel(c)
        PROVE  Recorded(d)' /\ departure'[d].request = departure[d].request
    BY <2>3, CancelEffect, InProgressUnlinked DEF Cancel, TypeOK, Apart, Recorded, NoRow
  <2>4. ASSUME NEW w \in Workers, Link(w)
        PROVE  Recorded(d)' /\ (departure'[d].request = departure[d].request \/ ~LinkedTo(d, a)')
    <3>1. CASE departure'[d] = departure[d]  BY <3>1 DEF Apart, Recorded
    <3>2. CASE departure'[d] # departure[d]
      <4> DEFINE new == [status |-> departure[d].status, person |-> departure[d].person,
                         wanted |-> departure[d].wanted, request |-> task[w].request]
      <4>1. Busy(w) /\ task[w].pc = "link" /\ task[w].departure \in DepartureIds
        BY <2>4, LinkSound
      <4>2. task[w].departure = d /\ departure'[d] = new
        BY <2>4, <3>2, <4>1, LinkEffect DEF TypeOK
      <4>3. task[w].request # a  BY <4>1, <4>2 DEF Apart, Carries
      <4> QED  BY <4>2, <4>3 DEF Recorded, LinkedTo, NoRow
    <3> QED  BY <3>1, <3>2
    <2>5. CASE departure' = departure  BY <2>5 DEF Apart, Recorded
  <2>6. CASE \E p \in People, c \in DepartureIds : Initiate(p, c)
    BY <2>1, <2>6 DEF Apart, Recorded
  <2> QED  BY <2>2, <2>3, <2>4, <2>5, <2>6, DeparturesStep
<1>4. ~LinkedTo(d, a)'  BY <1>3 DEF Apart, LinkedTo, Recorded
<1> QED  BY <1>1, <1>2, <1>3, <1>4 DEF Apart

-----------------------------------------------------------------------------
(* The outbox.  The contract sees a departure through its row and through the *)
(* requests of its person, so a step maps to what it does to one departure.   *)

\* No departure changes its person.
PersonsKept ==
  \A d \in DepartureIds : Recorded(d) =>
    Recorded(d)' /\ departure'[d].person = departure[d].person

LEMMA MadeGrows ==
  ASSUME RowsKept, PersonsKept
  PROVE  /\ madeOf' \in [DepartureIds -> SUBSET Ids]
         /\ \A d \in DepartureIds : madeOf[d] \subseteq madeOf'[d]
<1>1. madeOf' \in [DepartureIds -> SUBSET Ids]  BY DEF madeOf
<1>2. \A d \in DepartureIds : madeOf[d] \subseteq madeOf'[d]
  BY DEF madeOf, RowsKept, PersonsKept, Exists
<1> QED  BY <1>1, <1>2

LEMMA MadeSame ==
  ASSUME UNCHANGED approval, PersonsKept,
         \A d \in DepartureIds : Recorded(d)' => Recorded(d)
  PROVE  madeOf' = madeOf
BY DEF madeOf, PersonsKept, Exists

\* How the contract sees one departure's row.
LEMMA RowSeen ==
  ASSUME NEW d \in DepartureIds
  PROVE  /\ wishOf[d] = IF departure[d] = NoRow \/ ~departure[d].wanted THEN "none"
              ELSE IF departure[d].request = None THEN "wanted" ELSE "answered"
         /\ answerOf[d] = IF departure[d] # NoRow THEN departure[d].request ELSE None
BY DEF wishOf, answerOf, Recorded

LEMMA RowSeenAfter ==
  ASSUME NEW d \in DepartureIds
  PROVE  /\ wishOf'[d] = IF departure'[d] = NoRow \/ ~departure'[d].wanted THEN "none"
              ELSE IF departure'[d].request = None THEN "wanted" ELSE "answered"
         /\ answerOf'[d] = IF departure'[d] # NoRow THEN departure'[d].request ELSE None
BY DEF wishOf, answerOf, Recorded

LEMMA DiffersAt ==
  ASSUME NEW D, NEW f, NEW g, f = [x \in D |-> f[x]], g = [x \in D |-> g[x]],
         NEW d \in D, \A x \in D \ {d} : g[x] = f[x]
  PROVE  g = [f EXCEPT ![d] = g[d]]
OBVIOUS

\* Departures whose rows are unchanged are seen unchanged.
LEMMA RowsSeen ==
  ASSUME NEW d \in DepartureIds, \A c \in DepartureIds \ {d} : departure'[c] = departure[c]
  PROVE  /\ wishOf'   = [wishOf EXCEPT ![d] = wishOf'[d]]
         /\ answerOf' = [answerOf EXCEPT ![d] = answerOf'[d]]
<1>1. \A c \in DepartureIds \ {d} : wishOf'[c] = wishOf[c]
  BY DEF wishOf, Recorded
<1>2. \A c \in DepartureIds \ {d} : answerOf'[c] = answerOf[c]
  BY DEF answerOf, Recorded
<1>3. /\ wishOf = [c \in DepartureIds |-> wishOf[c]]
      /\ wishOf' = [c \in DepartureIds |-> wishOf'[c]]
  BY DEF wishOf
<1>4. /\ answerOf = [c \in DepartureIds |-> answerOf[c]]
      /\ answerOf' = [c \in DepartureIds |-> answerOf'[c]]
  BY DEF answerOf
<1>5. wishOf' = [wishOf EXCEPT ![d] = wishOf'[d]]
  <2> HIDE DEF wishOf
  <2> QED  BY <1>1, <1>3, DiffersAt
<1>6. answerOf' = [answerOf EXCEPT ![d] = answerOf'[d]]
  <2> HIDE DEF answerOf
  <2> QED  BY <1>2, <1>4, DiffersAt
<1> QED  BY <1>5, <1>6

LEMMA SeenSame ==
  ASSUME NEW d \in DepartureIds, \A c \in DepartureIds \ {d} : departure'[c] = departure[c],
         wishOf'[d] = wishOf[d], answerOf'[d] = answerOf[d]
  PROVE  wishOf' = wishOf /\ answerOf' = answerOf
<1>1. wishOf' = [wishOf EXCEPT ![d] = wishOf[d]] /\ answerOf' = [answerOf EXCEPT ![d] = answerOf[d]]
  BY RowsSeen
<1>2. wishOf = [wishOf EXCEPT ![d] = wishOf[d]]  BY DEF wishOf
<1>3. answerOf = [answerOf EXCEPT ![d] = answerOf[d]]  BY DEF answerOf
<1> QED  BY <1>1, <1>2, <1>3

\* Nothing but the requests changes: at most, some are made.
LEMMA MakeMapped ==
  ASSUME RowsKept, PersonsKept, wishOf' = wishOf, answerOf' = answerOf
  PROVE  Contract!Next
<1>1. Contract!Make  BY MadeGrows DEF Contract!Make
<1> QED  BY <1>1 DEF Contract!Next

LEMMA InitiateMapped ==
  ASSUME IInv, NEW p \in People, NEW d \in DepartureIds, Initiate(p, d)
  PROVE  Contract!Next
<1> DEFINE new == [status |-> "InProgress", person |-> p, wanted |-> FALSE, request |-> None]
<1>1. /\ departure[d] = NoRow /\ departure'[d] = new
      /\ \A c \in DepartureIds \ {d} : departure'[c] = departure[c]
  BY DEF Initiate, IInv, TypeOK, Recorded
<1>2. wishOf[d] = "none" /\ answerOf[d] = None  BY <1>1, RowSeen
<1>3. new # NoRow /\ new.request = None /\ new.wanted = FALSE  BY DEF NoRow
<1>4. wishOf'[d] = "none" /\ answerOf'[d] = None
  <2> HIDE DEF new
  <2> QED  BY <1>1, <1>3, RowSeenAfter
<1>5. wishOf' = wishOf /\ answerOf' = answerOf  BY <1>1, <1>2, <1>4, SeenSame
<1>6. RowsKept  BY DEF Initiate, RowsKept, Exists
<1>7. PersonsKept  BY <1>1 DEF PersonsKept, Recorded
<1> QED  BY <1>5, <1>6, <1>7, MakeMapped

\* A departure in progress is closed; what is wished depends on how.
LEMMA ClosingMapped ==
  ASSUME IInv, NEW d \in DepartureIds, Recorded(d), departure[d].status = "InProgress",
         NEW status, NEW b \in BOOLEAN, UNCHANGED approval,
         departure' = [departure EXCEPT ![d] =
           [status |-> status, person |-> departure[d].person,
            wanted |-> b, request |-> None]]
  PROVE  Contract!Next
<1> DEFINE new == [status |-> status, person |-> departure[d].person,
                   wanted |-> b, request |-> None]
<1>1. /\ departure'[d] = new /\ new # NoRow
      /\ \A c \in DepartureIds \ {d} : departure'[c] = departure[c]
  BY DEF IInv, TypeOK, NoRow
<1>2. departure[d] # NoRow /\ departure[d].request = None /\ departure[d].wanted = FALSE
  BY InProgressUnlinked DEF Recorded
<1>3. wishOf[d] = "none" /\ answerOf[d] = None  BY <1>2, RowSeen
<1>4. /\ wishOf'[d] = IF b THEN "wanted" ELSE "none"
      /\ answerOf'[d] = None
  BY <1>1 DEF wishOf, answerOf, Recorded
<1>5. PersonsKept /\ RowsKept
  BY <1>1, <1>2 DEF PersonsKept, RowsKept, Recorded, Exists
<1>6. CASE b = FALSE
  <2>1. wishOf' = wishOf /\ answerOf' = answerOf  BY <1>1, <1>3, <1>4, <1>6, SeenSame
  <2> QED  BY <1>5, <2>1, MakeMapped
<1>7. CASE b = TRUE
  <2>1. wishOf' = [wishOf EXCEPT ![d] = "wanted"]  BY <1>1, <1>4, <1>7, RowsSeen
  <2>2. answerOf' = answerOf
    <3>1. answerOf' = [answerOf EXCEPT ![d] = answerOf[d]]  BY <1>1, <1>3, <1>4, RowsSeen
    <3>2. answerOf = [answerOf EXCEPT ![d] = answerOf[d]]  BY DEF answerOf
    <3> QED  BY <3>1, <3>2
  <2>3. \A c \in DepartureIds : Recorded(c)' => Recorded(c)  BY <1>1, <1>2 DEF Recorded
  <2>4. madeOf' = madeOf  BY <1>5, <2>3, MadeSame
  <2>5. Contract!Want(d)  BY <1>3, <2>1, <2>2, <2>4 DEF Contract!Want
  <2> QED  BY <2>5 DEF Contract!Next
<1> QED  BY <1>6, <1>7

LEMMA LinkMapped ==
  ASSUME IInv, NEW w \in Workers, Link(w), RowsKept
  PROVE  Contract!Next
<1>1. PICK d \in DepartureIds, a \in Ids :
        /\ d = task[w].departure /\ a = task[w].request /\ HandedOver(d)
        /\ Exists(a) /\ approval[a].op = "DeactivatePerson"
        /\ approval[a].person = departure[d].person
  BY LinkSound
<1>2. CASE departure' = departure
  <2>1. wishOf' = wishOf /\ answerOf' = answerOf  BY <1>2 DEF wishOf, answerOf, Recorded
  <2>2. PersonsKept  BY <1>2 DEF PersonsKept, Recorded
  <2> QED  BY <2>1, <2>2, MakeMapped
<1>3. CASE departure' # departure
  <2> DEFINE new == [status |-> departure[d].status, person |-> departure[d].person,
                     wanted |-> departure[d].wanted, request |-> a]
  <2>1. departure[d].request = None /\ departure' = [departure EXCEPT ![d] = new]
    BY <1>1, <1>3, LinkEffect
  <2>2. /\ departure'[d] = new /\ new # NoRow
        /\ new.request = a /\ new.wanted = departure[d].wanted
        /\ \A c \in DepartureIds \ {d} : departure'[c] = departure[c]
    BY <2>1 DEF IInv, TypeOK, NoRow
  <2>3. a # None  BY BoundsAssumption DEF Ids, None
  <2>4. departure[d] # NoRow /\ departure[d].wanted  BY <1>1 DEF HandedOver, Recorded
  <2>5. wishOf[d] = "wanted"  BY <2>1, <2>4, RowSeen
  <2>6. wishOf'[d] = "answered" /\ answerOf'[d] = a
    <3> HIDE DEF new
    <3> QED  BY <2>2, <2>3, <2>4, RowSeenAfter
  <2>7. /\ wishOf' = [wishOf EXCEPT ![d] = "answered"]
        /\ answerOf' = [answerOf EXCEPT ![d] = a]
    BY <2>2, <2>6, RowsSeen
  <2>8. PersonsKept /\ \A c \in DepartureIds : Recorded(c)' => Recorded(c)
    BY <2>2, <2>4 DEF PersonsKept, Recorded
  <2>9. madeOf' = madeOf  BY <2>8, MadeSame DEF Link
  <2>10. a \in madeOf[d]  BY <1>1 DEF madeOf, HandedOver
  <2>11. Contract!Answer(d, a)
    BY <2>5, <2>7, <2>9, <2>10 DEF Contract!Answer
  <2> QED  BY <2>11 DEF Contract!Next
<1> QED  BY <1>2, <1>3

-----------------------------------------------------------------------------
(* The theorems.                                                            *)

\* The strengthening every theorem below rests on: a drain only holds
\* departures that want a deactivation and requests that are one.
THEOREM Invariant == Spec => []IInv
BY InitInv, NextInv, PTL DEF Spec

\* Every reachable state is well typed (the rows of 0001 and 0062).
THEOREM Typing == Spec => []TypeOK
<1>1. IInv => TypeOK  BY DEF IInv
<1> QED  BY <1>1, Invariant, PTL

\* A person never has two open deactivations, whoever races.
THEOREM OneOpen == Spec => []OneOpenDeactivation
<1>1. IInv => OneOpenDeactivation
  <2> SUFFICES ASSUME IInv, NEW p \in People PROVE Cardinality(OpenDeactivations(p)) <= 1
    BY DEF OneOpenDeactivation
  <2>1. CASE OpenDeactivations(p) = {}  BY <2>1, FS_EmptySet
  <2>2. CASE OpenDeactivations(p) # {}
    <3>1. PICK a : a \in OpenDeactivations(p)  BY <2>2
    <3>2. OpenDeactivations(p) = {a}  BY <3>1 DEF IInv, OpenAgree
    <3>3. Cardinality({a}) = 1  BY FS_Singleton
    <3>4. Cardinality(OpenDeactivations(p)) = 1  BY <3>2, <3>3
    <3> QED  BY <3>4
  <2> QED  BY <2>1, <2>2
<1> QED  BY <1>1, Invariant, PTL

\* Executed deactivations and reactivations of a person alternate.
THEOREM RecordExplainsPerson == Spec => []ActiveMatchesExecutions
<1>1. IInv => ActiveMatchesExecutions  BY DEF IInv
<1> QED  BY <1>1, Invariant, PTL

\* A hand-off is a deactivation of the person whose departure asked for it.
THEOREM HandOffSound == Spec => []HandOffIsDeactivation
<1>1. IInv => HandOffIsDeactivation  BY DEF IInv
<1> QED  BY <1>1, Invariant, PTL

\* A hand-off is never replaced or undone.
THEOREM HandOffFinal == Spec => HandOffIsFinal
<1>1. IInv /\ [Next]_vars =>
        [\A d \in DepartureIds : Recorded(d) /\ departure[d].request # None =>
           departure'[d] = departure[d]]_vars
  BY LinkedStays
<1> QED  BY <1>1, Invariant, PTL DEF Spec, HandOffIsFinal

\* A hand-off is a fresh request: one closed while the departure was still in
\* progress is never linked to it, by however late a drain.
THEOREM HandOffFresh == Spec => HandOffIsFresh
<1> SUFFICES ASSUME NEW d \in DepartureIds, NEW a \in Ids
             PROVE  Spec => [](Recorded(d) /\ departure[d].status = "InProgress" /\ Closed(a)
                                 => []~LinkedTo(d, a))
  BY DEF HandOffIsFresh
<1>1. IInv /\ (Recorded(d) /\ departure[d].status = "InProgress" /\ Closed(a)) => Apart(d, a)
  BY InProgressApart
<1>2. IInv /\ Apart(d, a) /\ [Next]_vars => Apart(d, a)'
  BY ApartStays
<1>3. Apart(d, a) => ~LinkedTo(d, a)  BY DEF Apart
<1> QED  BY <1>1, <1>2, <1>3, Invariant, PTL DEF Spec

\* The hand-over implements the outbox: an initiation maps to Make, a completion
\* that asks for the hand-off to Want, the link that is made to Answer, a submit
\* to Make, everything else to a step that changes nothing.
THEOREM Implements == Spec => ImplementsOutbox
<1>1. Init => Contract!Init
  <2> SUFFICES ASSUME Init PROVE Contract!Init  OBVIOUS
  <2>1. \A d \in DepartureIds : ~Recorded(d)  BY DEF Init, Recorded
  <2>2. wishOf = [d \in DepartureIds |-> "none"]  BY <2>1 DEF wishOf
  <2>3. madeOf = [d \in DepartureIds |-> {}]  BY <2>1 DEF madeOf
  <2>4. answerOf = [d \in DepartureIds |-> None]  BY <2>1 DEF answerOf
  <2> QED  BY <2>2, <2>3, <2>4 DEF Contract!Init
<1>2. IInv /\ [Next]_vars => [Contract!Next]_(Contract!vars)
  <2> SUFFICES ASSUME IInv, [Next]_vars PROVE Contract!Next  OBVIOUS
  <2>1. RowsKept  BY RowsStay
  <2>2. ASSUME NEW p \in People, NEW d \in DepartureIds, Initiate(p, d) PROVE Contract!Next
    BY <2>2, InitiateMapped
  <2>3. ASSUME NEW d \in DepartureIds, NEW b \in BOOLEAN, Complete(d, b) PROVE Contract!Next
    BY <2>3, CompleteEffect, ClosingMapped DEF Complete
  <2>4. ASSUME NEW d \in DepartureIds, Cancel(d) PROVE Contract!Next
    BY <2>4, CancelEffect, ClosingMapped DEF Cancel
  <2>5. ASSUME NEW w \in Workers, Link(w) PROVE Contract!Next
    BY <2>1, <2>5, LinkMapped
  <2>6. CASE departure' = departure
    <3>1. wishOf' = wishOf /\ answerOf' = answerOf  BY <2>6 DEF wishOf, answerOf, Recorded
    <3>2. PersonsKept  BY <2>6 DEF PersonsKept, Recorded
    <3> QED  BY <2>1, <3>1, <3>2, MakeMapped
  <2> QED  BY <2>2, <2>3, <2>4, <2>5, <2>6, DeparturesStep
<1> QED  BY <1>1, <1>2, Invariant, PTL DEF Spec, ImplementsOutbox, Contract!Spec
=============================================================================
