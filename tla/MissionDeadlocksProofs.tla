------------------------ MODULE MissionDeadlocksProofs ------------------------
(***************************************************************************)
(* Which calls on a mission's money can wait for one another in a circle,  *)
(* for any number of them.                                                 *)
(*                                                                         *)
(* A member of a circle holds something another one wants, and wants       *)
(* something another one holds.  Going through what each call holds and    *)
(* wants at each step leaves five calls, and all but the voiding of an     *)
(* invoice hold the mission row, which only one call can hold.  The        *)
(* issuing of an invoice drops out because of what it has checked: nobody  *)
(* can be voiding a live invoice of a line that has none.                  *)
(***************************************************************************)
EXTENDS MissionMoneyProofs

-----------------------------------------------------------------------------
(* Who holds an invoice, and what that keeps as it was.                     *)

HoldsInvoice(t) == t.op = "Void" /\ t.step = 1

OwnInvoice(t)  == t.op = "Void" => invoice[t.invoice].line = t.line
StillIssued(t) == HoldsInvoice(t) => Issued(t.invoice)

InvoicesHeld ==
  /\ \A w \in Workers : OwnInvoice(task[w]) /\ StillIssued(task[w])
  /\ \A u, v \in Workers : u # v =>
       /\ ~(HoldsInvoice(task[u]) /\ HoldsInvoice(task[v]) /\ task[u].invoice = task[v].invoice)
       /\ ~(HoldsCounter(task[u]) /\ HoldsMission(task[v]))

LEMMA HoldsInvoiceRow ==
  ASSUME TasksTyped, NEW v \in Workers, HoldsInvoice(task[v])
  PROVE  Write(InvoiceRow(task[v].invoice)) \in Held(v)
<1>1. Write(InvoiceRow(task[v].invoice)) \in LocksOf(task[v])[1]
  BY LocksOfOps DEF HoldsInvoice, VoidLocks
<1>2. 1 \in 1..task[v].step
  BY DEF HoldsInvoice
<1> QED  BY <1>1, <1>2 DEF Held

LEMMA HoldsMissionKey ==
  ASSUME TasksTyped, NEW v \in Workers, HoldsCounter(task[v])
  PROVE  Key(MissionRow) \in Held(v)
<1>1. Key(MissionRow) \in LocksOf(task[v])[1]
  BY LocksOfOps DEF HoldsCounter, IssueLocks
<1>2. 1 \in 1..task[v].step
  BY DEF HoldsCounter
<1> QED  BY <1>1, <1>2 DEF Held

LEMMA KeyConflicts ==
  ASSUME NEW r
  PROVE  Conflict(Update(r), Key(r)) /\ Conflict(Key(r), Update(r))
BY DEF Conflict, Update, Key

\* What each call holds is kept by a step that ends one of them.
LEMMA OneEnds ==
  ASSUME IInv, InvoicesHeld, NEW w \in Workers, Done(w),
         \A i \in Invoices : invoice'[i].line = invoice[i].line,
         \A v \in Workers \ {w} :
           HoldsInvoice(task[v]) => invoice'[task[v].invoice].status = invoice[task[v].invoice].status
  PROVE  InvoicesHeld'
<1>1. task \in [Workers -> Tasks] /\ \A v \in Workers : TaskSound(task[v])
  BY DEF IInv, TasksTyped
<1>2. task'[w] = Idle /\ \A v \in Workers \ {w} : task'[v] = task[v]
  BY <1>1 DEF Done
<1>3. /\ ~HoldsInvoice(Idle) /\ ~HoldsCounter(Idle) /\ ~HoldsMission(Idle) /\ Idle.op # "Void"
  BY DEF Idle, HoldsInvoice, HoldsCounter, HoldsMission
<1>4. ASSUME NEW v \in Workers PROVE OwnInvoice(task[v])' /\ StillIssued(task[v])'
  <2>1. CASE v = w
    BY <1>2, <1>3, <2>1 DEF OwnInvoice, StillIssued, HoldsInvoice
  <2>2. CASE v # w
    <3>1. task'[v] = task[v] /\ OwnInvoice(task[v]) /\ StillIssued(task[v])
      BY <1>2, <2>2 DEF InvoicesHeld
    <3>2. task[v].op = "Void" => task[v].invoice \in Invoices
      BY <1>1 DEF TaskSound
    <3> QED  BY <2>2, <3>1, <3>2 DEF OwnInvoice, StillIssued, HoldsInvoice, Issued
  <2> QED  BY <2>1, <2>2
<1>5. \A v \in Workers : task'[v] = task[v] \/ task'[v] = Idle
  BY <1>2
<1>6. \A u, v \in Workers : u # v =>
        /\ ~(HoldsInvoice(task'[u]) /\ HoldsInvoice(task'[v]) /\ task'[u].invoice = task'[v].invoice)
        /\ ~(HoldsCounter(task'[u]) /\ HoldsMission(task'[v]))
  BY <1>3, <1>5 DEF InvoicesHeld
<1> QED  BY <1>4, <1>6 DEF InvoicesHeld, HoldsInvoice, HoldsCounter, HoldsMission

LEMMA OneStarts ==
  ASSUME IInv, InvoicesHeld, NEW w \in Workers, Starts(w)
  PROVE  InvoicesHeld'
<1>1. task \in [Workers -> Tasks]
  BY DEF IInv, TasksTyped
<1>2. ASSUME NEW t, t.step = 0, OwnInvoice(t), Start(w, t)
      PROVE  InvoicesHeld'
  <2>1. task' = [task EXCEPT ![w] = t] /\ invoice' = invoice
    BY <1>2 DEF Start, data
  <2>2. task'[w] = t /\ \A v \in Workers \ {w} : task'[v] = task[v]
    BY <1>1, <2>1
  <2>3. ~HoldsInvoice(t) /\ ~HoldsCounter(t) /\ ~HoldsMission(t)
    BY <1>2 DEF HoldsInvoice, HoldsCounter, HoldsMission
  <2>4. ASSUME NEW v \in Workers PROVE OwnInvoice(task[v])' /\ StillIssued(task[v])'
    BY <1>2, <2>1, <2>2, <2>3 DEF InvoicesHeld, OwnInvoice, StillIssued, HoldsInvoice, Issued
  <2>5. \A u, v \in Workers : u # v =>
          /\ ~(HoldsInvoice(task'[u]) /\ HoldsInvoice(task'[v]) /\ task'[u].invoice = task'[v].invoice)
          /\ ~(HoldsCounter(task'[u]) /\ HoldsMission(task'[v]))
    BY <2>2, <2>3 DEF InvoicesHeld
  <2> QED  BY <2>4, <2>5 DEF InvoicesHeld, HoldsInvoice, HoldsCounter, HoldsMission
<1>3. CASE StartVoid(w)
  BY <1>2, <1>3 DEF StartVoid, OwnInvoice
<1>4. CASE StartEdit(w)     BY <1>2, <1>4 DEF StartEdit, OwnInvoice
<1>5. CASE StartStage(w)    BY <1>2, <1>5 DEF StartStage, OwnInvoice
<1>6. CASE StartBudget(w)   BY <1>2, <1>6 DEF StartBudget, OwnInvoice
<1>7. CASE StartCreate(w)   BY <1>2, <1>7 DEF StartCreate, OwnInvoice
<1>8. CASE StartPayout(w)   BY <1>2, <1>8 DEF StartPayout, OwnInvoice
<1>9. CASE StartRevoke(w)   BY <1>2, <1>9 DEF StartRevoke, OwnInvoice
<1>10. CASE StartIssue(w)   BY <1>2, <1>10 DEF StartIssue, OwnInvoice
<1>11. CASE StartPerDiem(w) BY <1>2, <1>11 DEF StartPerDiem, OwnInvoice
<1>12. CASE StartRoster(w)  BY <1>2, <1>12 DEF StartRoster, OwnInvoice
<1> QED
  BY <1>3, <1>4, <1>5, <1>6, <1>7, <1>8, <1>9, <1>10, <1>11, <1>12 DEF Starts

\* A call that moves on holds an invoice, or the invoice numbers, only when it
\* was granted them.
LEMMA OneTakes ==
  ASSUME IInv, InvoicesHeld, NEW w \in Workers, Take(w)
  PROVE  InvoicesHeld'
<1> DEFINE t == task[w]
           new == Advanced(t)
<1>1. /\ UNCHANGED data /\ Granted(w) /\ t # Idle /\ t.step < Len(LocksOf(t)) - 1
      /\ task \in [Workers -> Tasks] /\ TasksTyped /\ RowsTyped
  BY DEF Take, IInv, TasksTyped
<1>2. task' = [task EXCEPT ![w] = IF Admitted(t) THEN new ELSE Idle]
  BY Zenon DEF Take, Advanced
<1>3. invoice' = invoice
  BY <1>1 DEF data
<1>4. CASE ~Admitted(t)
  <2>1. Done(w)
    BY <1>2, <1>4 DEF Done
  <2> QED  BY <1>3, <2>1, OneEnds
<1>5. CASE Admitted(t)
  <2>1. Advances(w, t, new)
    BY <1>1, <1>5, TakeAdvances
  <2>2. task'[w] = new /\ \A v \in Workers \ {w} : task'[v] = task[v]
    BY <1>1, <1>2, <1>5
  <2>3. t \in Tasks /\ t.step \in Nat
    BY <1>1 DEF Tasks, Idle, EditTasks, StageTasks, BudgetTasks, CreateTasks, PayoutTasks,
       RevokeTasks, IssueTasks, VoidTasks, PerDiemTasks, RosterTasks
  <2>4. new.op = t.op
    BY <2>3, SameCall DEF Advanced
  <2>5. t.op = "Void" => new.invoice = t.invoice /\ new.line = t.line /\ new.step = t.step + 1
    BY <1>1, TaskOf DEF VoidTasks, Advanced
  <2>6. t.op = "Issue" => new.step = t.step + 1
    BY <1>1, TaskOf DEF IssueTasks, Advanced
  <2>7. Wanted(w) = LocksOf(t)[t.step + 1]
    BY <1>1 DEF Wanted
  <2> HIDE DEF t, new
  <2>8. HoldsInvoice(new) => t.step = 0 /\ t.op = "Void"
    BY <2>3, <2>4, <2>5 DEF HoldsInvoice
  <2>9. HoldsInvoice(new) => Issued(new.invoice) /\ Write(InvoiceRow(new.invoice)) \in Wanted(w)
    <3> SUFFICES ASSUME HoldsInvoice(new)
                 PROVE  Issued(new.invoice) /\ Write(InvoiceRow(new.invoice)) \in Wanted(w)
      OBVIOUS
    <3>1. t.step = 0 /\ t.op = "Void" /\ new.invoice = t.invoice
      BY <2>5, <2>8
    <3>2. Issued(t.invoice)
      BY <1>5, <3>1 DEF Admitted, t
    <3>3. Wanted(w) = VoidLocks(t)[1]
      BY <2>7, <3>1, LocksOfOps
    <3>4. Write(InvoiceRow(t.invoice)) \in VoidLocks(t)[1]
      BY DEF VoidLocks
    <3> QED  BY <3>1, <3>2, <3>3, <3>4
  <2>10. HoldsCounter(new) => t.step = 0 /\ t.op = "Issue"
    BY <2>3, <2>4, <2>6 DEF HoldsCounter
  <2>11. HoldsCounter(new) => Key(MissionRow) \in Wanted(w)
    BY <2>7, <2>10, LocksOfOps DEF IssueLocks
  <2>12. ASSUME NEW v \in Workers \ {w}
         PROVE  /\ ~(HoldsInvoice(new) /\ HoldsInvoice(task[v]) /\ new.invoice = task[v].invoice)
                /\ ~(HoldsCounter(new) /\ HoldsMission(task[v]))
                /\ ~(HoldsMission(new) /\ HoldsCounter(task[v]))
    <3>1. ~(HoldsInvoice(new) /\ HoldsInvoice(task[v]) /\ new.invoice = task[v].invoice)
      BY <1>1, <2>9, HoldsInvoiceRow, Conflicts, NotHeld
    <3>2. ~(HoldsCounter(new) /\ HoldsMission(task[v]))
      BY <1>1, <2>11, HoldsMissionRow, KeyConflicts, NotHeld
    <3>3. ~(HoldsMission(new) /\ HoldsCounter(task[v]))
      <4>1. HoldsMission(new) => HoldsMission(t) \/ Update(MissionRow) \in Wanted(w)
        BY <2>1 DEF Advances
      <4>2. ~(HoldsMission(t) /\ HoldsCounter(task[v]))
        BY DEF InvoicesHeld, t
      <4> QED  BY <1>1, <4>1, <4>2, HoldsMissionKey, KeyConflicts, NotHeld
    <3> QED  BY <3>1, <3>2, <3>3
  <2>13. ASSUME NEW v \in Workers PROVE OwnInvoice(task[v])' /\ StillIssued(task[v])'
    <3>1. CASE v = w
      <4>1. OwnInvoice(t)
        BY DEF InvoicesHeld, t
      <4> QED  BY <1>3, <2>2, <2>4, <2>5, <2>9, <3>1, <4>1
               DEF OwnInvoice, StillIssued, HoldsInvoice, Issued
    <3>2. CASE v # w
      BY <1>3, <2>2, <3>2 DEF InvoicesHeld, OwnInvoice, StillIssued, HoldsInvoice, Issued
    <3> QED  BY <3>1, <3>2
  <2>14. \A u, v \in Workers : u # v =>
           /\ ~(HoldsInvoice(task'[u]) /\ HoldsInvoice(task'[v]) /\ task'[u].invoice = task'[v].invoice)
           /\ ~(HoldsCounter(task'[u]) /\ HoldsMission(task'[v]))
    BY <2>2, <2>12 DEF InvoicesHeld
  <2> QED  BY <2>13, <2>14 DEF InvoicesHeld, HoldsInvoice, HoldsCounter, HoldsMission
<1> QED  BY <1>4, <1>5

LEMMA OneCommits ==
  ASSUME IInv, InvoicesHeld, NEW w \in Workers, Commits(w)
  PROVE  InvoicesHeld'
<1> DEFINE t == task[w]
<1>1. RowsTyped /\ TasksTyped /\ Done(w)
  BY DEF IInv, Commits, CommitEdit, CommitStage, CommitBudget, CommitCreate, CommitPayout,
         CommitRevoke, CommitIssue, CommitVoid, CommitPerDiem, CommitRoster
<1>2. CASE UNCHANGED invoice
  BY <1>1, <1>2, OneEnds
<1>3. CASE CommitIssue(w) /\ ~UNCHANGED invoice
  <2> DEFINE new == IssuedInvoice(t.line, t.seen.amount)
  <2>1. invoice' = Append(invoice, new) /\ Ready(w, "Issue")
    BY <1>3 DEF CommitIssue
  <2>2. t \in IssueTasks
    BY <1>1, <2>1, ReadyCall, TaskOf
  <2>3. new \in InvoiceRows
    BY <2>2 DEF IssueTasks, LineRows, IssuedInvoice, InvoiceRows
  <2> HIDE DEF new
  <2>4. \A i \in Invoices : invoice'[i] = invoice[i]
    BY <1>1, <2>1, <2>3, Appended DEF RowsTyped, Invoices
  <2>5. \A v \in Workers : HoldsInvoice(task[v]) => task[v].invoice \in Invoices
    BY <1>1, TaskOf DEF HoldsInvoice, TaskSound
  <2> QED  BY <1>1, <2>4, <2>5, OneEnds
<1>4. CASE CommitVoid(w) /\ ~UNCHANGED invoice
  <2>1. /\ invoice' = [invoice EXCEPT ![t.invoice] = Patched(invoice[t.invoice], [status |-> "Voided"])]
        /\ Ready(w, "Void")
    BY <1>4 DEF CommitVoid
  <2>2. t.op = "Void" /\ t.step = 1
    <3>1. t.op = "Void" /\ Len(LocksOf(t)) = 2
      BY <1>1, <2>1, ReadyCall, LocksOfOps DEF VoidLocks
    <3> QED  BY <1>1, <2>1, <3>1, ReadyCall
  <2>3. t.invoice \in Invoices
    BY <1>1, <2>2, TaskOf DEF TaskSound
  <2>4. \A v \in Workers \ {w} : HoldsInvoice(task[v]) => task[v].invoice # t.invoice
    BY <2>2 DEF InvoicesHeld, HoldsInvoice
  <2>5. \A i \in Invoices : invoice'[i].line = invoice[i].line
    BY <1>1, <2>1, <2>3, VoidedInvoice
  <2>6. \A i : i # t.invoice => invoice'[i] = invoice[i] \/ i \notin Invoices
    BY <2>1 DEF Invoices
  <2>7. \A v \in Workers : HoldsInvoice(task[v]) => task[v].invoice \in Invoices
    BY <1>1, TaskOf DEF HoldsInvoice, TaskSound
  <2> QED  BY <1>1, <2>4, <2>5, <2>6, <2>7, OneEnds
<1>5. CommitIssue(w) \/ CommitVoid(w) \/ UNCHANGED invoice
  BY DEF Commits, CommitEdit, CommitStage, CommitBudget, CommitCreate, CommitPayout,
         CommitRevoke, CommitPerDiem, CommitRoster
<1> QED  BY <1>2, <1>3, <1>4, <1>5

\* Nobody voids an invoice another call is voiding, and nobody issues one while
\* another call holds the mission: both in every reachable state.
THEOREM HeldApart == Spec => []InvoicesHeld
<1>1. Init => InvoicesHeld
  <2> SUFFICES ASSUME Init PROVE InvoicesHeld
    OBVIOUS
  <2>1. \A w \in Workers : task[w] = Idle
    BY DEF Init
  <2>2. ~HoldsInvoice(Idle) /\ ~HoldsCounter(Idle) /\ OwnInvoice(Idle)
    BY DEF Idle, HoldsInvoice, HoldsCounter, OwnInvoice
  <2> QED  BY <2>1, <2>2 DEF InvoicesHeld, StillIssued
<1>2. IInv /\ InvoicesHeld /\ [Next]_vars => InvoicesHeld'
  <2> SUFFICES ASSUME IInv, InvoicesHeld, [Next]_vars PROVE InvoicesHeld'
    OBVIOUS
  <2>1. UNCHANGED <<task, invoice>> => InvoicesHeld'
    BY DEF InvoicesHeld, OwnInvoice, StillIssued, HoldsInvoice, HoldsCounter, HoldsMission, Issued
  <2>2. ASSUME NEW w \in Workers, Starts(w) PROVE InvoicesHeld'   BY <2>2, OneStarts
  <2>3. ASSUME NEW w \in Workers, Take(w) PROVE InvoicesHeld'     BY <2>3, OneTakes
  <2>4. ASSUME NEW w \in Workers, Commits(w) PROVE InvoicesHeld'  BY <2>4, OneCommits
  <2>5. ASSUME NEW w \in Workers, BreakDeadlock(w) PROVE InvoicesHeld'
    BY <2>5, OneEnds DEF BreakDeadlock, data
  <2>6. ASSUME NEW income \in BOOLEAN, NEW a \in Amounts, AddLine(income, a)
        PROVE  InvoicesHeld'
    BY <2>1, <2>6 DEF AddLine
  <2>7. CASE DeactivateMission  BY <2>1, <2>7 DEF DeactivateMission
  <2>8. CASE UNCHANGED vars     BY <2>1, <2>8 DEF vars
  <2> QED  BY <2>2, <2>3, <2>4, <2>5, <2>6, <2>7, <2>8 DEF Next
<1> QED  BY <1>1, <1>2, Invariant, PTL DEF Spec

-----------------------------------------------------------------------------
(* Calls in the middle of things: they hold something and want more.        *)

LEMMA HoldersHaveStarted ==
  ASSUME TasksTyped, NEW w \in Workers, Held(w) # {}, Wanted(w) # {}
  PROVE  /\ task[w] # Idle /\ task[w].step \in Nat /\ task[w].step >= 1
         /\ Wanted(w) = LocksOf(task[w])[task[w].step + 1]
<1>1. task[w] # Idle /\ Wanted(w) = LocksOf(task[w])[task[w].step + 1]
  BY DEF Wanted
<1>2. task[w].step \in Nat
  BY TaskOf DEF Tasks, Idle, EditTasks, StageTasks, BudgetTasks, CreateTasks, PayoutTasks,
     RevokeTasks, IssueTasks, VoidTasks, PerDiemTasks, RosterTasks
<1>3. 1..task[w].step # {}
  BY DEF Held
<1>4. task[w].step >= 1
  BY <1>2, <1>3
<1> QED  BY <1>1, <1>2, <1>4

LEMMA InTheMiddle ==
  ASSUME TasksTyped, NEW w \in Workers, Held(w) # {}, Wanted(w) # {}
  PROVE  LET t == task[w] IN
         /\ t.step = 1
         /\ \/ t.op \in {"Create", "Stage"} /\ Wanted(w) = AllLines
            \/ t.op = "Edit" /\ Wanted(w) = {Write(LineRowOf(t.line))}
            \/ t.op = "Issue" /\ Wanted(w) = MissionLocked \cup {Write(LineRowOf(t.line))}
            \/ Flips(t) /\ Wanted(w) = MissionLocked
            \/ t.op = "PerDiem" /\ Wanted(w) = MissionLocked
<1> DEFINE t == task[w]
<1>1. /\ t # Idle /\ t \in Tasks /\ TaskSound(t) /\ t.step \in Nat /\ t.step >= 1
      /\ Wanted(w) = LocksOf(t)[t.step + 1] /\ Wanted(w) # {}
  BY HoldersHaveStarted, TaskOf
<1>2. CASE t.op = "Create"
  <2>1. t.step = 1
    BY <1>1, <1>2, TaskOf DEF CreateTasks
  <2> QED  BY <1>1, <1>2, <2>1, LocksOfOps DEF CreateLocks
<1>3. CASE t.op = "Edit"
  <2>1. t.step = 1
    BY <1>1, <1>3, TaskOf DEF EditTasks
  <2> QED  BY <1>1, <1>3, <2>1, LocksOfOps DEF EditLocks
<1>4. CASE t.op = "Stage"
  <2>1. t.step \in 1..2 /\ (t.step = 2 => t.to = "Settled")
    BY <1>1, <1>4, TaskOf DEF StageTasks, TaskSound
  <2>2. LocksOf(t) = StageLocks(t)
    BY <1>4, LocksOfOps
  <2>3. t.step # 2
    <3>1. ASSUME t.step = 2 PROVE Wanted(w) = {}
      BY <1>1, <2>1, <2>2, <3>1 DEF StageLocks
    <3> QED  BY <1>1, <3>1
  <2>4. t.step = 1
    BY <2>1, <2>3
  <2>5. t.to = "Settled"
    BY <1>1, <2>2, <2>4 DEF StageLocks
  <2> QED  BY <1>1, <1>4, <2>2, <2>4, <2>5 DEF StageLocks
<1>5. CASE t.op = "Issue"
  <2>1. t.step = 1
    BY <1>1, <1>5, TaskOf DEF IssueTasks
  <2> QED  BY <1>1, <1>5, <2>1, LocksOfOps DEF IssueLocks
<1>6. CASE t.op = "Void"
  <2>1. t.step = 1
    BY <1>1, <1>6, TaskOf DEF VoidTasks
  <2>2. LocksOf(t) = VoidLocks(t)
    BY <1>6, LocksOfOps
  <2>3. Flips(t)
    BY <1>1, <1>6, <2>1, <2>2 DEF VoidLocks, Flips
  <2> QED  BY <1>1, <2>1, <2>2, <2>3 DEF VoidLocks, Flips
<1>7. CASE t.op = "PerDiem"
  <2>1. t.step \in 1..2
    BY <1>1, <1>7, TaskOf DEF PerDiemTasks
  <2>2. LocksOf(t) = PerDiemLocks(t)
    BY <1>7, LocksOfOps
  <2>3. t.step = 1
    BY <1>1, <2>1, <2>2 DEF PerDiemLocks
  <2> QED  BY <1>1, <1>7, <2>2, <2>3 DEF PerDiemLocks
<1>8. ASSUME t.op \in {"Budget", "Payout", "Revoke", "Roster"} PROVE FALSE
  <2>1. t.step = 1
    BY <1>1, <1>8, TaskOf DEF BudgetTasks, PayoutTasks, RevokeTasks, RosterTasks
  <2>2. LocksOf(t)[2] = {}
    BY <1>8, LocksOfOps DEF BudgetLocks, PayoutLocks, RevokeLocks, RosterLocks
  <2> QED  BY <1>1, <2>1, <2>2
<1>9. t.op \in {"Edit", "Stage", "Budget", "Create", "Payout", "Revoke", "Issue", "Void", "PerDiem",
                "Roster"}
  BY <1>1 DEF Tasks, EditTasks, StageTasks, BudgetTasks, CreateTasks, PayoutTasks, RevokeTasks,
     IssueTasks, VoidTasks, PerDiemTasks, RosterTasks
<1> QED  BY <1>2, <1>3, <1>4, <1>5, <1>6, <1>7, <1>8, <1>9

\* They want the mission row or rows of lines.
LEMMA MembersWant ==
  ASSUME TasksTyped, NEW w \in Workers, Held(w) # {}, Wanted(w) # {}, NEW a \in Wanted(w)
  PROVE  a = Update(MissionRow) \/ \E l : a.row = LineRowOf(l)
<1>1. \/ Wanted(w) = AllLines
      \/ Wanted(w) = {Write(LineRowOf(task[w].line))}
      \/ Wanted(w) = MissionLocked \cup {Write(LineRowOf(task[w].line))}
      \/ Wanted(w) = MissionLocked
  BY InTheMiddle
<1>2. CASE Wanted(w) = AllLines
  BY <1>2 DEF AllLines, Update
<1>3. CASE Wanted(w) # AllLines
  BY <1>1, <1>3 DEF MissionLocked, Write
<1> QED  BY <1>2, <1>3

LEMMA RowsDiffer ==
  ASSUME NEW l, NEW m, NEW i
  PROVE  /\ LineRowOf(l) # ParticipantRow /\ MissionRow # ParticipantRow
         /\ LineRowOf(l) # MissionRow /\ InvoiceRow(i) # MissionRow /\ InvoiceRow(i) # LineRowOf(l)
         /\ LineRowOf(l) = LineRowOf(m) => l = m
BY DEF LineRowOf, ParticipantRow, MissionRow, InvoiceRow

\* Nobody who holds something waits for the row of a participant.
LEMMA PerDiemsAreNotWaitedFor ==
  ASSUME TasksTyped, NEW u \in Workers, task[u].op = "PerDiem", task[u].step = 1,
         NEW v \in Workers, Held(v) # {}, Wanted(v) # {}
  PROVE  ~WaitsFor(v, u)
<1>1. Held(u) = {Write(ParticipantRow)}
  <2>1. LocksOf(task[u])[1] = {Write(ParticipantRow)}
    BY LocksOfOps DEF PerDiemLocks
  <2>2. 1..task[u].step = {1}
    OBVIOUS
  <2> QED  BY <2>1, <2>2 DEF Held
<1> SUFFICES ASSUME NEW a \in Wanted(v), Conflict(a, Write(ParticipantRow)) PROVE FALSE
  BY <1>1 DEF WaitsFor, Blockers
<1>2. a.row = ParticipantRow
  BY DEF Conflict, Write
<1>3. a = Update(MissionRow) \/ \E l : a.row = LineRowOf(l)
  BY MembersWant
<1> QED  BY <1>2, <1>3, RowsDiffer DEF Update

\* Nobody who wants more holds what the issuing of an invoice waits for.
LEMMA IssuesDoNotWait ==
  ASSUME IInv, InvoicesHeld, NEW u \in Workers, HoldsCounter(task[u]), Held(u) # {}, Wanted(u) # {},
         NEW v \in Workers, Held(v) # {}, Wanted(v) # {}, task[v].op # "PerDiem"
  PROVE  ~WaitsFor(u, v)
<1>1. TasksTyped /\ TaskSound(task[v])
  BY TaskOf DEF IInv
<1> SUFFICES ASSUME u # v, NEW a \in Wanted(u), NEW b \in Held(v), Conflict(a, b) PROVE FALSE
  BY DEF WaitsFor, Blockers
<1>2. task[u].op = "Issue" /\ Wanted(u) = MissionLocked \cup {Write(LineRowOf(task[u].line))}
  BY <1>1, InTheMiddle DEF HoldsCounter, Flips
<1>3. task[v].step = 1 /\ (task[v].op \in {"Create", "Stage", "Edit", "Issue"} \/ Flips(task[v]))
  BY <1>1, InTheMiddle
<1>4. ~HoldsMission(task[v])
  BY DEF InvoicesHeld
<1>5. ~HoldsCounter(task[v])
  BY DEF IInv, Exclusion
<1>6. Flips(task[v]) /\ task[v].step = 1
  BY <1>3, <1>4, <1>5 DEF HoldsMission, HoldsCounter
<1>7. b \in {Write(InvoiceRow(task[v].invoice)), Write(LineRowOf(task[v].line))}
  <2>1. LocksOf(task[v])[1] = {Write(InvoiceRow(task[v].invoice)), Write(LineRowOf(task[v].line))}
    BY <1>6, LocksOfOps DEF Flips, VoidLocks
  <2>2. 1..task[v].step = {1}
    BY <1>6
  <2> QED  BY <2>1, <2>2 DEF Held
<1>8. a.row = b.row
  BY DEF Conflict
<1>9. LineRowOf(task[u].line) = LineRowOf(task[v].line)
  BY <1>2, <1>7, <1>8, RowsDiffer DEF MissionLocked, Update, Write
<1>10. task[u].line = task[v].line
  BY <1>9, RowsDiffer
<1>11. task[v].invoice \in LiveInvoices(task[v].line)
  <2>1. task[v].op = "Void" /\ HoldsInvoice(task[v])
    BY <1>6 DEF Flips, HoldsInvoice
  <2>2. task[v].invoice \in Invoices
    BY <1>1, <2>1 DEF TaskSound
  <2>3. Issued(task[v].invoice) /\ invoice[task[v].invoice].line = task[v].line
    BY <2>1 DEF InvoicesHeld, OwnInvoice, StillIssued
  <2> QED  BY <2>2, <2>3 DEF LiveInvoices
<1>12. LiveInvoices(task[u].line) = {}
  BY DEF IInv, ChecksStand, CheckStands
<1> QED  BY <1>10, <1>11, <1>12

\* What the members of a circle do: each voids an invoice, and holds rows under
\* the mission, or holds the mission.
LEMMA InCircle ==
  ASSUME IInv, InvoicesHeld, NEW C \in SUBSET Workers, Deadlocked(C), NEW u \in C
  PROVE  /\ task[u].step = 1 /\ Held(u) # {} /\ Wanted(u) # {}
         /\ \/ task[u].op \in {"Edit", "Stage", "Create"}
            \/ Flips(task[u]) /\ Wanted(u) = MissionLocked
<1>1. TasksTyped
  BY DEF IInv
<1>2. \A w \in C : (\E v \in C : WaitsFor(w, v)) /\ (\E v \in C : WaitsFor(v, w))
  BY DEF Deadlocked
<1>3. \A w \in C : w \in Workers /\ Held(w) # {} /\ Wanted(w) # {}
  BY <1>2 DEF WaitsFor, Blockers
<1>4. ASSUME NEW w \in C PROVE task[w].op # "PerDiem"
  <2>1. task[w].step = 1
    BY <1>1, <1>3, InTheMiddle
  <2> QED  BY <1>1, <1>2, <1>3, <2>1, PerDiemsAreNotWaitedFor
<1>5. ASSUME NEW w \in C PROVE task[w].op # "Issue"
  <2>1. SUFFICES ASSUME task[w].op = "Issue" PROVE FALSE
    OBVIOUS
  <2>2. HoldsCounter(task[w])
    BY <1>1, <1>3, <2>1, InTheMiddle DEF HoldsCounter
  <2> QED  BY <1>2, <1>3, <1>4, <2>2, IssuesDoNotWait
<1> QED  BY <1>1, <1>3, <1>4, <1>5, InTheMiddle

\* Those that void wait for one that does not: none of them holds the mission.
LEMMA VoidsWaitForOther ==
  ASSUME IInv, InvoicesHeld, NEW C \in SUBSET Workers, Deadlocked(C)
  PROVE  \E u \in C : task[u].op \in {"Edit", "Stage", "Create"}
<1> SUFFICES ASSUME \A u \in C : task[u].op \notin {"Edit", "Stage", "Create"} PROVE FALSE
  OBVIOUS
<1>1. PICK u \in C, v \in C : WaitsFor(u, v)
  BY DEF Deadlocked
<1>2. Wanted(u) = MissionLocked
  BY InCircle
<1>3. Flips(task[v]) /\ task[v].step = 1
  BY InCircle
<1>4. PICK a \in Wanted(u), b \in Held(v) : Conflict(a, b)
  BY <1>1 DEF WaitsFor, Blockers
<1>5. b \in {Write(InvoiceRow(task[v].invoice)), Write(LineRowOf(task[v].line))}
  <2>1. LocksOf(task[v])[1] = {Write(InvoiceRow(task[v].invoice)), Write(LineRowOf(task[v].line))}
    BY <1>3, LocksOfOps DEF VoidLocks, Flips, IInv
  <2>2. 1..task[v].step = {1}
    BY <1>3
  <2> QED  BY <2>1, <2>2 DEF Held
<1>6. a.row = MissionRow
  BY <1>2 DEF MissionLocked, Update
<1>7. b.row # MissionRow
  BY <1>5, RowsDiffer DEF Write
<1> QED  BY <1>4, <1>6, <1>7 DEF Conflict

\* However many calls are in flight, those that wait for one another in a circle
\* include one that voids an invoice, and no payout, revocation, per-diem,
\* budget cell, roster change or new invoice is ever among them.
THEOREM OnlyVoids == Spec => []OnlyVoidsDeadlock
<1>1. IInv /\ InvoicesHeld => OnlyVoidsDeadlock
  <2> SUFFICES ASSUME IInv, InvoicesHeld, NEW C \in SUBSET Workers, Deadlocked(C)
               PROVE  /\ \E w \in C : task[w].op = "Void"
                      /\ \A w \in C : task[w].op \in {"Void", "Edit", "Stage", "Create"}
    BY DEF OnlyVoidsDeadlock
  <2>1. \A w \in C : task[w].op \in {"Void", "Edit", "Stage", "Create"} /\ task[w].step = 1
    BY InCircle DEF Flips
  <2>2. \E w \in C : task[w].op = "Void"
    <3> SUFFICES ASSUME \A w \in C : task[w].op # "Void" PROVE FALSE
      OBVIOUS
    <3>1. PICK u \in C, v \in C : WaitsFor(u, v)
      BY DEF Deadlocked
    <3>2. u # v
      BY <3>1 DEF WaitsFor, Blockers
    <3>3. HoldsMission(task[u]) /\ HoldsMission(task[v])
      BY <2>1 DEF HoldsMission
    <3> QED  BY <3>2, <3>3 DEF IInv, Exclusion
  <2> QED  BY <2>1, <2>2
<1> QED  BY <1>1, Invariant, HeldApart, PTL

\* Exactly one member of a circle is no void.
OneInTheWay ==
  \A C \in SUBSET Workers : Deadlocked(C) =>
    \E u \in C : /\ task[u].op \in {"Edit", "Stage", "Create"}
                 /\ \A w \in C \ {u} : task[w].op = "Void"

\* A circle is one call that holds the mission row and wants lines, with voids
\* that hold those lines: voids alone never wait in a circle, so ending the one
\* call that is no void breaks it (writeTx.ts, getMissionForUpdate).
THEOREM OneHoldsMission == Spec => []OneInTheWay
<1>1. IInv /\ InvoicesHeld => OneInTheWay
  <2> SUFFICES ASSUME IInv, InvoicesHeld, NEW C \in SUBSET Workers, Deadlocked(C)
               PROVE  \E u \in C : /\ task[u].op \in {"Edit", "Stage", "Create"}
                                   /\ \A w \in C \ {u} : task[w].op = "Void"
    BY DEF OneInTheWay
  <2>1. PICK u \in C : task[u].op \in {"Edit", "Stage", "Create"}
    BY VoidsWaitForOther
  <2>2. ASSUME NEW w \in C \ {u} PROVE task[w].op = "Void"
    <3>1. SUFFICES ASSUME task[w].op # "Void" PROVE FALSE
      OBVIOUS
    <3>2. task[w].op \in {"Edit", "Stage", "Create"} /\ task[w].step = 1 /\ task[u].step = 1
      BY <3>1, InCircle DEF Flips
    <3>3. HoldsMission(task[u]) /\ HoldsMission(task[w])
      BY <2>1, <3>2 DEF HoldsMission
    <3> QED  BY <3>3 DEF IInv, Exclusion
  <2> QED  BY <2>1, <2>2
<1> QED  BY <1>1, Invariant, HeldApart, PTL
=============================================================================
