-------------------------- MODULE MissionMoneyProofs --------------------------
(***************************************************************************)
(* Theorems about the money of a mission, for any set of workers and any   *)
(* amounts, rates and splits.                                              *)
(*                                                                         *)
(* Two things carry the proofs.  A version identifies what a row held, so  *)
(* a commit that finds the version it read finds the row it read.  And     *)
(* whoever has checked something under a lock still finds it so when it    *)
(* commits: every writer of what was checked needs that lock as well.      *)
(***************************************************************************)
EXTENDS MissionMoney, AllocationProofs, FiniteSetTheorems, TLAPS

-----------------------------------------------------------------------------
(* The invariant.                                                           *)

LineRows    == [income: BOOLEAN, status: PaymentStatuses \cup {"None"}, amount: Amounts,
                received: Amounts \cup {None}, active: BOOLEAN, version: Nat]
MissionRows == [stage: StageNames, active: BOOLEAN, version: Nat]
BudgetRows  == [amount: Rates, version: Nat]
Participants == [active: BOOLEAN, rate: Rates \cup {None}, version: Nat]
InvoiceRows == [line: Nat, subtotal: Amounts, status: {"Issued", "Voided"}, version: Nat]
HeadRowsOf(s) == [line: Nat, pool: Amounts, cut: Int, split: {s}, shares: [DOMAIN s -> ShareRows],
                  status: {"Live", "Revoked"}, version: Nat]
HeadRows    == UNION {HeadRowsOf(s) : s \in Splits}
People      == UNION {DOMAIN s : s \in Splits}

Patches == [amount: Amounts] \cup [active: {FALSE}]
             \cup [status: PaymentStatuses, received: Amounts \cup {None}]

EditTasks    == [op: {"Edit"}, step: 0..1, line: Nat, seen: LineRows, patch: Patches]
StageTasks   == [op: {"Stage"}, step: 0..2, to: StageNames \cup {"none"}, version: Nat]
BudgetTasks  == [op: {"Budget"}, step: 0..1, seen: BudgetRows \cup {NoRow}, amount: Rates \cup {None}]
CreateTasks  == [op: {"Create"}, step: 0..1, line: Nat, org: OrgShares, split: Splits]
PayoutTasks  == [op: {"Payout"}, step: 0..1, head: Nat, person: People, paid: BOOLEAN, version: Nat]
RevokeTasks  == [op: {"Revoke"}, step: 0..1, head: Nat, version: Nat]
IssueTasks   == [op: {"Issue"}, step: 0..1, line: Nat, seen: LineRows]
VoidTasks    == [op: {"Void"}, step: 0..1, invoice: Nat, version: Nat, line: Nat,
                 seen: LineRows \cup {NoRow}]
PerDiemTasks == [op: {"PerDiem"}, step: 0..2, rate: Rates \cup {None}, version: Nat]
RosterTasks  == [op: {"Roster"}, step: 0..1, active: BOOLEAN]

Tasks == {Idle} \cup EditTasks \cup StageTasks \cup BudgetTasks \cup CreateTasks \cup PayoutTasks
           \cup RevokeTasks \cup IssueTasks \cup VoidTasks \cup PerDiemTasks \cup RosterTasks

LineTyped(row) == row \in LineRows /\ (row.income <=> row.status # "None")

RowsTyped ==
  /\ mission \in MissionRows
  /\ line \in Seq(LineRows) /\ \A l \in Lines : line[l].income <=> line[l].status # "None"
  /\ budget \in {NoRow} \cup BudgetRows
  /\ participant \in Participants
  /\ invoice \in Seq(InvoiceRows) /\ \A i \in Invoices : invoice[i].line \in Lines
  /\ head \in Seq(HeadRows) /\ \A h \in Heads : head[h].line \in Lines
  /\ calls \in 0..MaxCalls

Flips(t) == t.op = "Void" /\ t.seen # NoRow /\ t.seen.status = "Invoiced"

\* A call in flight refers to rows that are there, and a line it read is the
\* line as it is unless the version has moved on.
TaskSound(t) ==
  /\ t.op = "Stage" /\ t.step >= 1 => t.to \in StageNames
  /\ t.op = "Stage" /\ t.step = 2 => t.to = "Settled"
  /\ t.op \in {"Edit", "Issue", "Create", "Void"} => t.line \in Lines
  /\ t.op \in {"Payout", "Revoke"} => t.head \in Heads
  /\ t.op = "Payout" => t.person \in DOMAIN head[t.head].shares
  /\ t.op = "Void" => t.invoice \in Invoices
  /\ (t.op \in {"Edit", "Issue"} \/ (t.op = "Void" /\ t.seen # NoRow)) =>
       /\ t.seen.version <= line[t.line].version
       /\ (t.seen.version = line[t.line].version => t.seen = line[t.line])
  /\ t.op = "Edit" => t.seen.active /\ ("status" \in DOMAIN t.patch => t.seen.income)
  /\ t.op = "Issue" => t.seen.status = "Expected"

TasksTyped == /\ task \in [Workers -> Tasks]
              /\ \A w \in Workers : TaskSound(task[w])

\* Who holds the mission row, an invoice's line, and the invoice numbers.
HoldsMission(t) ==
  \/ t.op \in {"Create", "Edit", "Stage", "Budget"} /\ t.step >= 1
  \/ t.op = "PerDiem" /\ t.step = 2
HoldsLine(t)    == Flips(t) /\ t.step = 1
HoldsCounter(t) == t.op = "Issue" /\ t.step = 1

Exclusion ==
  \A u, v \in Workers : u # v =>
    /\ ~(HoldsMission(task[u]) /\ HoldsMission(task[v]))
    /\ ~(HoldsLine(task[u]) /\ HoldsLine(task[v]) /\ task[u].line = task[v].line)
    /\ ~(HoldsCounter(task[u]) /\ HoldsCounter(task[v]))

\* What a call has checked under its locks still holds.
CheckStands(t) ==
  /\ t.op = "Budget" /\ t.step = 1 => BooksOpen
  /\ t.op = "PerDiem" /\ t.step = 2 => BooksOpen
  /\ t.op = "Stage" /\ t.step = 2 => SettlementComplete
  /\ HoldsLine(t) => line[t.line] = t.seen
  /\ HoldsCounter(t) => LiveInvoices(t.line) = {}

ChecksStand == \A w \in Workers : CheckStands(task[w])

LivesAgree ==
  \A g, h \in Heads : Live(g) /\ Live(h) /\ head[g].line = head[h].line => g = h

IInv ==
  /\ RowsTyped /\ TasksTyped /\ Exclusion /\ ChecksStand
  /\ SettledIsComplete /\ PoolIsLanded /\ PaidUnderLive /\ LivesAgree


-----------------------------------------------------------------------------
(* Sequences of rows.                                                       *)

LEMMA Appended ==
  ASSUME NEW S, NEW q \in Seq(S), NEW e \in S
  PROVE  /\ Append(q, e) \in Seq(S)
         /\ DOMAIN q = 1..Len(q) /\ Len(q) \in Nat
         /\ DOMAIN Append(q, e) = DOMAIN q \cup {Len(q) + 1}
         /\ \A i \in DOMAIN q : Append(q, e)[i] = q[i]
         /\ Append(q, e)[Len(q) + 1] = e
OBVIOUS

LEMMA Replaced ==
  ASSUME NEW S, NEW q \in Seq(S), NEW i \in DOMAIN q, NEW e \in S
  PROVE  /\ [q EXCEPT ![i] = e] \in Seq(S)
         /\ DOMAIN [q EXCEPT ![i] = e] = DOMAIN q
         /\ \A j \in DOMAIN q : [q EXCEPT ![i] = e][j] = IF j = i THEN e ELSE q[j]
OBVIOUS

(* Rows.                                                                    *)

LEMMA PatchedLine ==
  ASSUME NEW row \in LineRows, NEW patch \in Patches
  PROVE  /\ Patched(row, patch) \in LineRows
         /\ Patched(row, patch).version = row.version + 1
         /\ Patched(row, patch).income = row.income
         /\ \A f \in DOMAIN patch : f \in DOMAIN row /\ Patched(row, patch)[f] = patch[f]
         /\ \A f \in {"status", "received", "amount", "active"} \ DOMAIN patch :
              Patched(row, patch)[f] = row[f]
<1>1. DOMAIN row = {"income", "status", "amount", "received", "active", "version"}
  BY DEF LineRows
<1>2. DOMAIN patch \subseteq {"status", "amount", "received", "active"}
  BY DEF Patches
<1>3. /\ "amount" \in DOMAIN patch => patch.amount \in Amounts
      /\ "active" \in DOMAIN patch => patch.active \in BOOLEAN
      /\ "status" \in DOMAIN patch => patch.status \in PaymentStatuses
      /\ "received" \in DOMAIN patch => patch.received \in Amounts \cup {None}
  BY DEF Patches
<1> DEFINE new == Patched(row, patch)
<1>4. new = [f \in DOMAIN row |-> IF f \in DOMAIN patch THEN patch[f]
                                   ELSE IF f = "version" THEN row.version + 1 ELSE row[f]]
  BY DEF Patched
<1>5. /\ new.version = row.version + 1 /\ new.income = row.income
      /\ \A f \in DOMAIN patch : new[f] = patch[f]
      /\ \A f \in {"status", "received", "amount", "active"} \ DOMAIN patch : new[f] = row[f]
  BY <1>1, <1>2, <1>4
<1>6. new = [income |-> new.income, status |-> new.status, amount |-> new.amount,
             received |-> new.received, active |-> new.active, version |-> new.version]
  BY <1>1, <1>4
<1>7. /\ new.income \in BOOLEAN /\ new.status \in PaymentStatuses \cup {"None"} /\ new.amount \in Amounts
      /\ new.received \in Amounts \cup {None} /\ new.active \in BOOLEAN /\ new.version \in Nat
  BY <1>3, <1>5 DEF LineRows
<1>8. new \in LineRows
  BY <1>6, <1>7 DEF LineRows
<1> QED  BY <1>1, <1>2, <1>5, <1>8

LEMMA PatchedMission ==
  ASSUME NEW row \in MissionRows, NEW to, NEW flag
  PROVE  /\ Patched(row, [stage |-> to])
              = [stage |-> to, active |-> row.active, version |-> row.version + 1]
         /\ Patched(row, [active |-> flag])
              = [stage |-> row.stage, active |-> flag, version |-> row.version + 1]
BY DEF Patched, MissionRows

LEMMA PatchedParticipant ==
  ASSUME NEW row \in Participants, NEW rate, NEW flag
  PROVE  /\ Patched(row, [rate |-> rate])
              = [active |-> row.active, rate |-> rate, version |-> row.version + 1]
         /\ Patched(row, [active |-> flag])
              = [active |-> flag, rate |-> row.rate, version |-> row.version + 1]
BY DEF Patched, Participants

LEMMA PatchedBudget ==
  ASSUME NEW row \in BudgetRows, NEW amount
  PROVE  Patched(row, [amount |-> amount]) = [amount |-> amount, version |-> row.version + 1]
BY DEF Patched, BudgetRows

LEMMA PatchedInvoice ==
  ASSUME NEW row \in InvoiceRows, NEW status
  PROVE  Patched(row, [status |-> status])
           = [line |-> row.line, subtotal |-> row.subtotal, status |-> status, version |-> row.version + 1]
BY DEF Patched, InvoiceRows

LEMMA PatchedShare ==
  ASSUME NEW row \in ShareRows, NEW paid
  PROVE  Patched(row, [paid |-> paid])
           = [amount |-> row.amount, paid |-> paid, version |-> row.version + 1]
BY DEF Patched, ShareRows

LEMMA PatchedHead ==
  ASSUME NEW s \in Splits, NEW row \in HeadRowsOf(s), NEW status
  PROVE  Patched(row, [status |-> status])
           = [line |-> row.line, pool |-> row.pool, cut |-> row.cut, split |-> row.split,
              shares |-> row.shares, status |-> status, version |-> row.version + 1]
BY DEF Patched, HeadRowsOf

-----------------------------------------------------------------------------
(* Calls in flight.                                                         *)

LEMMA TaskOf ==
  ASSUME TasksTyped, NEW w \in Workers
  PROVE  /\ task[w] \in Tasks
         /\ TaskSound(task[w])
         /\ task[w].op = "Edit"    => task[w] \in EditTasks
         /\ task[w].op = "Stage"   => task[w] \in StageTasks
         /\ task[w].op = "Budget"  => task[w] \in BudgetTasks
         /\ task[w].op = "Create"  => task[w] \in CreateTasks
         /\ task[w].op = "Payout"  => task[w] \in PayoutTasks
         /\ task[w].op = "Revoke"  => task[w] \in RevokeTasks
         /\ task[w].op = "Issue"   => task[w] \in IssueTasks
         /\ task[w].op = "Void"    => task[w] \in VoidTasks
         /\ task[w].op = "PerDiem" => task[w] \in PerDiemTasks
         /\ task[w].op = "Roster"  => task[w] \in RosterTasks
<1>1. task[w] \in Tasks /\ TaskSound(task[w])
  BY DEF TasksTyped
<1>2. task[w].op \notin {"Edit", "Stage", "Budget", "Create", "Payout", "Revoke", "Issue", "Void",
                         "PerDiem", "Roster"}
      \/ task[w] # Idle
  BY DEF Idle
<1> QED
  BY <1>1, <1>2 DEF Tasks, EditTasks, StageTasks, BudgetTasks, CreateTasks, PayoutTasks, RevokeTasks,
     IssueTasks, VoidTasks, PerDiemTasks, RosterTasks

LEMMA LocksOfOps ==
  ASSUME NEW t
  PROVE  /\ t.op = "Create"  => LocksOf(t) = CreateLocks(t)
         /\ t.op = "Edit"    => LocksOf(t) = EditLocks(t)
         /\ t.op = "Stage"   => LocksOf(t) = StageLocks(t)
         /\ t.op = "Budget"  => LocksOf(t) = BudgetLocks(t)
         /\ t.op = "Issue"   => LocksOf(t) = IssueLocks(t)
         /\ t.op = "Void"    => LocksOf(t) = VoidLocks(t)
         /\ t.op = "PerDiem" => LocksOf(t) = PerDiemLocks(t)
         /\ t.op = "Roster"  => LocksOf(t) = RosterLocks(t)
         /\ t.op = "Payout"  => LocksOf(t) = PayoutLocks(t)
         /\ t.op = "Revoke"  => LocksOf(t) = RevokeLocks(t)
BY DEF LocksOf

LEMMA HoldsMissionRow ==
  ASSUME TasksTyped, NEW v \in Workers, HoldsMission(task[v])
  PROVE  Update(MissionRow) \in Held(v)
<1>1. task[v].op \in {"Create", "Edit", "Stage", "Budget"} =>
        1 \in 1..task[v].step /\ LocksOf(task[v])[1] = MissionLocked
  BY TaskOf, LocksOfOps
     DEF HoldsMission, CreateLocks, EditLocks, StageLocks, BudgetLocks, EditTasks, StageTasks,
         BudgetTasks, CreateTasks
<1>2. task[v].op = "PerDiem" => 2 \in 1..task[v].step /\ LocksOf(task[v])[2] = MissionLocked
  BY TaskOf, LocksOfOps DEF HoldsMission, PerDiemLocks, PerDiemTasks
<1>3. PICK k \in 1..task[v].step : LocksOf(task[v])[k] = MissionLocked
  BY <1>1, <1>2 DEF HoldsMission
<1> QED  BY <1>3 DEF Held, MissionLocked

LEMMA HoldsLineRow ==
  ASSUME TasksTyped, NEW v \in Workers, HoldsLine(task[v])
  PROVE  Write(LineRowOf(task[v].line)) \in Held(v)
<1>1. LocksOf(task[v])[1] = {Write(InvoiceRow(task[v].invoice)), Write(LineRowOf(task[v].line))}
  BY LocksOfOps DEF HoldsLine, Flips, VoidLocks
<1>2. 1 \in 1..task[v].step
  BY DEF HoldsLine
<1> QED  BY <1>1, <1>2 DEF Held

LEMMA HoldsCounterRow ==
  ASSUME TasksTyped, NEW v \in Workers, HoldsCounter(task[v])
  PROVE  Write(InvoiceCounter) \in Held(v)
<1>1. Write(InvoiceCounter) \in LocksOf(task[v])[1]
  BY LocksOfOps DEF HoldsCounter, IssueLocks
<1>2. 1 \in 1..task[v].step
  BY DEF HoldsCounter
<1> QED  BY <1>1, <1>2 DEF Held

LEMMA Conflicts ==
  ASSUME NEW r, NEW q
  PROVE  /\ Conflict(Update(r), Update(r)) /\ Conflict(Write(r), Update(r))
         /\ Conflict(Write(r), Write(r))
BY DEF Conflict, Update, Write

LEMMA NotHeld ==
  ASSUME NEW w \in Workers, Granted(w), NEW v \in Workers, v # w, NEW a \in Wanted(w), NEW b \in Held(v)
  PROVE  ~Conflict(a, b)
BY DEF Granted, WaitsFor, Blockers

\* Whoever is granted the mission row finds nobody else holding it, and likewise
\* for a line and the invoice numbers.
LEMMA MissionFree ==
  ASSUME TasksTyped, NEW w \in Workers, Granted(w), Update(MissionRow) \in Wanted(w)
  PROVE  \A v \in Workers \ {w} : ~HoldsMission(task[v])
BY NotHeld, HoldsMissionRow, Conflicts

LEMMA LineFreed ==
  ASSUME TasksTyped, NEW w \in Workers, Granted(w), NEW l, Write(LineRowOf(l)) \in Wanted(w)
  PROVE  \A v \in Workers \ {w} : ~(HoldsLine(task[v]) /\ task[v].line = l)
BY NotHeld, HoldsLineRow, Conflicts

LEMMA CounterFree ==
  ASSUME TasksTyped, NEW w \in Workers, Granted(w), Write(InvoiceCounter) \in Wanted(w)
  PROVE  \A v \in Workers \ {w} : ~HoldsCounter(task[v])
BY NotHeld, HoldsCounterRow, Conflicts

LEMMA NobodyBlocks ==
  ASSUME TasksTyped, NEW locks, Blockers(locks) = {},
         Update(MissionRow) \in locks \/ Write(MissionRow) \in locks
  PROVE  \A v \in Workers : ~HoldsMission(task[v])
BY HoldsMissionRow, Conflicts DEF Blockers

-----------------------------------------------------------------------------
(* What a step leaves standing for the calls it does not end.               *)

\* Rows stay, and a line that changes has a later version.
Forward ==
  /\ \A l \in Lines : l \in Lines' /\ (line'[l] = line[l] \/ line'[l].version > line[l].version)
  /\ Invoices \subseteq Invoices'
  /\ \A h \in Heads : h \in Heads' /\ DOMAIN head'[h].shares = DOMAIN head[h].shares

\* Calls end or stay as they are, and those that stay keep what they hold.
Undisturbed ==
  \A v \in Workers : task'[v] # Idle =>
    /\ task'[v] = task[v]
    /\ HoldsMission(task[v]) => UNCHANGED <<mission, line>>
    /\ HoldsLine(task[v]) => line'[task[v].line] = line[task[v].line]
    /\ HoldsCounter(task[v]) => \A l : LiveInvoices(l)' \subseteq LiveInvoices(l)

Calling == TasksTyped /\ Exclusion /\ ChecksStand
Money   == SettledIsComplete /\ PoolIsLanded /\ PaidUnderLive /\ LivesAgree

LEMMA IdleHolds ==
  /\ Idle \in Tasks /\ TaskSound(Idle) /\ CheckStands(Idle)
  /\ ~HoldsMission(Idle) /\ ~HoldsLine(Idle) /\ ~HoldsCounter(Idle)
BY DEF Idle, Tasks, TaskSound, CheckStands, HoldsMission, HoldsLine, HoldsCounter, Flips

LEMMA SoundForward ==
  ASSUME RowsTyped, RowsTyped', TasksTyped, Forward, NEW v \in Workers, task'[v] = task[v]
  PROVE  TaskSound(task[v])'
<1> DEFINE t == task[v]
<1>1. TaskSound(t) /\ t' = t
  BY DEF TasksTyped
<1>2. t.op \in {"Edit", "Issue", "Create", "Void"} => t.line \in Lines'
  BY <1>1 DEF TaskSound, Forward
<1>3. t.op \in {"Payout", "Revoke"} => t.head \in Heads'
  BY <1>1 DEF TaskSound, Forward
<1>4. t.op = "Payout" => t.person \in DOMAIN head'[t.head].shares
  BY <1>1 DEF TaskSound, Forward
<1>5. t.op = "Void" => t.invoice \in Invoices'
  BY <1>1 DEF TaskSound, Forward
<1>6. ASSUME t.op \in {"Edit", "Issue"} \/ (t.op = "Void" /\ t.seen # NoRow)
      PROVE  /\ t.seen.version <= line'[t.line].version
             /\ t.seen.version = line'[t.line].version => t.seen = line'[t.line]
  <2>1. /\ t.line \in Lines
        /\ t.seen.version <= line[t.line].version
        /\ t.seen.version = line[t.line].version => t.seen = line[t.line]
    BY <1>1, <1>6 DEF TaskSound
  <2>2. line'[t.line] = line[t.line] \/ line'[t.line].version > line[t.line].version
    BY <2>1 DEF Forward
  <2>3. t.seen \in LineRows
    BY <1>6, TaskOf DEF EditTasks, IssueTasks, VoidTasks
  <2>4. line[t.line].version \in Nat /\ line'[t.line].version \in Nat /\ t.seen.version \in Nat
    <3>1. line[t.line] \in LineRows
      BY <2>1 DEF RowsTyped, Lines
    <3>2. t.line \in Lines'
      BY <2>1 DEF Forward
    <3>3. line'[t.line] \in LineRows
      BY <3>2 DEF RowsTyped, Lines
    <3> QED  BY <2>3, <3>1, <3>3 DEF LineRows
  <2> QED  BY <2>1, <2>2, <2>4
<1> HIDE DEF t
<1> QED  BY <1>1, <1>2, <1>3, <1>4, <1>5, <1>6 DEF TaskSound, t

LEMMA Undisturbing ==
  ASSUME RowsTyped, RowsTyped', Calling, Forward, Undisturbed, task' \in [Workers -> Tasks]
  PROVE  Calling'
<1>1. TasksTyped'
  <2> SUFFICES ASSUME NEW v \in Workers PROVE TaskSound(task[v])'
    BY DEF TasksTyped
  <2>1. CASE task'[v] = Idle
    BY <2>1 DEF Idle, TaskSound
  <2>2. CASE task'[v] # Idle
    BY <2>2, SoundForward DEF Undisturbed, Calling
  <2> QED  BY <2>1, <2>2
<1>2. \A v \in Workers : task'[v] = task[v] \/ task'[v] = Idle
  BY DEF Undisturbed
<1>3. Exclusion'
  BY <1>2, IdleHolds DEF Exclusion, Calling, HoldsMission, HoldsLine, HoldsCounter, Flips
<1>4. ASSUME NEW v \in Workers PROVE CheckStands(task[v])'
  <2>1. CASE task'[v] = Idle
    BY <2>1 DEF Idle, CheckStands, HoldsLine, HoldsCounter, Flips
  <2>2. CASE task'[v] # Idle
    <3>1. task'[v] = task[v] /\ CheckStands(task[v])
      BY <2>2 DEF Undisturbed, Calling, ChecksStand
    <3>2. HoldsMission(task[v]) => mission' = mission /\ line' = line
      BY <2>2 DEF Undisturbed
    <3>3. task[v].op = "Budget" /\ task[v].step = 1 => BooksOpen'
      BY <3>1, <3>2 DEF CheckStands, HoldsMission, BooksOpen
    <3>4. task[v].op = "PerDiem" /\ task[v].step = 2 => BooksOpen'
      BY <3>1, <3>2 DEF CheckStands, HoldsMission, BooksOpen
    <3>5. task[v].op = "Stage" /\ task[v].step = 2 => SettlementComplete'
      BY <3>1, <3>2 DEF CheckStands, HoldsMission, SettlementComplete, ActiveIncome, Lines
    <3>6. HoldsLine(task[v]) => line'[task[v].line] = task[v].seen
      BY <2>2, <3>1 DEF CheckStands, Undisturbed
    <3>7. HoldsCounter(task[v]) => LiveInvoices(task[v].line)' = {}
      <4>1. HoldsCounter(task[v]) => \A l : LiveInvoices(l)' \subseteq LiveInvoices(l)
        BY <2>2 DEF Undisturbed
      <4>2. HoldsCounter(task[v]) => LiveInvoices(task[v].line) = {}
        BY <3>1 DEF CheckStands
      <4> QED  BY <3>1, <4>1, <4>2 DEF LiveInvoices
    <3> QED  BY <3>1, <3>3, <3>4, <3>5, <3>6, <3>7 DEF CheckStands, HoldsLine, HoldsCounter, Flips
  <2> QED  BY <2>1, <2>2
<1> QED  BY <1>1, <1>3, <1>4 DEF Calling, ChecksStand

LEMMA MoneyKept ==
  ASSUME Money, UNCHANGED <<mission, line, head>>
  PROVE  Money'
BY DEF Money, SettledIsComplete, PoolIsLanded, PaidUnderLive, LivesAgree, Lines, Heads, Live, Landed

LEMMA DataForward ==
  ASSUME UNCHANGED data
  PROVE  Forward
BY DEF data, Forward, Lines, Invoices, Heads

\* A call that ends disturbs no other.
LEMMA Ends ==
  ASSUME RowsTyped, RowsTyped', Calling, Forward, NEW w \in Workers, Done(w),
         \A v \in Workers \ {w} :
           /\ HoldsMission(task[v]) => UNCHANGED <<mission, line>>
           /\ HoldsLine(task[v]) => line'[task[v].line] = line[task[v].line]
           /\ HoldsCounter(task[v]) => \A l : LiveInvoices(l)' \subseteq LiveInvoices(l)
  PROVE  Calling'
<1>1. task \in [Workers -> Tasks]
  BY DEF Calling, TasksTyped
<1>2. task' \in [Workers -> Tasks]
  BY <1>1, IdleHolds DEF Done
<1>3. \A v \in Workers : task'[v] # Idle => v # w /\ task'[v] = task[v]
  BY <1>1 DEF Done
<1>4. Undisturbed
  BY <1>3 DEF Undisturbed
<1> QED  BY <1>2, <1>4, Undisturbing

\* A call ends with nothing written.
LEMMA GivesUp ==
  ASSUME IInv, NEW w \in Workers, Done(w), UNCHANGED <<data, calls>>
  PROVE  IInv'
<1>1. UNCHANGED data /\ calls' = calls /\ Done(w)
  OBVIOUS
<1>2. RowsTyped'
  BY <1>1 DEF IInv, RowsTyped, data, Lines, Invoices, Heads
<1>3. Calling'
  <2>1. \A l : LiveInvoices(l)' = LiveInvoices(l)
    BY <1>1 DEF data, LiveInvoices, Invoices, Issued
  <2> QED  BY <1>1, <1>2, <2>1, DataForward, Ends DEF IInv, Calling, data
<1>4. Money'
  BY <1>1, MoneyKept DEF IInv, Money, data
<1> QED  BY <1>2, <1>3, <1>4 DEF IInv, Calling, Money

-----------------------------------------------------------------------------
(* A call starts.                                                           *)

LEMMA StartStep ==
  ASSUME IInv, NEW w \in Workers, NEW t \in Tasks, t.step = 0, TaskSound(t), Start(w, t)
  PROVE  IInv'
<1>1. UNCHANGED data /\ calls' = calls + 1 /\ calls < MaxCalls
  BY DEF Start
<1>2. RowsTyped'
  BY <1>1, CallsAssumption DEF IInv, RowsTyped, data, Lines, Invoices, Heads
<1>3. task \in [Workers -> Tasks] /\ task' = [task EXCEPT ![w] = t]
  BY DEF IInv, TasksTyped, Start
<1>4. task' \in [Workers -> Tasks] /\ task'[w] = t
      /\ \A v \in Workers \ {w} : task'[v] = task[v]
  BY <1>3
<1>5. TaskSound(task[w])'
  BY <1>1, <1>4 DEF TaskSound, data, Lines, Invoices, Heads
<1>6. \A v \in Workers \ {w} : TaskSound(task[v])'
  BY <1>1, <1>2, <1>4, DataForward, SoundForward DEF IInv
<1>7. ~HoldsMission(t) /\ ~HoldsLine(t) /\ ~HoldsCounter(t)
  BY DEF HoldsMission, HoldsLine, HoldsCounter
<1>8. Exclusion'
  BY <1>4, <1>7 DEF IInv, Exclusion, HoldsMission, HoldsLine, HoldsCounter, Flips
<1>9. CheckStands(task[w])'
  BY <1>4, <1>7 DEF CheckStands, HoldsLine, HoldsCounter, Flips
<1>10. \A v \in Workers \ {w} : CheckStands(task[v])'
  BY <1>1, <1>4 DEF IInv, ChecksStand, CheckStands, HoldsLine, HoldsCounter, Flips, data, BooksOpen,
     SettlementComplete, ActiveIncome, Lines, LiveInvoices, Invoices, Issued
<1>11. Money'
  BY <1>1, MoneyKept DEF IInv, Money, data
<1> QED
  BY <1>2, <1>4, <1>5, <1>6, <1>8, <1>9, <1>10, <1>11 DEF IInv, TasksTyped, ChecksStand, Money

LEMMA RowAt ==
  ASSUME RowsTyped
  PROVE  /\ Lines \subseteq Nat /\ \A l \in Lines : line[l] \in LineRows
         /\ Invoices \subseteq Nat /\ \A i \in Invoices : invoice[i] \in InvoiceRows
         /\ Heads \subseteq Nat /\ \A h \in Heads : head[h] \in HeadRows
BY DEF RowsTyped, Lines, Invoices, Heads

LEMMA HeadAt ==
  ASSUME NEW row \in HeadRows
  PROVE  \E s \in Splits : row \in HeadRowsOf(s)
BY DEF HeadRows

LEMMA NextStageTyped ==
  ASSUME NEW s \in StageNames
  PROVE  /\ NextStage(s) \in StageNames \cup {"none"}
         /\ s # "Settled" => NextStage(s) \in StageNames
<1> DEFINE i == CHOOSE n \in DOMAIN Stages : Stages[n] = s
<1>1. i \in DOMAIN Stages /\ Stages[i] = s
  BY DEF StageNames
<1>2. DOMAIN Stages = 1..6 /\ Len(Stages) = 6 /\ Stages[6] = "Settled"
  BY DEF Stages
<1>3. NextStage(s) = IF i = 6 THEN "none" ELSE Stages[i + 1]
  BY <1>2 DEF NextStage
<1>4. i # 6 => i + 1 \in DOMAIN Stages
  BY <1>1, <1>2
<1> HIDE DEF i
<1> QED  BY <1>1, <1>2, <1>3, <1>4 DEF StageNames

LEMMA EditsArePatches ==
  ASSUME NEW row \in LineRows, NEW p \in Edits(row)
  PROVE  p \in Patches /\ ("status" \in DOMAIN p => row.income)
<1> DEFINE pay == [status: PaymentStatuses, received: (Amounts \ {row.amount}) \cup {None}]
<1>1. CASE \E a \in Amounts : p = [amount |-> a]
  BY <1>1 DEF Patches
<1>2. CASE p = [active |-> FALSE]
  BY <1>2 DEF Patches
<1>3. CASE row.income /\ p \in pay
  BY <1>3 DEF Patches
<1>4. \/ \E a \in Amounts : p = [amount |-> a]
      \/ p = [active |-> FALSE]
      \/ row.income /\ p \in pay
  BY DEF Edits
<1> QED  BY <1>1, <1>2, <1>3, <1>4

LEMMA StartsStep ==
  ASSUME IInv, NEW w \in Workers, Starts(w)
  PROVE  IInv'
<1> USE DEF TaskSound
<1>1. RowsTyped
  BY DEF IInv
<1>2. CASE StartEdit(w)
  <2>0. PICK l \in Lines :
          line[l].active
          /\ \E p \in Edits(line[l]) :
               Start(w, [op |-> "Edit", step |-> 0, line |-> l, seen |-> line[l], patch |-> p])
    BY <1>2 DEF StartEdit
  <2>1. PICK p \in Edits(line[l]) :
          Start(w, [op |-> "Edit", step |-> 0, line |-> l, seen |-> line[l], patch |-> p])
    BY <2>0
  <2>2. line[l] \in LineRows /\ l \in Nat
    BY <1>1, RowAt
  <2>3. p \in Patches /\ ("status" \in DOMAIN p => line[l].income)
    BY <2>2, EditsArePatches
  <2> DEFINE t == [op |-> "Edit", step |-> 0, line |-> l, seen |-> line[l], patch |-> p]
  <2>4. t \in Tasks
    BY <2>2, <2>3 DEF Tasks, EditTasks
  <2>5. TaskSound(t)
    BY <2>0, <2>2, <2>3 DEF LineRows
  <2>6. t.step = 0 /\ Start(w, t)
    BY <2>1
  <2> HIDE DEF t
  <2> QED  BY <2>4, <2>5, <2>6, StartStep
<1>3. CASE StartStage(w)
  <2> DEFINE t == [op |-> "Stage", step |-> 0, to |-> NextStage(mission.stage), version |-> mission.version]
  <2>1. mission.stage \in StageNames /\ mission.version \in Nat
    BY <1>1 DEF RowsTyped, MissionRows
  <2>2. t \in Tasks
    BY <2>1, NextStageTyped DEF Tasks, StageTasks
  <2>3. TaskSound(t) /\ t.step = 0 /\ Start(w, t)
    BY <1>3 DEF StartStage
  <2> HIDE DEF t
  <2> QED  BY <2>2, <2>3, StartStep
<1>4. CASE StartBudget(w)
  <2>1. PICK a \in Rates \cup {None} :
          Start(w, [op |-> "Budget", step |-> 0, seen |-> budget, amount |-> a])
    BY <1>4 DEF StartBudget
  <2> DEFINE t == [op |-> "Budget", step |-> 0, seen |-> budget, amount |-> a]
  <2>2. t \in Tasks
    BY <1>1 DEF Tasks, BudgetTasks, RowsTyped
  <2>3. TaskSound(t) /\ t.step = 0 /\ Start(w, t)
    BY <2>1
  <2> HIDE DEF t
  <2> QED  BY <2>2, <2>3, StartStep
<1>5. CASE StartCreate(w)
  <2>1. PICK l \in Lines, org \in OrgShares, split \in Splits :
          Start(w, [op |-> "Create", step |-> 0, line |-> l, org |-> org, split |-> split])
    BY <1>5 DEF StartCreate
  <2> DEFINE t == [op |-> "Create", step |-> 0, line |-> l, org |-> org, split |-> split]
  <2>2. t \in Tasks
    BY <1>1, RowAt DEF Tasks, CreateTasks
  <2>3. TaskSound(t) /\ t.step = 0 /\ Start(w, t)
    BY <2>1
  <2> HIDE DEF t
  <2> QED  BY <2>2, <2>3, StartStep
<1>6. CASE StartPayout(w)
  <2>0. PICK h \in Heads : \E p \in DOMAIN head[h].shares :
          Start(w, [op |-> "Payout", step |-> 0, head |-> h, person |-> p,
                    paid |-> ~head[h].shares[p].paid, version |-> head[h].shares[p].version])
    BY <1>6 DEF StartPayout
  <2>1. PICK p \in DOMAIN head[h].shares :
          Start(w, [op |-> "Payout", step |-> 0, head |-> h, person |-> p,
                    paid |-> ~head[h].shares[p].paid, version |-> head[h].shares[p].version])
    BY <2>0
  <2> DEFINE t == [op |-> "Payout", step |-> 0, head |-> h, person |-> p,
                    paid |-> ~head[h].shares[p].paid, version |-> head[h].shares[p].version]
  <2>2. PICK s \in Splits : head[h] \in HeadRowsOf(s)
    BY <1>1, RowAt, HeadAt
  <2>3. head[h].shares \in [DOMAIN s -> ShareRows]
    BY <2>2 DEF HeadRowsOf
  <2>4. p \in DOMAIN s /\ head[h].shares[p] \in ShareRows
    BY <2>3
  <2>5. p \in People /\ head[h].shares[p].version \in Nat
    BY <2>4 DEF People, ShareRows
  <2>6. t \in Tasks
    BY <1>1, <2>5, RowAt DEF Tasks, PayoutTasks
  <2>7. TaskSound(t) /\ t.step = 0 /\ Start(w, t)
    BY <2>1
  <2> HIDE DEF t
  <2> QED  BY <2>6, <2>7, StartStep
<1>7. CASE StartRevoke(w)
  <2>1. PICK h \in Heads : Start(w, [op |-> "Revoke", step |-> 0, head |-> h, version |-> head[h].version])
    BY <1>7 DEF StartRevoke
  <2> DEFINE t == [op |-> "Revoke", step |-> 0, head |-> h, version |-> head[h].version]
  <2>2. h \in Nat /\ head[h].version \in Nat
    BY <1>1, RowAt, HeadAt DEF HeadRowsOf
  <2>3. t \in Tasks
    BY <2>2 DEF Tasks, RevokeTasks
  <2>4. TaskSound(t) /\ t.step = 0 /\ Start(w, t)
    BY <2>1
  <2> HIDE DEF t
  <2> QED  BY <2>3, <2>4, StartStep
<1>8. CASE StartIssue(w)
  <2>1. PICK l \in ActiveIncome :
          line[l].status = "Expected"
          /\ Start(w, [op |-> "Issue", step |-> 0, line |-> l, seen |-> line[l]])
    BY <1>8 DEF StartIssue
  <2> DEFINE t == [op |-> "Issue", step |-> 0, line |-> l, seen |-> line[l]]
  <2>2. l \in Lines /\ l \in Nat /\ line[l] \in LineRows
    BY <1>1, RowAt DEF ActiveIncome
  <2>3. t \in Tasks
    BY <2>2 DEF Tasks, IssueTasks
  <2>4. TaskSound(t)
    BY <2>1, <2>2 DEF LineRows
  <2>5. t.step = 0 /\ Start(w, t)
    BY <2>1
  <2> HIDE DEF t
  <2> QED  BY <2>3, <2>4, <2>5, StartStep
<1>9. CASE StartVoid(w)
  <2>1. PICK i \in Invoices :
          Start(w, [op |-> "Void", step |-> 0, invoice |-> i, version |-> invoice[i].version,
                    line |-> invoice[i].line,
                    seen |-> IF line[invoice[i].line].active THEN line[invoice[i].line] ELSE NoRow])
    BY <1>9 DEF StartVoid
  <2> DEFINE l == invoice[i].line
             seen == IF line[l].active THEN line[l] ELSE NoRow
             t == [op |-> "Void", step |-> 0, invoice |-> i, version |-> invoice[i].version,
                   line |-> l, seen |-> seen]
  <2>2. i \in Nat /\ invoice[i].version \in Nat /\ l \in Lines
    BY <1>1, RowAt DEF InvoiceRows, RowsTyped
  <2>3. l \in Nat /\ line[l] \in LineRows
    BY <1>1, <2>2, RowAt
  <2>4. t \in Tasks
    BY <2>2, <2>3 DEF Tasks, VoidTasks
  <2>5. line[l].version <= line[l].version
    BY <2>3 DEF LineRows
  <2>6. TaskSound(t)
    BY <2>1, <2>2, <2>5
  <2>7. t.step = 0 /\ Start(w, t)
    BY <2>1
  <2> HIDE DEF t
  <2> QED  BY <2>4, <2>6, <2>7, StartStep
<1>10. CASE StartPerDiem(w)
  <2>1. PICK r \in (Rates \cup {None}) \ {participant.rate} :
          Start(w, [op |-> "PerDiem", step |-> 0, rate |-> r, version |-> participant.version])
    BY <1>10 DEF StartPerDiem
  <2> DEFINE t == [op |-> "PerDiem", step |-> 0, rate |-> r, version |-> participant.version]
  <2>2. t \in Tasks
    BY <1>1 DEF Tasks, PerDiemTasks, RowsTyped, Participants
  <2>3. TaskSound(t) /\ t.step = 0 /\ Start(w, t)
    BY <2>1
  <2> HIDE DEF t
  <2> QED  BY <2>2, <2>3, StartStep
<1>11. CASE StartRoster(w)
  <2>1. PICK active \in BOOLEAN : Start(w, [op |-> "Roster", step |-> 0, active |-> active])
    BY <1>11 DEF StartRoster
  <2> DEFINE t == [op |-> "Roster", step |-> 0, active |-> active]
  <2>2. t \in Tasks
    BY DEF Tasks, RosterTasks
  <2>3. TaskSound(t) /\ t.step = 0 /\ Start(w, t)
    BY <2>1
  <2> HIDE DEF t
  <2> QED  BY <2>2, <2>3, StartStep
<1> QED
  BY <1>2, <1>3, <1>4, <1>5, <1>6, <1>7, <1>8, <1>9, <1>10, <1>11 DEF Starts

-----------------------------------------------------------------------------
(* A call takes its next locks.                                             *)

Advanced(t) == [t EXCEPT !.step = @ + 1]

\* What a call holds when it has moved on, it was granted.
Advances(w, t, new) ==
  /\ new \in Tasks /\ TaskSound(new) /\ CheckStands(new)
  /\ HoldsMission(new) => HoldsMission(t) \/ Update(MissionRow) \in Wanted(w)
  /\ HoldsLine(new) => Write(LineRowOf(new.line)) \in Wanted(w)
  /\ HoldsCounter(new) => Write(InvoiceCounter) \in Wanted(w)

LEMMA TakeAdvances ==
  ASSUME RowsTyped, TasksTyped, NEW w \in Workers, task[w] # Idle,
         task[w].step < Len(LocksOf(task[w])) - 1, Admitted(task[w])
  PROVE  Advances(w, task[w], Advanced(task[w]))
<1> DEFINE t == task[w]
           new == Advanced(t)
<1>1. t \in Tasks /\ TaskSound(t)
  BY TaskOf
<1>2. Wanted(w) = LocksOf(t)[t.step + 1]
  BY DEF Wanted
<1>3. CASE t.op = "Edit"
  <2>1. t \in EditTasks /\ LocksOf(t) = <<MissionLocked, {Write(LineRowOf(t.line))}>>
    BY <1>3, TaskOf, LocksOfOps DEF EditLocks
  <2>2. t.step = 0
    BY <2>1 DEF EditTasks
  <2>3. new = [op |-> "Edit", step |-> 1, line |-> t.line, seen |-> t.seen, patch |-> t.patch]
    BY <2>1, <2>2 DEF EditTasks, Advanced
  <2>4. new \in EditTasks /\ Wanted(w) = MissionLocked
    BY <1>2, <2>1, <2>2, <2>3 DEF EditTasks
  <2> HIDE DEF new, t
  <2>5. TaskSound(new) /\ CheckStands(new)
    BY <1>1, <1>3, <2>3 DEF TaskSound, CheckStands, HoldsLine, HoldsCounter, Flips
  <2>6. ~HoldsLine(new) /\ ~HoldsCounter(new)
    BY <2>3 DEF HoldsLine, HoldsCounter, Flips
  <2> QED  BY <2>4, <2>5, <2>6 DEF Advances, Tasks, MissionLocked, new, t
<1>4. CASE t.op = "Stage"
  <2>1. t \in StageTasks
    BY <1>4, TaskOf
  <2>2. \/ t.to = "Settled" /\ LocksOf(t) = <<MissionLocked, AllLines, {}>>
        \/ t.to # "Settled" /\ LocksOf(t) = <<MissionLocked, {}>>
    BY <1>4, LocksOfOps DEF StageLocks
  <2>3. t.step = 0 \/ (t.step = 1 /\ t.to = "Settled")
    <3>1. (t.to = "Settled" /\ Len(LocksOf(t)) = 3) \/ Len(LocksOf(t)) = 2
      BY <2>2
    <3>2. t.step \in 0..2
      BY <2>1 DEF StageTasks
    <3>3. Len(LocksOf(t)) = 3 => t.step < 3 - 1
      OBVIOUS
    <3>4. Len(LocksOf(t)) = 2 => t.step < 2 - 1
      OBVIOUS
    <3> HIDE DEF t
    <3> QED  BY <3>1, <3>2, <3>3, <3>4
  <2>4. new = [op |-> "Stage", step |-> t.step + 1, to |-> t.to, version |-> t.version]
    BY <2>1 DEF StageTasks, Advanced
  <2>5. new \in StageTasks /\ (t.step = 0 => Wanted(w) = MissionLocked)
    BY <1>2, <2>1, <2>2, <2>3, <2>4 DEF StageTasks
  <2>6. t.step = 0 => BooksOpen /\ t.to = NextStage(mission.stage)
    BY <1>4 DEF Admitted
  <2>7. t.step = 1 => SettlementComplete
    BY <1>4 DEF Admitted
  <2>8. t.step = 0 => t.to \in StageNames
    BY <2>6, NextStageTyped DEF BooksOpen, RowsTyped, MissionRows
  <2>9. t.step = 1 => HoldsMission(t)
    BY <1>4 DEF HoldsMission
  <2> HIDE DEF new, t
  <2>10. TaskSound(new) /\ CheckStands(new)
    BY <1>1, <1>4, <2>3, <2>4, <2>7, <2>8 DEF TaskSound, CheckStands, HoldsLine, HoldsCounter, Flips
  <2>11. ~HoldsLine(new) /\ ~HoldsCounter(new)
    BY <2>4 DEF HoldsLine, HoldsCounter, Flips
  <2> QED  BY <2>3, <2>5, <2>9, <2>10, <2>11 DEF Advances, Tasks, MissionLocked, new, t
<1>5. CASE t.op = "Budget"
  <2>1. t \in BudgetTasks /\ LocksOf(t) = <<MissionLocked, {}>>
    BY <1>5, TaskOf, LocksOfOps DEF BudgetLocks
  <2>2. t.step = 0
    BY <2>1 DEF BudgetTasks
  <2>3. new = [op |-> "Budget", step |-> 1, seen |-> t.seen, amount |-> t.amount]
    BY <2>1, <2>2 DEF BudgetTasks, Advanced
  <2>4. new \in BudgetTasks /\ Wanted(w) = MissionLocked
    BY <1>2, <2>1, <2>2, <2>3 DEF BudgetTasks
  <2>5. BooksOpen
    BY <1>5 DEF Admitted
  <2> HIDE DEF new, t
  <2>6. TaskSound(new) /\ CheckStands(new)
    BY <2>3, <2>5 DEF TaskSound, CheckStands, HoldsLine, HoldsCounter, Flips
  <2>7. ~HoldsLine(new) /\ ~HoldsCounter(new)
    BY <2>3 DEF HoldsLine, HoldsCounter, Flips
  <2> QED  BY <2>4, <2>6, <2>7 DEF Advances, Tasks, MissionLocked, new, t
<1>6. CASE t.op = "Create"
  <2>1. t \in CreateTasks /\ LocksOf(t) = <<MissionLocked, AllLines>>
    BY <1>6, TaskOf, LocksOfOps DEF CreateLocks
  <2>2. t.step = 0
    BY <2>1 DEF CreateTasks
  <2>3. new = [op |-> "Create", step |-> 1, line |-> t.line, org |-> t.org, split |-> t.split]
    BY <2>1, <2>2 DEF CreateTasks, Advanced
  <2>4. new \in CreateTasks /\ Wanted(w) = MissionLocked
    BY <1>2, <2>1, <2>2, <2>3 DEF CreateTasks
  <2> HIDE DEF new, t
  <2>5. TaskSound(new) /\ CheckStands(new)
    BY <1>1, <1>6, <2>3 DEF TaskSound, CheckStands, HoldsLine, HoldsCounter, Flips
  <2>6. ~HoldsLine(new) /\ ~HoldsCounter(new)
    BY <2>3 DEF HoldsLine, HoldsCounter, Flips
  <2> QED  BY <2>4, <2>5, <2>6 DEF Advances, Tasks, MissionLocked, new, t
<1>7. CASE t.op = "Payout"
  <2>1. t \in PayoutTasks /\ Len(LocksOf(t)) = 2
    BY <1>7, TaskOf, LocksOfOps DEF PayoutLocks
  <2>2. t.step = 0
    BY <2>1 DEF PayoutTasks
  <2>3. new = [op |-> "Payout", step |-> 1, head |-> t.head, person |-> t.person, paid |-> t.paid,
               version |-> t.version]
    BY <2>1, <2>2 DEF PayoutTasks, Advanced
  <2>4. new \in PayoutTasks
    BY <2>1, <2>3 DEF PayoutTasks
  <2> HIDE DEF new, t
  <2>5. TaskSound(new) /\ CheckStands(new)
    BY <1>1, <1>7, <2>3 DEF TaskSound, CheckStands, HoldsLine, HoldsCounter, Flips
  <2>6. ~HoldsLine(new) /\ ~HoldsCounter(new) /\ ~HoldsMission(new)
    BY <2>3 DEF HoldsLine, HoldsCounter, HoldsMission, Flips
  <2> QED  BY <2>4, <2>5, <2>6 DEF Advances, Tasks, new, t
<1>8. CASE t.op = "Revoke"
  <2>1. t \in RevokeTasks /\ Len(LocksOf(t)) = 2
    BY <1>8, TaskOf, LocksOfOps DEF RevokeLocks
  <2>2. t.step = 0
    BY <2>1 DEF RevokeTasks
  <2>3. new = [op |-> "Revoke", step |-> 1, head |-> t.head, version |-> t.version]
    BY <2>1, <2>2 DEF RevokeTasks, Advanced
  <2>4. new \in RevokeTasks
    BY <2>1, <2>3 DEF RevokeTasks
  <2> HIDE DEF new, t
  <2>5. TaskSound(new) /\ CheckStands(new)
    BY <1>1, <1>8, <2>3 DEF TaskSound, CheckStands, HoldsLine, HoldsCounter, Flips
  <2>6. ~HoldsLine(new) /\ ~HoldsCounter(new) /\ ~HoldsMission(new)
    BY <2>3 DEF HoldsLine, HoldsCounter, HoldsMission, Flips
  <2> QED  BY <2>4, <2>5, <2>6 DEF Advances, Tasks, new, t
<1>9. CASE t.op = "Issue"
  <2>1. t \in IssueTasks /\ LocksOf(t) = IssueLocks(t)
    BY <1>9, TaskOf, LocksOfOps
  <2>2. t.step = 0
    BY <2>1 DEF IssueTasks, IssueLocks
  <2>3. new = [op |-> "Issue", step |-> 1, line |-> t.line, seen |-> t.seen]
    BY <2>1, <2>2 DEF IssueTasks, Advanced
  <2>4. new \in IssueTasks /\ Write(InvoiceCounter) \in Wanted(w)
    BY <1>2, <2>1, <2>2, <2>3 DEF IssueTasks, IssueLocks
  <2>5. LiveInvoices(t.line) = {}
    BY <1>9 DEF Admitted
  <2> HIDE DEF new, t
  <2>6. TaskSound(new) /\ CheckStands(new)
    BY <1>1, <1>9, <2>3, <2>5 DEF TaskSound, CheckStands, HoldsLine, HoldsCounter, Flips
  <2>7. ~HoldsLine(new) /\ ~HoldsMission(new)
    BY <2>3 DEF HoldsLine, HoldsMission, Flips
  <2> QED  BY <2>4, <2>6, <2>7 DEF Advances, Tasks, new, t
<1>10. CASE t.op = "Void"
  <2>1. t \in VoidTasks /\ LocksOf(t) = VoidLocks(t)
    BY <1>10, TaskOf, LocksOfOps
  <2>2. t.step = 0
    BY <2>1 DEF VoidTasks, VoidLocks
  <2>3. new = [op |-> "Void", step |-> 1, invoice |-> t.invoice, version |-> t.version, line |-> t.line,
               seen |-> t.seen]
    BY <2>1, <2>2 DEF VoidTasks, Advanced
  <2>4. new \in VoidTasks
    BY <2>1, <2>3 DEF VoidTasks
  <2>5. Flips(new) => Flips(t) /\ Write(LineRowOf(t.line)) \in Wanted(w)
    BY <1>2, <1>10, <2>1, <2>2, <2>3 DEF Flips, VoidLocks
  <2>6. Flips(new) => UnchangedSince(t.line, t.seen)
    BY <1>10, <2>5 DEF Admitted, Flips
  <2>7. Flips(new) => line[t.line] = t.seen
    BY <1>1, <2>5, <2>6 DEF UnchangedSince, TaskSound, Flips
  <2> HIDE DEF new, t
  <2>8. TaskSound(new) /\ CheckStands(new)
    BY <1>1, <1>10, <2>3, <2>7 DEF TaskSound, CheckStands, HoldsLine, HoldsCounter
  <2>9. ~HoldsCounter(new) /\ ~HoldsMission(new) /\ new.line = t.line
    BY <2>3 DEF HoldsCounter, HoldsMission
  <2> QED  BY <2>4, <2>5, <2>8, <2>9 DEF Advances, Tasks, HoldsLine, new, t
<1>11. CASE t.op = "PerDiem"
  <2>1. t \in PerDiemTasks /\ LocksOf(t) = <<{Write(ParticipantRow)}, MissionLocked, {}>>
    BY <1>11, TaskOf, LocksOfOps DEF PerDiemLocks
  <2>2. t.step \in {0, 1}
    BY <2>1 DEF PerDiemTasks
  <2>3. new = [op |-> "PerDiem", step |-> t.step + 1, rate |-> t.rate, version |-> t.version]
    BY <2>1 DEF PerDiemTasks, Advanced
  <2>4. new \in PerDiemTasks /\ (t.step = 1 => Wanted(w) = MissionLocked /\ BooksOpen)
    <3>1. new \in PerDiemTasks
      BY <2>1, <2>2, <2>3 DEF PerDiemTasks
    <3>2. t.step = 1 => Wanted(w) = MissionLocked
      BY <1>2, <2>1
    <3>3. t.step = 1 => BooksOpen
      BY <1>11 DEF Admitted
    <3> QED  BY <3>1, <3>2, <3>3
  <2> HIDE DEF new, t
  <2>5. TaskSound(new) /\ CheckStands(new)
    BY <2>2, <2>3, <2>4 DEF TaskSound, CheckStands, HoldsLine, HoldsCounter, Flips
  <2>6. ~HoldsLine(new) /\ ~HoldsCounter(new) /\ (HoldsMission(new) => t.step = 1)
    BY <2>2, <2>3 DEF HoldsLine, HoldsCounter, HoldsMission, Flips
  <2> QED  BY <2>4, <2>5, <2>6 DEF Advances, Tasks, MissionLocked, new, t
<1>12. CASE t.op = "Roster"
  <2>1. t \in RosterTasks /\ Len(LocksOf(t)) = 2
    BY <1>12, TaskOf, LocksOfOps DEF RosterLocks
  <2>2. t.step = 0
    BY <2>1 DEF RosterTasks
  <2>3. new = [op |-> "Roster", step |-> 1, active |-> t.active]
    BY <2>1, <2>2 DEF RosterTasks, Advanced
  <2>4. new \in RosterTasks
    BY <2>1, <2>3 DEF RosterTasks
  <2> HIDE DEF new, t
  <2>5. TaskSound(new) /\ CheckStands(new)
    BY <2>3 DEF TaskSound, CheckStands, HoldsLine, HoldsCounter, Flips
  <2>6. ~HoldsLine(new) /\ ~HoldsCounter(new) /\ ~HoldsMission(new)
    BY <2>3 DEF HoldsLine, HoldsCounter, HoldsMission, Flips
  <2> QED  BY <2>4, <2>5, <2>6 DEF Advances, Tasks, new, t
<1>13. t.op \in {"Edit", "Stage", "Budget", "Create", "Payout", "Revoke", "Issue", "Void", "PerDiem",
                 "Roster"}
  BY <1>1 DEF Tasks, EditTasks, StageTasks, BudgetTasks, CreateTasks, PayoutTasks, RevokeTasks,
     IssueTasks, VoidTasks, PerDiemTasks, RosterTasks
<1> QED
  BY <1>3, <1>4, <1>5, <1>6, <1>7, <1>8, <1>9, <1>10, <1>11, <1>12, <1>13

LEMMA TakeStep ==
  ASSUME IInv, NEW w \in Workers, Take(w)
  PROVE  IInv'
<1> DEFINE new == Advanced(task[w])
<1>1. UNCHANGED data /\ calls' = calls /\ Granted(w) /\ task[w] # Idle
      /\ task[w].step < Len(LocksOf(task[w])) - 1
  BY DEF Take
<1>2. task \in [Workers -> Tasks]
      /\ task' = [task EXCEPT ![w] = IF Admitted(task[w]) THEN new ELSE Idle]
  <2>1. task \in [Workers -> Tasks]
    BY DEF IInv, TasksTyped
  <2>2. task' = [task EXCEPT ![w] = IF Admitted(task[w]) THEN new ELSE Idle]
    BY Zenon DEF Take, Advanced
  <2> QED  BY <2>1, <2>2
<1>3. RowsTyped'
  BY <1>1 DEF IInv, RowsTyped, data, Lines, Invoices, Heads
<1>4. Money'
  BY <1>1, MoneyKept DEF IInv, Money, data
<1>5. CASE ~Admitted(task[w])
  <2>1. Done(w)
    BY <1>2, <1>5 DEF Done
  <2>2. \A l : LiveInvoices(l)' = LiveInvoices(l)
    BY <1>1 DEF data, LiveInvoices, Invoices, Issued
  <2>3. Calling'
    BY <1>1, <1>3, <2>1, <2>2, DataForward, Ends DEF IInv, Calling, data
  <2> QED  BY <1>3, <1>4, <2>3 DEF IInv, Calling, Money
<1>6. CASE Admitted(task[w])
  <2>1. Advances(w, task[w], new)
    BY <1>1, <1>6, TakeAdvances DEF IInv
  <2> HIDE DEF new
  <2>2. task' \in [Workers -> Tasks] /\ task'[w] = new
        /\ \A v \in Workers \ {w} : task'[v] = task[v]
    BY <1>2, <1>6, <2>1 DEF Advances
  <2>3. TaskSound(task[w])'
    BY <1>1, <2>1, <2>2 DEF Advances, TaskSound, data, Lines, Invoices, Heads
  <2>4. \A v \in Workers \ {w} : TaskSound(task[v])'
    BY <1>1, <1>3, <2>2, DataForward, SoundForward DEF IInv
  <2>5. ASSUME NEW v \in Workers \ {w}
        PROVE  /\ ~(HoldsMission(new) /\ HoldsMission(task[v]))
               /\ ~(HoldsLine(new) /\ HoldsLine(task[v]) /\ new.line = task[v].line)
               /\ ~(HoldsCounter(new) /\ HoldsCounter(task[v]))
    <3>1. ~(HoldsMission(new) /\ HoldsMission(task[v]))
      BY <1>1, <2>1, MissionFree DEF Advances, IInv, Exclusion
    <3>2. ~(HoldsLine(new) /\ HoldsLine(task[v]) /\ new.line = task[v].line)
      BY <1>1, <2>1, LineFreed DEF Advances, IInv
    <3>3. ~(HoldsCounter(new) /\ HoldsCounter(task[v]))
      BY <1>1, <2>1, CounterFree DEF Advances, IInv
    <3> QED  BY <3>1, <3>2, <3>3
  <2>6. Exclusion'
    BY <2>2, <2>5 DEF IInv, Exclusion, HoldsMission, HoldsLine, HoldsCounter, Flips
  <2>7. \A v \in Workers \ {w} : CheckStands(task[v])'
    BY <1>1, <2>2 DEF IInv, ChecksStand, CheckStands, HoldsLine, HoldsCounter, Flips, data, BooksOpen,
       SettlementComplete, ActiveIncome, Lines, LiveInvoices, Invoices, Issued
  <2>8. CheckStands(task[w])'
    BY <1>1, <2>1, <2>2 DEF Advances, CheckStands, HoldsLine, HoldsCounter, Flips, data, BooksOpen,
       SettlementComplete, ActiveIncome, Lines, LiveInvoices, Invoices, Issued
  <2> QED
    BY <1>3, <1>4, <2>2, <2>3, <2>4, <2>6, <2>7, <2>8 DEF IInv, TasksTyped, ChecksStand, Money
<1> QED  BY <1>5, <1>6

-----------------------------------------------------------------------------
(* A call commits.                                                          *)

LEMMA ReadyCall ==
  ASSUME TasksTyped, NEW w \in Workers, NEW op, Ready(w, op),
         op \in {"Edit", "Stage", "Budget", "Create", "Payout", "Revoke", "Issue", "Void", "PerDiem", "Roster"}
  PROVE  /\ task[w].op = op /\ Granted(w) /\ task[w] # Idle
         /\ Wanted(w) = LocksOf(task[w])[task[w].step + 1]
         /\ Len(LocksOf(task[w])) = 2 => task[w].step = 1
         /\ Len(LocksOf(task[w])) = 3 => task[w].step = 2
<1>1. task[w].op = op /\ Granted(w) /\ task[w] # Idle
  BY DEF Ready, Idle
<1>2. Len(LocksOf(task[w])) = 2 => task[w].step = 2 - 1
  BY DEF Ready
<1>3. Len(LocksOf(task[w])) = 3 => task[w].step = 3 - 1
  BY DEF Ready
<1> QED  BY <1>1, <1>2, <1>3 DEF Wanted

LEMMA ReadySteps ==
  ASSUME TasksTyped, NEW w \in Workers
  PROVE  /\ Ready(w, "Edit") => HoldsMission(task[w]) /\ Write(LineRowOf(task[w].line)) \in Wanted(w)
         /\ Ready(w, "Stage") => HoldsMission(task[w]) /\ task[w].to \in StageNames
                                 /\ (task[w].to = "Settled" => task[w].step = 2)
         /\ Ready(w, "Budget") => task[w].step = 1
         /\ Ready(w, "Create") => HoldsMission(task[w])
         /\ Ready(w, "PerDiem") => task[w].step = 2
         /\ Ready(w, "Issue") => HoldsCounter(task[w]) /\ Update(MissionRow) \in Wanted(w)
                                 /\ Write(LineRowOf(task[w].line)) \in Wanted(w)
         /\ Ready(w, "Void") /\ Flips(task[w]) => HoldsLine(task[w]) /\ Update(MissionRow) \in Wanted(w)
<1>1. ASSUME Ready(w, "Edit")
      PROVE  HoldsMission(task[w]) /\ Write(LineRowOf(task[w].line)) \in Wanted(w)
  <2>1. LocksOf(task[w]) = <<MissionLocked, {Write(LineRowOf(task[w].line))}>>
    BY <1>1, ReadyCall, LocksOfOps DEF EditLocks
  <2>2. task[w].step = 1
    BY <1>1, <2>1, ReadyCall
  <2> QED  BY <1>1, <2>1, <2>2, ReadyCall DEF HoldsMission
<1>2. ASSUME Ready(w, "Stage")
      PROVE  HoldsMission(task[w]) /\ task[w].to \in StageNames
             /\ (task[w].to = "Settled" => task[w].step = 2)
  <2>1. \/ task[w].to = "Settled" /\ LocksOf(task[w]) = <<MissionLocked, AllLines, {}>>
        \/ task[w].to # "Settled" /\ LocksOf(task[w]) = <<MissionLocked, {}>>
    BY <1>2, ReadyCall, LocksOfOps DEF StageLocks
  <2>2. \/ task[w].to = "Settled" /\ Len(LocksOf(task[w])) = 3
        \/ task[w].to # "Settled" /\ Len(LocksOf(task[w])) = 2
    BY <2>1
  <2>3. task[w].to = "Settled" => task[w].step = 2
    BY <1>2, <2>2, ReadyCall
  <2>4. task[w].step >= 1
    BY <1>2, <2>2, ReadyCall
  <2> QED  BY <1>2, <2>3, <2>4, ReadyCall, TaskOf DEF HoldsMission, TaskSound
<1>3. ASSUME Ready(w, "Budget") PROVE task[w].step = 1
  <2>1. LocksOf(task[w]) = <<MissionLocked, {}>>
    BY <1>3, ReadyCall, LocksOfOps DEF BudgetLocks
  <2> QED  BY <1>3, <2>1, ReadyCall
<1>4. ASSUME Ready(w, "Create") PROVE HoldsMission(task[w])
  <2>1. LocksOf(task[w]) = <<MissionLocked, AllLines>>
    BY <1>4, ReadyCall, LocksOfOps DEF CreateLocks
  <2>2. task[w].step = 1
    BY <1>4, <2>1, ReadyCall
  <2> QED  BY <1>4, <2>2, ReadyCall DEF HoldsMission
<1>5. ASSUME Ready(w, "PerDiem") PROVE task[w].step = 2
  <2>1. LocksOf(task[w]) = <<{Write(ParticipantRow)}, MissionLocked, {}>>
    BY <1>5, ReadyCall, LocksOfOps DEF PerDiemLocks
  <2> QED  BY <1>5, <2>1, ReadyCall
<1>6. ASSUME Ready(w, "Issue")
      PROVE  HoldsCounter(task[w]) /\ Update(MissionRow) \in Wanted(w)
             /\ Write(LineRowOf(task[w].line)) \in Wanted(w)
  <2>1. Len(LocksOf(task[w])) = 2
        /\ LocksOf(task[w])[2] = MissionLocked \cup {Write(LineRowOf(task[w].line))}
    BY <1>6, ReadyCall, LocksOfOps DEF IssueLocks
  <2>2. task[w].step = 1
    BY <1>6, <2>1, ReadyCall
  <2>3. Wanted(w) = MissionLocked \cup {Write(LineRowOf(task[w].line))}
    BY <1>6, <2>1, <2>2, ReadyCall
  <2> QED  BY <1>6, <2>2, <2>3, ReadyCall DEF HoldsCounter, MissionLocked
<1>7. ASSUME Ready(w, "Void"), Flips(task[w])
      PROVE  HoldsLine(task[w]) /\ Update(MissionRow) \in Wanted(w)
  <2>1. Len(LocksOf(task[w])) = 2 /\ LocksOf(task[w])[2] = MissionLocked
    BY <1>7, ReadyCall, LocksOfOps DEF VoidLocks, Flips
  <2>2. task[w].step = 1
    BY <1>7, <2>1, ReadyCall
  <2>3. Wanted(w) = MissionLocked
    BY <1>7, <2>1, <2>2, ReadyCall
  <2> QED  BY <1>7, <2>2, <2>3, ReadyCall DEF HoldsLine, MissionLocked
<1> QED  BY <1>1, <1>2, <1>3, <1>4, <1>5, <1>6, <1>7

\* Nobody else holds the mission while a call that holds it, or is granted it,
\* commits.
LEMMA MissionQuiet ==
  ASSUME TasksTyped, Exclusion, NEW w \in Workers,
         HoldsMission(task[w]) \/ (Granted(w) /\ Update(MissionRow) \in Wanted(w))
  PROVE  \A v \in Workers \ {w} : ~HoldsMission(task[v])
BY MissionFree DEF Exclusion

LEMMA SetLineEffect ==
  ASSUME RowsTyped, NEW l \in Lines, NEW patch \in Patches, "status" \in DOMAIN patch => line[l].income,
         SetLine(l, patch)
  PROVE  /\ line' \in Seq(LineRows) /\ Lines' = Lines
         /\ \A k \in Lines \ {l} : line'[k] = line[k]
         /\ line'[l] = Patched(line[l], patch)
         /\ line'[l].version > line[l].version
         /\ \A k \in Lines : line'[k].income <=> line'[k].status # "None"
<1> DEFINE row == line[l]
           new == Patched(row, patch)
<1>1. row \in LineRows /\ line \in Seq(LineRows) /\ (row.income <=> row.status # "None")
  BY RowAt DEF RowsTyped
<1>2. line' = [line EXCEPT ![l] = new]
  BY DEF SetLine
<1>3. /\ new \in LineRows /\ new.version = row.version + 1 /\ new.income = row.income
      /\ \A f \in DOMAIN patch : new[f] = patch[f]
      /\ \A f \in {"status", "received", "amount", "active"} \ DOMAIN patch : new[f] = row[f]
  BY <1>1, PatchedLine
<1>4. "status" \in DOMAIN patch => patch.status \in PaymentStatuses
  <2> USE DEF Patches
  <2>1. CASE patch \in [amount: Amounts]  BY <2>1
  <2>2. CASE patch \in [active: {FALSE}]  BY <2>2
  <2>3. CASE patch \in [status: PaymentStatuses, received: Amounts \cup {None}]  BY <2>3
  <2> QED  BY <2>1, <2>2, <2>3
<1>5. new.income <=> new.status # "None"
  <2>1. CASE "status" \in DOMAIN patch
    BY <1>3, <1>4, <2>1 DEF PaymentStatuses
  <2>2. CASE "status" \notin DOMAIN patch
    BY <1>1, <1>3, <2>2
  <2> QED  BY <2>1, <2>2
<1> HIDE DEF new
<1>6. /\ line' \in Seq(LineRows) /\ DOMAIN line' = DOMAIN line
      /\ \A k \in DOMAIN line : line'[k] = IF k = l THEN new ELSE line[k]
  BY <1>1, <1>2, <1>3, Replaced DEF Lines
<1>7. new.version > row.version
  BY <1>1, <1>3 DEF LineRows
<1> QED
  BY <1>5, <1>6, <1>7 DEF Lines, RowsTyped, new

LEMMA SetLineMoney ==
  ASSUME RowsTyped, Money, NEW l \in Lines, NEW patch \in Patches,
         "status" \in DOMAIN patch => line[l].income, SetLine(l, patch),
         BooksOpen, LineFree(l, patch), UNCHANGED <<mission, head>>
  PROVE  Money'
<1>1. SettledIsComplete'
  BY DEF SettledIsComplete, BooksOpen
<1>2. PaidUnderLive' /\ LivesAgree'
  BY DEF Money, PaidUnderLive, LivesAgree, Heads, Live
<1>3. ASSUME NEW h \in Heads, Live(h)
      PROVE  LET row == line'[head[h].line] IN
               row.active /\ row.status = "Received" /\ head[h].pool = Landed(row)
  <2>1. /\ head[h].line \in Lines
        /\ line[head[h].line].active /\ line[head[h].line].status = "Received"
        /\ head[h].pool = Landed(line[head[h].line])
    BY <1>3 DEF Money, PoolIsLanded, RowsTyped
  <2>2. CASE head[h].line # l
    BY <2>1, <2>2, SetLineEffect
  <2>3. CASE head[h].line = l
    <3>1. \A f \in DOMAIN patch : patch[f] = line[l][f]
      BY <1>3, <2>3 DEF LineFree, LiveHeads
    <3>2. line'[l] = Patched(line[l], patch) /\ line[l] \in LineRows
      BY SetLineEffect, RowAt
    <3>3. \A f \in {"status", "received", "amount", "active"} : line'[l][f] = line[l][f]
      BY <3>1, <3>2, PatchedLine
    <3>4. /\ line'[l].status = line[l].status /\ line'[l].received = line[l].received
          /\ line'[l].amount = line[l].amount /\ line'[l].active = line[l].active
      BY <3>3
    <3> QED  BY <2>1, <2>3, <3>4 DEF Landed
  <2> QED  BY <2>2, <2>3
<1>4. PoolIsLanded'
  BY <1>3 DEF PoolIsLanded, Heads, Live, Landed
<1> QED  BY <1>1, <1>2, <1>4 DEF Money

\* A commit that finds the version its call read finds the line it read.
LEMMA SameLine ==
  ASSUME TasksTyped, NEW w \in Workers, UnchangedSince(task[w].line, task[w].seen),
         task[w].op \in {"Edit", "Issue"}
  PROVE  line[task[w].line] = task[w].seen
BY DEF TasksTyped, TaskSound, UnchangedSince

LEMMA CommitEditStep ==
  ASSUME IInv, NEW w \in Workers, CommitEdit(w)
  PROVE  IInv'
<1> DEFINE t == task[w]
<1>1. Ready(w, "Edit") /\ Done(w) /\ UNCHANGED <<mission, budget, participant, invoice, head, calls>>
  BY DEF CommitEdit
<1>2. CASE UNCHANGED line
  BY <1>1, <1>2, GivesUp DEF data
<1>3. CASE MayWriteLine(t.line, t.seen, t.patch) /\ SetLine(t.line, t.patch)
  <2>1. RowsTyped /\ TasksTyped /\ Exclusion /\ ChecksStand /\ Money
    BY DEF IInv, Money
  <2>2. t.op = "Edit" /\ Granted(w)
    BY <1>1, <2>1, ReadyCall
  <2>3. t \in EditTasks /\ TaskSound(t)
    BY <2>1, <2>2, TaskOf
  <2>4. t.line \in Lines /\ t.patch \in Patches /\ ("status" \in DOMAIN t.patch => t.seen.income)
    BY <2>2, <2>3 DEF TaskSound, EditTasks
  <2>5. line[t.line] = t.seen /\ BooksOpen /\ LineFree(t.line, t.patch)
    BY <1>3, <2>1, <2>2, SameLine DEF MayWriteLine
  <2>6. HoldsMission(t) /\ Write(LineRowOf(t.line)) \in Wanted(w)
    BY <1>1, <2>1, ReadySteps
  <2>7. \A v \in Workers \ {w} : ~HoldsMission(task[v])
    BY <2>1, <2>6, MissionQuiet
  <2>8. \A v \in Workers \ {w} : ~(HoldsLine(task[v]) /\ task[v].line = t.line)
    BY <2>1, <2>2, <2>6, LineFreed
  <2> HIDE DEF t
  <2>9. Money'
    BY <1>1, <1>3, <2>1, <2>4, <2>5, SetLineMoney
  <2>10. /\ line' \in Seq(LineRows) /\ Lines' = Lines
         /\ \A k \in Lines \ {t.line} : line'[k] = line[k]
         /\ line'[t.line].version > line[t.line].version
         /\ \A k \in Lines : line'[k].income <=> line'[k].status # "None"
    BY <1>3, <2>1, <2>4, <2>5, SetLineEffect
  <2>11. RowsTyped'
    BY <1>1, <2>1, <2>10 DEF RowsTyped, Invoices, Heads
  <2>12. Forward
    BY <1>1, <2>10 DEF Forward, Invoices, Heads
  <2>13. \A v \in Workers \ {w} : HoldsLine(task[v]) => line'[task[v].line] = line[task[v].line]
    BY <2>1, <2>8, <2>10 DEF HoldsLine, Flips, TasksTyped, TaskSound
  <2>14. \A l : LiveInvoices(l)' = LiveInvoices(l)
    BY <1>1 DEF LiveInvoices, Invoices, Issued
  <2>15. Calling'
    BY <1>1, <2>1, <2>7, <2>11, <2>12, <2>13, <2>14, Ends DEF Calling
  <2> QED  BY <2>9, <2>11, <2>15 DEF IInv, Calling, Money
<1> QED  BY <1>2, <1>3 DEF CommitEdit

\* A commit that leaves lines and invoices alone.
LEMMA CommitsElsewhere ==
  ASSUME IInv, RowsTyped', NEW w \in Workers, Done(w), UNCHANGED <<line, invoice>>,
         UNCHANGED mission \/ \A v \in Workers \ {w} : ~HoldsMission(task[v]),
         \A h \in Heads : h \in Heads' /\ DOMAIN head'[h].shares = DOMAIN head[h].shares
  PROVE  Calling'
<1>1. Forward
  BY DEF Forward, Lines, Invoices
<1>2. \A l : LiveInvoices(l)' = LiveInvoices(l)
  BY DEF LiveInvoices, Invoices, Issued
<1> QED  BY <1>1, <1>2, Ends DEF IInv, Calling

LEMMA CommitStageStep ==
  ASSUME IInv, NEW w \in Workers, CommitStage(w)
  PROVE  IInv'
<1> DEFINE t == task[w]
<1>1. Ready(w, "Stage") /\ Done(w) /\ UNCHANGED <<line, budget, participant, invoice, head, calls>>
  BY DEF CommitStage
<1>2. CASE UNCHANGED mission
  BY <1>1, <1>2, GivesUp DEF data
<1>3. CASE mission' = Patched(mission, [stage |-> t.to])
  <2>1. RowsTyped /\ TasksTyped /\ Exclusion /\ ChecksStand /\ Money
    BY DEF IInv, Money
  <2>2. t.op = "Stage"
    BY <1>1, <2>1, ReadyCall
  <2>3. HoldsMission(t) /\ t.to \in StageNames /\ (t.to = "Settled" => t.step = 2)
    BY <1>1, <2>1, ReadySteps
  <2>4. \A v \in Workers \ {w} : ~HoldsMission(task[v])
    BY <2>1, <2>3, MissionQuiet
  <2>5. t.to = "Settled" => SettlementComplete
    BY <2>1, <2>2, <2>3 DEF ChecksStand, CheckStands
  <2> HIDE DEF t
  <2>6. mission \in MissionRows
    BY <2>1 DEF RowsTyped
  <2>7. mission' = [stage |-> t.to, active |-> mission.active, version |-> mission.version + 1]
    BY <1>3, <2>6, PatchedMission
  <2>8. mission' \in MissionRows /\ mission'.stage = t.to
    BY <2>3, <2>6, <2>7 DEF MissionRows
  <2>9. RowsTyped'
    BY <1>1, <2>1, <2>8 DEF RowsTyped, Lines, Invoices, Heads
  <2>10. SettledIsComplete'
    <3> SUFFICES ASSUME t.to = "Settled"
                 PROVE  /\ \E l \in Lines : line[l].active /\ line[l].status = "Received"
                        /\ \A l \in Lines : line[l].active => line[l].status \in {"Received", "None"}
      BY <1>1, <2>8 DEF SettledIsComplete, Lines
    <3>1. SettlementComplete /\ \A l \in Lines : line[l].income <=> line[l].status # "None"
      BY <2>1, <2>5 DEF RowsTyped
    <3> QED  BY <3>1 DEF SettlementComplete, ActiveIncome
  <2>11. Money'
    BY <1>1, <2>1, <2>10 DEF Money, PoolIsLanded, PaidUnderLive, LivesAgree, Heads, Live, Landed
  <2>12. Calling'
    BY <1>1, <2>4, <2>9, CommitsElsewhere DEF Heads
  <2> QED  BY <2>9, <2>11, <2>12 DEF IInv, Calling, Money
<1> QED  BY <1>2, <1>3 DEF CommitStage

LEMMA CommitBudgetStep ==
  ASSUME IInv, NEW w \in Workers, CommitBudget(w)
  PROVE  IInv'
<1>1. /\ Ready(w, "Budget") /\ Done(w) /\ UNCHANGED <<mission, line, participant, invoice, head, calls>>
      /\ budget' = BudgetAfter(task[w].amount)
  BY DEF CommitBudget
<1>2. RowsTyped /\ TasksTyped /\ Money
  BY DEF IInv, Money
<1>3. task[w].amount \in Rates \cup {None}
  BY <1>1, <1>2, ReadyCall, TaskOf DEF BudgetTasks
<1>4. budget \in {NoRow} \cup BudgetRows
  BY <1>2 DEF RowsTyped
<1>5. budget' \in {NoRow} \cup BudgetRows
  <2>1. CASE task[w].amount = None \/ budget = NoRow
    BY <1>1, <1>3, <2>1 DEF BudgetAfter, BudgetRows
  <2>2. CASE task[w].amount # None /\ budget # NoRow
    <3>1. budget' = [amount |-> task[w].amount, version |-> budget.version + 1]
      BY <1>1, <1>4, <2>2, PatchedBudget DEF BudgetAfter
    <3> QED  BY <1>3, <1>4, <2>2, <3>1 DEF BudgetRows
  <2> QED  BY <2>1, <2>2
<1>6. RowsTyped'
  BY <1>1, <1>2, <1>5 DEF RowsTyped, Lines, Invoices, Heads
<1>7. Calling'
  BY <1>1, <1>6, CommitsElsewhere DEF Heads
<1>8. Money'
  BY <1>1, <1>2, MoneyKept
<1> QED  BY <1>6, <1>7, <1>8 DEF IInv, Calling, Money

LEMMA CommitParticipantStep ==
  ASSUME IInv, NEW w \in Workers, CommitPerDiem(w) \/ CommitRoster(w)
  PROVE  IInv'
<1>1. Done(w) /\ UNCHANGED <<mission, line, budget, invoice, head, calls>>
  BY DEF CommitPerDiem, CommitRoster
<1>2. RowsTyped /\ TasksTyped /\ Money /\ participant \in Participants
  BY DEF IInv, Money, RowsTyped
<1>3. participant' \in Participants
  <2>1. CASE CommitPerDiem(w)
    <3>1. task[w].rate \in Rates \cup {None}
      BY <1>2, <2>1, ReadyCall, TaskOf DEF CommitPerDiem, PerDiemTasks
    <3>2. participant' = [active |-> participant.active, rate |-> task[w].rate,
                          version |-> participant.version + 1]
      BY <1>2, <2>1, PatchedParticipant DEF CommitPerDiem
    <3> QED  BY <1>2, <3>1, <3>2 DEF Participants
  <2>2. CASE CommitRoster(w)
    <3>1. task[w].active \in BOOLEAN
      BY <1>2, <2>2, ReadyCall, TaskOf DEF CommitRoster, RosterTasks
    <3>2. participant' = [active |-> task[w].active, rate |-> participant.rate,
                          version |-> participant.version + 1]
      BY <1>2, <2>2, PatchedParticipant DEF CommitRoster
    <3> QED  BY <1>2, <3>1, <3>2 DEF Participants
  <2> QED  BY <2>1, <2>2
<1>4. RowsTyped'
  BY <1>1, <1>2, <1>3 DEF RowsTyped, Lines, Invoices, Heads
<1>5. Calling'
  BY <1>1, <1>4, CommitsElsewhere DEF Heads
<1>6. Money'
  BY <1>1, <1>2, MoneyKept
<1> QED  BY <1>4, <1>5, <1>6 DEF IInv, Calling, Money

-----------------------------------------------------------------------------
(* Calls that hold one row only.                                            *)

LEMMA NewLine ==
  ASSUME NEW income \in BOOLEAN, NEW a \in Amounts
  PROVE  LET row == LineRow(income, IF income THEN "Expected" ELSE "None", a) IN
           row \in LineRows /\ (row.income <=> row.status # "None")
BY DEF LineRow, LineRows, PaymentStatuses

LEMMA AddLineStep ==
  ASSUME IInv, NEW income \in BOOLEAN, NEW a \in Amounts, AddLine(income, a)
  PROVE  IInv'
<1> DEFINE row == LineRow(income, IF income THEN "Expected" ELSE "None", a)
<1>1. /\ calls < MaxCalls /\ calls' = calls + 1 /\ BooksOpen /\ Blockers(MissionLocked) = {}
      /\ line' = Append(line, row) /\ UNCHANGED <<mission, budget, participant, invoice, head, task>>
  BY DEF AddLine
<1>2. RowsTyped /\ TasksTyped /\ Exclusion /\ ChecksStand /\ Money
  BY DEF IInv, Money
<1>3. row \in LineRows /\ (row.income <=> row.status # "None")
  BY NewLine
<1> HIDE DEF row
<1>4. /\ line' \in Seq(LineRows) /\ Lines' = Lines \cup {Len(line) + 1} /\ Lines = 1..Len(line)
      /\ Len(line) \in Nat /\ \A l \in Lines : line'[l] = line[l]
      /\ line'[Len(line) + 1] = row
  BY <1>1, <1>2, <1>3, Appended DEF RowsTyped, Lines
<1>5. RowsTyped'
  <2>1. \A l \in Lines' : line'[l].income <=> line'[l].status # "None"
    BY <1>2, <1>3, <1>4 DEF RowsTyped
  <2>2. calls' \in 0..MaxCalls
    BY <1>1, <1>2, CallsAssumption DEF RowsTyped
  <2> QED  BY <1>1, <1>2, <1>4, <2>1, <2>2 DEF RowsTyped, Invoices, Heads
<1>6. \A v \in Workers : ~HoldsMission(task[v])
  BY <1>1, <1>2, NobodyBlocks DEF MissionLocked
<1>7. Forward
  BY <1>1, <1>4 DEF Forward, Invoices, Heads
<1>8. Undisturbed
  <2>1. \A l : LiveInvoices(l)' = LiveInvoices(l)
    BY <1>1 DEF LiveInvoices, Invoices, Issued
  <2>2. \A v \in Workers : HoldsLine(task[v]) => task[v].line \in Lines
    BY <1>2 DEF HoldsLine, Flips, TasksTyped, TaskSound
  <2> QED  BY <1>1, <1>4, <1>6, <2>1, <2>2 DEF Undisturbed
<1>9. Calling'
  BY <1>1, <1>2, <1>5, <1>7, <1>8, Undisturbing DEF Calling, TasksTyped
<1>10. SettledIsComplete'
  BY <1>1 DEF SettledIsComplete, BooksOpen
<1>11. PoolIsLanded'
  BY <1>1, <1>2, <1>4 DEF Money, PoolIsLanded, RowsTyped, Heads, Live, Landed
<1>12. Money'
  BY <1>1, <1>2, <1>10, <1>11 DEF Money, PaidUnderLive, LivesAgree, Heads, Live
<1> QED  BY <1>5, <1>9, <1>12 DEF IInv, Calling, Money

LEMMA DeactivateMissionStep ==
  ASSUME IInv, DeactivateMission
  PROVE  IInv'
<1>1. /\ calls < MaxCalls /\ calls' = calls + 1 /\ Blockers({Write(MissionRow)}) = {}
      /\ mission' = Patched(mission, [active |-> FALSE])
      /\ UNCHANGED <<line, budget, participant, invoice, head, task>>
  BY DEF DeactivateMission
<1>2. RowsTyped /\ TasksTyped /\ Exclusion /\ ChecksStand /\ Money /\ mission \in MissionRows
  BY DEF IInv, Money, RowsTyped
<1>3. mission' = [stage |-> mission.stage, active |-> FALSE, version |-> mission.version + 1]
  BY <1>1, <1>2, PatchedMission
<1>4. mission' \in MissionRows /\ mission'.stage = mission.stage
  BY <1>2, <1>3 DEF MissionRows
<1>5. RowsTyped'
  <2>1. calls' \in 0..MaxCalls
    BY <1>1, <1>2, CallsAssumption DEF RowsTyped
  <2> QED  BY <1>1, <1>2, <1>4, <2>1 DEF RowsTyped, Lines, Invoices, Heads
<1>6. \A v \in Workers : ~HoldsMission(task[v])
  BY <1>1, <1>2, NobodyBlocks
<1>7. Forward
  BY <1>1 DEF Forward, Lines, Invoices, Heads
<1>8. Undisturbed
  <2>1. \A l : LiveInvoices(l)' = LiveInvoices(l)
    BY <1>1 DEF LiveInvoices, Invoices, Issued
  <2> QED  BY <1>1, <1>6, <2>1 DEF Undisturbed
<1>9. Calling'
  BY <1>1, <1>2, <1>5, <1>7, <1>8, Undisturbing DEF Calling, TasksTyped
<1>10. Money'
  BY <1>1, <1>2, <1>4
     DEF Money, SettledIsComplete, PoolIsLanded, PaidUnderLive, LivesAgree, Lines, Heads, Live, Landed
<1> QED  BY <1>5, <1>9, <1>10 DEF IInv, Calling, Money

-----------------------------------------------------------------------------
(* Invoices.                                                                *)

LEMMA CommitIssueStep ==
  ASSUME IInv, NEW w \in Workers, CommitIssue(w)
  PROVE  IInv'
<1> DEFINE t == task[w]
           new == IssuedInvoice(t.line, t.seen.amount)
<1>1. Ready(w, "Issue") /\ Done(w) /\ UNCHANGED <<mission, budget, participant, head, calls>>
  BY DEF CommitIssue
<1>2. CASE UNCHANGED <<line, invoice>>
  BY <1>1, <1>2, GivesUp DEF data
<1>3. CASE MayWriteLine(t.line, t.seen, Billed) /\ invoice' = Append(invoice, new) /\ SetLine(t.line, Billed)
  <2>1. RowsTyped /\ TasksTyped /\ Exclusion /\ ChecksStand /\ Money
    BY DEF IInv, Money
  <2>2. t.op = "Issue" /\ Granted(w)
    BY <1>1, <2>1, ReadyCall
  <2>3. t \in IssueTasks /\ TaskSound(t)
    BY <2>1, <2>2, TaskOf
  <2>4. t.line \in Lines /\ t.seen \in LineRows /\ t.seen.status = "Expected"
    BY <2>2, <2>3 DEF TaskSound, IssueTasks
  <2>5. line[t.line] = t.seen /\ BooksOpen /\ LineFree(t.line, Billed)
    BY <1>3, <2>1, <2>2, SameLine DEF MayWriteLine
  <2>6. Billed \in Patches /\ line[t.line].income
    BY <2>1, <2>4, <2>5 DEF Billed, Patches, PaymentStatuses, RowsTyped
  <2>7. HoldsCounter(t) /\ Update(MissionRow) \in Wanted(w) /\ Write(LineRowOf(t.line)) \in Wanted(w)
    BY <1>1, <2>1, ReadySteps
  <2>8. \A v \in Workers \ {w} : ~HoldsMission(task[v])
    BY <2>1, <2>2, <2>7, MissionQuiet
  <2>9. \A v \in Workers \ {w} : ~(HoldsLine(task[v]) /\ task[v].line = t.line)
    BY <2>1, <2>2, <2>7, LineFreed
  <2>10. \A v \in Workers \ {w} : ~HoldsCounter(task[v])
    BY <2>1, <2>7 DEF Exclusion
  <2>11. t.line \in Nat /\ new \in InvoiceRows /\ new.line = t.line
    BY <2>1, <2>4, RowAt DEF IssuedInvoice, InvoiceRows, LineRows
  <2> HIDE DEF t, new
  <2>12. Money'
    BY <1>1, <1>3, <2>1, <2>4, <2>5, <2>6, SetLineMoney
  <2>13. /\ line' \in Seq(LineRows) /\ Lines' = Lines
         /\ \A k \in Lines \ {t.line} : line'[k] = line[k]
         /\ line'[t.line].version > line[t.line].version
         /\ \A k \in Lines : line'[k].income <=> line'[k].status # "None"
    BY <1>3, <2>1, <2>4, <2>6, SetLineEffect
  <2>14. /\ invoice' \in Seq(InvoiceRows) /\ Invoices' = Invoices \cup {Len(invoice) + 1}
         /\ Len(invoice) \in Nat /\ Invoices = 1..Len(invoice)
         /\ \A i \in Invoices : invoice'[i] = invoice[i]
         /\ invoice'[Len(invoice) + 1] = new
    BY <1>3, <2>1, <2>11, Appended DEF RowsTyped, Invoices
  <2>15. RowsTyped'
    <3>1. \A i \in Invoices' : invoice'[i].line \in Lines'
      BY <2>1, <2>4, <2>11, <2>13, <2>14 DEF RowsTyped
    <3> QED  BY <1>1, <2>1, <2>13, <2>14, <3>1 DEF RowsTyped, Heads
  <2>16. Forward
    BY <1>1, <2>13, <2>14 DEF Forward, Heads
  <2>17. \A v \in Workers \ {w} : HoldsLine(task[v]) => line'[task[v].line] = line[task[v].line]
    BY <2>1, <2>9, <2>13 DEF HoldsLine, Flips, TasksTyped, TaskSound
  <2>18. Calling'
    BY <1>1, <2>1, <2>8, <2>10, <2>15, <2>16, <2>17, Ends DEF Calling
  <2> QED  BY <2>12, <2>15, <2>18 DEF IInv, Calling, Money
<1> QED  BY <1>2, <1>3 DEF CommitIssue

\* A line that is Invoiced is not paid out.
LEMMA InvoicedIsFree ==
  ASSUME PoolIsLanded, NEW l, line[l].status = "Invoiced", NEW patch
  PROVE  LineFree(l, patch)
BY DEF PoolIsLanded, LineFree, LiveHeads

LEMMA VoidedInvoice ==
  ASSUME RowsTyped, NEW i \in Invoices,
         invoice' = [invoice EXCEPT ![i] = Patched(invoice[i], [status |-> "Voided"])]
  PROVE  /\ invoice' \in Seq(InvoiceRows) /\ Invoices' = Invoices
         /\ \A j \in Invoices : invoice'[j].line = invoice[j].line
         /\ \A l : LiveInvoices(l)' \subseteq LiveInvoices(l)
<1> DEFINE new == Patched(invoice[i], [status |-> "Voided"])
<1>1. invoice[i] \in InvoiceRows /\ invoice \in Seq(InvoiceRows)
  BY RowAt DEF RowsTyped
<1>2. new = [line |-> invoice[i].line, subtotal |-> invoice[i].subtotal, status |-> "Voided",
             version |-> invoice[i].version + 1]
  BY <1>1, PatchedInvoice
<1>3. new \in InvoiceRows /\ new.line = invoice[i].line /\ new.status = "Voided"
  BY <1>1, <1>2 DEF InvoiceRows
<1> HIDE DEF new
<1>4. /\ invoice' \in Seq(InvoiceRows) /\ DOMAIN invoice' = DOMAIN invoice
      /\ \A j \in DOMAIN invoice : invoice'[j] = IF j = i THEN new ELSE invoice[j]
  BY <1>1, <1>3, Replaced DEF Invoices, new
<1>5. \A j \in Invoices : invoice'[j] = invoice[j] \/ invoice'[j].status = "Voided"
  BY <1>3, <1>4 DEF Invoices
<1>6. \A l : LiveInvoices(l)' \subseteq LiveInvoices(l)
  BY <1>4, <1>5 DEF LiveInvoices, Invoices, Issued
<1> QED  BY <1>3, <1>4, <1>6 DEF Invoices

LEMMA CommitVoidStep ==
  ASSUME IInv, NEW w \in Workers, CommitVoid(w)
  PROVE  IInv'
<1> DEFINE t == task[w]
<1>1. Ready(w, "Void") /\ Done(w) /\ UNCHANGED <<mission, budget, participant, head, calls>>
  BY DEF CommitVoid
<1>2. RowsTyped /\ TasksTyped /\ Exclusion /\ ChecksStand /\ Money
  BY DEF IInv, Money
<1>3. t.op = "Void" /\ Granted(w)
  BY <1>1, <1>2, ReadyCall
<1>4. TaskSound(t)
  BY <1>2, TaskOf
<1>5. t.invoice \in Invoices /\ t.line \in Lines
  BY <1>3, <1>4 DEF TaskSound
<1>6. CASE UNCHANGED <<line, invoice>>
  BY <1>1, <1>6, GivesUp DEF data
<1>7. CASE /\ Flips(t) => BooksOpen
           /\ invoice' = [invoice EXCEPT ![t.invoice] = Patched(invoice[t.invoice], [status |-> "Voided"])]
           /\ IF Flips(t) THEN SetLine(t.line, Unbilled) ELSE UNCHANGED line
  <2>1. Flips(t) => /\ HoldsLine(t) /\ Update(MissionRow) \in Wanted(w)
                    /\ line[t.line] = t.seen
    BY <1>1, <1>2, ReadySteps DEF ChecksStand, CheckStands
  <2>2. Flips(t) => LineFree(t.line, Unbilled) /\ line[t.line].income
    <3>1. Flips(t) => line[t.line].status = "Invoiced"
      BY <2>1 DEF Flips
    <3> HIDE DEF t
    <3> QED  BY <1>2, <1>5, <3>1, InvoicedIsFree DEF Money, RowsTyped
  <2>3. Unbilled \in Patches
    BY DEF Unbilled, Patches, PaymentStatuses
  <2>4. Flips(t) => \A v \in Workers \ {w} : ~HoldsMission(task[v])
    BY <1>2, <1>3, <2>1, MissionQuiet
  <2>5. \A v \in Workers \ {w} : Flips(t) => ~(HoldsLine(task[v]) /\ task[v].line = t.line)
    BY <1>2, <2>1 DEF Exclusion
  <2> HIDE DEF t
  <2>6. Money'
    <3>1. CASE Flips(t)
      BY <1>1, <1>2, <1>5, <1>7, <2>2, <2>3, <3>1, SetLineMoney
    <3>2. CASE ~Flips(t)
      BY <1>1, <1>2, <1>7, <3>2, MoneyKept
    <3> QED  BY <3>1, <3>2
  <2>7. /\ line' \in Seq(LineRows) /\ Lines' = Lines
        /\ \A k \in Lines : line'[k] = line[k] \/ (Flips(t) /\ k = t.line /\ line'[k].version > line[k].version)
        /\ \A k \in Lines : line'[k].income <=> line'[k].status # "None"
    <3>1. CASE Flips(t)
      BY <1>2, <1>5, <1>7, <2>2, <2>3, <3>1, SetLineEffect
    <3>2. CASE ~Flips(t)
      BY <1>2, <1>7, <3>2 DEF RowsTyped, Lines
    <3> QED  BY <3>1, <3>2
  <2>8. /\ invoice' \in Seq(InvoiceRows) /\ Invoices' = Invoices
        /\ \A j \in Invoices : invoice'[j].line = invoice[j].line
        /\ \A l : LiveInvoices(l)' \subseteq LiveInvoices(l)
    BY <1>2, <1>5, <1>7, VoidedInvoice
  <2>9. RowsTyped'
    BY <1>1, <1>2, <2>7, <2>8 DEF RowsTyped, Heads
  <2>10. Forward
    BY <1>1, <2>7, <2>8 DEF Forward, Heads
  <2>11. \A v \in Workers \ {w} : HoldsLine(task[v]) => line'[task[v].line] = line[task[v].line]
    BY <1>2, <2>5, <2>7 DEF HoldsLine, Flips, TasksTyped, TaskSound
  <2>12. \A v \in Workers \ {w} : HoldsMission(task[v]) => UNCHANGED <<mission, line>>
    BY <1>1, <1>7, <2>4
  <2>13. Calling'
    BY <1>1, <1>2, <2>8, <2>9, <2>10, <2>11, <2>12, Ends DEF Calling
  <2> QED  BY <2>6, <2>9, <2>13 DEF IInv, Calling, Money
<1>8. Flips(t) <=> t.seen # NoRow /\ t.seen.status = "Invoiced"
  BY <1>3 DEF Flips
<1> QED  BY <1>6, <1>7, <1>8 DEF CommitVoid

-----------------------------------------------------------------------------
(* Distributions.                                                           *)

\* A new head is a live row for its line: the pool is what the line brought in
\* and no share of it is paid.
LEMMA NewHeadTyped ==
  ASSUME RowsTyped, NEW l \in Lines, NEW org \in OrgShares, NEW split \in Splits
  PROVE  LET new == NewHead(l, org, split) IN
           /\ new \in HeadRows /\ new.line = l /\ new.status = "Live"
           /\ new.pool = Landed(line[l])
           /\ \A p \in DOMAIN new.shares : ~new.shares[p].paid
<1> DEFINE pool == Landed(line[l])
           rest == PlayerPool(pool, org)
           parts == AllocatedShares(pool, org, split)
           new == NewHead(l, org, split)
<1>1. pool \in Amounts /\ pool \in Nat /\ l \in Nat
  BY RowAt, AmountsAssumption DEF Landed, LineRows, None
<1>2. org \in Nat /\ org \in 0..FullBps /\ split \in [DOMAIN split -> Nat]
  <2>1. 0..FullBps \subseteq Nat
    BY DEF FullBps
  <2> QED  BY <2>1, SharesAssumption
<1>3. Floor(pool, org) \in Nat /\ Floor(pool, org) <= pool
  <2>1. Floor(pool, org) \in Nat
    BY <1>1, <1>2, FloorTyped
  <2>2. Floor(pool, org) <= pool
    BY <1>1, <1>2, FloorBounded
  <2> QED  BY <2>1, <2>2
<1>4. rest \in Nat
  BY <1>1, <1>3 DEF PlayerPool
<1>5. \A p \in DOMAIN split : Floor(rest, split[p]) \in Nat
  BY <1>2, <1>4, FloorTyped
<1>6. \A p \in DOMAIN split : parts[p] \in Nat
  <2> DEFINE ahead(p) == Cardinality({q \in DOMAIN split : Before(q, p, rest, split)})
  <2>1. \A p \in DOMAIN split :
          parts[p] = Floor(rest, split[p]) + (IF ahead(p) < Leftover(rest, split) THEN 1 ELSE 0)
    BY DEF AllocatedShares
  <2> HIDE DEF rest, ahead, parts
  <2> QED  BY <1>5, <2>1
<1>7. new = [line |-> l, pool |-> pool, cut |-> Floor(pool, org), split |-> split,
             shares |-> [p \in DOMAIN split |-> [amount |-> parts[p], paid |-> FALSE, version |-> 0]],
             status |-> "Live", version |-> 0]
  BY DEF NewHead
<1> HIDE DEF pool, rest, parts, new
<1> DEFINE rows == [p \in DOMAIN split |-> [amount |-> parts[p], paid |-> FALSE, version |-> 0]]
<1>8. rows \in [DOMAIN split -> ShareRows] /\ \A p \in DOMAIN rows : ~rows[p].paid
  BY <1>6 DEF ShareRows
<1> HIDE DEF rows
<1>9. new = [line |-> l, pool |-> pool, cut |-> Floor(pool, org), split |-> split,
             shares |-> rows, status |-> "Live", version |-> 0]
  BY <1>7 DEF rows
<1>10. new \in HeadRowsOf(split)
  BY <1>1, <1>3, <1>8, <1>9 DEF HeadRowsOf
<1>11. new \in HeadRows
  BY <1>10 DEF HeadRows
<1> QED  BY <1>8, <1>9, <1>11 DEF new, pool

LEMMA CommitCreateStep ==
  ASSUME IInv, NEW w \in Workers, CommitCreate(w)
  PROVE  IInv'
<1> DEFINE t == task[w]
           new == NewHead(t.line, t.org, t.split)
<1>1. Ready(w, "Create") /\ Done(w) /\ UNCHANGED <<mission, line, budget, participant, invoice, calls>>
  BY DEF CommitCreate
<1>2. CASE UNCHANGED head
  BY <1>1, <1>2, GivesUp DEF data
<1>3. CASE /\ t.line \in ActiveIncome /\ line[t.line].status = "Received" /\ LiveHeads(t.line) = {}
           /\ head' = Append(head, new)
  <2>1. RowsTyped /\ TasksTyped /\ Money
    BY DEF IInv, Money
  <2>2. t \in CreateTasks
    BY <1>1, <2>1, ReadyCall, TaskOf
  <2>3. t.line \in Lines /\ line[t.line].active
    BY <1>3 DEF ActiveIncome
  <2>4. /\ new \in HeadRows /\ new.line = t.line /\ new.status = "Live"
        /\ new.pool = Landed(line[t.line])
        /\ \A p \in DOMAIN new.shares : ~new.shares[p].paid
    BY <2>1, <2>2, <2>3, NewHeadTyped DEF CreateTasks
  <2> HIDE DEF t, new
  <2>5. /\ head' \in Seq(HeadRows) /\ Heads' = Heads \cup {Len(head) + 1} /\ Heads = 1..Len(head)
        /\ Len(head) \in Nat /\ \A h \in Heads : head'[h] = head[h]
        /\ head'[Len(head) + 1] = new
    BY <1>3, <2>1, <2>4, Appended DEF RowsTyped, Heads
  <2>6. RowsTyped'
    BY <1>1, <2>1, <2>3, <2>4, <2>5 DEF RowsTyped, Lines, Invoices
  <2>7. Calling'
    BY <1>1, <2>5, <2>6, CommitsElsewhere
  <2>8. SettledIsComplete'
    BY <1>1, <2>1 DEF Money, SettledIsComplete, Lines
  <2>9. PoolIsLanded'
    BY <1>1, <1>3, <2>1, <2>3, <2>4, <2>5 DEF Money, PoolIsLanded, Live, Landed
  <2>10. PaidUnderLive'
    BY <2>1, <2>4, <2>5 DEF Money, PaidUnderLive, Live
  <2>11. \A h \in Heads : Live(h) => head[h].line # t.line
    BY <1>3 DEF LiveHeads
  <2>12. LivesAgree'
    BY <2>1, <2>4, <2>5, <2>11 DEF Money, LivesAgree, Live
  <2> QED  BY <2>6, <2>7, <2>8, <2>9, <2>10, <2>12 DEF IInv, Calling, Money
<1> QED  BY <1>2, <1>3 DEF CommitCreate

\* A head that is replaced by a row for the same line, with the same pool.
LEMMA HeadReplaced ==
  ASSUME IInv, NEW w \in Workers, Done(w), UNCHANGED <<mission, line, budget, participant, invoice, calls>>,
         NEW h \in Heads, NEW new \in HeadRows, head' = [head EXCEPT ![h] = new],
         new.line = head[h].line, new.pool = head[h].pool, DOMAIN new.shares = DOMAIN head[h].shares,
         new.status = "Live" => Live(h),
         \A p \in DOMAIN new.shares : new.shares[p].paid => new.status = "Live"
  PROVE  IInv'
<1>1. RowsTyped /\ Money /\ head \in Seq(HeadRows)
  BY DEF IInv, Money, RowsTyped
<1>2. /\ head' \in Seq(HeadRows) /\ Heads' = Heads
      /\ \A g \in Heads : head'[g] = IF g = h THEN new ELSE head[g]
  BY <1>1, Replaced DEF Heads
<1>3. /\ \A g \in Heads : head'[g].line = head[g].line /\ head'[g].pool = head[g].pool
      /\ \A g \in Heads : Live(g)' => Live(g)
      /\ \A g \in Heads : DOMAIN head'[g].shares = DOMAIN head[g].shares
  BY <1>2 DEF Live
<1>4. RowsTyped'
  BY <1>1, <1>2, <1>3 DEF RowsTyped, Lines, Invoices
<1>5. Calling'
  BY <1>2, <1>3, <1>4, CommitsElsewhere
<1>6. SettledIsComplete'
  BY <1>1 DEF Money, SettledIsComplete, Lines
<1>7. PoolIsLanded'
  BY <1>1, <1>2, <1>3 DEF Money, PoolIsLanded, Landed
<1>8. PaidUnderLive'
  BY <1>1, <1>2 DEF Money, PaidUnderLive, Live
<1>9. LivesAgree'
  BY <1>1, <1>2, <1>3 DEF Money, LivesAgree
<1> QED  BY <1>4, <1>5, <1>6, <1>7, <1>8, <1>9 DEF IInv, Calling, Money

LEMMA CommitPayoutStep ==
  ASSUME IInv, NEW w \in Workers, CommitPayout(w)
  PROVE  IInv'
<1> DEFINE t == task[w]
           row == head[t.head]
           share == row.shares[t.person]
           paid == Patched(share, [paid |-> t.paid])
           new == [row EXCEPT !.shares = [row.shares EXCEPT ![t.person] = paid]]
<1>1. Ready(w, "Payout") /\ Done(w) /\ UNCHANGED <<mission, line, budget, participant, invoice, calls>>
  BY DEF CommitPayout
<1>2. CASE UNCHANGED head
  BY <1>1, <1>2, GivesUp DEF data
<1>3. CASE (t.paid => Live(t.head)) /\ head' = [head EXCEPT ![t.head] = new]
  <2>1. RowsTyped /\ TasksTyped /\ Money
    BY DEF IInv, Money
  <2>2. t.op = "Payout" /\ t \in PayoutTasks /\ TaskSound(t)
    BY <1>1, <2>1, ReadyCall, TaskOf
  <2>3. t.head \in Heads /\ t.person \in DOMAIN row.shares /\ t.paid \in BOOLEAN
    BY <2>2 DEF TaskSound, PayoutTasks
  <2>4. row \in HeadRows
    BY <2>1, <2>3, RowAt
  <2>5. PICK s \in Splits : row \in HeadRowsOf(s)
    BY <2>4, HeadAt
  <2> HIDE DEF t, row
  <2>6. share \in ShareRows /\ row.shares \in [DOMAIN s -> ShareRows] /\ DOMAIN row.shares = DOMAIN s
    BY <2>3, <2>5 DEF HeadRowsOf
  <2>7. paid = [amount |-> share.amount, paid |-> t.paid, version |-> share.version + 1]
    BY <2>6, PatchedShare
  <2>8. paid \in ShareRows /\ paid.paid = t.paid
    BY <2>3, <2>6, <2>7 DEF ShareRows
  <2> HIDE DEF paid, share
  <2> DEFINE shares == [row.shares EXCEPT ![t.person] = paid]
  <2>9. /\ shares \in [DOMAIN s -> ShareRows] /\ DOMAIN shares = DOMAIN row.shares
        /\ \A p \in DOMAIN shares : shares[p] = IF p = t.person THEN paid ELSE row.shares[p]
    BY <2>3, <2>6, <2>8
  <2> HIDE DEF shares
  <2>10. /\ new \in HeadRowsOf(s) /\ new.line = row.line /\ new.pool = row.pool
         /\ new.status = row.status /\ new.shares = shares
    <3>1. new = [row EXCEPT !.shares = shares]
      BY DEF shares
    <3> QED  BY <2>5, <2>9, <3>1 DEF HeadRowsOf
  <2> HIDE DEF new
  <2>11. new \in HeadRows
    BY <2>10 DEF HeadRows
  <2>12. \A p \in DOMAIN row.shares : row.shares[p].paid => Live(t.head)
    BY <2>1, <2>3 DEF Money, PaidUnderLive, row
  <2>13. \A p \in DOMAIN new.shares : new.shares[p].paid => new.status = "Live"
    BY <1>3, <2>8, <2>9, <2>10, <2>12 DEF Live, row
  <2>14. /\ new.line = head[t.head].line /\ new.pool = head[t.head].pool
         /\ DOMAIN new.shares = DOMAIN head[t.head].shares
         /\ (new.status = "Live" => Live(t.head))
    BY <2>9, <2>10 DEF Live, row
  <2> QED  BY <1>1, <1>3, <2>3, <2>11, <2>13, <2>14, HeadReplaced
<1> QED  BY <1>2, <1>3 DEF CommitPayout

LEMMA CommitRevokeStep ==
  ASSUME IInv, NEW w \in Workers, CommitRevoke(w)
  PROVE  IInv'
<1> DEFINE t == task[w]
           row == head[t.head]
           new == Patched(row, [status |-> "Revoked"])
<1>1. Ready(w, "Revoke") /\ Done(w) /\ UNCHANGED <<mission, line, budget, participant, invoice, calls>>
  BY DEF CommitRevoke
<1>2. CASE UNCHANGED head
  BY <1>1, <1>2, GivesUp DEF data
<1>3. CASE ~Paid(t.head) /\ head' = [head EXCEPT ![t.head] = new]
  <2>1. RowsTyped /\ TasksTyped
    BY DEF IInv
  <2>2. t.op = "Revoke" /\ TaskSound(t)
    BY <1>1, <2>1, ReadyCall, TaskOf
  <2>3. t.head \in Heads
    BY <2>2 DEF TaskSound
  <2>4. row \in HeadRows
    BY <2>1, <2>3, RowAt
  <2>5. PICK s \in Splits : row \in HeadRowsOf(s)
    BY <2>4, HeadAt
  <2>6. \A p \in DOMAIN row.shares : ~row.shares[p].paid
    BY <1>3 DEF Paid
  <2> HIDE DEF t, row
  <2>7. new = [line |-> row.line, pool |-> row.pool, cut |-> row.cut, split |-> row.split,
               shares |-> row.shares, status |-> "Revoked", version |-> row.version + 1]
    BY <2>5, PatchedHead
  <2>8. /\ new \in HeadRowsOf(s) /\ new.line = row.line /\ new.pool = row.pool
        /\ new.shares = row.shares /\ new.status = "Revoked"
    BY <2>5, <2>7 DEF HeadRowsOf
  <2>9. new \in HeadRows
    BY <2>8 DEF HeadRows
  <2> HIDE DEF new
  <2> QED  BY <1>1, <1>3, <2>3, <2>6, <2>8, <2>9, HeadReplaced DEF row
<1> QED  BY <1>2, <1>3 DEF CommitRevoke

-----------------------------------------------------------------------------
(* The invariant is inductive.                                              *)

LEMMA InitRows ==
  ASSUME Init
  PROVE  RowsTyped
<1>1. mission \in MissionRows
  <2>1. mission \in [stage: StartStages, active: {TRUE}, version: {0}] /\ StartStages \subseteq StageNames
    BY StagesAssumption DEF Init
  <2>2. /\ mission = [stage |-> mission.stage, active |-> mission.active, version |-> mission.version]
        /\ mission.stage \in StageNames /\ mission.active = TRUE /\ mission.version = 0
    BY <2>1
  <2>3. mission.version \in Nat
    BY <2>2
  <2>4. mission.active \in BOOLEAN
    BY <2>2, Zenon
  <2> QED  BY <2>2, <2>3, <2>4 DEF MissionRows
<1>2. PICK s \in PaymentStatuses, a \in Amounts :
        /\ line    = <<LineRow(TRUE, s, a)>>
        /\ invoice = IF s = "Invoiced" THEN <<IssuedInvoice(1, a)>> ELSE <<>>
  BY DEF Init
<1> DEFINE row == LineRow(TRUE, s, a)
           bill == IssuedInvoice(1, a)
<1>3. row \in LineRows /\ row.income /\ row.status # "None"
  BY DEF LineRow, LineRows, PaymentStatuses
<1>4. bill \in InvoiceRows /\ bill.line = 1
  BY DEF IssuedInvoice, InvoiceRows
<1> HIDE DEF row, bill
<1>5. line \in Seq(LineRows) /\ Lines = {1} /\ line[1] = row
  <2>1. line = <<row>>
    BY <1>2 DEF row
  <2> QED  BY <1>3, <2>1 DEF Lines
<1>6. invoice \in Seq(InvoiceRows) /\ \A i \in Invoices : invoice[i].line = 1
  <2>1. invoice = <<bill>> \/ invoice = <<>>
    BY <1>2 DEF bill
  <2>2. CASE invoice = <<bill>>
    BY <1>4, <2>2 DEF Invoices
  <2>3. CASE invoice = <<>>
    BY <2>3 DEF Invoices
  <2> QED  BY <2>1, <2>2, <2>3
<1>7. head = <<>> /\ budget = NoRow /\ calls = 0
  BY DEF Init
<1>8. participant \in Participants
  BY DEF Init, Participants, None
<1>9. head \in Seq(HeadRows) /\ Heads = {}
  BY <1>7 DEF Heads
<1>10. calls \in 0..MaxCalls
  BY <1>7, CallsAssumption
<1> QED  BY <1>1, <1>3, <1>5, <1>6, <1>7, <1>8, <1>9, <1>10 DEF RowsTyped

LEMMA InitInv == Init => IInv
<1> SUFFICES ASSUME Init PROVE IInv  OBVIOUS
<1>1. RowsTyped
  BY InitRows
<1>2. task = [w \in Workers |-> Idle] /\ Heads = {} /\ mission.stage # "Settled"
  BY StagesAssumption DEF Init, Heads
<1>3. \A w \in Workers : task[w] = Idle
  BY <1>2
<1>4. /\ Idle \in Tasks /\ TaskSound(Idle) /\ CheckStands(Idle)
      /\ ~HoldsMission(Idle) /\ ~HoldsLine(Idle) /\ ~HoldsCounter(Idle)
  BY DEF Tasks, Idle, TaskSound, CheckStands, HoldsMission, HoldsLine, HoldsCounter, Flips
<1>5. TasksTyped /\ Exclusion /\ ChecksStand
  BY <1>2, <1>3, <1>4 DEF TasksTyped, Exclusion, ChecksStand
<1>6. SettledIsComplete /\ PoolIsLanded /\ PaidUnderLive /\ LivesAgree
  BY <1>2 DEF SettledIsComplete, PoolIsLanded, PaidUnderLive, LivesAgree
<1> QED  BY <1>1, <1>5, <1>6 DEF IInv

LEMMA CommitsStep ==
  ASSUME IInv, NEW w \in Workers, Commits(w)
  PROVE  IInv'
<1>1. CASE CommitEdit(w)     BY <1>1, CommitEditStep
<1>2. CASE CommitStage(w)    BY <1>2, CommitStageStep
<1>3. CASE CommitBudget(w)   BY <1>3, CommitBudgetStep
<1>4. CASE CommitCreate(w)   BY <1>4, CommitCreateStep
<1>5. CASE CommitPayout(w)   BY <1>5, CommitPayoutStep
<1>6. CASE CommitRevoke(w)   BY <1>6, CommitRevokeStep
<1>7. CASE CommitIssue(w)    BY <1>7, CommitIssueStep
<1>8. CASE CommitVoid(w)     BY <1>8, CommitVoidStep
<1>9. CASE CommitPerDiem(w) \/ CommitRoster(w)  BY <1>9, CommitParticipantStep
<1> QED
  BY <1>1, <1>2, <1>3, <1>4, <1>5, <1>6, <1>7, <1>8, <1>9 DEF Commits

LEMMA NextInv == IInv /\ [Next]_vars => IInv'
<1> SUFFICES ASSUME IInv, [Next]_vars PROVE IInv'  OBVIOUS
<1>1. ASSUME NEW w \in Workers, Starts(w) PROVE IInv'       BY <1>1, StartsStep
<1>2. ASSUME NEW w \in Workers, Take(w) PROVE IInv'         BY <1>2, TakeStep
<1>3. ASSUME NEW w \in Workers, Commits(w) PROVE IInv'      BY <1>3, CommitsStep
<1>4. ASSUME NEW w \in Workers, BreakDeadlock(w) PROVE IInv'
  BY <1>4, GivesUp DEF BreakDeadlock
<1>5. ASSUME NEW income \in BOOLEAN, NEW a \in Amounts, AddLine(income, a) PROVE IInv'
  BY <1>5, AddLineStep
<1>6. CASE DeactivateMission  BY <1>6, DeactivateMissionStep
<1>7. CASE UNCHANGED vars
  <2>1. UNCHANGED data /\ task' = task /\ calls' = calls
    BY <1>7 DEF vars, data
  <2>2. RowsTyped'
    BY <2>1 DEF IInv, RowsTyped, data, Lines, Invoices, Heads
  <2>3. Undisturbed
    BY <2>1 DEF Undisturbed, data, LiveInvoices, Invoices, Issued
  <2>4. Calling'
    BY <2>1, <2>2, <2>3, DataForward, Undisturbing DEF IInv, Calling, TasksTyped
  <2>5. Money'
    BY <2>1, MoneyKept DEF IInv, Money, data
  <2> QED  BY <2>2, <2>4, <2>5 DEF IInv, Calling, Money
<1> QED  BY <1>1, <1>2, <1>3, <1>4, <1>5, <1>6, <1>7 DEF Next

-----------------------------------------------------------------------------
(* The theorems.                                                            *)

\* The strengthening every theorem below rests on: calls in flight exclude one
\* another from what they have checked, so that what they checked still holds
\* when they commit.
THEOREM Invariant == Spec => []IInv
BY InitInv, NextInv, PTL DEF Spec

\* Every reachable row is well typed (the tables of 0012, 0021, 0023, 0026 and 0028).
THEOREM Typing == Spec => []TypeOK
<1>1. IInv => TypeOK
  <2> SUFFICES ASSUME IInv PROVE TypeOK  OBVIOUS
  <2>1. RowsTyped  BY DEF IInv
  <2>2. \A i \in Invoices : invoice[i] \in [line: Lines, subtotal: Amounts,
                                            status: {"Issued", "Voided"}, version: Nat]
    BY <2>1, RowAt DEF RowsTyped, InvoiceRows
  <2>3. \A h \in Heads : /\ head[h].line \in Lines /\ head[h].status \in {"Live", "Revoked"}
                         /\ \A p \in DOMAIN head[h].shares : head[h].shares[p] \in ShareRows
    <3> SUFFICES ASSUME NEW h \in Heads
                 PROVE  /\ head[h].line \in Lines /\ head[h].status \in {"Live", "Revoked"}
                        /\ \A p \in DOMAIN head[h].shares : head[h].shares[p] \in ShareRows
      OBVIOUS
    <3>1. PICK s \in Splits : head[h] \in HeadRowsOf(s)
      BY <2>1, RowAt, HeadAt
    <3> QED  BY <2>1, <3>1 DEF RowsTyped, HeadRowsOf
  <2>4. \A l \in Lines : line[l] \in LineRows
    BY <2>1, RowAt
  <2> QED
    BY <2>1, <2>2, <2>3, <2>4
       DEF TypeOK, RowsTyped, MissionRows, LineRows, BudgetRows, Participants
<1> QED  BY <1>1, Invariant, PTL

\* A settled mission has income and all of it is received, whatever was in
\* flight when it settled.
THEOREM SettledComplete == Spec => []SettledIsComplete
<1>1. IInv => SettledIsComplete  BY DEF IInv
<1> QED  BY <1>1, Invariant, PTL

\* A live distribution pays out what its line brought in, however edits,
\* invoices and their voiding race with it.
THEOREM PoolLanded == Spec => []PoolIsLanded
<1>1. IInv => PoolIsLanded  BY DEF IInv
<1> QED  BY <1>1, Invariant, PTL

\* A payout and a revocation of the same distribution never both commit.
THEOREM PaidLive == Spec => []PaidUnderLive
<1>1. IInv => PaidUnderLive  BY DEF IInv
<1> QED  BY <1>1, Invariant, PTL

\* Two live distributions never pay out the same line.
THEOREM OneLive == Spec => []OneLivePerLine
<1>1. IInv => OneLivePerLine
  <2> SUFFICES ASSUME IInv, NEW l \in Lines PROVE Cardinality(LiveHeads(l)) <= 1
    BY DEF OneLivePerLine
  <2>1. CASE LiveHeads(l) = {}  BY <2>1, FS_EmptySet
  <2>2. CASE LiveHeads(l) # {}
    <3>1. PICK h : h \in LiveHeads(l)  BY <2>2
    <3>2. LiveHeads(l) = {h}
      BY <3>1 DEF IInv, LivesAgree, LiveHeads
    <3> QED  BY <3>2, FS_Singleton
  <2> QED  BY <2>1, <2>2
<1> QED  BY <1>1, Invariant, PTL

-----------------------------------------------------------------------------
(* What single steps do.                                                    *)

LEMMA LinesChange ==
  ASSUME IInv, Next, line' # line
  PROVE  /\ BooksOpen
         /\ \/ \E income \in BOOLEAN, a \in Amounts : AddLine(income, a)
            \/ \E w \in Workers :
                 \/ CommitEdit(w) /\ MayWriteLine(task[w].line, task[w].seen, task[w].patch)
                 \/ CommitIssue(w) /\ MayWriteLine(task[w].line, task[w].seen, Billed)
                 \/ CommitVoid(w) /\ Flips(task[w])
<1>1. ASSUME NEW w \in Workers, CommitEdit(w) PROVE MayWriteLine(task[w].line, task[w].seen, task[w].patch)
  BY <1>1 DEF CommitEdit
<1>2. ASSUME NEW w \in Workers, CommitIssue(w) PROVE MayWriteLine(task[w].line, task[w].seen, Billed)
  BY <1>2 DEF CommitIssue
<1>3. ASSUME NEW w \in Workers, CommitVoid(w) PROVE Flips(task[w]) /\ BooksOpen
  BY <1>3 DEF CommitVoid, Flips, Ready
<1>4. ASSUME NEW w \in Workers, Starts(w) PROVE FALSE
  <2>1. UNCHANGED data
    BY <1>4 DEF Starts, StartEdit, StartStage, StartBudget, StartCreate, StartPayout, StartRevoke,
                StartIssue, StartVoid, StartPerDiem, StartRoster, Start
  <2> QED  BY <2>1 DEF data
<1>5. ASSUME NEW w \in Workers, Take(w) \/ BreakDeadlock(w) PROVE FALSE
  <2>1. UNCHANGED data
    BY <1>5 DEF Take, BreakDeadlock
  <2> QED  BY <2>1 DEF data
<1>6. ASSUME NEW w \in Workers, Commits(w) PROVE CommitEdit(w) \/ CommitIssue(w) \/ CommitVoid(w)
  BY <1>6 DEF Commits, CommitStage, CommitBudget, CommitCreate, CommitPayout, CommitRevoke,
              CommitPerDiem, CommitRoster
<1>7. ~DeactivateMission
  BY DEF DeactivateMission
<1> QED  BY <1>1, <1>2, <1>3, <1>4, <1>5, <1>6, <1>7 DEF Next, AddLine, MayWriteLine

\* The books of a settled mission are closed: lines, budget and per-diem.
THEOREM ClosedBooks == Spec => BooksClosed
<1>1. IInv /\ [Next]_vars =>
        [mission.stage = "Settled" => line' = line /\ budget' = budget
                                      /\ participant'.rate = participant.rate]_vars
  <2> SUFFICES ASSUME IInv, Next, mission.stage = "Settled"
               PROVE  line' = line /\ budget' = budget /\ participant'.rate = participant.rate
    OBVIOUS
  <2>1. TasksTyped /\ ChecksStand /\ participant \in Participants /\ ~BooksOpen
    BY DEF IInv, RowsTyped, BooksOpen
  <2>2. line' = line
    BY <2>1, LinesChange
  <2>3. ASSUME NEW w \in Workers PROVE ~CommitBudget(w) /\ ~CommitPerDiem(w)
    <3>1. Ready(w, "Budget") => task[w].op = "Budget" /\ task[w].step = 1
      BY <2>1, ReadySteps DEF Ready
    <3>2. Ready(w, "PerDiem") => task[w].op = "PerDiem" /\ task[w].step = 2
      BY <2>1, ReadySteps DEF Ready
    <3> QED  BY <2>1, <3>1, <3>2 DEF ChecksStand, CheckStands, CommitBudget, CommitPerDiem
  <2>4. ASSUME NEW w \in Workers, CommitRoster(w)
        PROVE  budget' = budget /\ participant'.rate = participant.rate
    <3>1. participant' = [active |-> task[w].active, rate |-> participant.rate,
                          version |-> participant.version + 1]
      BY <2>1, <2>4, PatchedParticipant DEF CommitRoster
    <3> QED  BY <2>4, <3>1 DEF CommitRoster
  <2>5. ASSUME NEW w \in Workers, Starts(w) \/ Take(w) \/ BreakDeadlock(w)
        PROVE  UNCHANGED data
    <3>1. Starts(w) => UNCHANGED data
      BY DEF Starts, StartEdit, StartStage, StartBudget, StartCreate, StartPayout, StartRevoke,
             StartIssue, StartVoid, StartPerDiem, StartRoster, Start
    <3> QED  BY <2>5, <3>1 DEF Take, BreakDeadlock
  <2>6. ASSUME NEW w \in Workers, Commits(w) PROVE CommitRoster(w) \/ UNCHANGED <<budget, participant>>
    BY <2>3, <2>6 DEF Commits, CommitEdit, CommitStage, CommitCreate, CommitPayout, CommitRevoke,
                      CommitIssue, CommitVoid
  <2>7. budget' = budget /\ participant'.rate = participant.rate
    BY <2>4, <2>5, <2>6 DEF Next, data, AddLine, DeactivateMission
  <2> QED  BY <2>2, <2>7
<1> QED  BY <1>1, Invariant, PTL DEF Spec, BooksClosed

\* The audit trail tells the truth about what a call replaced.
THEOREM AuditHonest == Spec => AuditIsHonest
<1>1. IInv /\ [Next]_vars =>
        [\A w \in Workers :
           (task[w].op \in {"Edit", "Issue", "Void"} /\ task'[w] = Idle /\ line' # line) =>
             LET before == AuditBefore(task[w]) IN
               \A f \in DOMAIN before : line[task[w].line][f] = before[f]]_vars
  <2> SUFFICES ASSUME IInv, Next, NEW w \in Workers, task[w].op \in {"Edit", "Issue", "Void"},
                      task'[w] = Idle, line' # line
               PROVE  \A f \in DOMAIN AuditBefore(task[w]) :
                        line[task[w].line][f] = AuditBefore(task[w])[f]
    OBVIOUS
  <2>1. TasksTyped /\ ChecksStand /\ task \in [Workers -> Tasks] /\ TaskSound(task[w])
    BY DEF IInv, TasksTyped
  <2>2. task'[w] # task[w]
    BY DEF Idle
  <2>3. \A v \in Workers : Done(v) => v = w
    BY <2>1, <2>2 DEF Done
  <2>4. \/ CommitEdit(w) /\ MayWriteLine(task[w].line, task[w].seen, task[w].patch)
        \/ CommitIssue(w) /\ MayWriteLine(task[w].line, task[w].seen, Billed)
        \/ CommitVoid(w) /\ Flips(task[w])
    BY <2>2, <2>3, LinesChange DEF AddLine, CommitEdit, CommitIssue, CommitVoid
  <2>5. CASE CommitEdit(w) /\ MayWriteLine(task[w].line, task[w].seen, task[w].patch)
    <3>1. task[w].op = "Edit"
      BY <2>5 DEF CommitEdit, Ready
    <3>2. line[task[w].line] = task[w].seen
      BY <2>1, <2>5, <3>1, SameLine DEF MayWriteLine
    <3>3. AuditBefore(task[w]) = [f \in DOMAIN task[w].patch |-> task[w].seen[f]]
      BY <3>1 DEF AuditBefore
    <3> QED  BY <3>2, <3>3
  <2>6. CASE CommitIssue(w) /\ MayWriteLine(task[w].line, task[w].seen, Billed)
    <3>1. task[w].op = "Issue"
      BY <2>6 DEF CommitIssue, Ready
    <3>2. line[task[w].line] = task[w].seen /\ task[w].seen.status = "Expected"
      BY <2>1, <2>6, <3>1, SameLine DEF MayWriteLine, TaskSound
    <3>3. AuditBefore(task[w]) = [status |-> "Expected"]
      BY <3>1 DEF AuditBefore
    <3> QED  BY <3>2, <3>3
  <2>7. CASE CommitVoid(w) /\ Flips(task[w])
    <3>1. HoldsLine(task[w]) /\ task[w].op = "Void"
      BY <2>1, <2>7, ReadySteps DEF CommitVoid, Flips
    <3>2. line[task[w].line].status = "Invoiced"
      BY <2>1, <2>7, <3>1 DEF ChecksStand, CheckStands, Flips
    <3>3. AuditBefore(task[w]) = [status |-> "Invoiced"]
      BY <3>1 DEF AuditBefore
    <3> QED  BY <3>2, <3>3
  <2> QED  BY <2>4, <2>5, <2>6, <2>7
<1> QED  BY <1>1, Invariant, PTL DEF Spec, AuditIsHonest

\* An invoice bills what its line says, and no other invoice bills it.
THEOREM InvoicesBill == Spec => InvoiceBillsItsLine
<1>1. IInv /\ [Next]_vars =>
        [\A i \in DOMAIN invoice' \ DOMAIN invoice :
           LET l == invoice'[i].line IN
             /\ invoice'[i].subtotal = line'[l].amount /\ line'[l].status = "Invoiced"
             /\ LiveInvoices(l) = {}]_vars
  <2> SUFFICES ASSUME IInv, Next, NEW i \in DOMAIN invoice' \ DOMAIN invoice
               PROVE  /\ invoice'[i].subtotal = line'[invoice'[i].line].amount
                      /\ line'[invoice'[i].line].status = "Invoiced"
                      /\ LiveInvoices(invoice'[i].line) = {}
    OBVIOUS
  <2>1. RowsTyped /\ TasksTyped /\ ChecksStand
    BY DEF IInv
  <2>2. ASSUME NEW w \in Workers, CommitVoid(w) PROVE FALSE
    BY <2>2 DEF CommitVoid
  <2>3. ASSUME NEW w \in Workers, Starts(w) PROVE FALSE
    BY <2>3 DEF Starts, StartEdit, StartStage, StartBudget, StartCreate, StartPayout, StartRevoke,
                StartIssue, StartVoid, StartPerDiem, StartRoster, Start, data
  <2>4. PICK w \in Workers : CommitIssue(w)
    BY <2>2, <2>3 DEF Next, Take, BreakDeadlock, Commits, CommitEdit, CommitStage, CommitBudget,
       CommitCreate, CommitPayout, CommitRevoke, CommitPerDiem, CommitRoster, AddLine,
       DeactivateMission, data
  <2> DEFINE t == task[w]
             new == IssuedInvoice(t.line, t.seen.amount)
  <2>5. /\ MayWriteLine(t.line, t.seen, Billed) /\ invoice' = Append(invoice, new)
        /\ SetLine(t.line, Billed) /\ Ready(w, "Issue")
    BY <2>4 DEF CommitIssue
  <2>6. t.op = "Issue" /\ t \in IssueTasks /\ TaskSound(t)
    BY <2>1, <2>5, ReadyCall, TaskOf
  <2>7. line[t.line] = t.seen /\ t.line \in Lines /\ t.seen \in LineRows /\ t.seen.status = "Expected"
    BY <2>1, <2>5, <2>6, SameLine DEF MayWriteLine, TaskSound, IssueTasks
  <2>8. Billed \in Patches /\ line[t.line].income
    BY <2>1, <2>7 DEF Billed, Patches, PaymentStatuses, RowsTyped
  <2>9. LiveInvoices(t.line) = {}
    BY <2>1, <2>5, ReadySteps DEF ChecksStand, CheckStands
  <2>10. new \in InvoiceRows /\ new.line = t.line /\ new.subtotal = t.seen.amount
    BY <2>1, <2>7, RowAt DEF IssuedInvoice, InvoiceRows, LineRows
  <2> HIDE DEF t, new
  <2>11. invoice'[i] = new
    BY <2>1, <2>5, <2>10, Appended DEF RowsTyped
  <2>12. line'[t.line] = Patched(line[t.line], Billed)
    BY <2>1, <2>5, <2>7, <2>8, SetLineEffect
  <2>13. /\ Patched(line[t.line], Billed).status = "Invoiced"
         /\ Patched(line[t.line], Billed).amount = line[t.line].amount
    <3>1. DOMAIN Billed = {"status", "received"} /\ Billed.status = "Invoiced"
      BY DEF Billed
    <3> QED  BY <2>7, <2>8, <3>1, PatchedLine
  <2> QED  BY <2>7, <2>9, <2>10, <2>11, <2>12, <2>13
<1> QED  BY <1>1, Invariant, PTL DEF Spec, InvoiceBillsItsLine

-----------------------------------------------------------------------------
(* Distributions give the whole pool out.                                   *)

ExactHead(d) == Exact(d.pool, d.cut, [p \in DOMAIN d.shares |-> d.shares[p].amount], d.split)

\* A distribution in the making is one the allocator accepts.
Accepted(t) == t.op = "Create" => Allocatable(t.org, t.split)

HeadsExact == \A h \in Heads : ExactHead(head[h])
AllAccepted == \A w \in Workers : Accepted(task[w])

LEMMA NewHeadExact ==
  ASSUME RowsTyped, NEW l \in Lines, NEW org \in OrgShares, NEW split \in Splits,
         Allocatable(org, split)
  PROVE  ExactHead(NewHead(l, org, split))
<1> DEFINE pool == Landed(line[l])
           parts == AllocatedShares(pool, org, split)
           rows == [p \in DOMAIN split |-> [amount |-> parts[p], paid |-> FALSE, version |-> 0]]
           new == NewHead(l, org, split)
<1>1. pool \in Nat
  BY RowAt, AmountsAssumption DEF Landed, LineRows, None
<1>2. /\ org \in 0..FullBps /\ IsFiniteSet(DOMAIN split) /\ DOMAIN split \subseteq Nat
      /\ split \in [DOMAIN split -> Nat]
  BY SharesAssumption
<1>3. new.pool = pool /\ new.cut = Floor(pool, org) /\ new.split = split /\ new.shares = rows
  BY DEF NewHead
<1>4. DOMAIN rows = DOMAIN split /\ \A p \in DOMAIN split : rows[p].amount = parts[p]
  OBVIOUS
<1>5. parts = [p \in DOMAIN split |-> parts[p]]
  BY DEF AllocatedShares
<1> HIDE DEF pool, new, rows
<1>6. Exact(pool, Floor(pool, org), parts, split)
  BY <1>1, <1>2, AllocationIsExact
<1> HIDE DEF parts
<1>7. [p \in DOMAIN rows |-> rows[p].amount] = parts
  BY <1>4, <1>5
<1>8. ExactHead(new)
  BY <1>3, <1>6, <1>7 DEF ExactHead
<1> QED  BY <1>8 DEF new

\* What happens to a distribution afterwards does not touch its amounts.
LEMMA AmountsStay ==
  ASSUME IInv, NEW w \in Workers, CommitPayout(w) \/ CommitRevoke(w), HeadsExact
  PROVE  HeadsExact'
<1> DEFINE t == task[w]
<1>1. RowsTyped /\ TasksTyped /\ head \in Seq(HeadRows)
  BY DEF IInv, RowsTyped
<1>2. t.op \in {"Payout", "Revoke"} /\ TaskSound(t)
  BY <1>1, ReadyCall, TaskOf DEF CommitPayout, CommitRevoke
<1>3. t.head \in Heads /\ (t.op = "Payout" => t.person \in DOMAIN head[t.head].shares)
  BY <1>2 DEF TaskSound
<1> DEFINE row == head[t.head]
<1>4. PICK s \in Splits : row \in HeadRowsOf(s)
  BY <1>1, <1>3, RowAt, HeadAt
<1>5. ExactHead(row)
  BY <1>3 DEF HeadsExact
<1>6. ASSUME NEW new, head' = [head EXCEPT ![t.head] = new], ExactHead(new)
      PROVE  HeadsExact'
  <2>1. Heads' = Heads /\ \A h \in Heads : head'[h] = IF h = t.head THEN new ELSE head[h]
    BY <1>1, <1>3, <1>6 DEF Heads
  <2> HIDE DEF t
  <2> QED  BY <1>6, <2>1 DEF HeadsExact
<1>7. CASE UNCHANGED head
  BY <1>7 DEF HeadsExact, Heads
<1>8. CASE t.op = "Payout" /\ CommitPayout(w) /\ ~UNCHANGED head
  <2> DEFINE share == row.shares[t.person]
             paid == Patched(share, [paid |-> t.paid])
             shares == [row.shares EXCEPT ![t.person] = paid]
             new == [row EXCEPT !.shares = shares]
  <2>1. head' = [head EXCEPT ![t.head] = new]
    BY <1>8 DEF CommitPayout
  <2>2. share \in ShareRows /\ row.shares \in [DOMAIN s -> ShareRows] /\ t.person \in DOMAIN row.shares
    BY <1>3, <1>4, <1>8 DEF HeadRowsOf
  <2>3. paid.amount = share.amount
    <3> HIDE DEF share, row, t
    <3>1. paid = [amount |-> share.amount, paid |-> t.paid, version |-> share.version + 1]
      BY <2>2, PatchedShare
    <3> QED  BY <3>1
  <2> HIDE DEF t, row, paid
  <2>4. /\ DOMAIN shares = DOMAIN row.shares
        /\ \A p \in DOMAIN row.shares : shares[p].amount = row.shares[p].amount
    BY <2>2, <2>3
  <2> HIDE DEF shares, share
  <2>5. new.pool = row.pool /\ new.cut = row.cut /\ new.split = row.split /\ new.shares = shares
    BY <1>4 DEF HeadRowsOf
  <2>6. [p \in DOMAIN shares |-> shares[p].amount] = [p \in DOMAIN row.shares |-> row.shares[p].amount]
    BY <2>4
  <2> HIDE DEF new
  <2>7. ExactHead(new)
    BY <1>5, <2>5, <2>6 DEF ExactHead
  <2> QED  BY <1>6, <2>1, <2>7
<1>9. CASE t.op = "Revoke" /\ CommitRevoke(w) /\ ~UNCHANGED head
  <2> DEFINE new == Patched(row, [status |-> "Revoked"])
  <2>1. head' = [head EXCEPT ![t.head] = new]
    BY <1>9 DEF CommitRevoke
  <2> HIDE DEF t, row
  <2>2. /\ new.pool = row.pool /\ new.cut = row.cut /\ new.split = row.split
        /\ new.shares = row.shares
    <3>1. new = [line |-> row.line, pool |-> row.pool, cut |-> row.cut, split |-> row.split,
                 shares |-> row.shares, status |-> "Revoked", version |-> row.version + 1]
      BY <1>4, PatchedHead
    <3> QED  BY <3>1
  <2> HIDE DEF new
  <2>3. ExactHead(new)
    BY <1>5, <2>2 DEF ExactHead
  <2> QED  BY <1>6, <2>1, <2>3
<1>10. (t.op = "Payout" /\ CommitPayout(w)) \/ (t.op = "Revoke" /\ CommitRevoke(w))
  BY DEF CommitPayout, CommitRevoke, Ready
<1> QED  BY <1>7, <1>8, <1>9, <1>10

LEMMA CreatedExact ==
  ASSUME IInv, NEW w \in Workers, CommitCreate(w), HeadsExact, AllAccepted
  PROVE  HeadsExact'
<1> DEFINE t == task[w]
           new == NewHead(t.line, t.org, t.split)
<1>1. RowsTyped /\ TasksTyped /\ head \in Seq(HeadRows)
  BY DEF IInv, RowsTyped
<1>2. CASE UNCHANGED head
  BY <1>2 DEF HeadsExact, Heads
<1>3. CASE t.line \in ActiveIncome /\ head' = Append(head, new)
  <2>1. t \in CreateTasks /\ t.op = "Create"
    BY <1>1, ReadyCall, TaskOf DEF CommitCreate
  <2>2. Allocatable(t.org, t.split)
    BY <2>1 DEF AllAccepted, Accepted
  <2>3. t.line \in Lines
    BY <1>3 DEF ActiveIncome
  <2>4. new \in HeadRows /\ ExactHead(new)
    BY <1>1, <2>1, <2>2, <2>3, NewHeadTyped, NewHeadExact DEF CreateTasks
  <2> HIDE DEF t, new
  <2>5. /\ Heads' = Heads \cup {Len(head) + 1}
        /\ \A h \in Heads : head'[h] = head[h]
        /\ head'[Len(head) + 1] = new
    BY <1>1, <1>3, <2>4, Appended DEF Heads
  <2> QED  BY <2>4, <2>5 DEF HeadsExact
<1> QED  BY <1>2, <1>3 DEF CommitCreate

\* Calls that start and calls that go on.
LEMMA StartsAccepted ==
  ASSUME IInv, NEW w \in Workers, Starts(w), AllAccepted
  PROVE  AllAccepted' /\ head' = head
<1>1. task \in [Workers -> Tasks]
  BY DEF IInv, TasksTyped
<1>2. ASSUME NEW t, Accepted(t), Start(w, t)
      PROVE  AllAccepted' /\ head' = head
  <2>1. task' = [task EXCEPT ![w] = t] /\ head' = head
    BY <1>2 DEF Start, data
  <2>2. \A v \in Workers : task'[v] = IF v = w THEN t ELSE task[v]
    BY <1>1, <2>1
  <2> QED  BY <1>2, <2>1, <2>2 DEF AllAccepted
<1>3. CASE StartCreate(w)
  BY <1>2, <1>3 DEF StartCreate, Accepted
<1>4. CASE StartEdit(w)     BY <1>2, <1>4 DEF StartEdit, Accepted
<1>5. CASE StartStage(w)    BY <1>2, <1>5 DEF StartStage, Accepted
<1>6. CASE StartBudget(w)   BY <1>2, <1>6 DEF StartBudget, Accepted
<1>7. CASE StartPayout(w)   BY <1>2, <1>7 DEF StartPayout, Accepted
<1>8. CASE StartRevoke(w)   BY <1>2, <1>8 DEF StartRevoke, Accepted
<1>9. CASE StartIssue(w)    BY <1>2, <1>9 DEF StartIssue, Accepted
<1>10. CASE StartVoid(w)    BY <1>2, <1>10 DEF StartVoid, Accepted
<1>11. CASE StartPerDiem(w) BY <1>2, <1>11 DEF StartPerDiem, Accepted
<1>12. CASE StartRoster(w)  BY <1>2, <1>12 DEF StartRoster, Accepted
<1> QED
  BY <1>3, <1>4, <1>5, <1>6, <1>7, <1>8, <1>9, <1>10, <1>11, <1>12 DEF Starts

LEMMA SameCall ==
  ASSUME NEW t \in Tasks, NEW k
  PROVE  LET new == [t EXCEPT !.step = k] IN
           /\ new.op = t.op
           /\ t.op = "Create" => new.org = t.org /\ new.split = t.split
<1>1. "op" \in DOMAIN t
  BY DEF Tasks, Idle, EditTasks, StageTasks, BudgetTasks, CreateTasks, PayoutTasks, RevokeTasks,
     IssueTasks, VoidTasks, PerDiemTasks, RosterTasks
<1>2. t.op = "Create" => "org" \in DOMAIN t /\ "split" \in DOMAIN t
  BY DEF Tasks, Idle, EditTasks, StageTasks, BudgetTasks, CreateTasks, PayoutTasks, RevokeTasks,
     IssueTasks, VoidTasks, PerDiemTasks, RosterTasks
<1> QED  BY <1>1, <1>2

LEMMA TakeAccepted ==
  ASSUME IInv, NEW w \in Workers, Take(w) \/ Done(w), AllAccepted
  PROVE  AllAccepted'
<1>1. task \in [Workers -> Tasks] /\ task[w] \in Tasks
  BY DEF IInv, TasksTyped
<1>2. PICK t : task' = [task EXCEPT ![w] = t]
               /\ (t = Idle \/ t = [task[w] EXCEPT !.step = task[w].step + 1])
  BY DEF Take, Done
<1>3. \A v \in Workers : task'[v] = IF v = w THEN t ELSE task[v]
  BY <1>1, <1>2
<1>4. t.op = "Create" => t.op = task[w].op /\ t.org = task[w].org /\ t.split = task[w].split
  <2>1. CASE t = Idle
    BY <2>1 DEF Idle
  <2>2. CASE \E k : t = [task[w] EXCEPT !.step = k]
    BY <1>1, <2>2, SameCall
  <2> QED  BY <1>2, <2>1, <2>2
<1>5. Accepted(t)
  BY <1>4 DEF AllAccepted, Accepted
<1> QED  BY <1>3, <1>5 DEF AllAccepted

\* The organisation's cut and the shares add up to the pool, and no share is a
\* whole unit away from its exact part, in every distribution ever made.
THEOREM PoolExhausted == Spec => []PoolIsExhausted
<1>1. Init => HeadsExact /\ AllAccepted
  BY DEF Init, HeadsExact, Heads, AllAccepted, Accepted, Idle
<1>2. IInv /\ HeadsExact /\ AllAccepted /\ [Next]_vars => HeadsExact' /\ AllAccepted'
  <2> SUFFICES ASSUME IInv, HeadsExact, AllAccepted, [Next]_vars PROVE HeadsExact' /\ AllAccepted'
    OBVIOUS
  <2>1. head' = head => HeadsExact'
    BY DEF HeadsExact, Heads
  <2>2. task' = task => AllAccepted'
    BY DEF AllAccepted
  <2>3. ASSUME NEW w \in Workers, Starts(w) PROVE HeadsExact' /\ AllAccepted'
    BY <2>1, <2>3, StartsAccepted
  <2>4. ASSUME NEW w \in Workers, Take(w) \/ BreakDeadlock(w) PROVE HeadsExact' /\ AllAccepted'
    <3>1. head' = head
      BY <2>4 DEF Take, BreakDeadlock, data
    <3> QED  BY <2>1, <2>4, <3>1, TakeAccepted DEF BreakDeadlock
  <2>5. ASSUME NEW w \in Workers, Commits(w) PROVE HeadsExact' /\ AllAccepted'
    <3>1. Done(w)
      BY <2>5 DEF Commits, CommitEdit, CommitStage, CommitBudget, CommitCreate, CommitPayout,
                  CommitRevoke, CommitIssue, CommitVoid, CommitPerDiem, CommitRoster
    <3>2. CommitCreate(w) \/ CommitPayout(w) \/ CommitRevoke(w) \/ head' = head
      BY <2>5 DEF Commits, CommitEdit, CommitStage, CommitBudget, CommitIssue, CommitVoid,
                  CommitPerDiem, CommitRoster
    <3>3. HeadsExact'
      BY <2>1, <3>2, CreatedExact, AmountsStay
    <3> QED  BY <3>1, <3>3, TakeAccepted
  <2>6. ASSUME NEW income \in BOOLEAN, NEW a \in Amounts, AddLine(income, a) \/ DeactivateMission
        PROVE  head' = head /\ task' = task
    BY <2>6 DEF AddLine, DeactivateMission
  <2>7. CASE DeactivateMission
    BY <2>1, <2>2, <2>7 DEF DeactivateMission
  <2>8. CASE UNCHANGED vars
    BY <2>1, <2>2, <2>8 DEF vars
  <2> QED  BY <2>1, <2>2, <2>3, <2>4, <2>5, <2>6, <2>7, <2>8 DEF Next
<1>3. HeadsExact => PoolIsExhausted
  BY DEF HeadsExact, ExactHead, PoolIsExhausted
<1> QED  BY <1>1, <1>2, <1>3, Invariant, PTL DEF Spec
=============================================================================
