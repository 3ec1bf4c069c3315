---------------------------- MODULE MissionMoney ----------------------------
(***************************************************************************)
(* The money of one mission: its P&L lines, budget, per-diem, finance      *)
(* stage, invoices, and the distributions that pay out received lines      *)
(* (missionPnlOps.ts, distributionOps.ts, invoiceOps.ts, missionOps.ts and *)
(* the triggers that stand behind them).                                   *)
(*                                                                         *)
(* A call reads without a lock, takes a first set of row locks, checks     *)
(* again what it can, takes the rest, and commits: its writes and the      *)
(* release of its locks are one step.  A call that holds one row only, and *)
(* reads nothing before it has it, is a single step.  Reads see what is    *)
(* committed (READ COMMITTED); an UPDATE that waited is checked against    *)
(* the row as it is then.  A version a client sends is the one current     *)
(* when its call starts: an older one only makes the call end in a         *)
(* refusal.                                                                *)
(***************************************************************************)
EXTENDS Allocation, Sequences

CONSTANTS
  Workers,     \* API requests in flight
  Amounts,     \* amounts of a line, in minor units
  Rates,       \* amounts of a budget cell, and of a per-diem
  OrgShares,   \* organisation shares offered, in basis points
  Splits,      \* splits of the players' part offered: person -> basis points
  StartStages, \* finance stages the mission may have reached at the start
  MaxCalls     \* bound on calls

Stages == <<"Planning", "FinancePending", "Confirmed", "Active", "PostMission", "Settled">>
StageNames == {Stages[i] : i \in DOMAIN Stages}
PaymentStatuses == {"Expected", "Invoiced", "Received"}

ASSUME CallsAssumption  == MaxCalls \in Nat
ASSUME StagesAssumption == StartStages \subseteq StageNames \ {"Settled"}
ASSUME AmountsAssumption == Amounts \subseteq Nat \ {0} /\ Rates \subseteq Nat \ {0}
ASSUME SharesAssumption ==
  /\ OrgShares \subseteq 0..FullBps
  /\ \A s \in Splits : /\ s \in [DOMAIN s -> Nat]
                       /\ IsFiniteSet(DOMAIN s) /\ DOMAIN s \subseteq Nat

VARIABLES
  mission,     \* the mission row: its finance stage and whether it is active
  line,        \* mission_line, by the number in its id
  budget,      \* one cell of mission_budget
  participant, \* one row of mission_participant, with its per-diem
  invoice,     \* invoice, likewise
  head,        \* distribution with its distribution_share rows, likewise
  task,        \* per worker, the call it is in the middle of
  calls        \* calls made so far

vars == <<mission, line, budget, participant, invoice, head, task, calls>>
data == <<mission, line, budget, participant, invoice, head>>

NoRow == [version |-> -1]
None  == 0      \* no received amount, no per-diem
Idle  == [op |-> "none", step |-> 0]

LineRow(income, status, amount) ==
  [income |-> income, status |-> status, amount |-> amount, received |-> None,
   active |-> TRUE, version |-> 0]
IssuedInvoice(l, subtotal) ==
  [line |-> l, subtotal |-> subtotal, status |-> "Issued", version |-> 0]

\* One line exists, in any payment state, with its invoice when it is Invoiced.
Init ==
  /\ mission \in [stage: StartStages, active: {TRUE}, version: {0}]
  /\ \E s \in PaymentStatuses, a \in Amounts :
       /\ line    = <<LineRow(TRUE, s, a)>>
       /\ invoice = IF s = "Invoiced" THEN <<IssuedInvoice(1, a)>> ELSE <<>>
  /\ budget      = NoRow
  /\ participant = [active |-> TRUE, rate |-> None, version |-> 0]
  /\ head        = <<>>
  /\ task        = [w \in Workers |-> Idle]
  /\ calls       = 0

-----------------------------------------------------------------------------
(* Predicates the code evaluates on committed rows.                         *)

Lines    == DOMAIN line
Invoices == DOMAIN invoice
Heads    == DOMAIN head

BooksOpen == mission.active /\ mission.stage # "Settled"

NextStage(s) ==
  LET i == CHOOSE n \in DOMAIN Stages : Stages[n] = s
  IN  IF i = Len(Stages) THEN "none" ELSE Stages[i + 1]

ActiveIncome == {l \in Lines : line[l].active /\ line[l].income}

SettlementComplete ==
  /\ ActiveIncome # {}
  /\ \A l \in ActiveIncome : line[l].status = "Received"

\* The money a received line brought in.
Landed(row) == IF row.received = None THEN row.amount ELSE row.received

Live(h) == head[h].status = "Live"
LiveHeads(l) == {h \in Heads : Live(h) /\ head[h].line = l}
PaidInFull(h) == \A p \in DOMAIN head[h].shares : head[h].shares[p].paid
Paid(h) == \E p \in DOMAIN head[h].shares : head[h].shares[p].paid
Issued(i) == invoice[i].status = "Issued"
LiveInvoices(l) == {i \in Invoices : Issued(i) /\ invoice[i].line = l}

\* "row" with the fields of "patch" set, as an UPDATE does; it bumps the version.
Patched(row, patch) ==
  [f \in DOMAIN row |-> IF f \in DOMAIN patch THEN patch[f]
                        ELSE IF f = "version" THEN row.version + 1 ELSE row[f]]

-----------------------------------------------------------------------------
(* Row locks.                                                               *)

Key(r) == [row |-> r, mode |-> "key"]     \* FOR KEY SHARE, of a foreign key
Write(r) == [row |-> r, mode |-> "write"]   \* of an UPDATE
Update(r) == [row |-> r, mode |-> "update"]  \* FOR UPDATE

Conflict(a, b) ==
  /\ a.row = b.row
  /\ "update" \in {a.mode, b.mode} \/ (a.mode = "write" /\ b.mode = "write")

MissionRow     == <<"mission">>
ParticipantRow == <<"participant">>
InvoiceCounter == <<"counter">>
LineRowOf(l) == <<"line", l>>
InvoiceRow(i) == <<"invoice", i>>
HeadRow(h) == <<"head", h>>

MissionLocked == {Update(MissionRow)}
AllLines == {Update(LineRowOf(l)) : l \in Lines}

\* The locks a call takes, in order: it checks what it can each time it has
\* some, and commits when it has them all.  A new invoice waits for a
\* transaction that has written a live one of the same line (the partial
\* unique index), and for one that allocates invoice numbers.
CreateLocksLinesFirst(t) == <<AllLines, MissionLocked>>
CreateLocks(t) == <<MissionLocked, AllLines>>
EditLocks(t) == <<MissionLocked, {Write(LineRowOf(t.line))}>>
StageLocksLinesOnly(t) == IF t.to = "Settled" THEN <<{}, AllLines, {}>> ELSE <<MissionLocked, {}>>
StageLocks(t) == IF t.to = "Settled" THEN <<MissionLocked, AllLines, {}>>
                   ELSE <<MissionLocked, {}>>
BudgetLocks(t) == <<MissionLocked, {}>>
IssueLocks(t) == <<{Write(InvoiceCounter), Key(MissionRow), Key(LineRowOf(t.line))}
                       \cup {Write(InvoiceRow(i)) : i \in LiveInvoices(t.line)},
                     MissionLocked \cup {Write(LineRowOf(t.line))}>>
VoidLocks(t) == IF t.seen # NoRow /\ t.seen.status = "Invoiced"
                   THEN <<{Write(InvoiceRow(t.invoice)), Write(LineRowOf(t.line))}, MissionLocked>>
                   ELSE <<{Write(InvoiceRow(t.invoice))}, {}>>
PerDiemLocksNoHead(t) == <<{Write(ParticipantRow)}, {}, {}>>
PerDiemLocks(t) == <<{Write(ParticipantRow)}, MissionLocked, {}>>
RosterLocks(t) == <<{Update(ParticipantRow)}, {}>>
PayoutLocks(t) == <<{Update(HeadRow(t.head))}, {}>>
RevokeLocks(t) == <<{Update(HeadRow(t.head))}, {}>>

LocksOf(t) ==
  CASE t.op = "Create"  -> CreateLocks(t)
    [] t.op = "Edit"    -> EditLocks(t)
    [] t.op = "Stage"   -> StageLocks(t)
    [] t.op = "Budget"  -> BudgetLocks(t)
    [] t.op = "Issue"   -> IssueLocks(t)
    [] t.op = "Void"    -> VoidLocks(t)
    [] t.op = "PerDiem" -> PerDiemLocks(t)
    [] t.op = "Roster"  -> RosterLocks(t)
    [] t.op = "Payout"  -> PayoutLocks(t)
    [] t.op = "Revoke"  -> RevokeLocks(t)

Held(w) == UNION {LocksOf(task[w])[k] : k \in 1..task[w].step}
Wanted(w) == IF task[w] = Idle THEN {} ELSE LocksOf(task[w])[task[w].step + 1]

Blockers(locks) == {v \in Workers : \E a \in locks, b \in Held(v) : Conflict(a, b)}
WaitsFor(u, v) == u # v /\ v \in Blockers(Wanted(u))
Granted(w) == \A v \in Workers : ~WaitsFor(w, v)

\* Workers that wait for one another in a circle.
Deadlocked(C) ==
  /\ C # {}
  /\ \A u \in C : (\E v \in C : WaitsFor(u, v)) /\ (\E v \in C : WaitsFor(v, u))

-----------------------------------------------------------------------------
(* Calls start: what each reads before it holds a lock.                     *)

Start(w, t) ==
  /\ task[w] = Idle
  /\ calls < MaxCalls
  /\ calls' = calls + 1
  /\ task' = [task EXCEPT ![w] = t]
  /\ UNCHANGED data

\* updateMissionLine, removeMissionLine, setMissionLinePayment: the columns
\* each may write on the row it read.
Edits(row) ==
  {[amount |-> a] : a \in Amounts \ {row.amount}} \cup {[active |-> FALSE]} \cup
  (IF row.income
   THEN {p \in [status: PaymentStatuses, received: (Amounts \ {row.amount}) \cup {None}] :
           p.status = "Received" \/ p.received = None}
   ELSE {})

StartEdit(w) ==
  \E l \in Lines : line[l].active /\ \E p \in Edits(line[l]) :
    Start(w, [op |-> "Edit", step |-> 0, line |-> l, seen |-> line[l], patch |-> p])

StartStage(w) ==
  Start(w, [op |-> "Stage", step |-> 0, to |-> NextStage(mission.stage),
            version |-> mission.version])

\* "seen" is the cell the client read.
StartBudget(w) ==
  \E a \in Rates \cup {None} :
    Start(w, [op |-> "Budget", step |-> 0, seen |-> budget, amount |-> a])

\* The friendly one-live-per-line check is made before the transaction.
StartCreate(w) ==
  \E l \in Lines, org \in OrgShares, split \in Splits :
    /\ LiveHeads(l) = {} /\ Allocatable(org, split)
    /\ Start(w, [op |-> "Create", step |-> 0, line |-> l, org |-> org, split |-> split])

StartPayout(w) ==
  \E h \in Heads : \E p \in DOMAIN head[h].shares :
    Start(w, [op |-> "Payout", step |-> 0, head |-> h, person |-> p,
              paid |-> ~head[h].shares[p].paid, version |-> head[h].shares[p].version])

StartRevoke(w) ==
  \E h \in Heads : Live(h) /\
    Start(w, [op |-> "Revoke", step |-> 0, head |-> h, version |-> head[h].version])

StartIssue(w) ==
  \E l \in ActiveIncome :
    /\ mission.active /\ line[l].status = "Expected"
    /\ Start(w, [op |-> "Issue", step |-> 0, line |-> l, seen |-> line[l]])

\* A removed line is not found, and leaves the invoice to be voided alone.
StartVoid(w) ==
  \E i \in Invoices : Issued(i) /\
    LET l == invoice[i].line IN
      /\ line[l].active => line[l].status # "Received"
      /\ Start(w, [op |-> "Void", step |-> 0, invoice |-> i, version |-> invoice[i].version,
                   line |-> l, seen |-> IF line[l].active THEN line[l] ELSE NoRow])

StartPerDiem(w) ==
  \E r \in (Rates \cup {None}) \ {participant.rate} :
    /\ participant.active
    /\ Start(w, [op |-> "PerDiem", step |-> 0, rate |-> r, version |-> participant.version])

\* Execution of AddMissionParticipant or RemoveMissionParticipant.
StartRoster(w) ==
  \E active \in BOOLEAN :
    /\ active => mission.active
    /\ Start(w, [op |-> "Roster", step |-> 0, active |-> active])

Starts(w) ==
  \/ StartEdit(w) \/ StartStage(w) \/ StartBudget(w) \/ StartCreate(w) \/ StartPayout(w)
  \/ StartRevoke(w) \/ StartIssue(w) \/ StartVoid(w) \/ StartPerDiem(w) \/ StartRoster(w)

-----------------------------------------------------------------------------
(* Locks are taken, and what the call checks under them.                    *)

\* mission_line_distribution_guard: what a line is worth does not change while
\* a live distribution pays it out.
LineFreeToUnreceive(l, patch) ==
  LiveHeads(l) # {} => \A f \in DOMAIN patch \ {"status"} : patch[f] = line[l][f]
LineFree(l, patch) ==
  LiveHeads(l) # {} => \A f \in DOMAIN patch : patch[f] = line[l][f]

\* The predicate of an UPDATE of the row that was read.
StillActive(l, seen) == line[l].active
UnchangedSince(l, seen) == line[l].active /\ line[l].version = seen.version

Unbilled == [status |-> "Expected", received |-> None]
Billed   == [status |-> "Invoiced", received |-> None]

Admitted(t) ==
  CASE t.op = "Edit"    -> BooksOpen
    [] t.op = "Stage" /\ t.step = 0 -> BooksOpen /\ t.to = NextStage(mission.stage)
    [] t.op = "Stage" /\ t.step = 1 -> SettlementComplete
    [] t.op = "Budget"  -> BooksOpen /\ (budget = NoRow \/ budget.version = t.seen.version)
    [] t.op = "Create"  -> mission.active
    [] t.op = "Payout"  -> Live(t.head)
    [] t.op = "Revoke"  -> ~Paid(t.head)
    [] t.op = "Issue"   -> LiveInvoices(t.line) = {}
    [] t.op = "Void"    -> /\ Issued(t.invoice) /\ invoice[t.invoice].version = t.version
                           /\ t.seen # NoRow /\ t.seen.status = "Invoiced"
                              => UnchangedSince(t.line, t.seen) /\ LineFree(t.line, Unbilled)
    [] t.op = "Roster"  -> participant.active # t.active
    [] t.op = "PerDiem" /\ t.step = 0 -> participant.active /\ participant.version = t.version
    [] t.op = "PerDiem" /\ t.step = 1 -> BooksOpen

Take(w) ==
  /\ task[w] # Idle /\ task[w].step < Len(LocksOf(task[w])) - 1 /\ Granted(w)
  /\ task' = [task EXCEPT ![w] =
                IF Admitted(task[w]) THEN [task[w] EXCEPT !.step = task[w].step + 1] ELSE Idle]
  /\ UNCHANGED <<data, calls>>

-----------------------------------------------------------------------------
(* The last locks and checks, and the commit or the roll-back.              *)

Ready(w, op) ==
  task[w].op = op /\ task[w].step = Len(LocksOf(task[w])) - 1 /\ Granted(w)

Done(w) == task' = [task EXCEPT ![w] = Idle]

SetLine(l, patch) == line' = [line EXCEPT ![l] = Patched(@, patch)]

\* The UPDATE's predicate, then the two triggers of mission_line.
MayWriteLine(l, seen, patch) == UnchangedSince(l, seen) /\ LineFree(l, patch) /\ BooksOpen

CommitEdit(w) ==
  LET t == task[w] IN
  /\ Ready(w, "Edit") /\ Done(w)
  /\ IF MayWriteLine(t.line, t.seen, t.patch) THEN SetLine(t.line, t.patch) ELSE UNCHANGED line
  /\ UNCHANGED <<mission, budget, participant, invoice, head, calls>>

CommitStage(w) ==
  LET t == task[w] IN
  /\ Ready(w, "Stage") /\ Done(w)
  /\ IF mission.version = t.version
     THEN mission' = Patched(mission, [stage |-> t.to])
     ELSE UNCHANGED mission
  /\ UNCHANGED <<line, budget, participant, invoice, head, calls>>

\* A cleared cell is deleted, and a cell set again starts from version 0.
BudgetAfter(amount) ==
  IF amount = None THEN NoRow
  ELSE IF budget = NoRow THEN [amount |-> amount, version |-> 0]
  ELSE Patched(budget, [amount |-> amount])

CommitBudget(w) ==
  /\ Ready(w, "Budget") /\ Done(w)
  /\ budget' = BudgetAfter(task[w].amount)
  /\ UNCHANGED <<mission, line, participant, invoice, head, calls>>

NewHeadRoundedDown(l, org, split) ==
  LET pool   == Landed(line[l])
      shares == AllocatedSharesRoundedDown(pool, org, split)
  IN  [line |-> l, pool |-> pool, cut |-> Floor(pool, org), split |-> split,
       shares |-> [p \in DOMAIN split |-> [amount |-> shares[p], paid |-> FALSE, version |-> 0]],
       status |-> "Live", version |-> 0]

NewHead(l, org, split) ==
  LET pool   == Landed(line[l])
      shares == AllocatedShares(pool, org, split)
  IN  [line |-> l, pool |-> pool, cut |-> Floor(pool, org), split |-> split,
       shares |-> [p \in DOMAIN split |-> [amount |-> shares[p], paid |-> FALSE, version |-> 0]],
       status |-> "Live", version |-> 0]

CommitCreateUnindexed(w) ==
  LET t == task[w] IN
  /\ Ready(w, "Create") /\ Done(w)
  /\ IF t.line \in ActiveIncome /\ line[t.line].status = "Received"
     THEN head' = Append(head, NewHead(t.line, t.org, t.split))
     ELSE UNCHANGED head
  /\ UNCHANGED <<mission, line, budget, participant, invoice, calls>>

\* The one-live-per-line index refuses what the friendly check let through.
CommitCreate(w) ==
  LET t == task[w] IN
  /\ Ready(w, "Create") /\ Done(w)
  /\ IF t.line \in ActiveIncome /\ line[t.line].status = "Received" /\ LiveHeads(t.line) = {}
     THEN head' = Append(head, NewHead(t.line, t.org, t.split))
     ELSE UNCHANGED head
  /\ UNCHANGED <<mission, line, budget, participant, invoice, calls>>

\* distribution_share_paid_guard: what leaves a share Paid needs a live head.
CommitPayout(w) ==
  LET t == task[w]
      share == head[t.head].shares[t.person]
  IN
  /\ Ready(w, "Payout") /\ Done(w)
  /\ IF share.version = t.version /\ (t.paid => Live(t.head))
     THEN head' = [head EXCEPT ![t.head].shares[t.person] = Patched(@, [paid |-> t.paid])]
     ELSE UNCHANGED head
  /\ UNCHANGED <<mission, line, budget, participant, invoice, calls>>

\* distribution_head_revoke_guard: no Paid share under a revoked head.
CommitRevoke(w) ==
  LET t == task[w] IN
  /\ Ready(w, "Revoke") /\ Done(w)
  /\ IF Live(t.head) /\ head[t.head].version = t.version /\ ~Paid(t.head)
     THEN head' = [head EXCEPT ![t.head] = Patched(@, [status |-> "Revoked"])]
     ELSE UNCHANGED head
  /\ UNCHANGED <<mission, line, budget, participant, invoice, calls>>

CommitIssue(w) ==
  LET t == task[w] IN
  /\ Ready(w, "Issue") /\ Done(w)
  /\ IF MayWriteLine(t.line, t.seen, Billed)
     THEN /\ invoice' = Append(invoice, IssuedInvoice(t.line, t.seen.amount))
          /\ SetLine(t.line, Billed)
     ELSE UNCHANGED <<line, invoice>>
  /\ UNCHANGED <<mission, budget, participant, head, calls>>

CommitVoid(w) ==
  LET t == task[w]
      flips == t.seen # NoRow /\ t.seen.status = "Invoiced"
  IN
  /\ Ready(w, "Void") /\ Done(w)
  /\ IF flips => BooksOpen
     THEN /\ invoice' = [invoice EXCEPT ![t.invoice] = Patched(@, [status |-> "Voided"])]
          /\ IF flips THEN SetLine(t.line, Unbilled)
             ELSE UNCHANGED line
     ELSE UNCHANGED <<line, invoice>>
  /\ UNCHANGED <<mission, budget, participant, head, calls>>

CommitPerDiem(w) ==
  /\ Ready(w, "PerDiem") /\ Done(w)
  /\ participant' = Patched(participant, [rate |-> task[w].rate])
  /\ UNCHANGED <<mission, line, budget, invoice, head, calls>>

CommitRoster(w) ==
  /\ Ready(w, "Roster") /\ Done(w)
  /\ participant' = Patched(participant, [active |-> task[w].active])
  /\ UNCHANGED <<mission, line, budget, invoice, head, calls>>

Commits(w) ==
  \/ CommitEdit(w) \/ CommitStage(w) \/ CommitBudget(w) \/ CommitCreate(w) \/ CommitPayout(w)
  \/ CommitRevoke(w) \/ CommitIssue(w) \/ CommitVoid(w) \/ CommitPerDiem(w) \/ CommitRoster(w)

-----------------------------------------------------------------------------
(* Calls that hold one row only.                                            *)

AddLineExpected(income, a) ==
  /\ calls < MaxCalls
  /\ Blockers(MissionLocked) = {} /\ BooksOpen
  /\ line' = Append(line, LineRow(income, "Expected", a))
  /\ calls' = calls + 1
  /\ UNCHANGED <<mission, budget, participant, invoice, head, task>>

AddLine(income, a) ==
  /\ calls < MaxCalls
  /\ Blockers(MissionLocked) = {} /\ BooksOpen
  /\ line' = Append(line, LineRow(income, IF income THEN "Expected" ELSE "None", a))
  /\ calls' = calls + 1
  /\ UNCHANGED <<mission, budget, participant, invoice, head, task>>

DeactivateMission ==
  /\ calls < MaxCalls
  /\ Blockers({Write(MissionRow)}) = {} /\ mission.active
  /\ mission' = Patched(mission, [active |-> FALSE])
  /\ calls' = calls + 1
  /\ UNCHANGED <<line, budget, participant, invoice, head, task>>

\* Postgres ends one of the calls that wait for each other; none is retried,
\* for withSerializationRetry guards payouts and revocations only.
BreakDeadlock(w) ==
  /\ \E C \in SUBSET Workers : w \in C /\ Deadlocked(C)
  /\ Done(w)
  /\ UNCHANGED <<data, calls>>

Next ==
  \/ \E w \in Workers : Starts(w) \/ Take(w) \/ Commits(w) \/ BreakDeadlock(w)
  \/ \E income \in BOOLEAN, a \in Amounts : AddLine(income, a)
  \/ DeactivateMission

Spec == Init /\ [][Next]_vars

-----------------------------------------------------------------------------
(* Properties.                                                              *)

ShareRows == [amount: Nat, paid: BOOLEAN, version: Nat]

\* Every row has the shape its table gives it, and refers to rows that exist.
TypeOK ==
  /\ mission \in [stage: StageNames, active: BOOLEAN, version: Nat]
  /\ \A l \in Lines :
       line[l] \in [income: BOOLEAN, status: PaymentStatuses \cup {"None"}, amount: Amounts,
                    received: Amounts \cup {None}, active: BOOLEAN, version: Nat]
  /\ \A l \in Lines : line[l].income <=> line[l].status # "None"
  /\ budget \in {NoRow} \cup [amount: Rates, version: Nat]
  /\ participant \in [active: BOOLEAN, rate: Rates \cup {None}, version: Nat]
  /\ \A i \in Invoices : /\ invoice[i] \in [line: Lines, subtotal: Amounts,
                                            status: {"Issued", "Voided"}, version: Nat]
  /\ \A h \in Heads : /\ head[h].line \in Lines /\ head[h].status \in {"Live", "Revoked"}
                      /\ \A p \in DOMAIN head[h].shares : head[h].shares[p] \in ShareRows
  /\ calls \in 0..MaxCalls

\* A settled mission has income, and all of it is received: no line is added,
\* un-received or restored between the settlement's check and its commit, or
\* afterwards (missionPnlOps.ts, setMissionFinanceStage).
SettledIsComplete ==
  mission.stage = "Settled" =>
    /\ \E l \in Lines : line[l].active /\ line[l].status = "Received"
    /\ \A l \in Lines : line[l].active => line[l].status \in {"Received", "None"}

\* The books of a settled mission are closed: lines, budget and per-diem no
\* longer change, whatever was in flight when it settled (requireActiveMission
\* and mission_finance_child_guard).
BooksClosed ==
  [][mission.stage = "Settled" => line' = line /\ budget' = budget
                                  /\ participant'.rate = participant.rate]_vars

\* A live distribution pays out exactly what its line brought in, from a line
\* that is still there and still received (mission_line_distribution_guard).
PoolIsLanded ==
  \A h \in Heads : Live(h) =>
    LET row == line[head[h].line] IN
      row.active /\ row.status = "Received" /\ head[h].pool = Landed(row)

\* Money is paid only under a live distribution: a revocation and a payout of
\* the same distribution never both commit (markPayout, revokeDistribution).
PaidUnderLive ==
  \A h \in Heads : \A p \in DOMAIN head[h].shares : head[h].shares[p].paid => Live(h)

\* Two live distributions never pay out the same line.
OneLivePerLine == \A l \in Lines : Cardinality(LiveHeads(l)) <= 1

\* The organisation's cut and the shares add up to the pool, and no share is a
\* whole unit away from its exact part (allocateDistribution).
PoolIsExhausted ==
  \A h \in Heads :
    LET d == head[h]
    IN  Exact(d.pool, d.cut, [p \in DOMAIN d.shares |-> d.shares[p].amount], d.split)

\* What the audit trail gives as the state a call replaced.
AuditBefore(t) ==
  CASE t.op = "Edit"  -> [f \in DOMAIN t.patch |-> t.seen[f]]
    [] t.op = "Issue" -> [status |-> "Expected"]
    [] t.op = "Void"  -> [status |-> "Invoiced"]

\* The audit trail tells the truth: the values a line edit, an invoice or its
\* voiding records as replaced are those its commit does replace, although they
\* were read before the row was locked.
AuditIsHonest ==
  [][\A w \in Workers :
       (task[w].op \in {"Edit", "Issue", "Void"} /\ task'[w] = Idle /\ line' # line) =>
         LET before == AuditBefore(task[w]) IN
           \A f \in DOMAIN before : line[task[w].line][f] = before[f]]_vars

\* An invoice bills what its line says when it is issued, the line is marked
\* Invoiced with it, and no other invoice bills it (issueInvoice).
InvoiceBillsItsLine ==
  [][\A i \in DOMAIN invoice' \ DOMAIN invoice :
       LET l == invoice'[i].line IN
         /\ invoice'[i].subtotal = line'[l].amount /\ line'[l].status = "Invoiced"
         /\ LiveInvoices(l) = {}]_vars

\* Calls wait for one another in a circle only when one of them is voiding an
\* invoice, the only one to hold a row under the mission while it waits for the
\* mission itself (writeTx.ts, getMissionForUpdate).  Payouts and revocations,
\* the calls that are retried, are never among them.
OnlyVoidsDeadlock ==
  \A C \in SUBSET Workers : Deadlocked(C) =>
    /\ \E w \in C : task[w].op = "Void"
    /\ \A w \in C : task[w].op \in {"Void", "Edit", "Stage", "Create"}
=============================================================================
