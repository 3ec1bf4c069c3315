# C3 platform: a formal model of the governed pipeline

TLA+ modules, TLC configurations and TLAPS proofs for the server of the C3 platform
(`webv0/`): a multi-tenant back office in which nearly every consequential change is a
*request* that somebody submits, somebody else approves, and an execution puts in effect.
All paths below are relative to `webv0/`.

- [The system](#the-system): components, state, operations, what is hard about them
- [The modules](#the-modules): what each models and how it corresponds to the code
- [The runs](#the-runs): what is checked, with which bounds and which fairness
- [Disagreements found](#disagreements-found)
- [The proofs](#the-proofs)
- [What is not modelled](#what-is-not-modelled)
- [The plan](#the-plan)

## The system

The API (`apps/api`, Fastify) turns a route call into one use case of
`packages/application/src/usecases`. A use case authorises the actor, opens a transaction
through `packages/persistence` (one PostgreSQL transaction, READ COMMITTED, with the tenant
set for row-level security: `tenantContext.ts`), locks the rows it will decide on, checks
them with the pure functions of `packages/domain`, writes, and appends to the event and
audit tables. There is no queue and no worker process: concurrency is that of API requests
(and of several API processes) over one database, and whatever must survive a crash is a
row that a later *drain* call works off. Blob storage is the only other stateful
service.

| component | state it keeps | operations | what is hard | what makes it correct |
|---|---|---|---|---|
| **Approval lifecycle, separation of duties** (`domain/lifecycle.ts`, `identity.ts`) | none | transition table, self-review test | – | used alike by every other part |
| **Request pipeline** (`submit*.ts`, `reviewApproval.ts`, `executeApproval.ts`, `editApproval.ts`) | `approval`, `approval_event`, `audit_event`, and the records the operations change | submit, begin review, approve, reject, withdraw, edit, execute, retry | checks made before the row lock; a failed execution recorded in a second transaction; a client's retry of an execution already done; edits racing decisions | effect exactly once and exactly as approved; requester is never decider; the record is complete; nobody acts on content they did not see |
| **Delegation** (`delegationOps.ts`) | `delegation` | grant, revoke; expires with the date | read before the lock is waited for | a decision needs standing, separation of duties survives it |
| **Revision outbox** (`editApproval.ts`, migrations 0038, 0058, 0061) | `approval.revision_of`, `superseded_by`, `approval_revision` | revise (three transactions), drain | crash between the transactions; two drains at once; give-up after too many attempts | at most one live successor, links agree, no source left open, every intent settles |
| **Departures** (`departureOps.ts`, `submitPersonOps.ts`, migrations 0042, 0054, 0062, 0065) | `departure` with its hand-off, `person.is_active`, person requests | initiate, complete, cancel, drain; submit and execute person requests | find-or-submit against submits by users; the drain's stale list; swallowed failures | one open deactivation per person, hand-offs final, fresh, of the right kind and never lost |
| **Mission money** (`missionPnlOps.ts`, `distributionOps.ts`, `invoiceOps.ts`, `domain/distribution.ts`, migrations 0049, 0052, 0063, 0066) | `mission` (stage, version), `mission_line`, `mission_budget`, per-diems, `invoice`, `distribution`, shares | lines, budgets, finance stage, issue and void an invoice, create/revoke distribution, mark payout | lock order, settlement against late child writes, revoke against pay, reads made before the lock, READ COMMITTED guard triggers | a settled mission is complete and its books stay closed; money is paid only under a live distribution of landed money, split to the last unit; nobody deadlocks who is not expected to |
| **Tenant exit** (`exitTenant.ts`, `blobBundle.ts`, `apps/api/src/erasureJanitor.ts`, migrations 0056, 0059, 0069, 0076, 0086) | `tenant.exit_state`, upload leases, `blob_tombstone`, `erased_tenant_prefix`; objects in storage | quiesce, drain leases, delete data, sweep, finalize, janitor passes | uploads in flight; a ceremony stopped between phases and rerun; objects that appear after the sweep; two janitor processes | identity is only removed when nothing is left; what appears later is caught, counted once and destroyed |
| **Guest intake** (`intakeOps.ts`) | links, submissions, quarantined objects, tombstones | submit, promote, reject, attach, wipe | claim against claim, bytes stored outside the transaction, partial wipes | a link is used once, no orphan object without an entry in the wipe ledger |
| **Member administration** (migrations 0034, 0050) | `tenant_membership`, `role_assignment` | SECURITY DEFINER functions run by member requests | two owners acting on each other | a tenant keeps an active owner |
| **Documents, blobs** (`documentOps.ts`, `storage.ts`) | documents, objects | upload, remove | bytes before rows; a COMMIT whose answer is lost | every row has its object |
| **Records** (agreements, missions, teams, credentials, equipment, ...) | their tables | version-guarded edits in one transaction | lost updates | version discipline |
| **Comms** (`comms*.ts`, `commsStream.ts`) | threads, messages, obligations | post, acknowledge, stream | order on the live stream | obligations settle |
| **Authorization** (`packages/authz`) | none | static capability tables | – | the standings the pipeline reads |
| **Search, situation, reports** | none | derived reads | – | – |
| **Backup, restore, migration** (`apps/backup`, `migrate.ts`) | – | operator tooling | one operator at a time | – |
| **HTTP edge, web client** | – | parsing, rendering | – | – |

Components call one another in two ways. Direct: a departure's drain calls the person
submit; a revision calls the submit of its operation; an execution calls the record writer.
Through rows: `deactivation_requested` and `approval_revision` are intents one request
writes and any later request may work off; statuses and versions of approval rows are what
concurrent requests see of each other.

`PROJECT.json` lists under `hazards` each place in this code that is hard to test, with the
properties that would catch it going wrong.

## The modules

| module | role |
|---|---|
| `Lifecycle` | the status set, transitions, open and revisable statuses, self-review; constants only, extended by the rest |
| `Approvals` | the request pipeline with delegation, at the grain of lock acquisition |
| `ApprovalContract` | what the pipeline promises: five actions over phase, author, content, agreement, effect |
| `ApprovalsProofs` | theorems about `Approvals`, and that it implements `ApprovalContract` |
| `RevisionOutbox` | revise and resubmit, drains, attempts, crashes |
| `Departures` | offboarding, its deactivation outbox, and the person requests racing it |
| `Outbox` | what both outboxes promise: four actions over a wish, the requests made for it, and its answer |
| `RevisionOutboxProofs`, `DeparturesProofs` | theorems about the two outboxes, and that each implements `Outbox` |
| `Allocation` | how a distribution splits its pool: constants only, extended by `MissionMoney` |
| `AllocationProofs` | folds over finite sets, and that the split is exact for every pool and share list |
| `MissionMoney` | one mission's lines, budget cell, per-diem, stage, invoices and distributions, with the row locks each call takes |
| `MissionMoneyProofs` | theorems about `MissionMoney` |
| `MissionDeadlocksProofs` | which calls can wait for one another in a circle |
| `TenantExit` | the objects of one tenant: uploads, the wipe ledger, the exit command, the janitor |
| `TenantExitProofs` | theorems about `TenantExit` |
| `MCApprovals`, `MCRevisionOutbox`, `MCDepartures`, `MCMissionMoney`, `MCTenantExit` | model values and symmetry for TLC |

Some definitions are used by no specification (`AddLineExpected`, `CommitCatchUnsaved`,
`CreateLocksLinesFirst`, ...; the older modules comment them "Mutated form"): each is a
plausible bug in the definition that follows it, kept to see that a property notices.
`PROJECT.json` pairs each with its property under `mutants`.

### Approvals

*State.* `approval` holds the rows (status, version, payload, submitter, reviewer),
`applied` the contents that executions of a request have put in effect (an abstraction of
the record each operation type writes), `log` the append-only `approval_event` rows,
`revision` whether a row is the revision of another request and whether that request points
to it yet, `delegation` the state of each member's one unrevoked delegation, `session` what
each API request in flight holds.

*Atomicity.* Every writer of an approval row takes it `FOR UPDATE` first and checks it
after, so what a transaction does from the lock to its commit is one step. What runs
*before* the lock is separate: `Open` is the caller's earlier read (whose version it sends
back as `expectedVersion`) together with the standing check, and any number of other steps
may come between it and the locked step. A failed execution is two steps, because the code
makes it two transactions: `ExecuteFault` (everything rolled back) and `RecordFailure`,
which takes the row as it then is. `Abandon` is a refusal, a lost connection or a crash
anywhere in between; in the second transaction it is the failure the code swallows.

| action | code |
|---|---|
| `Submit` | `submitAddPerson.ts` and its siblings: row and event in one transaction |
| `LinkRevision` | the last transaction of `completeRevisionIntent` as the successor's record sees it: one more event, Submitted to Submitted, in the name of whoever revises or drains, with no change of version and wherever the successor is by then |
| `Open` | the routes of `app.ts`; role and delegation half of `transition` and `executeApproval` |
| `Review` | `transition` in `reviewApproval.ts`: self-review, lifecycle, version, status, event |
| `Withdraw`, `Edit` | `withdrawApproval`, `editApprovalPayload` |
| `ExecuteOk`, `ExecuteFault`, `ExecuteAgain`, `RecordFailure` | `executeApproval` and `recordExecutionFailure` |
| `Grant`, `Revoke`, `WindowMoves` | `delegationOps.ts`; `delegationState` as the date moves |

A record therefore has one event per version, and a revision's has one more. `RecordMatchesRow`
says that leaving this one out leaves an unbroken path, and `SeparationOfDuties` that it is the
only event anybody but the submitter may make that is no decision.

### RevisionOutbox

All rows are requests of a family that refuses a second open request on its target, on one
target: the setting in which a revision can collide with others. `Revise` is the first
transaction of `reviseApproval` (re-gate, withdraw if open, claim); `Probe`, `Guard`,
`Insert`, `InsertRefused`, `Reprobe`, `SubmitFault`, `Bump`, `MarkAbandoned`, `Link` are the
awaits of `completeRevisionIntent` in the order of the code, run by the request that started
the revision or by a `Drain`. `Link` sets the source's link, completes the intent and, if its
link was the first, appends the event to the successor's record (`linkEvents` counts these).
The recorded payload is parsed again at the end of `Probe`, outside the `try`: a payload the
schema refuses (`unreadable`) ends the task, which counts nothing. It was valid when it was
recorded, so only a deployment with another schema (`Redeploy`) makes one unreadable.
`OneMore` counts attempts up to the backstop, since nobody tells apart what lies beyond it.
`Conflict` is the partial unique index of 0061. A drain that
listed an intent as Pending starts `completeRevisionIntent` afterwards; the model lets the
list and the start coincide, and covers the delay with the step to `Probe`. `Submit` is an
ordinary submit: its duplicate guard may have read the rows before any existed, so it rules
out no moment and is left out. Reviews, withdrawals and executions are one step each.

`wishOf`, `madeOf` and `answerOf` map the rows to `Outbox`: an intent is a wish, the rows that
name the source in `revision_of` were made for it, and the source's `superseded_by` is the
answer, whatever the intent's own status says beside it (see disagreement 2).

### Departures

A submit of a person request is modelled read by read (`ReadPerson`, `ReadOpen`, `Insert`),
because its checks run outside the transaction that inserts. The drain is
`List`, then per departure `TakeUp`, `Find`, the submit's steps, a second `Find` after a
refusal, `Link`. The order in which the list is walked is left open. `Conflict` is the index of
0062 and 0065, on open DeactivatePerson requests only. `Fault` is any exception, with the
catch that answers it; `Lose` is a crash. `active` is changed by `Execute` alone, after the
check the code repeats under the person's row lock. Payloads, versions and reviewers are
`Approvals`' matter and left out. Mapped to `Outbox`, `deactivation_requested` is the wish, the
person's deactivations are the requests that do for it, and the linked one is the answer. A
departure's wish is never dropped.

### MissionMoney and Allocation

*State.* One mission row, its lines, one cell of its budget, one participant row with its
per-diem, the invoices and distributions of its lines (a share's payout is a row of its own
in `shares`), and for each API request in flight the call it is in the middle of.

*Atomicity.* Each use case reads before it locks, and its row locks are taken in an order.
So a call is `Start...` (what it reads first, and what it will send to the `UPDATE`),
`Take` (a first set of locks, then the checks the code makes under them), and `Commit...`
(the last locks, the predicate of the `UPDATE`, the guard triggers, the writes, and the
release of every lock). `LocksOf` writes down which rows each call locks, in which mode and
in which order, the foreign keys' and the triggers' locks included; `Conflict` is
PostgreSQL's lock table restricted to the three modes that occur; `Granted` waits. A
deadlock is a circle of `WaitsFor`, and `BreakDeadlock` is what the server then does. Calls
that hold one row and read nothing before (`AddLine`, `DeactivateMission`) are one step.

| action | code |
|---|---|
| `StartEdit`, `CommitEdit` | `updateMissionLine`, `removeMissionLine`, `setMissionLinePayment` |
| `StartStage`, `CommitStage` | `setMissionFinanceStage`, with the settlement's check of all lines |
| `StartBudget`, `CommitBudget`; `StartPerDiem`, `CommitPerDiem` | `setMissionBudget`; `setMissionPerDiem` |
| `StartCreate`, `CommitCreate`; `StartRevoke`, `CommitRevoke` | `createDistribution`, `revokeDistribution`, the index of one live head per line, the revoke guard |
| `StartPayout`, `CommitPayout` | `markPayout` and the paid-share guard |
| `StartIssue`, `CommitIssue`; `StartVoid`, `CommitVoid` | `issueInvoice`, `voidInvoice` |
| `StartRoster`, `CommitRoster`; `AddLine`; `DeactivateMission` | execution of the roster requests; `addMissionLine`; `deactivateMission` |

`Allocation` is `allocateDistribution` itself, over any pool and any shares: the
organisation's cut rounded down, the rest by largest remainder with the code's tie-breaks.

### TenantExit

*State.* A key per upload (the code never reuses one), the row that owns it, the entries
`blob_tombstone` holds for it by reason, whether it is in storage, and whether the provider
has still to publish it; then the exit command, the wipe drain, the erased prefix's record
and one janitor pass per API process. Guests' uploads lie in quarantine; `Source` makes some
of the members' uploads copies of a guest's promoted file, which is how a promoted file
becomes a document. `Staff` uploads stand for documents; invoice PDFs, photos and evidence
follow the same protocol.

| actions | code |
|---|---|
| `Begin`, `Prepare`, `PutBegins`, `PutSucceeds`, `PutFails`, `Register`, `RegisterFails`, `Arm`, `Clean`, `DropSource`, `Die` | an upload route of `app.ts`, await by await, and the gateways it calls: the intent recorded before a byte is stored, and resolved by the transaction that writes the owning row |
| `Publish` | storage's provider: a PUT that was seen to fail stores its object later |
| `Promote`, `Reject`, `RevokeLink` | `intakeOps.ts` |
| `DrainArms`, `DrainLists`, `DrainDeletes`, `DrainRecords` | the wipe drain: two transactions around a list and its deletes, which may fail, and the record of them, which may be lost |
| `PhaseZero`, `LeasesDrained`, `EraseData`, `Census`, `Recensus`, `SweepPrefix`, `SweepLedger`, `Relist`, `Finalize`, `ExitStops` | `exitTenant.ts` and `blobBundle.ts`, both commands of the operator |
| `Lock`, `Catch`, `CommitCatch`, `Destroy`, `Confirm`, `ListFails`, `JanitorStops` | `erasureJanitor.ts`: what is caught is committed before a byte is destroyed |

`Register` may lose the answer to its COMMIT (`unsure`): the request then takes itself for
failed and cleans up after itself. Time is left out: an intent or a lease may expire at any
moment its request is not inside a PUT, since the route's deadline, doubled, is below the
time to live. One operator runs one command at a time. `Relist` lists each prefix in one
step and `SweepPrefix` deletes what it listed in the same step. The purge of ledger entries
that have been resolved or swept for thirty days, in the transaction of `DrainArms`, is left
out: all such an entry still does is keep its key from a second one for the same reason, and no
request lives that long. That the exit first
deactivates every member is not assumed to have stopped requests already in flight.

## The runs

Deadlock is checked in every run except those whose system really stops: the two passing
ones over `RevisionOutbox` (all ids used, every row and intent settled), `MissionMoney`
(the calls used up) and `TenantExit` (every upload over; the janitor's passes go on only
once the tenant is gone). Whether *calls* deadlock is `OnlyVoidsDeadlock`'s question, and has
nothing to do with TLC's.

| run | shows |
|---|---|
| `Approvals` | type invariant, `EffectMatchesStatus`, `SeparationOfDuties`, `RecordMatchesRow`, `SessionsSound`, `ActedOnWhatWasSeen`, and the refinement `ImplementsContract` |
| `ApprovalsRevocation` | violation: a revocation does not stop a decision already past its standing check |
| `RevisionOutbox` | type invariant, `OneLiveSuccessor`, `LinksAgree`, `SourceClosed` |
| `RevisionLiveness` | the refinement `ImplementsOutbox`, and under fairness `EveryIntentSettles`: an intent whose drain is called again settles, unless a deployment made its payload unreadable |
| `RevisionAbandoned` | violation: an intent is abandoned while its successor is live |
| `RevisionAuthor` | violation: the author of a revision approves it |
| `Departures` | type invariant, `OneOpenDeactivation`, `ActiveMatchesExecutions`, `HandOffIsDeactivation`, `HandOffIsFinal`, and the refinement `ImplementsOutbox` |
| `DeparturesLiveness` | `HandOffIsFresh`, and `HandOffIsNotLost` under fairness |
| `DeparturesHandedOff` | violation: a drain submits for a departure handed off already |
| `DeparturesOneOpen` | violation: two open person requests at once |
| `MissionMoney` | type invariant, `SettledIsComplete`, `BooksClosed`, `PoolIsLanded`, `PaidUnderLive`, `OneLivePerLine`, `PoolIsExhausted`, `AuditIsHonest`, `InvoiceBillsItsLine`, `OnlyVoidsDeadlock`; `AllocationIsExact` as an assumption TLC evaluates, over pools from 1 to 40, five cuts and five splits |
| `TenantExit` | type invariant, `OwnedBytesExist`, `NothingForgotten`, `NothingLeftBehind`, `CountedOnce`, `CaughtBeforeDestroyed`, `OnlyDestroyedLeaves`, and under fairness `ExitCompletes`, `StragglersDestroyed` |

### Bounds

| bound | where | value | why it is enough |
|---|---|---|---|
| `Ids` | Approvals | 1 request | no step of the pipeline reads a second row; the theorems lift it |
| `Users`, `Owners` | Approvals | an owner and a non-owner who may be a delegate; both may submit | the smallest set with every combination of standing and authorship |
| `Payloads` | Approvals | 2 | an edit needs something to change to |
| `Workers` | all | 2 requests in flight | two racing requests; more of them race pairwise on one row |
| `MaxVersion` | Approvals | 4 | begin review, approve, failed execution and its successful retry are four versions after the first; with an edit before them it stops at the failed execution; the theorems have no bound |
| `MaxRows` | RevisionOutbox | 3 (2 for liveness) | a source, its successor, and a rival or a successor's successor |
| `MaxAttempts` | RevisionOutbox | 1 in the safety run, 2 elsewhere (the code: 5) | both sides of the backstop; only `Bump` reads it |
| `MaxDeploys` | RevisionOutbox | 1 in the liveness run, 0 elsewhere | a deployment makes any set of recorded payloads unreadable; `EveryIntentSettles` alone depends on it |
| `MaxLosses` | RevisionOutbox, Departures | 1 (0 where a violation needs none) | one crash or fault in between any two steps |
| `MaxRows` | Departures | 2 | a first request and one that collides with it, or a deactivation and its reversal |
| `MaxDepartures` | Departures | 2 (1 for liveness, 0 where none is needed) | an earlier departure whose request is still around |
| `People` | Departures | 1 | all checks and indexes are per person |
| `Amounts`, `OrgShares`, `Splits` | MissionMoney | 6 and 7 units, 20%, three people | the pools leave three people shares none of which comes out even, with a tie; `AllocationIsExact` goes through more of them |
| `MaxCalls` | MissionMoney | 4 calls by 2 workers, from PostMission, one line in any payment state | a call that prepares (a distribution, a receipt), two that race, and one that meets their result; two workers suffice for a circle of two rows, all that is ever held and waited for |
| uploads | TenantExit | a guest's and a member's copy of it | the pair that shares an object's fate; a member's own upload is a copy without its source |
| `Janitors` | TenantExit | 2 | one catching between the other's phases |
| `MaxFaults` | TenantExit | 1 | one stop between any two steps of a command or a pass; failing deletes, deaths of requests and lost answers are not bounded |

Workers and payloads are interchangeable and declared symmetric in safety runs; the
liveness runs use no symmetry. Distinct states: `Approvals` 1,426,628, `RevisionOutbox`
1,021,392, `RevisionLiveness` 285,646, `Departures` 882,105, `DeparturesLiveness` 192,380,
`MissionMoney` 1,035,884, `TenantExit` 111,812.
`RevisionOutbox` was also checked once with two attempts before the backstop (4.3 million).
Two larger instances of `TenantExit` were checked once, for safety only and before its drain's
first two steps were taken apart: a guest's and a member's upload with no copy (915,706
states), and all three uploads with one janitor (5.8 million).

### Fairness

`RevisionOutbox!FairSpec` and `Departures!FairSpec` assume weak fairness of each worker's
`Step`: a request that has not died goes on to its next await, which is what the runtime does.

Nothing in the code makes anybody drain. `drain-revisions` and `drain-deactivations`
(`app.ts:1220-1227`, `2917-2924`) are endpoints called by hand, without a timer and without a
button; a revise completes its own intent only (`editApproval.ts:385`); a completion with the
wish to deactivate does drain the whole list of departures (`app.ts:2903-2904`). So that drains
are called again is what the code asks of whoever operates it, and is assumed as that. For
revisions it is a hypothesis of the property, source by source: `DrainedAgain(a)` says that
`a`, if it can be drained again and again, is drained again, and `EveryIntentSettles`
promises nothing of a source for which this fails. For departures it is strong fairness of
`List` in `FairSpec`. Both are strong because the model's few workers may all be busy, which a
real server is not for ever. Nothing else is assumed of people: nobody need submit, review or
execute. So `HandOffIsNotLost` has to allow a hand-off to wait while the person is inactive
already or another request about them stays open.

`TenantExit!FairSpec` assumes that a PUT meets its deadline and time passes (intents and
leases expire); that a command the operator has started goes on, and that an operator who
has begun an exit runs both commands again until the tenant is gone, which is what the
refusals of `--finalize` ask for; that every process's janitor interval comes round; and that
storage does not refuse a delete for ever (strong fairness of the sweeps and of `Destroy`,
since other steps may come in between). Nothing is assumed of uploads, reviews or the
provider: a late object may stay unpublished for ever. `MissionMoney` states no liveness:
every call there ends within its own request.

## Disagreements found

The first five are each a run that TLC ends with a counterexample, and a finding in
`PROJECT.json`.

1. **Revocation is not immediate** (`reviewApproval.ts:53`, `executeApproval.ts:162`). The
   delegation is read before the row lock is waited for and not again; a revocation that
   commits in between does not stop the decision. `delegation.ts` says "immediate".
2. **A revision can be abandoned although it succeeded** (`editApproval.ts:271`). A losing
   drain that reaches its submit after the winner's insert is refused by the submit's own
   duplicate guard, not by the index. A guard's refusal counts as deterministic, and
   `markRevisionAbandoned` does not ask that the intent be Pending.
3. **A drain changes who submitted** (`editApproval.ts:261`). The successor is submitted as
   whoever runs the drain; its author is then somebody else and may approve it.
4. **A drain can hand a departure over twice** (`departureOps.ts:156`). The list is not
   looked at again; after another drain's request for the departure has been closed, a
   second one is submitted, and reported as the linked one although the write-once link
   ignored it.
5. **Two open requests about one person** (`submitPersonOps.ts:57`). The duplicate check is
   outside the inserting transaction and the index covers deactivations only.

What the passing runs show around them: 2 never forks a request (`OneLiveSuccessor`), 4
never changes the recorded hand-off (`HandOffIsFinal`) and never leaves two open
deactivations, 5 never corrupts the person's state (`ActiveMatchesExecutions`).

The rest were met while modelling. They have no run of their own: a property of a passing
run states exactly what does hold, with the exception in its text.

6. **Voiding an invoice can deadlock** (`invoiceOps.ts`, `voidInvoice`). It flips the line
   first and waits for the mission, `FOR UPDATE`, in the line's trigger (0052); settlement,
   a line edit and `createDistribution` take the mission before the line. `writeTx.ts:785-788`
   and `distributionOps.ts:119-122` say that all share one lock order. The call PostgreSQL
   ends is not retried (`withSerializationRetry` wraps payouts and revocations). Nothing but
   a void can be the cause: `OnlyVoidsDeadlock`.
7. **A cleared budget cell forgets its versions** (`writeTx.ts:948-950`,
   `missionLine.ts:208-213`). A cell is deleted when it is cleared and starts from version 0
   when it is set again, so a client that read the first cell overwrites the second; and a
   version sent for a cell that is not there is accepted, as an insert, where the comment
   calls it a concurrency refusal. `CommitBudget` does both; `BooksClosed` still holds.
8. **A roster change re-prices a settled mission.** 0049 calls the roster "not a money fact",
   and the effective per-diems of a mission follow its roster. `BooksClosed` is about the
   rate, which does not change.
9. **A lost answer to COMMIT is taken for a failure** (`app.ts:805` and the guest route). The
   comment says that if the transaction threw, no owning row exists and the bytes are an
   orphan. If the COMMIT succeeded and only its answer was lost, the row exists: arming the
   entry fails, since it is resolved, and the object is deleted all the same. 0076 says that
   metadata is never committed over swept bytes. `OwnedBytesExist` carries this one
   exception, and shows that it is the only one.
10. **`clean` can be recorded with something pending** (`erasureJanitor.ts:265`, `293-302`). The
   comment at 281-293 calls a `clean` against keys still pending "a false statement stored
   permanently" and derives the status so as to rule it out, but from the pass's own catch.
   It comes about in two ways. A pass commits its catch, over the `clean` of an earlier pass,
   and stops before it confirms. Or, with no fault but a delete that fails: pass A sees
   nothing and commits its empty catch; an object appears; pass B catches it, fails to delete
   it and confirms `incomplete`; then A confirms, and reports `clean` over B's pending key.
   The report stands until the next pass, which takes the key up again: `StragglersDestroyed` says
   that whatever is in storage or on the record is destroyed and taken off the record in the
   end, and `OnlyDestroyedLeaves` that nothing leaves the record before.
11. **A revision whose payload is no longer valid never settles** (`editApproval.ts:259`). 0058
   has an intent abandoned by "a deterministic refusal" or by "the poison-pill backstop after N
   transient retries". The recorded payload is parsed before the `try` that tells the two
   apart: if a later deployment's schema refuses it, the exception is neither, no attempt is
   counted, the drain swallows it (412), and the intent stays Pending however often it is
   drained, while its source is closed. `EveryIntentSettles` carries this one exception.

## The proofs

The theorems hold for every value of the constants that satisfies the modules' assumptions:
any finite or infinite set of members, requests, people and workers, and any bound. What is
assumed is little: the bounds are natural numbers, `Nobody` is no member, a copy is not a
guest's upload, the uploads are finitely many (they are counted), amounts are positive, the
organisation's share is at most the whole, a split gives finitely many numbered people a
natural number of basis points each, a mission does not start settled.

| theorem | says |
|---|---|
| `ApprovalsProofs!Typing`, `SessionsHold`, `EffectOnce`, `DutiesSeparated`, `RecordComplete` | `TypeOK`, `SessionsSound`, `EffectMatchesStatus`, `SeparationOfDuties`, `RecordMatchesRow` are invariants |
| `ApprovalsProofs!SeenBeforeActed`, `Implements` | `Spec => ActedOnWhatWasSeen`, `Spec => ImplementsContract` |
| `RevisionOutboxProofs!Typing`, `NeverForks`, `LinksHold`, `SourcesClosed` | `TypeOK`, `OneLiveSuccessor`, `LinksAgree`, `SourceClosed` are invariants |
| `RevisionOutboxProofs!Implements`, `LinksFinal` | `Spec => ImplementsOutbox`, and read off it, `Spec => LinkIsFinal`: a link is write-once, a recorded revision is not forgotten |
| `DeparturesProofs!Typing`, `OneOpen`, `RecordExplainsPerson`, `HandOffSound` | `TypeOK`, `OneOpenDeactivation`, `ActiveMatchesExecutions`, `HandOffIsDeactivation` are invariants |
| `DeparturesProofs!HandOffFinal`, `HandOffFresh`, `Implements` | `Spec => HandOffIsFinal`, `Spec => HandOffIsFresh`, `Spec => ImplementsOutbox` |
| `TenantExitProofs!Typing`, `RowsHaveBytes`, `BytesAnsweredFor`, `IdentityGoesLast`, `CountIsHonest` | `TypeOK`, `OwnedBytesExist`, `NothingForgotten`, `NothingLeftBehind`, `CountedOnce` are invariants |
| `TenantExitProofs!OnRecordFirst`, `RecordKept` | `Spec => CaughtBeforeDestroyed`, `Spec => OnlyDestroyedLeaves` |
| `MissionMoneyProofs!Typing`, `SettledComplete`, `PoolLanded`, `PaidLive`, `OneLive` | `TypeOK`, `SettledIsComplete`, `PoolIsLanded`, `PaidUnderLive`, `OneLivePerLine` are invariants |
| `MissionMoneyProofs!ClosedBooks`, `AuditHonest`, `InvoicesBill` | `Spec => BooksClosed`, `Spec => AuditIsHonest`, `Spec => InvoiceBillsItsLine` |
| `AllocationProofs!AllocationIsExact` | the allocator gives out every pool exactly, nobody a whole unit off, for every pool, cut and finite split |
| `MissionMoneyProofs!PoolExhausted` | `PoolIsExhausted` is an invariant |
| `MissionDeadlocksProofs!HeldApart`, `OnlyVoids` | `InvoicesHeld` and `OnlyVoidsDeadlock` are invariants, for any number of calls in the circle |
| `MissionDeadlocksProofs!OneHoldsMission` | `OneInTheWay` is an invariant: exactly one call of a circle is no void |

In each module `IInv` is the inductive invariant, checked by TLC before it was proved, and
the theorem `Invariant` says `Spec => []IInv` (`Approvals` has its parts as theorems of their
own). There is one lemma per action and part that it can disturb; the lemmas before them say
what the helpers do to the rows.

**Approvals.** `TypeOK` is inductive by itself. None of the other invariants is, because a
worker acts on what it read earlier: a failed execution's second transaction is only harmless
if its row is still where an execution left it, and a version check only protects content if
a version names one content. `SessionsSound` says exactly that and is proved next. It needs
`RowForward`: in any step a row keeps its submitter and either stays as it is or moves to the
next version along the lifecycle. The remaining proofs do not go through the actions again but
through two summaries proved once: `RowSteps` (at most one row is touched, and how) and
`SessionSteps` (a worker's session is kept, opened, failed, or ended). `SeparationOfDuties`
and `RecordMatchesRow` also need `LogStarts` (a row has a history, an absent row has none), and
the link of a revision is a case of its own: a transition appended to a record with that event
in it, or that event appended to a record of transitions, leaves a record that is unbroken
without it.
`Implements` uses the refinement mapping of `Approvals` (`phaseOf`, `authorOf`, `contentOf`,
`agreedOf`, `applied`): `Submit` maps to `Ask`, `Edit` to `Amend`, approval to `Agree`,
rejection and withdrawal to `Drop`, a successful execution to `TakeEffect`, everything else
to a stutter.

**RevisionOutbox.** `OneLiveSuccessor` rests on the index at the insert, and on no other step
reviving a successor. `LinksAgree` needs what a request holds when it comes to link
(`TasksSound`: a successor made for the source it works on), that an intent still pending has
not been linked (`PendingUnlinked`), and that live successors of one source are one
(`SuccessorsAgree`, the form of `OneLiveSuccessor` that needs no counting). That the link is
told once is proved after it (`InvariantTold`): a step makes at most one request an answer,
and is then the step that tells so (`AnswerMade`), or leaves answers and events as they were
(`AnswersKept`). For `Implements`,
`Revise` maps to `Want`, an insert to `Make`, `MarkAbandoned` to `Drop`, and `Link` to `Answer`;
everything else is a stutter. Two steps need the invariant. A give-up that comes after
the link must not look like a drop, which is why the answer is read off the source
(`LinksKept`: a link, once there, is the last word); and an answer must be a row that was made
for its source, which is `TasksSound` again. `Answer` is allowed from "dropped" because the
code does that: a drain that gives up does not stop the one that is about to link.

**Departures.** A drain's list is stale and is walked with reads made long before the
insert. What still holds of it: the departures on it are completed and want a deactivation,
and what is about to be linked is a deactivation of the person who departs (`TasksSound`); a
departure is only wanted once completed (`WantedCompleted`); open deactivations of one person
are one (`OpenAgree`). `HandOffIsFinal` then follows from the link being write-once. `HandOffIsFresh` says of any
request and departure that if one is closed while the other is still in progress, they are
never linked. Its proof follows one such pair (`Apart`): nothing in flight carries the request
towards that departure (`Carries`), a drain picks up open requests only (`PicksUpOpen`) and a
closed one stays closed (`ClosedStays`), so nothing ever comes to carry it.
In `Implements`, completing with the wish maps to `Want`, an insert to `Make`, `Link` to
`Answer`.

**TenantExit.** An object is answered for by its row or by an entry, and the upload's intent
says which: it is resolved exactly once, by the transaction that writes the row
(`IntentSound`), and an entry for any other reason exists only behind a resolved intent
(`ReviewSound`, `CopySound`). So what the drain has listed is not owned and cannot become
owned, however old the list (`WipeSound`), and what an exit past its census can still find
belongs to nobody who may register it (`ExitSound`). `RelistSound` carries the two listings
that precede the last transaction to that transaction: a prefix seen empty stays so but for
late publications. For the janitor, `CountSound` is stronger than `CountedOnce`: the count
leaves room for every object that has appeared and has not been caught yet (`Uncounted`).
`RecordKept` rests on what the lock of the record gives (`JanitorSound`): a pass that lists has
on it all that is pending, so that committing its catch drops nothing another pass left there,
and what a pass has destroyed stays destroyed, so that confirming it takes off nothing else.

**MissionMoney.** Every call reads, then locks, then commits, so an invariant must carry what
it read and checked across the steps of the others. A version names one content of a line: if
a line still has the version a call read, it is the row it read (`TaskSound`); with the
version check in the UPDATE this gives `AuditIsHonest`. Two calls never both hold the mission
row, the same line on its way out of Invoiced, or the invoice numbers (`Exclusion`, from what
the lock sets of two calls have in common, `MissionFree`, `LineFreed`, `CounterFree`). So what a
call has checked under a lock still holds when it commits (`ChecksStand`): a settlement is
still complete, the books a budget or a per-diem found open are open, the line an invoice's
voiding found Invoiced is as it was, the line to be billed has no live invoice. One lemma
(`Undisturbing`) says which changes leave that standing for every call that goes on, and each
step is shown to be such a change. `LivesAgree` is `OneLivePerLine` without counting. The
rest is the guards of the triggers: a distribution's pool is what its line brought in because
a line with a live distribution keeps what it is worth.

**The split of a pool.** `PoolIsExhausted` holds because a distribution's shares never change
after `createDistribution` wrote them and because the allocator is exact, `AllocationIsExact`.
That one is arithmetic over sums: the floors of the parts fall short of the pool by no more
than one unit per person who was rounded down (`SharesSplit`, `LeftoverBounded`), the order in
which the leftover units are handed out is total (`QueueIsTotalOrder`), so exactly as many people
come before the leftover's end as there are units (`LeftoverHandedOut`). The sums are folds over
finite sets. The library's induction over finite sets takes an operator and cannot be used, so
the laws of folds are proved from the well-foundedness of strict inclusion among a finite
set's subsets: whatever fails for some subset fails for a smallest one.

**Deadlocks.** A member of a circle holds a row somebody wants and wants a row somebody
holds. Going through what each call holds and wants at each of its steps (`InTheMiddle`) leaves
six kinds of call: budgets, payouts, revocations and roster changes take their first locks in
one go and want nothing after. A per-diem holds only what nobody in the middle of something
waits for (`PerDiemsAreNotWaitedFor`). Issuing an invoice drops out for another reason
(`IssuesDoNotWait`, with `InvoicesHeld`): it has checked that its line has no live invoice, and
the only call that could hold what it waits for is voiding one. The rest, but for a
void, hold the mission row, which only one call can, so a circle has a void in it. Voids alone make
no circle either, since none waits for a row another one holds: a circle is one line edit,
stage change or new distribution and the voids around it (`OneHoldsMission`).

Only model-checked: `EveryIntentSettles`, `HandOffIsNotLost`, `ExitCompletes` and
`StragglersDestroyed`, since the prover handles neither fairness nor ENABLED. Every invariant,
action property and refinement of the passing runs is a theorem. No module uses a recursive
operator, which the prover could not reason about.

## What is not modelled

- *Other tenants.* Row-level security is the database's; one tenant is modelled.
- *What each operation type changes.* `applied` records that, and with which content, an
  execution took effect; only the person flips (`Departures`) and a mission's roster and
  deactivation (`MissionMoney`) are modelled in themselves.
- *The operation-specific duplicate checks at submit* outside the person family.
- *Audit rows and notifications* are written with the event row, in the same transaction,
  and stand behind the one `log` entry; `AuditIsHonest` is about the values a line's audit
  row is built from.
- *Retries of payouts and revocations.* `withSerializationRetry` runs them again after a
  deadlock or a serialization failure; READ COMMITTED has none of the latter, and
  `OnlyVoidsDeadlock` shows that they are never in the former, so nothing is left to model.
- *VAT, currencies, invoice numbers, P&L, ROI* are derived or formatted.
- *The deletion of members in an exit, the export bundle and dry runs*: before and beside the
  steps that destroy.
- *More than one use of an intake link; expiry and creation of links.*
- *The departure checklist, comments, attachments*: derived reads and separate records.
- *Identity formatting.* Identities are canonical when they reach the use cases.
- *Member administration.* The functions of 0034 take an advisory lock per tenant before they
  count owners, so within a tenant a change is one step and the law is its guard.
- *Agreements, teams, credentials, equipment*: version-guarded edits of one row in one
  transaction. *Comms, search, backup, the HTTP edge and the web client*: see the notes in
  `PROJECT.json`. `packages/search-harness`, the largest part of the repository by lines, is
  a separate package that probes the search; the server does not import it.

## The plan

Done: `Lifecycle`, `Approvals` with its contract and proofs, `RevisionOutbox` and
`Departures` with proofs and their common abstraction `Outbox`, `MissionMoney` with
`Allocation`, both with proofs, `TenantExit` with proofs.

Next: what the abstract specifications themselves promise as theorems (an
effect is what was agreed, once), so that each implementation inherits it as `LinksFinal` does; obligations and the live
stream's order in Comms; a tenant with more than one link, to follow a claim against a claim;
the composition of a promotion's request (`Approvals`) with the copy of its file
(`TenantExit`).
