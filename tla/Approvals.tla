----------------------------- MODULE Approvals -----------------------------
(***************************************************************************)
(* The governed request pipeline of webv0: submit, edit, review, withdraw  *)
(* and execute, with approver delegation, as packages/application runs it  *)
(* over one tenant's rows.                                                 *)
(*                                                                         *)
(* Every use case is one READ COMMITTED transaction.  What a transaction   *)
(* does under the FOR UPDATE lock of the approval row is one atomic step   *)
(* here, because no other writer of the row can interleave with it.  What  *)
(* happens before the lock (the caller's read of the row whose version it  *)
(* sends back, the standing check against role and delegation) is a step   *)
(* of its own, and so is the second transaction in which a failed          *)
(* execution records its failure: other requests run in between.           *)
(*                                                                         *)
(* A request may be the revision of another.  The outbox that makes it so  *)
(* is RevisionOutbox's; its one write to the successor's record, the event *)
(* that names what it supersedes, is taken here (LinkRevision).            *)
(***************************************************************************)
EXTENDS Lifecycle, Naturals, Sequences

CONSTANTS
  Ids,         \* business ids of approvals
  Users,       \* identities of the tenant's members
  Owners,      \* members whose role carries review and execute standing
  Submitters,  \* members whose role may submit requests
  Payloads,    \* contents of a request
  Workers,     \* API requests in flight
  Nobody,      \* no identity: a null column
  MaxVersion   \* bound on a row's version, so on its history

ASSUME UsersAssumption ==
  /\ Owners \subseteq Users
  /\ Submitters \subseteq Users
  /\ Nobody \notin Users
ASSUME BoundAssumption == MaxVersion \in Nat

VARIABLES
  approval,    \* the approval rows
  applied,     \* per approval, the contents its executions have put in effect
  log,         \* per approval, its append-only approval_event rows
  revision,    \* per approval, whether it revises another, and is linked to it
  delegation,  \* per member, the state of its one unrevoked delegation
  session      \* per worker, the request it is serving

vars == <<approval, applied, log, revision, delegation, session>>

NoRow == [status |-> "None"]

Rows == [status: ApprovalStatuses, version: Nat, payload: Payloads,
         submittedBy: Users, reviewedBy: Users \cup {Nobody}]

\* One entry stands for the approval_event row, the audit row and the inbox
\* notifications inserted with it.  Its note tells the link of a revision from
\* a transition or an edit.
Events == [from: ApprovalStatuses \cup {"None"}, to: ApprovalStatuses, by: Users,
           note: {"transition", "revision"}]

\* "Unlinked": revision_of is set, the source's superseded_by not yet.
RevisionStates == {"None", "Unlinked", "Linked"}

DelegationStates == {"None", "Scheduled", "Active", "Expired"}

RequestActions == ReviewActions \cup {"execute", "edit", "withdraw"}

Idle == [pc |-> "idle"]

\* "ready": past the standing check, holding the version and content read.
\* "failed": the execution rolled back, its failure is not recorded yet.
Requests == [pc: {"ready", "failed"}, user: Users, action: RequestActions,
             id: Ids, version: Nat, payload: Payloads]

Exists(a) == approval[a] # NoRow

Init ==
  /\ approval   = [a \in Ids |-> NoRow]
  /\ applied    = [a \in Ids |-> <<>>]
  /\ log        = [a \in Ids |-> <<>>]
  /\ revision   = [a \in Ids |-> "None"]
  /\ delegation = [u \in Users |-> "None"]
  /\ session    = [w \in Workers |-> Idle]

-----------------------------------------------------------------------------
(* Statements shared by the use cases.                                     *)

\* appendApprovalEvent.
AppendEvent(a, from, to, by, note) ==
  log' = [log EXCEPT ![a] =
    Append(@, [from |-> from, to |-> to, by |-> by, note |-> note])]

Record(a, from, to, by) == AppendEvent(a, from, to, by, "transition")

\* Mutated form: the UPDATE loses its version predicate.
SetStatusUnguarded(a, expectedVersion, to, by, reviewer) ==
  /\ approval[a].version < MaxVersion
  /\ approval' = [approval EXCEPT ![a].status = to, ![a].version = @ + 1,
                                  ![a].reviewedBy = reviewer]
  /\ Record(a, approval[a].status, to, by)

\* updateApprovalStatus, guarded by the version and bumping it, with the event
\* every caller appends after it.
SetStatus(a, expectedVersion, to, by, reviewer) ==
  /\ approval[a].version = expectedVersion
  /\ approval[a].version < MaxVersion
  /\ approval' = [approval EXCEPT ![a].status = to, ![a].version = @ + 1,
                                  ![a].reviewedBy = reviewer]
  /\ Record(a, approval[a].status, to, by)

\* Mutated form: an edit does not bump the version.
SetPayloadSameVersion(a, expectedVersion, payload) ==
  /\ approval[a].version = expectedVersion
  /\ approval[a].status = "Submitted"
  /\ approval' = [approval EXCEPT ![a].payload = payload]

\* Mutated form: an edit is accepted in any status.
SetPayloadAnyStatus(a, expectedVersion, payload) ==
  /\ approval[a].version = expectedVersion
  /\ approval[a].version < MaxVersion
  /\ approval' = [approval EXCEPT ![a].payload = payload, ![a].version = @ + 1]

\* updateApprovalPayload: guarded by version and by Submitted.
SetPayload(a, expectedVersion, payload) ==
  /\ approval[a].version = expectedVersion
  /\ approval[a].version < MaxVersion
  /\ approval[a].status = "Submitted"
  /\ approval' = [approval EXCEPT ![a].payload = payload, ![a].version = @ + 1]

Finish(w) == session' = [session EXCEPT ![w] = Idle]

\* The role half of authorization, resolved before the row is locked.
Standing(u) == u \in Owners \/ delegation[u] = "Active"

-----------------------------------------------------------------------------
(* Submitting, linking a revision, and opening a request on a row.         *)

\* Submitted afresh, or by whoever completes the revision of another request.
Submit(u, a, p, rev) ==
  /\ u \in Submitters
  /\ ~Exists(a)
  /\ rev \in {"None", "Unlinked"}
  /\ approval' = [approval EXCEPT ![a] =
       [status |-> "Submitted", version |-> 0, payload |-> p, submittedBy |-> u,
        reviewedBy |-> Nobody]]
  /\ Record(a, "None", "Submitted", u)
  /\ revision' = [revision EXCEPT ![a] = rev]
  /\ UNCHANGED <<applied, delegation, session>>

\* Mutated form: the event is appended whether or not this call made the link.
LinkRevisionAgain(u, a) ==
  /\ u \in Submitters
  /\ revision[a] # "None"
  /\ revision' = [revision EXCEPT ![a] = "Linked"]
  /\ AppendEvent(a, "Submitted", "Submitted", u, "revision")
  /\ UNCHANGED <<approval, applied, delegation, session>>

\* The last transaction of a revise or of a drain, as the successor sees it.
\* It locks the source, not the successor, reads no column of the successor and
\* bumps no version: the event may land at any point of the successor's life,
\* says Submitted to Submitted whatever its status, and is in the name of
\* whoever completes the revision.  Only the call that sets the source's
\* write-once link appends it.
LinkRevision(u, a) ==
  /\ u \in Submitters
  /\ revision[a] = "Unlinked"
  /\ revision' = [revision EXCEPT ![a] = "Linked"]
  /\ AppendEvent(a, "Submitted", "Submitted", u, "revision")
  /\ UNCHANGED <<approval, applied, delegation, session>>

\* The caller has read the row; the transaction opens and checks standing.
\* Edit and withdraw have no check that does not need the row.
Open(w, u, action, a) ==
  /\ session[w] = Idle
  /\ Exists(a)
  /\ action \in ReviewActions \cup {"execute"} => Standing(u)
  /\ session' = [session EXCEPT ![w] =
       [pc |-> "ready", user |-> u, action |-> action, id |-> a,
        version |-> approval[a].version, payload |-> approval[a].payload]]
  /\ UNCHANGED <<approval, applied, log, revision, delegation>>

\* A refusal, a lost connection or a crash: whatever the transaction did is
\* rolled back.  After a failed execution it loses the failure record, which
\* the code swallows (.catch(() => {})).
Abandon(w) ==
  /\ session[w] # Idle
  /\ Finish(w)
  /\ UNCHANGED <<approval, applied, log, revision, delegation>>

-----------------------------------------------------------------------------
(* The steps taken under the row lock.                                     *)

Review(w) ==
  LET s == session[w] IN
  /\ s.pc = "ready" /\ s.action \in ReviewActions
  /\ ~SelfReview(s.user, approval[s.id].submittedBy)
  /\ CanApply(s.action, approval[s.id].status)
  /\ SetStatus(s.id, s.version, TargetStatus(s.action), s.user, s.user)
  /\ Finish(w)
  /\ UNCHANGED <<applied, revision, delegation>>

Withdraw(w) ==
  LET s == session[w] IN
  /\ s.pc = "ready" /\ s.action = "withdraw"
  /\ s.user = approval[s.id].submittedBy
  /\ CanApply("withdraw", approval[s.id].status)
  /\ SetStatus(s.id, s.version, "Withdrawn", s.user, approval[s.id].reviewedBy)
  /\ Finish(w)
  /\ UNCHANGED <<applied, revision, delegation>>

Edit(w, p) ==
  LET s == session[w] IN
  /\ s.pc = "ready" /\ s.action = "edit"
  /\ s.user = approval[s.id].submittedBy
  /\ p # approval[s.id].payload
  /\ SetPayload(s.id, s.version, p)
  /\ Record(s.id, "Submitted", "Submitted", s.user)
  /\ Finish(w)
  /\ UNCHANGED <<applied, revision, delegation>>

\* Mutated form: the submitter may execute.
MayExecuteOwn(s) ==
  /\ s.pc = "ready" /\ s.action = "execute"
  /\ CanApply("execute", approval[s.id].status)
  /\ approval[s.id].version = s.version

\* The guards executeApproval evaluates before its point of no return.
MayExecute(s) ==
  /\ s.pc = "ready" /\ s.action = "execute"
  /\ ~SelfReview(s.user, approval[s.id].submittedBy)
  /\ CanApply("execute", approval[s.id].status)
  /\ approval[s.id].version = s.version

\* The operation's effect, the status and the events commit together.
ExecuteOk(w) ==
  LET s == session[w] IN
  /\ MayExecute(s)
  /\ applied' = [applied EXCEPT ![s.id] = Append(@, approval[s.id].payload)]
  /\ SetStatus(s.id, s.version, "Executed", s.user, approval[s.id].reviewedBy)
  /\ Finish(w)
  /\ UNCHANGED <<revision, delegation>>

\* Any error past the point of no return rolls everything back; the worker
\* goes on to record the failure in a transaction of its own.
ExecuteFault(w) ==
  LET s == session[w] IN
  /\ MayExecute(s)
  /\ session' = [session EXCEPT ![w].pc = "failed"]
  /\ UNCHANGED <<approval, applied, log, revision, delegation>>

\* Executing an Executed request returns what the first execution made.
ExecuteAgain(w) ==
  LET s == session[w] IN
  /\ s.pc = "ready" /\ s.action = "execute"
  /\ ~SelfReview(s.user, approval[s.id].submittedBy)
  /\ approval[s.id].status = "Executed"
  /\ Finish(w)
  /\ UNCHANGED <<approval, applied, log, revision, delegation>>

\* Mutated form: the failure is recorded without looking at the status again.
RecordFailureBlindly(w) ==
  LET s == session[w] IN
  /\ s.pc = "failed"
  /\ SetStatus(s.id, approval[s.id].version, "ExecutionFailed", s.user,
               approval[s.id].reviewedBy)
  /\ Finish(w)
  /\ UNCHANGED <<applied, revision, delegation>>

\* recordExecutionFailure: takes the row as it now is.
RecordFailure(w) ==
  LET s == session[w] IN
  /\ s.pc = "failed"
  /\ IF approval[s.id].status \in {"Approved", "ExecutionFailed"}
       THEN SetStatus(s.id, approval[s.id].version, "ExecutionFailed", s.user,
                      approval[s.id].reviewedBy)
       ELSE UNCHANGED <<approval, log>>
  /\ Finish(w)
  /\ UNCHANGED <<applied, revision, delegation>>

-----------------------------------------------------------------------------
(* Delegation: granted and revoked by an owner, expiring with the date.    *)

Grant(o, u, state) ==
  /\ o \in Owners /\ u \notin Owners
  /\ delegation[u] = "None"
  /\ state \in {"Scheduled", "Active", "Expired"}
  /\ delegation' = [delegation EXCEPT ![u] = state]
  /\ UNCHANGED <<approval, applied, log, revision, session>>

\* Mutated form: the revoked row stays in the way of the next grant.
RevokeKeepingRow(o, u) ==
  /\ o \in Owners
  /\ delegation[u] # "None"
  /\ delegation' = [delegation EXCEPT ![u] = "Revoked"]
  /\ UNCHANGED <<approval, applied, log, revision, session>>

Revoke(o, u) ==
  /\ o \in Owners
  /\ delegation[u] # "None"
  /\ delegation' = [delegation EXCEPT ![u] = "None"]
  /\ UNCHANGED <<approval, applied, log, revision, session>>

\* The date moves into, then past, the delegation's window.
WindowMoves(u) ==
  /\ \/ delegation[u] = "Scheduled" /\ delegation' = [delegation EXCEPT ![u] = "Active"]
     \/ delegation[u] = "Active"    /\ delegation' = [delegation EXCEPT ![u] = "Expired"]
  /\ UNCHANGED <<approval, applied, log, revision, session>>

-----------------------------------------------------------------------------
Serve(w) ==
  \/ Review(w)
  \/ Withdraw(w)
  \/ \E p \in Payloads : Edit(w, p)
  \/ ExecuteOk(w)
  \/ ExecuteFault(w)
  \/ ExecuteAgain(w)
  \/ RecordFailure(w)
  \/ Abandon(w)

Next ==
  \/ \E u \in Users, a \in Ids, p \in Payloads, rev \in RevisionStates :
        Submit(u, a, p, rev)
  \/ \E u \in Users, a \in Ids : LinkRevision(u, a)
  \/ \E w \in Workers, u \in Users, action \in RequestActions, a \in Ids :
        Open(w, u, action, a)
  \/ \E w \in Workers : Serve(w)
  \/ \E o \in Users, u \in Users, state \in DelegationStates : Grant(o, u, state)
  \/ \E o \in Users, u \in Users : Revoke(o, u)
  \/ \E u \in Users : WindowMoves(u)

Spec == Init /\ [][Next]_vars

-----------------------------------------------------------------------------
(* What must hold.                                                         *)

\* Every variable has its type.
TypeOK ==
  /\ approval   \in [Ids -> Rows \cup {NoRow}]
  /\ applied    \in [Ids -> Seq(Payloads)]
  /\ log        \in [Ids -> Seq(Events)]
  /\ revision   \in [Ids -> RevisionStates]
  /\ delegation \in [Users -> DelegationStates]
  /\ session    \in [Workers -> Requests \cup {Idle}]

\* The effect of a request is in place exactly when its row says Executed,
\* once, and it is the content the row holds: no interleaving of a success, a
\* late failure record, a retry and a crash applies a request twice or leaves
\* an applied request in a state from which it can be executed again.
EffectMatchesStatus ==
  \A a \in Ids :
    applied[a] = IF approval[a].status = "Executed"
                   THEN <<approval[a].payload>> ELSE <<>>

Decisions == {"InReview", "Approved", "Rejected", "Executed", "ExecutionFailed"}

\* Separation of duties, read off the record: whoever reviewed, executed or
\* failed to execute a request is not who submitted it, delegated or not; and
\* only the submitter submits, edits or withdraws it.  The one event anybody
\* may make is the link of a revision, and it is no decision.
SeparationOfDuties ==
  \A a \in Ids : \A i \in 1..Len(log[a]) :
    LET event == log[a][i] IN
    /\ event.to \in Decisions => event.by # approval[a].submittedBy
    /\ event.to \notin Decisions /\ event.by # approval[a].submittedBy =>
         event.note = "revision" /\ revision[a] = "Linked"

\* A record with its k-th event left out.
Without(events, k) ==
  [i \in 1..(Len(events) - 1) |-> IF i < k THEN events[i] ELSE events[i + 1]]

\* A record of transitions and edits that ends where the row is: one event per
\* version, each starting in the status the one before it left, the last naming
\* the current status.
Unbroken(events, row) ==
  /\ Len(events) = row.version + 1
  /\ events[1].from = "None"
  /\ events[Len(events)].to = row.status
  /\ \A i \in 2..Len(events) : events[i].from = events[i - 1].to
  /\ \A i \in 1..Len(events) : events[i].note = "transition"

\* The record is complete and unbroken.  A linked revision carries one more
\* event, wherever the link fell among the others; nothing else does.
RecordMatchesRow ==
  \A a \in Ids : Exists(a) =>
    IF revision[a] = "Linked"
      THEN \E k \in 2..Len(log[a]) :
             log[a][k].note = "revision" /\ Unbroken(Without(log[a], k), approval[a])
      ELSE Unbroken(log[a], approval[a])

\* What a worker holds is never ahead of the row, and a version names one
\* content.  A failed execution leaves its row to itself: nobody but an
\* execution moves it, and the worker is not its submitter.
SessionsSound ==
  \A w \in Workers : session[w] # Idle =>
    LET s == session[w]
        row == approval[s.id] IN
    /\ Exists(s.id)
    /\ s.version <= row.version
    /\ s.version = row.version => s.payload = row.payload
    /\ s.pc = "failed" =>
         /\ s.user # row.submittedBy
         /\ s.payload = row.payload
         /\ row.status \in {"Approved", "ExecutionFailed", "Executed"}

\* Optimistic concurrency: a step that changes an existing row is taken by a
\* worker whose caller was looking at the very content the row holds, so
\* nobody approves, executes or overwrites a content they have not seen.
ActedOnWhatWasSeen ==
  [][\A a \in Ids :
       Exists(a) /\ approval'[a] # approval[a] =>
         \E w \in Workers :
           /\ session[w] # Idle /\ session'[w] = Idle
           /\ session[w].id = a
           /\ session[w].payload = approval[a].payload]_vars

\* The rows as the contract sees them.
Phase(row) ==
  CASE row.status = "None"                            -> "absent"
    [] row.status \in {"Submitted", "InReview"}       -> "open"
    [] row.status \in {"Approved", "ExecutionFailed"} -> "agreed"
    [] row.status = "Executed"                        -> "done"
    [] OTHER                                          -> "dropped"

phaseOf   == [a \in Ids |-> Phase(approval[a])]
authorOf  == [a \in Ids |-> IF Exists(a) THEN approval[a].submittedBy ELSE Nobody]
contentOf == [a \in Ids |-> IF Exists(a) THEN approval[a].payload ELSE Nobody]
agreedOf  == [a \in Ids |-> IF Phase(approval[a]) \in {"agreed", "done"}
                              THEN approval[a].reviewedBy ELSE Nobody]

Contract == INSTANCE ApprovalContract WITH
  phase <- phaseOf, author <- authorOf, content <- contentOf,
  agreedBy <- agreedOf, effect <- applied

\* The pipeline implements its contract: what takes effect is what somebody
\* other than its author approved, once, and nothing dropped or merely open
\* ever takes effect.
ImplementsContract == Contract!Spec

\* Revocation as domain/src/delegation.ts states it: "Revoke is owner-only,
\* reason mandatory, immediate."  No decision is committed by a member without
\* review standing whose delegation has been revoked.
RevocationIsImmediate ==
  [][\A w \in Workers :
       LET s == session[w] IN
       s # Idle /\ s.pc = "ready" /\ s.action \in ReviewActions \cup {"execute"}
         /\ session'[w] = Idle /\ approval'[s.id] # approval[s.id]
       => s.user \in Owners \/ delegation[s.user] # "None"]_vars
=============================================================================
