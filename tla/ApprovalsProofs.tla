--------------------------- MODULE ApprovalsProofs ---------------------------
(***************************************************************************)
(* Theorems about the governed pipeline, for any set of ids, members,      *)
(* payloads and workers and any bound on versions.                         *)
(***************************************************************************)
EXTENDS Approvals, SequenceTheorems, TLAPS

-----------------------------------------------------------------------------
(* Typing.                                                                 *)

\* A row whose status is known is a row of the table.
LEMMA RowExists ==
  ASSUME TypeOK, NEW a \in Ids, approval[a].status # "None"
  PROVE  Exists(a) /\ approval[a] \in Rows
BY DEF TypeOK, Exists, NoRow

\* A status that admits a transition is not the one of an absent row.
LEMMA CanApplyExists ==
  ASSUME NEW action, NEW status, CanApply(action, status)
  PROVE  status # "None" /\ status \in ApprovalStatuses
BY DEF CanApply, ApprovalStatuses

LEMMA TargetTyped ==
  ASSUME NEW action \in ReviewActions
  PROVE  TargetStatus(action) \in ApprovalStatuses
BY DEF ReviewActions, TargetStatus, ApprovalStatuses

\* The event of a transition or an edit.
Transition(from, to, by) == [from |-> from, to |-> to, by |-> by, note |-> "transition"]

\* What recording an event does to the log.
LEMMA RecordTyped ==
  ASSUME TypeOK, NEW a \in Ids, NEW from \in ApprovalStatuses \cup {"None"},
         NEW to \in ApprovalStatuses, NEW by \in Users, Record(a, from, to, by)
  PROVE  /\ log' \in [Ids -> Seq(Events)]
         /\ log'[a] = Append(log[a], Transition(from, to, by))
         /\ \A b \in Ids \ {a} : log'[b] = log[b]
<1>1. log[a] \in Seq(Events)  BY DEF TypeOK
<1>2. Transition(from, to, by) \in Events  BY DEF Events, Transition
<1>3. Append(log[a], Transition(from, to, by)) \in Seq(Events)
  BY <1>1, <1>2
<1> QED  BY <1>3 DEF Record, AppendEvent, Transition, TypeOK

\* The row a status update leaves, and the one an edit leaves.
LEMMA DecidedRow ==
  ASSUME NEW row \in Rows, NEW to, NEW reviewer
  PROVE  [[[row EXCEPT !.status = to] EXCEPT !.version = @ + 1]
           EXCEPT !.reviewedBy = reviewer]
         = [status |-> to, version |-> row.version + 1, payload |-> row.payload,
            submittedBy |-> row.submittedBy, reviewedBy |-> reviewer]
<1> DEFINE r1 == [status |-> to, version |-> row.version, payload |-> row.payload,
                  submittedBy |-> row.submittedBy, reviewedBy |-> row.reviewedBy]
           r2 == [status |-> to, version |-> row.version + 1, payload |-> row.payload,
                  submittedBy |-> row.submittedBy, reviewedBy |-> row.reviewedBy]
<1>1. [row EXCEPT !.status = to] = r1  BY DEF Rows
<1>2. [r1 EXCEPT !.version = @ + 1] = r2  OBVIOUS
<1>3. [r2 EXCEPT !.reviewedBy = reviewer]
        = [status |-> to, version |-> row.version + 1, payload |-> row.payload,
           submittedBy |-> row.submittedBy, reviewedBy |-> reviewer]
  OBVIOUS
<1> HIDE DEF r1, r2
<1> QED  BY <1>1, <1>2, <1>3

LEMMA EditedRow ==
  ASSUME NEW row \in Rows, NEW p
  PROVE  [[row EXCEPT !.payload = p] EXCEPT !.version = @ + 1]
         = [status |-> row.status, version |-> row.version + 1, payload |-> p,
            submittedBy |-> row.submittedBy, reviewedBy |-> row.reviewedBy]
<1> DEFINE r1 == [status |-> row.status, version |-> row.version, payload |-> p,
                  submittedBy |-> row.submittedBy, reviewedBy |-> row.reviewedBy]
<1>1. [row EXCEPT !.payload = p] = r1  BY DEF Rows
<1>2. [r1 EXCEPT !.version = @ + 1]
        = [status |-> row.status, version |-> row.version + 1, payload |-> p,
           submittedBy |-> row.submittedBy, reviewedBy |-> row.reviewedBy]
  OBVIOUS
<1> HIDE DEF r1
<1> QED  BY <1>1, <1>2

\* What a status update does to its row, to the others and to the log.
LEMMA SetStatusEffect ==
  ASSUME TypeOK, NEW a \in Ids, approval[a].status # "None",
         NEW v \in Nat, NEW to \in ApprovalStatuses, NEW by \in Users,
         NEW reviewer \in Users \cup {Nobody}, SetStatus(a, v, to, by, reviewer)
  PROVE  /\ approval' \in [Ids -> Rows \cup {NoRow}]
         /\ approval'[a] \in Rows
         /\ approval'[a].status = to
         /\ approval'[a].version = approval[a].version + 1
         /\ approval'[a].payload = approval[a].payload
         /\ approval'[a].submittedBy = approval[a].submittedBy
         /\ approval'[a].reviewedBy = reviewer
         /\ \A b \in Ids \ {a} : approval'[b] = approval[b]
         /\ approval[a].version = v
         /\ Record(a, approval[a].status, to, by)
         /\ log' \in [Ids -> Seq(Events)]
<1> DEFINE row == [status |-> to, version |-> approval[a].version + 1,
                   payload |-> approval[a].payload,
                   submittedBy |-> approval[a].submittedBy, reviewedBy |-> reviewer]
<1>1. approval[a] \in Rows  BY RowExists
<1>2. row \in Rows  BY <1>1 DEF Rows
<1>3. approval' = [approval EXCEPT ![a] = row]
  <2>1. approval' = [approval EXCEPT ![a] = [[[approval[a] EXCEPT !.status = to]
                       EXCEPT !.version = @ + 1] EXCEPT !.reviewedBy = reviewer]]
    BY DEF SetStatus, TypeOK
  <2>2. [[[approval[a] EXCEPT !.status = to] EXCEPT !.version = @ + 1]
          EXCEPT !.reviewedBy = reviewer] = row
    BY <1>1, DecidedRow
  <2> QED  BY <2>1, <2>2
<1>4. approval'[a] = row /\ \A b \in Ids \ {a} : approval'[b] = approval[b]
  BY <1>3 DEF TypeOK
<1>5. approval' \in [Ids -> Rows \cup {NoRow}]
  BY <1>2, <1>3 DEF TypeOK
<1>6. Record(a, approval[a].status, to, by) /\ approval[a].version = v
  BY DEF SetStatus
<1>7. log' \in [Ids -> Seq(Events)]
  BY <1>1, <1>6, RecordTyped DEF Rows
<1> QED  BY <1>2, <1>4, <1>5, <1>6, <1>7

\* What an edit does.
LEMMA SetPayloadEffect ==
  ASSUME TypeOK, NEW a \in Ids, NEW v \in Nat, NEW p \in Payloads,
         SetPayload(a, v, p)
  PROVE  /\ approval' \in [Ids -> Rows \cup {NoRow}]
         /\ approval[a] \in Rows /\ approval'[a] \in Rows
         /\ approval[a].status = "Submitted" /\ approval'[a].status = "Submitted"
         /\ approval'[a].version = approval[a].version + 1
         /\ approval'[a].payload = p
         /\ approval'[a].submittedBy = approval[a].submittedBy
         /\ approval'[a].reviewedBy = approval[a].reviewedBy
         /\ \A b \in Ids \ {a} : approval'[b] = approval[b]
         /\ approval[a].version = v
<1> DEFINE row == [status |-> approval[a].status, version |-> approval[a].version + 1,
                   payload |-> p, submittedBy |-> approval[a].submittedBy,
                   reviewedBy |-> approval[a].reviewedBy]
<1>1. approval[a] \in Rows /\ approval[a].status = "Submitted" /\ approval[a].version = v
  BY RowExists DEF SetPayload
<1>2. row \in Rows  BY <1>1 DEF Rows
<1>3. approval' = [approval EXCEPT ![a] = row]
  <2>1. approval' = [approval EXCEPT ![a] =
                       [[approval[a] EXCEPT !.payload = p] EXCEPT !.version = @ + 1]]
    BY DEF SetPayload, TypeOK
  <2>2. [[approval[a] EXCEPT !.payload = p] EXCEPT !.version = @ + 1] = row
    BY <1>1, EditedRow
  <2> QED  BY <2>1, <2>2
<1>4. approval'[a] = row /\ \A b \in Ids \ {a} : approval'[b] = approval[b]
  BY <1>3 DEF TypeOK
<1>5. approval' \in [Ids -> Rows \cup {NoRow}]
  BY <1>2, <1>3 DEF TypeOK
<1> QED  BY <1>1, <1>2, <1>4, <1>5

\* A worker that is past idle serves a request.
LEMMA Serving ==
  ASSUME TypeOK, NEW w \in Workers, session[w] # Idle
  PROVE  /\ session[w] \in Requests
         /\ session[w].id \in Ids /\ session[w].user \in Users
         /\ session[w].version \in Nat /\ session[w].payload \in Payloads
         /\ session[w].action \in RequestActions
         /\ session[w].pc \in {"ready", "failed"}
BY DEF TypeOK, Requests

LEMMA PcNotIdle ==
  ASSUME NEW w \in Workers, session[w].pc \in {"ready", "failed"}
  PROVE  session[w] # Idle
BY DEF Idle

LEMMA FinishTyped ==
  ASSUME TypeOK, NEW w \in Workers, Finish(w)
  PROVE  /\ session' \in [Workers -> Requests \cup {Idle}]
         /\ session'[w] = Idle
         /\ \A x \in Workers \ {w} : session'[x] = session[x]
BY DEF TypeOK, Finish

\* The reviewer column of a row that exists.
LEMMA ReviewerTyped ==
  ASSUME TypeOK, NEW a \in Ids, approval[a].status # "None"
  PROVE  approval[a].reviewedBy \in Users \cup {Nobody}
BY RowExists DEF Rows

\* The four steps that move the status of a row do it as the worker's request
\* says, and free the worker.
Decides(w, to, reviewer) ==
  /\ session[w] # Idle
  /\ to \in ApprovalStatuses
  /\ reviewer \in Users \cup {Nobody}
  /\ approval[session[w].id].status # "None"
  /\ \E v \in Nat : SetStatus(session[w].id, v, to, session[w].user, reviewer)
  /\ Finish(w)
  /\ UNCHANGED <<revision, delegation>>

LEMMA DecidesTyped ==
  ASSUME TypeOK, NEW w \in Workers, NEW to, NEW reviewer, Decides(w, to, reviewer),
         applied' \in [Ids -> Seq(Payloads)]
  PROVE  TypeOK'
<1>1. session[w].id \in Ids /\ session[w].user \in Users
  BY Serving DEF Decides
<1>2. PICK v \in Nat : SetStatus(session[w].id, v, to, session[w].user, reviewer)
  BY DEF Decides
<1>3. approval' \in [Ids -> Rows \cup {NoRow}] /\ log' \in [Ids -> Seq(Events)]
  BY <1>1, <1>2, SetStatusEffect DEF Decides
<1>4. session' \in [Workers -> Requests \cup {Idle}]
  BY FinishTyped DEF Decides
<1> QED  BY <1>3, <1>4 DEF TypeOK, Decides

LEMMA ReviewDecides ==
  ASSUME TypeOK, NEW w \in Workers, Review(w)
  PROVE  Decides(w, TargetStatus(session[w].action), session[w].user)
<1>1. session[w] # Idle  BY PcNotIdle DEF Review
<1>2. session[w].user \in Users /\ session[w].version \in Nat  BY <1>1, Serving
<1>3. TargetStatus(session[w].action) \in ApprovalStatuses  BY TargetTyped DEF Review
<1>4. approval[session[w].id].status # "None"  BY CanApplyExists DEF Review
<1> QED  BY <1>1, <1>2, <1>3, <1>4 DEF Review, Decides

LEMMA WithdrawDecides ==
  ASSUME TypeOK, NEW w \in Workers, Withdraw(w)
  PROVE  Decides(w, "Withdrawn", approval[session[w].id].reviewedBy)
<1>1. session[w] # Idle  BY PcNotIdle DEF Withdraw
<1>2. session[w].id \in Ids /\ session[w].version \in Nat  BY <1>1, Serving
<1>3. approval[session[w].id].status # "None"  BY CanApplyExists DEF Withdraw
<1>4. approval[session[w].id].reviewedBy \in Users \cup {Nobody}
  BY <1>2, <1>3, ReviewerTyped
<1> QED  BY <1>1, <1>2, <1>3, <1>4 DEF Withdraw, Decides, ApprovalStatuses

LEMMA ExecuteOkDecides ==
  ASSUME TypeOK, NEW w \in Workers, ExecuteOk(w)
  PROVE  /\ Decides(w, "Executed", approval[session[w].id].reviewedBy)
         /\ applied' \in [Ids -> Seq(Payloads)]
<1>1. session[w] # Idle  BY PcNotIdle DEF ExecuteOk, MayExecute
<1>2. session[w].id \in Ids /\ session[w].version \in Nat  BY <1>1, Serving
<1>3. approval[session[w].id].status # "None"
  BY CanApplyExists DEF ExecuteOk, MayExecute
<1>4. approval[session[w].id].reviewedBy \in Users \cup {Nobody}
  BY <1>2, <1>3, ReviewerTyped
<1>5. approval[session[w].id].payload \in Payloads
  BY <1>2, <1>3, RowExists DEF Rows
<1>6. applied' \in [Ids -> Seq(Payloads)]
  <2>1. applied[session[w].id] \in Seq(Payloads)  BY <1>2 DEF TypeOK
  <2>2. Append(applied[session[w].id], approval[session[w].id].payload) \in Seq(Payloads)
    BY <2>1, <1>5
  <2> QED  BY <2>2 DEF ExecuteOk, TypeOK
<1> QED  BY <1>1, <1>2, <1>3, <1>4, <1>6 DEF ExecuteOk, Decides, ApprovalStatuses

LEMMA RecordFailureDecides ==
  ASSUME TypeOK, NEW w \in Workers, RecordFailure(w),
         approval[session[w].id].status \in {"Approved", "ExecutionFailed"}
  PROVE  Decides(w, "ExecutionFailed", approval[session[w].id].reviewedBy)
<1>1. session[w] # Idle  BY PcNotIdle DEF RecordFailure
<1>2. session[w].id \in Ids  BY <1>1, Serving
<1>3. approval[session[w].id] \in Rows  BY <1>2, RowExists
<1> QED  BY <1>1, <1>2, <1>3 DEF RecordFailure, Decides, ApprovalStatuses, Rows

\* An edit, said once: the payload and version move, the log grows by one.
LEMMA EditEffect ==
  ASSUME TypeOK, NEW w \in Workers, NEW p \in Payloads, Edit(w, p)
  PROVE  /\ session[w] # Idle
         /\ SetPayload(session[w].id, session[w].version, p)
         /\ Record(session[w].id, "Submitted", "Submitted", session[w].user)
         /\ log' \in [Ids -> Seq(Events)]
         /\ TypeOK'
<1>1. session[w] # Idle  BY PcNotIdle DEF Edit
<1>2. session[w].id \in Ids /\ session[w].version \in Nat /\ session[w].user \in Users
  BY <1>1, Serving
<1>3. /\ SetPayload(session[w].id, session[w].version, p)
      /\ Record(session[w].id, "Submitted", "Submitted", session[w].user)
  BY DEF Edit
<1>4. approval' \in [Ids -> Rows \cup {NoRow}]  BY <1>2, <1>3, SetPayloadEffect
<1>5. log' \in [Ids -> Seq(Events)]
  BY <1>2, <1>3, RecordTyped DEF ApprovalStatuses
<1>6. session' \in [Workers -> Requests \cup {Idle}]  BY FinishTyped DEF Edit
<1>7. TypeOK'  BY <1>4, <1>5, <1>6 DEF TypeOK, Edit
<1> QED  BY <1>1, <1>3, <1>5, <1>7

LEMMA SubmitEffect ==
  ASSUME TypeOK, NEW u \in Users, NEW a \in Ids, NEW p \in Payloads,
         NEW rev \in RevisionStates, Submit(u, a, p, rev)
  PROVE  /\ approval[a] = NoRow
         /\ approval'[a] \in Rows
         /\ approval'[a].status = "Submitted" /\ approval'[a].version = 0
         /\ approval'[a].payload = p /\ approval'[a].submittedBy = u
         /\ \A b \in Ids \ {a} : approval'[b] = approval[b]
         /\ Record(a, "None", "Submitted", u)
         /\ revision'[a] \in {"None", "Unlinked"}
         /\ \A b \in Ids \ {a} : revision'[b] = revision[b]
         /\ TypeOK'
<1>1. approval'[a] = [status |-> "Submitted", version |-> 0, payload |-> p,
                      submittedBy |-> u, reviewedBy |-> Nobody]
  BY DEF Submit, TypeOK
<1>2. approval'[a] \in Rows  BY <1>1 DEF Rows, ApprovalStatuses
<1>3. \A b \in Ids \ {a} : approval'[b] = approval[b]  BY DEF Submit, TypeOK
<1>4. approval' \in [Ids -> Rows \cup {NoRow}]
  BY <1>2, <1>3 DEF Submit, TypeOK
<1>5. log' \in [Ids -> Seq(Events)]
  BY RecordTyped DEF Submit, ApprovalStatuses
<1>6. /\ revision'[a] \in {"None", "Unlinked"}
      /\ \A b \in Ids \ {a} : revision'[b] = revision[b]
      /\ revision' \in [Ids -> RevisionStates]
  BY DEF Submit, TypeOK
<1>7. TypeOK'  BY <1>4, <1>5, <1>6 DEF Submit, TypeOK
<1> QED  BY <1>1, <1>2, <1>3, <1>6, <1>7 DEF Submit, Exists

\* What the link of a revision does: the successor's row stays, its record
\* grows by the one event that is no transition.
LinkEvent(u) == [from |-> "Submitted", to |-> "Submitted", by |-> u, note |-> "revision"]

LEMMA LinkEffect ==
  ASSUME TypeOK, NEW u \in Users, NEW a \in Ids, LinkRevision(u, a)
  PROVE  /\ revision[a] = "Unlinked" /\ revision'[a] = "Linked"
         /\ log'[a] = Append(log[a], LinkEvent(u))
         /\ \A b \in Ids \ {a} : revision'[b] = revision[b] /\ log'[b] = log[b]
         /\ UNCHANGED <<approval, applied, delegation, session>>
         /\ TypeOK'
<1>1. log[a] \in Seq(Events)  BY DEF TypeOK
<1>2. LinkEvent(u) \in Events  BY DEF LinkEvent, Events, ApprovalStatuses
<1>3. Append(log[a], LinkEvent(u)) \in Seq(Events)  BY <1>1, <1>2
<1>4. log' = [log EXCEPT ![a] = Append(log[a], LinkEvent(u))]
  BY DEF LinkRevision, AppendEvent, LinkEvent, TypeOK
<1>5. /\ log' \in [Ids -> Seq(Events)]
      /\ log'[a] = Append(log[a], LinkEvent(u))
      /\ \A b \in Ids \ {a} : log'[b] = log[b]
  BY <1>3, <1>4 DEF TypeOK
<1>6. /\ revision[a] = "Unlinked" /\ revision'[a] = "Linked"
      /\ \A b \in Ids \ {a} : revision'[b] = revision[b]
      /\ revision' \in [Ids -> RevisionStates]
  BY DEF LinkRevision, TypeOK, RevisionStates
<1>7. TypeOK'  BY <1>5, <1>6 DEF LinkRevision, TypeOK
<1> QED  BY <1>5, <1>6, <1>7 DEF LinkRevision

LEMMA OpenEffect ==
  ASSUME TypeOK, NEW w \in Workers, NEW u \in Users, NEW action \in RequestActions,
         NEW a \in Ids, Open(w, u, action, a)
  PROVE  /\ Exists(a) /\ approval[a] \in Rows
         /\ session'[w] = [pc |-> "ready", user |-> u, action |-> action, id |-> a,
                           version |-> approval[a].version,
                           payload |-> approval[a].payload]
         /\ \A x \in Workers \ {w} : session'[x] = session[x]
         /\ UNCHANGED <<approval, applied, log, revision, delegation>>
         /\ TypeOK'
<1>1. approval[a] \in Rows /\ Exists(a)  BY DEF Open, TypeOK, Exists
<1>2. session'[w] = [pc |-> "ready", user |-> u, action |-> action, id |-> a,
                     version |-> approval[a].version, payload |-> approval[a].payload]
  BY DEF Open, TypeOK
<1>3. session'[w] \in Requests  BY <1>1, <1>2 DEF Requests, Rows
<1>4. \A x \in Workers \ {w} : session'[x] = session[x]  BY DEF Open, TypeOK
<1>5. session' \in [Workers -> Requests \cup {Idle}]  BY <1>3, <1>4 DEF Open, TypeOK
<1>6. TypeOK'  BY <1>5 DEF TypeOK, Open
<1> QED  BY <1>1, <1>2, <1>4, <1>6 DEF Open

LEMMA ExecuteFaultEffect ==
  ASSUME TypeOK, NEW w \in Workers, ExecuteFault(w)
  PROVE  /\ session[w] # Idle
         /\ session'[w] = [session[w] EXCEPT !.pc = "failed"]
         /\ \A x \in Workers \ {w} : session'[x] = session[x]
         /\ UNCHANGED <<approval, applied, log, revision, delegation>>
         /\ TypeOK'
<1>1. session[w] # Idle  BY PcNotIdle DEF ExecuteFault, MayExecute
<1>2. session[w] \in Requests  BY <1>1, Serving
<1>3. session'[w] = [session[w] EXCEPT !.pc = "failed"]  BY DEF ExecuteFault, TypeOK
<1>4. session'[w] \in Requests  BY <1>2, <1>3 DEF Requests
<1>5. \A x \in Workers \ {w} : session'[x] = session[x]  BY DEF ExecuteFault, TypeOK
<1>6. session' \in [Workers -> Requests \cup {Idle}]
  BY <1>4, <1>5 DEF ExecuteFault, TypeOK
<1>7. TypeOK'  BY <1>6 DEF TypeOK, ExecuteFault
<1> QED  BY <1>1, <1>3, <1>5, <1>7 DEF ExecuteFault

\* A step that touches delegations only, and one that only frees the worker.
DelegationStep ==
  /\ delegation' \in [Users -> DelegationStates]
  /\ UNCHANGED <<approval, applied, log, revision, session>>

LEMMA DelegationSteps ==
  ASSUME TypeOK, NEW o \in Users, NEW u \in Users, NEW state \in DelegationStates,
         Grant(o, u, state) \/ Revoke(o, u) \/ WindowMoves(u)
  PROVE  DelegationStep
BY DEF TypeOK, DelegationStep, DelegationStates, Grant, Revoke, WindowMoves

FreesOnly(w) == Finish(w) /\ UNCHANGED <<approval, applied, log, revision, delegation>>

\* Every step is one of these.
LEMMA StepCases ==
  ASSUME TypeOK, Next
  PROVE  \/ \E u \in Users, a \in Ids, p \in Payloads, rev \in RevisionStates :
               Submit(u, a, p, rev)
         \/ \E u \in Users, a \in Ids : LinkRevision(u, a)
         \/ \E w \in Workers, u \in Users, action \in RequestActions, a \in Ids :
               Open(w, u, action, a)
         \/ \E w \in Workers :
               \/ Review(w) \/ Withdraw(w) \/ ExecuteOk(w) \/ ExecuteFault(w)
               \/ \E p \in Payloads : Edit(w, p)
               \/ /\ RecordFailure(w)
                  /\ approval[session[w].id].status \in {"Approved", "ExecutionFailed"}
               \/ FreesOnly(w)
         \/ DelegationStep
<1>1. ASSUME NEW w \in Workers, Serve(w)
      PROVE  \/ Review(w) \/ Withdraw(w) \/ ExecuteOk(w) \/ ExecuteFault(w)
             \/ \E p \in Payloads : Edit(w, p)
             \/ /\ RecordFailure(w)
                /\ approval[session[w].id].status \in {"Approved", "ExecutionFailed"}
             \/ FreesOnly(w)
  BY <1>1 DEF Serve, Abandon, ExecuteAgain, RecordFailure, FreesOnly
<1>2. ASSUME NEW o \in Users, NEW u \in Users, NEW state \in DelegationStates,
             Grant(o, u, state) \/ Revoke(o, u) \/ WindowMoves(u)
      PROVE  DelegationStep
  BY <1>2, DelegationSteps
<1>3. "None" \in DelegationStates  BY DEF DelegationStates
<1> QED  BY <1>1, <1>2, <1>3 DEF Next

\* Every reachable state has the declared types: no step of the pipeline stores
\* a status the CHECK constraint does not know, or serves a request that is not
\* one.
THEOREM Typing == Spec => []TypeOK
<1>1. Init => TypeOK
  <2>1. <<>> \in Seq(Payloads) /\ <<>> \in Seq(Events)  OBVIOUS
  <2> QED  BY <2>1 DEF Init, TypeOK, DelegationStates, RevisionStates
<1>2. TypeOK /\ [Next]_vars => TypeOK'
  <2> SUFFICES ASSUME TypeOK, [Next]_vars PROVE TypeOK'
    OBVIOUS
  <2>1. CASE UNCHANGED vars  BY <2>1 DEF vars, TypeOK
  <2>2. ASSUME NEW u \in Users, NEW a \in Ids, NEW p \in Payloads,
         NEW rev \in RevisionStates, Submit(u, a, p, rev)
        PROVE  TypeOK'
    BY <2>2, SubmitEffect
  <2>3. ASSUME NEW w \in Workers, NEW u \in Users, NEW action \in RequestActions,
               NEW a \in Ids, Open(w, u, action, a)
        PROVE  TypeOK'
    BY <2>3, OpenEffect
  <2>4. ASSUME NEW w \in Workers, Review(w) PROVE TypeOK'
    BY <2>4, ReviewDecides, DecidesTyped DEF TypeOK, Review
  <2>5. ASSUME NEW w \in Workers, Withdraw(w) PROVE TypeOK'
    BY <2>5, WithdrawDecides, DecidesTyped DEF TypeOK, Withdraw
  <2>6. ASSUME NEW w \in Workers, ExecuteOk(w) PROVE TypeOK'
    BY <2>6, ExecuteOkDecides, DecidesTyped
  <2>7. ASSUME NEW w \in Workers, ExecuteFault(w) PROVE TypeOK'
    BY <2>7, ExecuteFaultEffect
  <2>8. ASSUME NEW w \in Workers, NEW p \in Payloads, Edit(w, p) PROVE TypeOK'
    BY <2>8, EditEffect
  <2>9. ASSUME NEW w \in Workers, RecordFailure(w),
               approval[session[w].id].status \in {"Approved", "ExecutionFailed"}
        PROVE  TypeOK'
    BY <2>9, RecordFailureDecides, DecidesTyped DEF TypeOK, RecordFailure
  <2>10. ASSUME NEW w \in Workers, FreesOnly(w) PROVE TypeOK'
    BY <2>10, FinishTyped DEF TypeOK, FreesOnly
  <2>11. CASE DelegationStep  BY <2>11 DEF TypeOK, DelegationStep
  <2>12. ASSUME NEW u \in Users, NEW a \in Ids, LinkRevision(u, a) PROVE TypeOK'
    BY <2>12, LinkEffect
  <2> QED
    BY <2>1, <2>2, <2>3, <2>4, <2>5, <2>6, <2>7, <2>8, <2>9, <2>10, <2>11, <2>12,
       StepCases
<1> QED  BY <1>1, <1>2, PTL DEF Spec

-----------------------------------------------------------------------------
(* What a step does to one row.                                            *)

Kept(a) ==
  /\ approval'[a] = approval[a] /\ log'[a] = log[a] /\ applied'[a] = applied[a]
  /\ revision'[a] = revision[a]

Logged(a, from, to, by) ==
  /\ log'[a] = Append(log[a], Transition(from, to, by))
  /\ by \in Users

\* The worker that changes the row was serving a caller who saw its content.
SeenByWorker(a) ==
  \E w \in Workers :
    /\ session[w] # Idle /\ session'[w] = Idle
    /\ session[w].id = a
    /\ session[w].payload = approval[a].payload

Created(a) ==
  /\ approval[a] = NoRow /\ approval'[a] \in Rows
  /\ approval'[a].status = "Submitted" /\ approval'[a].version = 0
  /\ Logged(a, "None", "Submitted", approval'[a].submittedBy)
  /\ applied'[a] = applied[a]
  /\ revision'[a] \in {"None", "Unlinked"}

Changed(a, from, to, by) ==
  /\ approval[a] \in Rows /\ approval'[a] \in Rows
  /\ approval[a].status = from /\ approval'[a].status = to
  /\ approval'[a].version = approval[a].version + 1
  /\ approval'[a].submittedBy = approval[a].submittedBy
  /\ Logged(a, from, to, by)
  /\ revision'[a] = revision[a]
  /\ SeenByWorker(a)

Edited(a) ==
  /\ Changed(a, "Submitted", "Submitted", approval[a].submittedBy)
  /\ applied'[a] = applied[a]

Dropped(a, from) ==
  /\ from \in {"Submitted", "InReview"}
  /\ Changed(a, from, "Withdrawn", approval[a].submittedBy)
  /\ approval'[a].payload = approval[a].payload
  /\ applied'[a] = applied[a]

Reviewed(a, from, to, by) ==
  /\ from \in {"Submitted", "InReview"} /\ to \in {"InReview", "Approved", "Rejected"}
  /\ Changed(a, from, to, by)
  /\ by # approval[a].submittedBy
  /\ approval'[a].reviewedBy = by
  /\ approval'[a].payload = approval[a].payload
  /\ applied'[a] = applied[a]

Executed(a, from, to, by) ==
  /\ from \in {"Approved", "ExecutionFailed"} /\ to \in {"Executed", "ExecutionFailed"}
  /\ Changed(a, from, to, by)
  /\ by # approval[a].submittedBy
  /\ approval'[a].reviewedBy = approval[a].reviewedBy
  /\ approval'[a].payload = approval[a].payload
  /\ applied'[a] = IF to = "Executed" THEN Append(applied[a], approval[a].payload)
                   ELSE applied[a]

Touched(a) ==
  \/ Created(a)
  \/ Edited(a)
  \/ \E from \in ApprovalStatuses : Dropped(a, from)
  \/ \E from \in ApprovalStatuses, to \in ApprovalStatuses, by \in Users :
        Reviewed(a, from, to, by) \/ Executed(a, from, to, by)

\* The one step that writes a record without touching its row.
LinkedNow(a) ==
  /\ approval'[a] = approval[a] /\ applied'[a] = applied[a]
  /\ revision[a] = "Unlinked" /\ revision'[a] = "Linked"
  /\ \E u \in Users : log'[a] = Append(log[a], LinkEvent(u))

\* What a step that moves the status of a row does to that row and the others.
LEMMA DecidesChanges ==
  ASSUME TypeOK, SessionsSound, NEW w \in Workers, NEW to, NEW reviewer,
         Decides(w, to, reviewer),
         \/ session[w].pc = "failed"
         \/ session[w].version = approval[session[w].id].version
  PROVE  LET a == session[w].id IN
         /\ a \in Ids
         /\ approval[a].status \in ApprovalStatuses
         /\ Changed(a, approval[a].status, to, session[w].user)
         /\ approval'[a].reviewedBy = reviewer
         /\ approval'[a].payload = approval[a].payload
         /\ \A b \in Ids \ {a} : approval'[b] = approval[b] /\ log'[b] = log[b]
         /\ revision' = revision
<1> DEFINE a == session[w].id
<1>1. a \in Ids /\ session[w].user \in Users /\ session[w] # Idle
  BY Serving DEF Decides
<1>2. PICK v \in Nat : SetStatus(a, v, to, session[w].user, reviewer)
  BY DEF Decides
<1>3. approval[a] \in Rows  BY <1>1, RowExists DEF Decides
<1>4. approval[a].status \in ApprovalStatuses  BY <1>3 DEF Rows
<1>5. /\ approval'[a] \in Rows /\ approval'[a].status = to
      /\ approval'[a].version = approval[a].version + 1
      /\ approval'[a].payload = approval[a].payload
      /\ approval'[a].submittedBy = approval[a].submittedBy
      /\ approval'[a].reviewedBy = reviewer
      /\ \A b \in Ids \ {a} : approval'[b] = approval[b]
      /\ Record(a, approval[a].status, to, session[w].user)
  BY <1>1, <1>2, SetStatusEffect DEF Decides
<1>6. /\ log'[a] = Append(log[a], Transition(approval[a].status, to, session[w].user))
      /\ \A b \in Ids \ {a} : log'[b] = log[b]
  BY <1>1, <1>4, <1>5, RecordTyped DEF Decides
<1>7. SeenByWorker(a)
  <2>1. session[w].payload = approval[a].payload  BY <1>1 DEF SessionsSound
  <2>2. session'[w] = Idle  BY FinishTyped DEF Decides
  <2> QED  BY <1>1, <2>1, <2>2 DEF SeenByWorker
<1>8. revision' = revision  BY DEF Decides
<1> QED  BY <1>1, <1>3, <1>4, <1>5, <1>6, <1>7, <1>8 DEF Changed, Logged

LEMMA ReviewRow ==
  ASSUME TypeOK, SessionsSound, NEW w \in Workers, Review(w)
  PROVE  \E a \in Ids : Touched(a) /\ \A b \in Ids \ {a} : Kept(b)
<1> DEFINE a == session[w].id
           to == TargetStatus(session[w].action)
<1>1. Decides(w, to, session[w].user)  BY ReviewDecides
<1>2. session[w].version = approval[a].version  BY DEF Review, SetStatus
<1>3. /\ a \in Ids /\ session[w].user \in Users
      /\ approval[a].status \in ApprovalStatuses
      /\ Changed(a, approval[a].status, to, session[w].user)
      /\ approval'[a].reviewedBy = session[w].user
      /\ approval'[a].payload = approval[a].payload
      /\ \A b \in Ids \ {a} : approval'[b] = approval[b] /\ log'[b] = log[b]
      /\ revision' = revision
  BY <1>1, <1>2, DecidesChanges, Serving DEF Decides
<1>4. /\ to \in {"InReview", "Approved", "Rejected"}
      /\ approval[a].status \in {"Submitted", "InReview"}
  BY DEF Review, TargetStatus, CanApply, ReviewActions
<1>5. session[w].user # approval[a].submittedBy  BY DEF Review, SelfReview
<1>6. applied' = applied  BY DEF Review
<1>7. Reviewed(a, approval[a].status, to, session[w].user)
  BY <1>3, <1>4, <1>5, <1>6 DEF Reviewed
<1>8. to \in ApprovalStatuses  BY <1>1 DEF Decides
<1> QED  BY <1>3, <1>6, <1>7, <1>8 DEF Touched, Kept

LEMMA WithdrawRow ==
  ASSUME TypeOK, SessionsSound, NEW w \in Workers, Withdraw(w)
  PROVE  \E a \in Ids : Touched(a) /\ \A b \in Ids \ {a} : Kept(b)
<1> DEFINE a == session[w].id
<1>1. Decides(w, "Withdrawn", approval[a].reviewedBy)  BY WithdrawDecides
<1>2. session[w].version = approval[a].version  BY DEF Withdraw, SetStatus
<1>3. /\ a \in Ids
      /\ approval[a].status \in ApprovalStatuses
      /\ Changed(a, approval[a].status, "Withdrawn", session[w].user)
      /\ approval'[a].payload = approval[a].payload
      /\ \A b \in Ids \ {a} : approval'[b] = approval[b] /\ log'[b] = log[b]
      /\ revision' = revision
  BY <1>1, <1>2, DecidesChanges
<1>4. approval[a].status \in {"Submitted", "InReview"}
  BY DEF Withdraw, CanApply
<1>5. session[w].user = approval[a].submittedBy /\ applied' = applied  BY DEF Withdraw
<1>6. Dropped(a, approval[a].status)  BY <1>3, <1>4, <1>5 DEF Dropped
<1> QED  BY <1>3, <1>5, <1>6 DEF Touched, Kept

LEMMA ExecuteOkRow ==
  ASSUME TypeOK, SessionsSound, NEW w \in Workers, ExecuteOk(w)
  PROVE  \E a \in Ids : Touched(a) /\ \A b \in Ids \ {a} : Kept(b)
<1> DEFINE a == session[w].id
<1>1. Decides(w, "Executed", approval[a].reviewedBy)  BY ExecuteOkDecides
<1>2. session[w].version = approval[a].version  BY DEF ExecuteOk, MayExecute
<1>3. /\ a \in Ids /\ session[w].user \in Users
      /\ approval[a].status \in ApprovalStatuses
      /\ Changed(a, approval[a].status, "Executed", session[w].user)
      /\ approval'[a].reviewedBy = approval[a].reviewedBy
      /\ approval'[a].payload = approval[a].payload
      /\ \A b \in Ids \ {a} : approval'[b] = approval[b] /\ log'[b] = log[b]
      /\ revision' = revision
  BY <1>1, <1>2, DecidesChanges, Serving DEF Decides
<1>4. /\ approval[a].status \in {"Approved", "ExecutionFailed"}
      /\ session[w].user # approval[a].submittedBy
  BY DEF ExecuteOk, MayExecute, CanApply, SelfReview
<1>5. /\ applied'[a] = Append(applied[a], approval[a].payload)
      /\ \A b \in Ids \ {a} : applied'[b] = applied[b]
  BY <1>3 DEF ExecuteOk, TypeOK
<1>6. Executed(a, approval[a].status, "Executed", session[w].user)
  BY <1>3, <1>4, <1>5 DEF Executed
<1>7. "Executed" \in ApprovalStatuses  BY DEF ApprovalStatuses
<1> QED  BY <1>3, <1>5, <1>6, <1>7 DEF Touched, Kept

LEMMA RecordFailureRow ==
  ASSUME TypeOK, SessionsSound, NEW w \in Workers, RecordFailure(w),
         approval[session[w].id].status \in {"Approved", "ExecutionFailed"}
  PROVE  \E a \in Ids : Touched(a) /\ \A b \in Ids \ {a} : Kept(b)
<1> DEFINE a == session[w].id
<1>1. Decides(w, "ExecutionFailed", approval[a].reviewedBy)  BY RecordFailureDecides
<1>2. session[w].pc = "failed" /\ applied' = applied  BY DEF RecordFailure
<1>3. /\ a \in Ids /\ session[w].user \in Users /\ session[w] # Idle
      /\ approval[a].status \in ApprovalStatuses
      /\ Changed(a, approval[a].status, "ExecutionFailed", session[w].user)
      /\ approval'[a].reviewedBy = approval[a].reviewedBy
      /\ approval'[a].payload = approval[a].payload
      /\ \A b \in Ids \ {a} : approval'[b] = approval[b] /\ log'[b] = log[b]
      /\ revision' = revision
  BY <1>1, <1>2, DecidesChanges, Serving DEF Decides
<1>4. session[w].user # approval[a].submittedBy  BY <1>2, <1>3 DEF SessionsSound
<1>5. Executed(a, approval[a].status, "ExecutionFailed", session[w].user)
  BY <1>2, <1>3, <1>4 DEF Executed
<1>6. "ExecutionFailed" \in ApprovalStatuses  BY DEF ApprovalStatuses
<1> QED  BY <1>2, <1>3, <1>5, <1>6 DEF Touched, Kept

LEMMA EditRow ==
  ASSUME TypeOK, SessionsSound, NEW w \in Workers, NEW p \in Payloads, Edit(w, p)
  PROVE  \E a \in Ids : Touched(a) /\ \A b \in Ids \ {a} : Kept(b)
<1> DEFINE a == session[w].id
<1>1. /\ session[w] # Idle /\ a \in Ids /\ session[w].user \in Users
      /\ session[w].version \in Nat
      /\ SetPayload(a, session[w].version, p)
      /\ Record(a, "Submitted", "Submitted", session[w].user)
  BY EditEffect, Serving
<1>2. /\ approval[a] \in Rows /\ approval'[a] \in Rows
      /\ approval[a].status = "Submitted" /\ approval'[a].status = "Submitted"
      /\ approval'[a].version = approval[a].version + 1
      /\ approval'[a].submittedBy = approval[a].submittedBy
      /\ \A b \in Ids \ {a} : approval'[b] = approval[b]
      /\ approval[a].version = session[w].version
  BY <1>1, SetPayloadEffect
<1>3. /\ log'[a] = Append(log[a], Transition("Submitted", "Submitted", session[w].user))
      /\ \A b \in Ids \ {a} : log'[b] = log[b]
  <2>1. "Submitted" \in ApprovalStatuses  BY DEF ApprovalStatuses
  <2>2. "Submitted" \in ApprovalStatuses \cup {"None"}  BY <2>1
  <2> HIDE DEF a
  <2> QED  BY <1>1, <2>1, <2>2, RecordTyped
<1>4. SeenByWorker(a)
  <2>1. session[w].payload = approval[a].payload  BY <1>1, <1>2 DEF SessionsSound
  <2>2. session'[w] = Idle  BY FinishTyped DEF Edit
  <2> QED  BY <1>1, <2>1, <2>2 DEF SeenByWorker
<1>5. /\ session[w].user = approval[a].submittedBy
      /\ applied' = applied /\ revision' = revision
  BY DEF Edit
<1>6. Edited(a)  BY <1>1, <1>2, <1>3, <1>4, <1>5 DEF Edited, Changed, Logged
<1> QED  BY <1>1, <1>2, <1>3, <1>5, <1>6 DEF Touched, Kept

LEMMA SubmitRow ==
  ASSUME TypeOK, NEW u \in Users, NEW a \in Ids, NEW p \in Payloads,
         NEW rev \in RevisionStates, Submit(u, a, p, rev)
  PROVE  Touched(a) /\ \A b \in Ids \ {a} : Kept(b)
<1>1. /\ approval[a] = NoRow /\ approval'[a] \in Rows
      /\ approval'[a].status = "Submitted" /\ approval'[a].version = 0
      /\ approval'[a].submittedBy = u
      /\ \A b \in Ids \ {a} : approval'[b] = approval[b]
      /\ Record(a, "None", "Submitted", u)
      /\ revision'[a] \in {"None", "Unlinked"}
      /\ \A b \in Ids \ {a} : revision'[b] = revision[b]
  BY SubmitEffect
<1>2. "Submitted" \in ApprovalStatuses /\ "None" \in ApprovalStatuses \cup {"None"}
  BY DEF ApprovalStatuses
<1>3. /\ log'[a] = Append(log[a], Transition("None", "Submitted", u))
      /\ \A b \in Ids \ {a} : log'[b] = log[b]
  BY <1>1, <1>2, RecordTyped
<1>4. applied' = applied  BY DEF Submit
<1> QED  BY <1>1, <1>3, <1>4 DEF Touched, Created, Logged, Kept

\* Every step changes at most one row, in one of the ways above.
LEMMA RowSteps ==
  ASSUME TypeOK, SessionsSound, [Next]_vars
  PROVE  \/ \A a \in Ids : Kept(a)
         \/ \E a \in Ids : (Touched(a) \/ LinkedNow(a)) /\ \A b \in Ids \ {a} : Kept(b)
<1>1. CASE UNCHANGED vars  BY <1>1 DEF vars, Kept
<1>2. ASSUME NEW w \in Workers, NEW u \in Users, NEW action \in RequestActions,
             NEW a \in Ids, Open(w, u, action, a)
      PROVE  \A b \in Ids : Kept(b)
  BY <1>2 DEF Open, Kept
<1>3. ASSUME NEW w \in Workers, ExecuteFault(w) \/ FreesOnly(w)
      PROVE  \A b \in Ids : Kept(b)
  BY <1>3 DEF ExecuteFault, FreesOnly, Kept
<1>4. CASE DelegationStep  BY <1>4 DEF DelegationStep, Kept
<1>5. ASSUME NEW u \in Users, NEW a \in Ids, LinkRevision(u, a)
      PROVE  LinkedNow(a) /\ \A b \in Ids \ {a} : Kept(b)
  BY <1>5, LinkEffect DEF LinkedNow, Kept
<1> QED
  BY <1>1, <1>2, <1>3, <1>4, <1>5, StepCases, SubmitRow, ReviewRow, WithdrawRow, ExecuteOkRow,
     RecordFailureRow, EditRow

-----------------------------------------------------------------------------
(* The requests in flight.                                                 *)

SessionKept(x) == session'[x] = session[x] \/ session'[x] = Idle

Opened(x) ==
  /\ UNCHANGED approval
  /\ Exists(session'[x].id)
  /\ session'[x].version = approval[session'[x].id].version
  /\ session'[x].version \in Nat
  /\ session'[x].payload = approval[session'[x].id].payload
  /\ session'[x].pc = "ready"

Failed(x) ==
  /\ UNCHANGED approval
  /\ session[x] # Idle
  /\ MayExecute(session[x])
  /\ session'[x] = [session[x] EXCEPT !.pc = "failed"]

LEMMA SessionSteps ==
  ASSUME TypeOK, [Next]_vars, NEW x \in Workers
  PROVE  SessionKept(x) \/ Opened(x) \/ Failed(x)
<1>1. CASE UNCHANGED vars  BY <1>1 DEF vars, SessionKept
<1>2. ASSUME NEW w \in Workers, NEW u \in Users, NEW action \in RequestActions,
             NEW a \in Ids, Open(w, u, action, a)
      PROVE  SessionKept(x) \/ Opened(x)
  <2>1. CASE x # w  BY <1>2, <2>1, OpenEffect DEF SessionKept
  <2>2. CASE x = w
    <3>1. /\ UNCHANGED approval /\ Exists(a) /\ approval[a] \in Rows
          /\ session'[w] = [pc |-> "ready", user |-> u, action |-> action, id |-> a,
                            version |-> approval[a].version,
                            payload |-> approval[a].payload]
      BY <1>2, OpenEffect
    <3> QED  BY <2>2, <3>1 DEF Opened, Rows
  <2> QED  BY <2>1, <2>2
<1>3. ASSUME NEW w \in Workers, ExecuteFault(w)
      PROVE  SessionKept(x) \/ Failed(x)
  <2>1. CASE x # w  BY <1>3, <2>1, ExecuteFaultEffect DEF SessionKept
  <2>2. CASE x = w
    BY <1>3, <2>2, ExecuteFaultEffect DEF Failed, ExecuteFault
  <2> QED  BY <2>1, <2>2
<1>4. ASSUME NEW w \in Workers, Finish(w)
      PROVE  SessionKept(x)
  BY <1>4, FinishTyped DEF SessionKept
<1>5. ASSUME NEW w \in Workers,
             \/ Review(w) \/ Withdraw(w) \/ ExecuteOk(w) \/ RecordFailure(w)
             \/ FreesOnly(w) \/ \E p \in Payloads : Edit(w, p)
      PROVE  Finish(w)
  BY <1>5 DEF Review, Withdraw, ExecuteOk, RecordFailure, FreesOnly, Edit
<1>6. ASSUME NEW u \in Users, NEW a \in Ids, NEW p \in Payloads,
         NEW rev \in RevisionStates, Submit(u, a, p, rev)
      PROVE  SessionKept(x)
  BY <1>6 DEF Submit, SessionKept
<1>7. CASE DelegationStep  BY <1>7 DEF DelegationStep, SessionKept
<1>8. ASSUME NEW u \in Users, NEW a \in Ids, LinkRevision(u, a)
      PROVE  SessionKept(x)
  BY <1>8 DEF LinkRevision, SessionKept
<1> QED  BY <1>1, <1>2, <1>3, <1>4, <1>5, <1>6, <1>7, <1>8, StepCases

\* A row only moves forward: it stays, its submitter stays, its version never
\* falls, a version keeps its content, and an agreed content is final.
LEMMA RowForward ==
  ASSUME TypeOK, SessionsSound, [Next]_vars, NEW a \in Ids, Exists(a)
  PROVE  /\ Exists(a)'
         /\ approval'[a].submittedBy = approval[a].submittedBy
         /\ approval[a].version \in Nat /\ approval'[a].version \in Nat
         /\ approval[a].version <= approval'[a].version
         /\ approval'[a].version = approval[a].version =>
              approval'[a].payload = approval[a].payload
         /\ approval[a].status \in {"Approved", "ExecutionFailed", "Executed"} =>
              /\ approval'[a].status \in {"Approved", "ExecutionFailed", "Executed"}
              /\ approval'[a].payload = approval[a].payload
<1>1. approval[a] \in Rows  BY DEF Exists, TypeOK
<1>2. CASE Kept(a)  BY <1>1, <1>2 DEF Kept, Exists, Rows
<1>3. CASE Touched(a)
  <2>1. ~Created(a)  BY DEF Created, Exists
  <2>2. ASSUME NEW from, NEW to, NEW by, Changed(a, from, to, by)
        PROVE  /\ Exists(a)'
               /\ approval'[a].submittedBy = approval[a].submittedBy
               /\ approval[a].version \in Nat /\ approval'[a].version \in Nat
               /\ approval'[a].version = approval[a].version + 1
               /\ approval[a].status = from /\ approval'[a].status = to
    <3>1. approval'[a] \in Rows /\ approval[a] \in Rows  BY <2>2 DEF Changed
    <3>2. approval'[a] # NoRow  BY <3>1 DEF Rows, NoRow
    <3> QED  BY <2>2, <3>1, <3>2 DEF Changed, Exists, Rows
  <2>3. CASE Edited(a)  BY <2>2, <2>3 DEF Edited
  <2>4. ASSUME NEW from, Dropped(a, from)
        PROVE  Changed(a, from, "Withdrawn", approval[a].submittedBy)
               /\ from \in {"Submitted", "InReview"}
    BY <2>4 DEF Dropped
  <2>5. CASE \E from \in ApprovalStatuses : Dropped(a, from)
    BY <2>2, <2>4, <2>5
  <2>6. ASSUME NEW from, NEW to, NEW by, Reviewed(a, from, to, by)
        PROVE  Changed(a, from, to, by) /\ from \in {"Submitted", "InReview"}
    BY <2>6 DEF Reviewed
  <2>7. ASSUME NEW from, NEW to, NEW by, Executed(a, from, to, by)
        PROVE  /\ Changed(a, from, to, by) /\ to \in {"Executed", "ExecutionFailed"}
               /\ approval'[a].payload = approval[a].payload
    BY <2>7 DEF Executed
  <2>8. CASE \E from \in ApprovalStatuses, to \in ApprovalStatuses, by \in Users :
               Reviewed(a, from, to, by) \/ Executed(a, from, to, by)
    BY <2>2, <2>6, <2>7, <2>8
  <2> QED  BY <1>3, <2>1, <2>3, <2>5, <2>8 DEF Touched
<1>4. CASE LinkedNow(a)  BY <1>1, <1>4 DEF LinkedNow, Exists, Rows
<1> QED  BY <1>2, <1>3, <1>4, RowSteps

\* SessionsSound, said of a request and its row.
Sound(s, row) ==
  /\ row # NoRow
  /\ s.version <= row.version
  /\ s.version = row.version => s.payload = row.payload
  /\ s.pc = "failed" =>
       /\ s.user # row.submittedBy
       /\ s.payload = row.payload
       /\ row.status \in {"Approved", "ExecutionFailed", "Executed"}

LEMMA SoundRows ==
  /\ SessionsSound <=>
       \A w \in Workers : session[w] # Idle => Sound(session[w], approval[session[w].id])
  /\ SessionsSound' <=>
       \A w \in Workers : session'[w] # Idle => Sound(session'[w], approval'[session'[w].id])
BY DEF SessionsSound, Sound, Exists

\* What a worker holds is never ahead of its row, and a failed execution leaves
\* its row to executions: the version a request carries identifies the content
\* its caller saw, for as long as the request is in flight.
THEOREM SessionsHold == Spec => []SessionsSound
<1>1. Init => SessionsSound  BY DEF Init, SessionsSound
<1>2. TypeOK /\ SessionsSound /\ [Next]_vars => SessionsSound'
  <2> SUFFICES ASSUME TypeOK, SessionsSound, [Next]_vars, NEW x \in Workers,
                      session'[x] # Idle
               PROVE  Sound(session'[x], approval'[session'[x].id])
    BY SoundRows
  <2>1. CASE session'[x] = session[x]
    <3>1. session[x] # Idle  BY <2>1
    <3>2. PICK a \in Ids : a = session[x].id  BY <3>1, Serving
    <3>3. session[x].version \in Nat  BY <3>1, Serving
    <3>4. Sound(session[x], approval[a])  BY <3>1, <3>2, SoundRows
    <3>5. Exists(a)  BY <3>4 DEF Sound, Exists
    <3>6. /\ approval'[a] # NoRow
          /\ approval'[a].submittedBy = approval[a].submittedBy
          /\ approval[a].version \in Nat /\ approval'[a].version \in Nat
          /\ approval[a].version <= approval'[a].version
          /\ approval'[a].version = approval[a].version =>
               approval'[a].payload = approval[a].payload
          /\ approval[a].status \in {"Approved", "ExecutionFailed", "Executed"} =>
               /\ approval'[a].status \in {"Approved", "ExecutionFailed", "Executed"}
               /\ approval'[a].payload = approval[a].payload
      BY <3>5, RowForward DEF Exists
    <3>7. Sound(session[x], approval'[a])  BY <3>3, <3>4, <3>6 DEF Sound
    <3> QED  BY <2>1, <3>2, <3>7
  <2>2. CASE Opened(x)
    BY <2>2 DEF Opened, Exists, Sound
  <2>3. CASE Failed(x)
    <3>1. session[x] \in Requests  BY <2>3, Serving DEF Failed
    <3>2. /\ session'[x].id = session[x].id /\ session'[x].user = session[x].user
          /\ session'[x].version = session[x].version
          /\ session'[x].payload = session[x].payload
      BY <2>3, <3>1 DEF Failed, Requests
    <3>3. /\ session[x].user # approval[session[x].id].submittedBy
          /\ approval[session[x].id].status \in {"Approved", "ExecutionFailed"}
          /\ approval[session[x].id].version = session[x].version
      BY <2>3 DEF Failed, MayExecute, SelfReview, CanApply
    <3>4. Sound(session[x], approval[session[x].id])
      BY <2>3, SoundRows DEF Failed
    <3> QED  BY <2>3, <3>2, <3>3, <3>4 DEF Failed, Sound
  <2> QED  BY <2>1, <2>2, <2>3, SessionSteps DEF SessionKept
<1> QED  BY <1>1, <1>2, Typing, PTL DEF Spec

-----------------------------------------------------------------------------
(* What the rows say of what happened.                                     *)

EffectOf(row) == IF row.status = "Executed" THEN <<row.payload>> ELSE <<>>

\* A request's effect is in place exactly when its row says Executed, once and
\* as the row has it.
THEOREM EffectOnce == Spec => []EffectMatchesStatus
<1>1. Init => EffectMatchesStatus  BY DEF Init, EffectMatchesStatus, NoRow
<1>2. TypeOK /\ SessionsSound /\ EffectMatchesStatus /\ [Next]_vars
        => EffectMatchesStatus'
  <2> SUFFICES ASSUME TypeOK, SessionsSound, EffectMatchesStatus, [Next]_vars,
                      NEW a \in Ids
               PROVE  applied'[a] = EffectOf(approval'[a])
    BY DEF EffectMatchesStatus, EffectOf
  <2>1. applied[a] = EffectOf(approval[a])  BY DEF EffectMatchesStatus, EffectOf
  <2>2. CASE Kept(a)  BY <2>1, <2>2 DEF Kept
  <2>3. CASE Created(a)  BY <2>1, <2>3 DEF Created, EffectOf, NoRow
  <2>4. CASE Edited(a)  BY <2>1, <2>4 DEF Edited, Changed, EffectOf
  <2>5. ASSUME NEW from, Dropped(a, from) PROVE applied'[a] = EffectOf(approval'[a])
    BY <2>1, <2>5 DEF Dropped, Changed, EffectOf
  <2>6. ASSUME NEW from, NEW to, NEW by, Reviewed(a, from, to, by)
        PROVE  applied'[a] = EffectOf(approval'[a])
    BY <2>1, <2>6 DEF Reviewed, Changed, EffectOf
  <2>7. ASSUME NEW from, NEW to, NEW by, Executed(a, from, to, by)
        PROVE  applied'[a] = EffectOf(approval'[a])
    <3>1. applied[a] = <<>>  BY <2>1, <2>7 DEF Executed, Changed, EffectOf
    <3>2. approval[a].payload = approval'[a].payload /\ approval'[a].status = to
      BY <2>7 DEF Executed, Changed
    <3>3. CASE to = "Executed"
      <4>1. applied'[a] = Append(<<>>, approval[a].payload)
        BY <2>7, <3>1, <3>3 DEF Executed
      <4>2. Append(<<>>, approval[a].payload) = <<approval[a].payload>>  OBVIOUS
      <4> QED  BY <3>2, <3>3, <4>1, <4>2 DEF EffectOf
    <3>4. CASE to = "ExecutionFailed"
      BY <2>7, <3>1, <3>2, <3>4 DEF Executed, EffectOf
    <3> QED  BY <2>7, <3>3, <3>4 DEF Executed
  <2>8. CASE LinkedNow(a)  BY <2>1, <2>8 DEF LinkedNow
  <2> QED  BY <2>2, <2>3, <2>4, <2>5, <2>6, <2>7, <2>8, RowSteps DEF Touched
<1> QED  BY <1>1, <1>2, Typing, SessionsHold, PTL DEF Spec

\* A row that does not exist has no record and revises nothing.
LogStarts == \A a \in Ids : ~Exists(a) => log[a] = <<>> /\ revision[a] = "None"

LEMMA LogStartsHolds == Spec => []LogStarts
<1>1. Init => LogStarts  BY DEF Init, LogStarts
<1>2. TypeOK /\ SessionsSound /\ LogStarts /\ [Next]_vars => LogStarts'
  <2> SUFFICES ASSUME TypeOK, SessionsSound, LogStarts, [Next]_vars, NEW a \in Ids,
                      ~Exists(a)'
               PROVE  log'[a] = <<>> /\ revision'[a] = "None"
    BY DEF LogStarts
  <2>1. ~Exists(a)  BY RowForward
  <2>2. log[a] = <<>> /\ revision[a] = "None"  BY <2>1 DEF LogStarts
  <2>3. ~Touched(a)
    <3>1. approval'[a] \notin Rows  BY DEF Exists, Rows, NoRow
    <3> QED
      BY <3>1 DEF Touched, Created, Edited, Dropped, Reviewed, Executed, Changed
  <2>4. Kept(a)  BY <2>2, <2>3, RowSteps DEF LinkedNow
  <2> QED  BY <2>2, <2>4 DEF Kept
<1> QED  BY <1>1, <1>2, Typing, SessionsHold, PTL DEF Spec

\* An event of a row, judged against the row's submitter and its revision state.
Apart(event, submitter, rev) ==
  /\ event.to \in Decisions => event.by # submitter
  /\ event.to \notin Decisions /\ event.by # submitter =>
       event.note = "revision" /\ rev = "Linked"

\* A touched row's log grows by one event, made by the submitter unless it
\* records a decision.
LEMMA TouchedLog ==
  ASSUME TypeOK, NEW a \in Ids, Touched(a)
  PROVE  /\ approval'[a] \in Rows
         /\ approval[a] # NoRow => approval'[a].submittedBy = approval[a].submittedBy
         /\ approval[a] # NoRow => approval'[a].version = approval[a].version + 1
         /\ approval[a] = NoRow => approval'[a].version = 0 /\ revision'[a] # "Linked"
         /\ approval[a] # NoRow => revision'[a] = revision[a]
         /\ \E by \in Users :
              /\ log'[a] = Append(log[a], Transition(approval[a].status, approval'[a].status, by))
              /\ (by = approval'[a].submittedBy) <=> (approval'[a].status \notin Decisions)
<1>1. CASE Created(a)
  BY <1>1 DEF Created, Logged, NoRow, Decisions
<1>2. ASSUME NEW from, NEW to, NEW by, Changed(a, from, to, by),
             (by = approval[a].submittedBy) <=> (to \notin Decisions)
      PROVE  /\ approval[a] # NoRow /\ approval'[a] \in Rows
             /\ approval'[a].submittedBy = approval[a].submittedBy
             /\ approval'[a].version = approval[a].version + 1
             /\ revision'[a] = revision[a]
             /\ \E x \in Users :
                  /\ log'[a] = Append(log[a], Transition(approval[a].status, approval'[a].status, x))
                  /\ (x = approval'[a].submittedBy)
                       <=> (approval'[a].status \notin Decisions)
  <2>1. approval[a] # NoRow  BY <1>2 DEF Changed, Rows, NoRow
  <2> QED  BY <1>2, <2>1 DEF Changed, Logged
<1>3. CASE Edited(a)
  <2>1. Changed(a, "Submitted", "Submitted", approval[a].submittedBy)  BY <1>3 DEF Edited
  <2>2. "Submitted" \notin Decisions  BY DEF Decisions
  <2> QED  BY <1>2, <2>1, <2>2
<1>4. CASE \E from \in ApprovalStatuses : Dropped(a, from)
  <2>1. PICK from \in ApprovalStatuses : Dropped(a, from)  BY <1>4
  <2>2. Changed(a, from, "Withdrawn", approval[a].submittedBy)  BY <2>1 DEF Dropped
  <2>3. "Withdrawn" \notin Decisions  BY DEF Decisions
  <2> QED  BY <1>2, <2>2, <2>3
<1>5. CASE \E from \in ApprovalStatuses, to \in ApprovalStatuses, by \in Users :
             Reviewed(a, from, to, by) \/ Executed(a, from, to, by)
  <2>1. PICK from \in ApprovalStatuses, to \in ApprovalStatuses, by \in Users :
          Reviewed(a, from, to, by) \/ Executed(a, from, to, by)
    BY <1>5
  <2>2. Changed(a, from, to, by)  BY <2>1 DEF Reviewed, Executed
  <2>3. by # approval[a].submittedBy /\ to \in Decisions
    BY <2>1 DEF Reviewed, Executed, Decisions
  <2> QED  BY <1>2, <2>2, <2>3
<1> QED  BY <1>1, <1>3, <1>4, <1>5 DEF Touched

LEMMA AppendFacts ==
  ASSUME NEW S, NEW q \in Seq(S), NEW e
  PROVE  /\ Len(Append(q, e)) = Len(q) + 1
         /\ Len(q) \in Nat
         /\ Append(q, e)[Len(q) + 1] = e
         /\ \A k \in 1..Len(q) : Append(q, e)[k] = q[k]
OBVIOUS

\* Whoever reviews, executes or fails to execute a request is not its
\* submitter, with or without a delegation; whoever submits, edits or withdraws
\* it is; the event that links a revision may be anybody's, and is no decision.
THEOREM DutiesSeparated == Spec => []SeparationOfDuties
<1>1. Init => SeparationOfDuties
  BY DEF Init, SeparationOfDuties
<1>2. TypeOK /\ SessionsSound /\ LogStarts /\ SeparationOfDuties /\ [Next]_vars
        => SeparationOfDuties'
  <2> SUFFICES ASSUME TypeOK, SessionsSound, LogStarts, SeparationOfDuties, [Next]_vars,
                      NEW a \in Ids, NEW i \in 1..Len(log'[a])
               PROVE  Apart(log'[a][i], approval'[a].submittedBy, revision'[a])
    BY DEF SeparationOfDuties, Apart
  <2>1. \A k \in 1..Len(log[a]) : Apart(log[a][k], approval[a].submittedBy, revision[a])
    BY DEF SeparationOfDuties, Apart
  <2>2. CASE Kept(a)  BY <2>1, <2>2 DEF Kept
  <2>3. log[a] \in Seq(Events)  BY DEF TypeOK
  <2>4. CASE Touched(a)
    <3>1. PICK by \in Users :
            /\ log'[a] = Append(log[a],
                                Transition(approval[a].status, approval'[a].status, by))
            /\ (by = approval'[a].submittedBy) <=> (approval'[a].status \notin Decisions)
      BY <2>4, TouchedLog
    <3> DEFINE e == Transition(approval[a].status, approval'[a].status, by)
    <3>2. /\ Len(log'[a]) = Len(log[a]) + 1 /\ Len(log[a]) \in Nat
          /\ log'[a][Len(log[a]) + 1] = e
          /\ \A k \in 1..Len(log[a]) : log'[a][k] = log[a][k]
      BY <2>3, <3>1, AppendFacts
    <3>3. e.to = approval'[a].status /\ e.by = by  BY DEF Transition
    <3> HIDE DEF e
    <3>4. CASE i = Len(log[a]) + 1
      BY <3>1, <3>2, <3>3, <3>4 DEF Apart
    <3>5. CASE i \in 1..Len(log[a])
      <4>1. approval[a] # NoRow
        <5>1. log[a] # <<>>  BY <2>3, <3>5
        <5> QED  BY <5>1 DEF LogStarts, Exists
      <4>2. /\ approval'[a].submittedBy = approval[a].submittedBy
            /\ revision'[a] = revision[a]
        BY <2>4, <4>1, TouchedLog
      <4> QED  BY <2>1, <3>2, <3>5, <4>2
    <3> QED  BY <3>2, <3>4, <3>5
  <2>5. CASE LinkedNow(a)
    <3>1. PICK u \in Users : log'[a] = Append(log[a], LinkEvent(u))
      BY <2>5 DEF LinkedNow
    <3>2. /\ Len(log'[a]) = Len(log[a]) + 1 /\ Len(log[a]) \in Nat
          /\ log'[a][Len(log[a]) + 1] = LinkEvent(u)
          /\ \A k \in 1..Len(log[a]) : log'[a][k] = log[a][k]
      BY <2>3, <3>1, AppendFacts
    <3>3. revision'[a] = "Linked" /\ approval'[a] = approval[a]  BY <2>5 DEF LinkedNow
    <3>4. CASE i = Len(log[a]) + 1
      <4>1. LinkEvent(u).to \notin Decisions /\ LinkEvent(u).note = "revision"
        BY DEF LinkEvent, Decisions
      <4> QED  BY <3>2, <3>3, <3>4, <4>1 DEF Apart
    <3>5. CASE i \in 1..Len(log[a])
      BY <2>1, <3>2, <3>3, <3>5 DEF Apart
    <3> QED  BY <3>2, <3>4, <3>5
  <2> QED  BY <2>2, <2>4, <2>5, RowSteps
<1> QED  BY <1>1, <1>2, Typing, SessionsHold, LogStartsHolds, PTL DEF Spec

\* An event that starts where a record ends continues it.
LEMMA UnbrokenGrows ==
  ASSUME NEW q, NEW r, NEW old, NEW new,
         Unbroken(q, old), old.version \in Nat, new.version = old.version + 1,
         Len(q) \in Nat, Len(r) = Len(q) + 1,
         r[Len(q) + 1].from = old.status, r[Len(q) + 1].to = new.status,
         r[Len(q) + 1].note = "transition",
         \A k \in 1..Len(q) : r[k] = q[k]
  PROVE  Unbroken(r, new)
<1> DEFINE n == Len(q)
<1>1. n = old.version + 1 /\ n >= 1  BY DEF Unbroken
<1>2. q[1].from = "None" /\ q[n].to = old.status  BY DEF Unbroken
<1>3. \A k \in 2..n : q[k].from = q[k - 1].to  BY DEF Unbroken
<1>4. \A k \in 1..n : q[k].note = "transition"  BY DEF Unbroken
<1> HIDE DEF n
<1>5. n \in Nat /\ Len(r) = n + 1 /\ \A k \in 1..n : r[k] = q[k]  BY DEF n
<1>6. /\ r[n + 1].from = old.status /\ r[n + 1].to = new.status
      /\ r[n + 1].note = "transition"
  BY DEF n
<1>7. r[1] = q[1] /\ r[n] = q[n]
  <2>1. 1 \in 1..n /\ n \in 1..n  BY <1>1, <1>5
  <2>2. \A k \in 1..n : r[k] = q[k]  BY <1>5
  <2> QED  BY <2>1, <2>2
<1>8. ASSUME NEW k \in 2..(n + 1) PROVE r[k].from = r[k - 1].to
  <2>1. CASE k = n + 1
    <3>1. k - 1 = n  BY <1>5, <2>1
    <3>2. r[k].from = old.status  BY <1>6, <2>1
    <3>3. r[k - 1].to = old.status  BY <1>2, <1>7, <3>1
    <3> QED  BY <3>2, <3>3
  <2>2. CASE k \in 2..n
    <3>1. k \in 1..n /\ k - 1 \in 1..n  BY <1>5, <2>2
    <3>2. r[k] = q[k] /\ r[k - 1] = q[k - 1]  BY <1>5, <3>1
    <3>3. q[k].from = q[k - 1].to  BY <1>3, <2>2
    <3> QED  BY <3>2, <3>3
  <2> QED  BY <1>5, <2>1, <2>2
<1>9. ASSUME NEW k \in 1..(n + 1) PROVE r[k].note = "transition"
  <2>1. CASE k = n + 1  BY <1>6, <2>1
  <2>2. CASE k \in 1..n
    <3>1. r[k] = q[k] /\ q[k].note = "transition"  BY <1>4, <1>5, <2>2
    <3> QED  BY <3>1
  <2> QED  BY <1>5, <2>1, <2>2
<1>10. n + 1 = new.version + 1  BY <1>1
<1> QED  BY <1>2, <1>5, <1>6, <1>7, <1>8, <1>9, <1>10 DEF Unbroken

\* Two records that agree event by event are unbroken together.
LEMMA UnbrokenSame ==
  ASSUME NEW q, NEW r, NEW row, Unbroken(q, row), row.version \in Nat,
         Len(q) \in Nat, Len(r) = Len(q), \A k \in 1..Len(q) : r[k] = q[k]
  PROVE  Unbroken(r, row)
<1> DEFINE n == Len(q)
<1>1. n = row.version + 1 /\ n >= 1  BY DEF Unbroken
<1>2. q[1].from = "None" /\ q[n].to = row.status  BY DEF Unbroken
<1>3. \A k \in 2..n : q[k].from = q[k - 1].to  BY DEF Unbroken
<1>4. \A k \in 1..n : q[k].note = "transition"  BY DEF Unbroken
<1> HIDE DEF n
<1>5. n \in Nat /\ Len(r) = n /\ \A k \in 1..n : r[k] = q[k]  BY DEF n
<1>6. r[1] = q[1] /\ r[n] = q[n]
  <2>1. 1 \in 1..n /\ n \in 1..n  BY <1>1, <1>5
  <2>2. \A k \in 1..n : r[k] = q[k]  BY <1>5
  <2> QED  BY <2>1, <2>2
<1>7. ASSUME NEW k \in 2..n PROVE r[k].from = r[k - 1].to
  <2>1. k \in 1..n /\ k - 1 \in 1..n  BY <1>5
  <2>2. r[k] = q[k] /\ r[k - 1] = q[k - 1]  BY <1>5, <2>1
  <2>3. q[k].from = q[k - 1].to  BY <1>3
  <2> QED  BY <2>2, <2>3
<1>8. \A k \in 1..n : r[k].note = "transition"
  <2> TAKE k \in 1..n
  <2>1. r[k] = q[k] /\ q[k].note = "transition"  BY <1>4, <1>5
  <2> QED  BY <2>1
<1> QED  BY <1>1, <1>2, <1>5, <1>6, <1>7, <1>8 DEF Unbroken

\* What leaving one event out does.
LEMMA WithoutFacts ==
  ASSUME NEW S, NEW q \in Seq(S), NEW k \in 1..Len(q)
  PROVE  /\ Len(Without(q, k)) = Len(q) - 1 /\ Len(q) - 1 \in Nat
         /\ \A i \in 1..(Len(q) - 1) :
              Without(q, k)[i] = IF i < k THEN q[i] ELSE q[i + 1]
<1> DEFINE n == Len(q) - 1
           f == Without(q, k)
<1>1. Len(q) \in Nat /\ n \in Nat  OBVIOUS
<1>2. \A i \in 1..n : (IF i < k THEN q[i] ELSE q[i + 1]) \in S  OBVIOUS
<1>3. f \in [1..n -> S]  BY <1>2 DEF Without
<1>4. f \in Seq(S)  BY <1>1, <1>3, SeqDef
<1>5. DOMAIN f = 1..Len(f) /\ Len(f) \in Nat  BY <1>4, LenProperties
<1>6. DOMAIN f = 1..n  BY <1>3
<1>7. \A m \in Nat : 1..m = 1..n => m = n  BY <1>1
<1>8. Len(f) = n  BY <1>5, <1>6, <1>7
<1>9. \A i \in 1..n : f[i] = IF i < k THEN q[i] ELSE q[i + 1]  BY DEF Without
<1> QED  BY <1>1, <1>8, <1>9

\* A record, said of one row.
Recorded(row, events, rev) ==
  IF rev = "Linked"
    THEN \E k \in 2..Len(events) :
           events[k].note = "revision" /\ Unbroken(Without(events, k), row)
    ELSE Unbroken(events, row)

\* A transition continues the record of a row that exists.
LEMMA TransitionRecorded ==
  ASSUME NEW q \in Seq(Events), NEW old \in Rows, NEW new \in Rows, NEW rev,
         NEW e \in Events, Recorded(old, q, rev), new.version = old.version + 1,
         e.from = old.status, e.to = new.status, e.note = "transition"
  PROVE  Recorded(new, Append(q, e), rev)
<1> DEFINE r == Append(q, e)
<1>1. old.version \in Nat /\ Len(q) \in Nat  BY DEF Rows
<1>2. r \in Seq(Events)  OBVIOUS
<1>3. Len(r) = Len(q) + 1 /\ r[Len(q) + 1] = e /\ \A i \in 1..Len(q) : r[i] = q[i]
  BY AppendFacts
<1> HIDE DEF r
<1>4. CASE rev = "Linked"
  <2>1. PICK k \in 2..Len(q) : q[k].note = "revision" /\ Unbroken(Without(q, k), old)
    BY <1>4 DEF Recorded
  <2> DEFINE q0 == Without(q, k)
             r0 == Without(r, k)
             n  == Len(q) - 1
  <2>2. k \in 1..Len(q) /\ k \in 1..Len(r) /\ k \in 2..Len(r)  BY <1>1, <1>3
  <2>3. /\ Len(q0) = n /\ n \in Nat
        /\ \A i \in 1..n : q0[i] = IF i < k THEN q[i] ELSE q[i + 1]
    BY <2>2, WithoutFacts
  <2>4. /\ Len(r0) = Len(r) - 1
        /\ \A i \in 1..(Len(r) - 1) : r0[i] = IF i < k THEN r[i] ELSE r[i + 1]
    BY <1>2, <2>2, WithoutFacts
  <2>5. Unbroken(q0, old)  BY <2>1
  <2> HIDE DEF q0, r0
  <2>6. Len(r0) = n + 1  BY <1>1, <1>3, <2>3, <2>4
  <2>7. r0[n + 1] = e
    <3>1. n + 1 \in 1..(Len(r) - 1) /\ ~(n + 1 < k) /\ (n + 1) + 1 = Len(q) + 1
      BY <1>1, <1>3, <2>2, <2>3
    <3>2. r0[n + 1] = r[(n + 1) + 1]  BY <2>4, <3>1
    <3> QED  BY <1>3, <3>1, <3>2
  <2>8. ASSUME NEW i \in 1..n PROVE r0[i] = q0[i]
    <3>1. i \in 1..Len(q) /\ i + 1 \in 1..Len(q) /\ i \in 1..(Len(r) - 1)
      BY <1>1, <1>3, <2>3
    <3>2. r[i] = q[i] /\ r[i + 1] = q[i + 1]  BY <1>3, <3>1
    <3>3. r0[i] = IF i < k THEN r[i] ELSE r[i + 1]  BY <2>4, <3>1
    <3>4. q0[i] = IF i < k THEN q[i] ELSE q[i + 1]  BY <2>3
    <3> QED  BY <3>2, <3>3, <3>4
  <2> HIDE DEF n
  <2>9. Unbroken(r0, new)  BY <1>1, <2>3, <2>5, <2>6, <2>7, <2>8, UnbrokenGrows
  <2>10. r[k].note = "revision"  BY <1>3, <2>1, <2>2
  <2> QED  BY <1>4, <2>2, <2>9, <2>10 DEF Recorded, r0, r
<1>5. CASE rev # "Linked"
  <2>1. Unbroken(q, old)  BY <1>5 DEF Recorded
  <2>2. Unbroken(r, new)  BY <1>1, <1>3, <2>1, UnbrokenGrows
  <2> QED  BY <1>5, <2>2 DEF Recorded, r
<1> QED  BY <1>4, <1>5

\* The link of a revision is the one event a record has besides.
LEMMA LinkRecorded ==
  ASSUME NEW q \in Seq(Events), NEW row \in Rows, NEW e \in Events,
         Unbroken(q, row), e.note = "revision"
  PROVE  Recorded(row, Append(q, e), "Linked")
<1> DEFINE r == Append(q, e)
           k == Len(q) + 1
           r0 == Without(r, k)
<1>1. row.version \in Nat /\ Len(q) = row.version + 1 /\ Len(q) \in Nat
  BY DEF Unbroken, Rows
<1>2. r \in Seq(Events)  OBVIOUS
<1>3. Len(r) = k /\ r[k] = e /\ \A i \in 1..Len(q) : r[i] = q[i]
  BY AppendFacts
<1> HIDE DEF r
<1>4. k \in 1..Len(r) /\ k \in 2..Len(r)  BY <1>1, <1>3
<1>5. /\ Len(r0) = Len(r) - 1
      /\ \A i \in 1..(Len(r) - 1) : r0[i] = IF i < k THEN r[i] ELSE r[i + 1]
  BY <1>2, <1>4, WithoutFacts
<1> HIDE DEF r0
<1>6. Len(r0) = Len(q) /\ \A i \in 1..Len(q) : r0[i] = q[i]  BY <1>1, <1>3, <1>5
<1>7. Unbroken(r0, row)  BY <1>1, <1>6, UnbrokenSame
<1> QED  BY <1>3, <1>4, <1>7 DEF Recorded, r0, r

\* The append-only record of a request is complete: one event per version, each
\* starting where the one before ended, the last naming the row's status, and
\* one event more, anywhere after the first, exactly on a linked revision.
THEOREM RecordComplete == Spec => []RecordMatchesRow
<1>1. Init => RecordMatchesRow  BY DEF Init, RecordMatchesRow, Exists
<1>2. TypeOK /\ SessionsSound /\ LogStarts /\ RecordMatchesRow /\ [Next]_vars
        => RecordMatchesRow'
  <2> SUFFICES ASSUME TypeOK, SessionsSound, LogStarts, RecordMatchesRow, [Next]_vars,
                      NEW a \in Ids, approval'[a] # NoRow
               PROVE  Recorded(approval'[a], log'[a], revision'[a])
    BY DEF RecordMatchesRow, Recorded, Exists
  <2>1. approval[a] # NoRow => Recorded(approval[a], log[a], revision[a])
    BY DEF RecordMatchesRow, Recorded, Exists
  <2>2. CASE Kept(a)  BY <2>1, <2>2 DEF Kept
  <2>3. log[a] \in Seq(Events)  BY DEF TypeOK
  <2>4. CASE Touched(a)
    <3>1. PICK by \in Users :
            log'[a] = Append(log[a],
                             Transition(approval[a].status, approval'[a].status, by))
      BY <2>4, TouchedLog
    <3>2. approval'[a] \in Rows  BY <2>4, TouchedLog
    <3> DEFINE e == Transition(approval[a].status, approval'[a].status, by)
    <3>3. /\ e.from = approval[a].status /\ e.to = approval'[a].status
          /\ e.note = "transition"
      BY DEF Transition
    <3>4. CASE approval[a] = NoRow
      <4>1. log[a] = <<>>  BY <3>4 DEF LogStarts, Exists
      <4>2. approval'[a].version = 0 /\ revision'[a] # "Linked"
        BY <2>4, <3>4, TouchedLog
      <4>3. approval[a].status = "None"  BY <3>4 DEF NoRow
      <4>4. log'[a] = <<e>>  BY <3>1, <4>1
      <4> HIDE DEF e
      <4>5. Unbroken(<<e>>, approval'[a])  BY <3>3, <4>2, <4>3 DEF Unbroken
      <4> QED  BY <4>2, <4>4, <4>5 DEF Recorded
    <3>5. CASE approval[a] # NoRow
      <4>1. /\ approval'[a].version = approval[a].version + 1
            /\ revision'[a] = revision[a]
        BY <2>4, <3>5, TouchedLog
      <4>2. approval[a] \in Rows  BY <3>5 DEF TypeOK
      <4>3. e \in Events  BY <3>2, <4>2 DEF Events, Transition, Rows
      <4>4. Recorded(approval[a], log[a], revision[a])  BY <2>1, <3>5
      <4> HIDE DEF e
      <4>5. Recorded(approval'[a], Append(log[a], e), revision[a])
        BY <2>3, <3>2, <3>3, <4>1, <4>2, <4>3, <4>4, TransitionRecorded
      <4> QED  BY <3>1, <4>1, <4>5 DEF e
    <3> QED  BY <3>4, <3>5
  <2>5. CASE LinkedNow(a)
    <3>1. PICK u \in Users : log'[a] = Append(log[a], LinkEvent(u))
      BY <2>5 DEF LinkedNow
    <3>2. /\ revision[a] = "Unlinked" /\ revision'[a] = "Linked"
          /\ approval'[a] = approval[a]
      BY <2>5 DEF LinkedNow
    <3>3. approval[a] # NoRow  BY <3>2
    <3>4. approval[a] \in Rows  BY <3>3 DEF TypeOK
    <3>5. Unbroken(log[a], approval[a])  BY <2>1, <3>2, <3>3 DEF Recorded
    <3>6. LinkEvent(u) \in Events /\ LinkEvent(u).note = "revision"
      BY DEF LinkEvent, Events, ApprovalStatuses
    <3>7. Recorded(approval[a], Append(log[a], LinkEvent(u)), "Linked")
      BY <2>3, <3>4, <3>5, <3>6, LinkRecorded
    <3> QED  BY <3>1, <3>2, <3>7
  <2> QED  BY <2>2, <2>4, <2>5, RowSteps
<1> QED  BY <1>1, <1>2, Typing, SessionsHold, LogStartsHolds, PTL DEF Spec

\* A row is changed only by a worker whose caller saw the content it holds.
THEOREM SeenBeforeActed == Spec => ActedOnWhatWasSeen
<1>1. TypeOK /\ SessionsSound /\ [Next]_vars =>
        \A a \in Ids : Exists(a) /\ approval'[a] # approval[a] => SeenByWorker(a)
  <2> SUFFICES ASSUME TypeOK, SessionsSound, [Next]_vars, NEW a \in Ids,
                      Exists(a), approval'[a] # approval[a]
               PROVE  SeenByWorker(a)
    OBVIOUS
  <2>1. Touched(a)  BY RowSteps DEF Kept, LinkedNow
  <2>2. ~Created(a)  BY DEF Created, Exists
  <2> QED
    BY <2>1, <2>2 DEF Touched, Edited, Dropped, Reviewed, Executed, Changed
<1>2. (\A a \in Ids : Exists(a) /\ approval'[a] # approval[a] => SeenByWorker(a))
      => [\A a \in Ids : Exists(a) /\ approval'[a] # approval[a] =>
            \E w \in Workers :
              /\ session[w] # Idle /\ session'[w] = Idle
              /\ session[w].id = a
              /\ session[w].payload = approval[a].payload]_vars
  BY DEF SeenByWorker
<1> QED  BY <1>1, <1>2, Typing, SessionsHold, PTL DEF Spec, ActedOnWhatWasSeen

-----------------------------------------------------------------------------
(* The pipeline implements its contract.                                   *)

AuthorIn(row)  == IF row # NoRow THEN row.submittedBy ELSE Nobody
ContentIn(row) == IF row # NoRow THEN row.payload ELSE Nobody
AgreedIn(row)  == IF Phase(row) \in {"agreed", "done"} THEN row.reviewedBy ELSE Nobody

\* The mapped state, row by row.
LEMMA Mapped ==
  ASSUME NEW a \in Ids
  PROVE  /\ phaseOf[a] = Phase(approval[a]) /\ authorOf[a] = AuthorIn(approval[a])
         /\ contentOf[a] = ContentIn(approval[a]) /\ agreedOf[a] = AgreedIn(approval[a])
BY DEF phaseOf, authorOf, contentOf, agreedOf, AuthorIn, ContentIn, AgreedIn, Exists

\* A step that touches one row changes the mapped state at that row.
LEMMA MappedStep ==
  ASSUME TypeOK, TypeOK', NEW a \in Ids, \A b \in Ids \ {a} : Kept(b)
  PROVE  /\ phaseOf'   = [phaseOf EXCEPT ![a] = Phase(approval'[a])]
         /\ authorOf'  = [authorOf EXCEPT ![a] = AuthorIn(approval'[a])]
         /\ contentOf' = [contentOf EXCEPT ![a] = ContentIn(approval'[a])]
         /\ agreedOf'  = [agreedOf EXCEPT ![a] = AgreedIn(approval'[a])]
         /\ applied'   = [applied EXCEPT ![a] = applied'[a]]
<1>1. phaseOf' = [phaseOf EXCEPT ![a] = Phase(approval'[a])]
  BY DEF phaseOf, Kept
<1>2. authorOf' = [authorOf EXCEPT ![a] = AuthorIn(approval'[a])]
  BY DEF authorOf, AuthorIn, Kept, Exists
<1>3. contentOf' = [contentOf EXCEPT ![a] = ContentIn(approval'[a])]
  BY DEF contentOf, ContentIn, Kept, Exists
<1>4. agreedOf' = [agreedOf EXCEPT ![a] = AgreedIn(approval'[a])]
  BY DEF agreedOf, AgreedIn, Kept
<1>5. applied' = [applied EXCEPT ![a] = applied'[a]]
  BY DEF TypeOK, Kept
<1> QED  BY <1>1, <1>2, <1>3, <1>4, <1>5

\* A component whose value at the touched row stays is unchanged.
LEMMA MappedSame ==
  ASSUME NEW a \in Ids
  PROVE  /\ [phaseOf EXCEPT ![a] = Phase(approval[a])] = phaseOf
         /\ [authorOf EXCEPT ![a] = AuthorIn(approval[a])] = authorOf
         /\ [contentOf EXCEPT ![a] = ContentIn(approval[a])] = contentOf
         /\ [agreedOf EXCEPT ![a] = AgreedIn(approval[a])] = agreedOf
BY DEF phaseOf, authorOf, contentOf, agreedOf, AuthorIn, ContentIn, AgreedIn, Exists

\* What takes effect is what somebody other than its author agreed to, once;
\* what was dropped or is still open never does.
THEOREM Implements == Spec => ImplementsContract
<1>1. Init => Contract!Init
  BY DEF Init, Contract!Init, phaseOf, authorOf, contentOf, agreedOf, Phase, Exists, NoRow
<1>2. TypeOK /\ TypeOK' /\ SessionsSound /\ [Next]_vars => [Contract!Next]_(Contract!vars)
  <2> SUFFICES ASSUME TypeOK, TypeOK', SessionsSound, [Next]_vars
               PROVE  Contract!Next \/ UNCHANGED Contract!vars
    OBVIOUS
  <2>1. CASE \A a \in Ids : Kept(a)
    <3>1. applied' = applied  BY <2>1 DEF Kept, TypeOK
    <3>2. phaseOf' = phaseOf /\ authorOf' = authorOf /\ contentOf' = contentOf
          /\ agreedOf' = agreedOf
      BY <2>1 DEF Kept, phaseOf, authorOf, contentOf, agreedOf, Exists
    <3> QED  BY <3>1, <3>2 DEF Contract!vars
  <2>2. ASSUME NEW a \in Ids, Touched(a), \A b \in Ids \ {a} : Kept(b)
        PROVE  Contract!Next \/ UNCHANGED Contract!vars
    <3> DEFINE old == approval[a]
               new == approval'[a]
    <3>1. /\ phaseOf'   = [phaseOf EXCEPT ![a] = Phase(new)]
          /\ authorOf'  = [authorOf EXCEPT ![a] = AuthorIn(new)]
          /\ contentOf' = [contentOf EXCEPT ![a] = ContentIn(new)]
          /\ agreedOf'  = [agreedOf EXCEPT ![a] = AgreedIn(new)]
          /\ applied'   = [applied EXCEPT ![a] = applied'[a]]
      BY <2>2, MappedStep
    <3>2. /\ phaseOf[a] = Phase(old) /\ authorOf[a] = AuthorIn(old)
          /\ contentOf[a] = ContentIn(old) /\ agreedOf[a] = AgreedIn(old)
      BY Mapped
    <3>3. AuthorIn(new) = AuthorIn(old) => authorOf' = authorOf
      BY <3>1, MappedSame
    <3>4. ContentIn(new) = ContentIn(old) => contentOf' = contentOf
      BY <3>1, MappedSame
    <3>5. AgreedIn(new) = AgreedIn(old) => agreedOf' = agreedOf
      BY <3>1, MappedSame
    <3>6. Phase(new) = Phase(old) => phaseOf' = phaseOf
      BY <3>1, MappedSame
    <3>7. applied'[a] = applied[a] => applied' = applied
      BY <3>1 DEF TypeOK
    <3>8. CASE Created(a)
      <4>1. /\ Phase(old) = "absent" /\ Phase(new) = "open"
            /\ AuthorIn(new) = new.submittedBy /\ new.submittedBy \in Users
            /\ ContentIn(new) = new.payload /\ new.payload \in Payloads
            /\ AgreedIn(new) = AgreedIn(old)
        BY <3>8 DEF Created, Phase, AuthorIn, ContentIn, AgreedIn, NoRow, Rows
      <4>2. applied' = applied  BY <3>7, <3>8 DEF Created
      <4>3. Contract!Ask(a, new.submittedBy, new.payload)
        BY <3>1, <3>2, <3>5, <4>1, <4>2 DEF Contract!Ask
      <4> QED  BY <4>1, <4>3 DEF Contract!Next
    <3>9. ASSUME NEW from, NEW to, NEW by, Changed(a, from, to, by)
          PROVE  /\ old # NoRow /\ new # NoRow
                 /\ old.status = from /\ new.status = to
                 /\ AuthorIn(new) = AuthorIn(old)
                 /\ AuthorIn(old) = old.submittedBy
                 /\ ContentIn(new) = new.payload /\ ContentIn(old) = old.payload
                 /\ new.payload \in Payloads
      BY <3>9 DEF Changed, Rows, NoRow, AuthorIn, ContentIn
    <3>10. CASE Edited(a)
      <4>1. Changed(a, "Submitted", "Submitted", old.submittedBy)  BY <3>10 DEF Edited
      <4>2. /\ Phase(old) = "open" /\ Phase(new) = "open" /\ AgreedIn(new) = AgreedIn(old)
        BY <3>9, <4>1 DEF Phase, AgreedIn
      <4>3. applied' = applied  BY <3>7, <3>10 DEF Edited
      <4>4. Contract!Amend(a, new.payload)
        BY <3>1, <3>2, <3>3, <3>5, <3>6, <3>9, <4>1, <4>2, <4>3 DEF Contract!Amend
      <4> QED  BY <3>9, <4>1, <4>4 DEF Contract!Next
    <3>11. ASSUME NEW from, Dropped(a, from)
           PROVE  Contract!Next
      <4>1. /\ Changed(a, from, "Withdrawn", old.submittedBy)
            /\ from \in {"Submitted", "InReview"}
            /\ new.payload = old.payload /\ applied'[a] = applied[a]
        BY <3>11 DEF Dropped
      <4>2. /\ Phase(old) = "open" /\ Phase(new) = "dropped"
            /\ AgreedIn(new) = AgreedIn(old)
        BY <3>9, <4>1 DEF Phase, AgreedIn
      <4>3. Contract!Drop(a)
        BY <3>1, <3>2, <3>3, <3>4, <3>5, <3>7, <3>9, <4>1, <4>2 DEF Contract!Drop
      <4> QED  BY <4>3 DEF Contract!Next
    <3>12. ASSUME NEW from, NEW to, NEW by \in Users, Reviewed(a, from, to, by)
           PROVE  Contract!Next \/ UNCHANGED Contract!vars
      <4>1. /\ Changed(a, from, to, by)
            /\ from \in {"Submitted", "InReview"}
            /\ to \in {"InReview", "Approved", "Rejected"}
            /\ by # old.submittedBy /\ new.reviewedBy = by
            /\ new.payload = old.payload /\ applied'[a] = applied[a]
        BY <3>12 DEF Reviewed
      <4>2. Phase(old) = "open" /\ AgreedIn(old) = Nobody
        BY <3>9, <4>1 DEF Phase, AgreedIn
      <4>3. /\ authorOf' = authorOf /\ contentOf' = contentOf /\ applied' = applied
        BY <3>3, <3>4, <3>7, <3>9, <4>1
      <4>4. CASE to = "InReview"
        <5>1. Phase(new) = "open" /\ AgreedIn(new) = Nobody
          BY <3>9, <4>1, <4>4 DEF Phase, AgreedIn
        <5> QED  BY <3>5, <3>6, <4>2, <4>3, <5>1 DEF Contract!vars
      <4>5. CASE to = "Rejected"
        <5>1. Phase(new) = "dropped" /\ AgreedIn(new) = Nobody
          BY <3>9, <4>1, <4>5 DEF Phase, AgreedIn
        <5>2. Contract!Drop(a)
          BY <3>1, <3>2, <3>5, <4>2, <4>3, <5>1 DEF Contract!Drop
        <5> QED  BY <5>2 DEF Contract!Next
      <4>6. CASE to = "Approved"
        <5>1. Phase(new) = "agreed" /\ AgreedIn(new) = by
          BY <3>9, <4>1, <4>6 DEF Phase, AgreedIn
        <5>2. authorOf[a] # by  BY <3>2, <3>9, <4>1
        <5>3. Contract!Agree(a, by)
          BY <3>1, <3>2, <4>2, <4>3, <5>1, <5>2 DEF Contract!Agree
        <5> QED  BY <5>3 DEF Contract!Next
      <4> QED  BY <4>1, <4>4, <4>5, <4>6
    <3>13. ASSUME NEW from, NEW to, NEW by \in Users, Executed(a, from, to, by)
           PROVE  Contract!Next \/ UNCHANGED Contract!vars
      <4>1. /\ Changed(a, from, to, by)
            /\ from \in {"Approved", "ExecutionFailed"}
            /\ to \in {"Executed", "ExecutionFailed"}
            /\ new.reviewedBy = old.reviewedBy
            /\ new.payload = old.payload
            /\ applied'[a] = IF to = "Executed" THEN Append(applied[a], old.payload)
                             ELSE applied[a]
        BY <3>13 DEF Executed
      <4>2. Phase(old) = "agreed" /\ AgreedIn(old) = old.reviewedBy
        BY <3>9, <4>1 DEF Phase, AgreedIn
      <4>3. authorOf' = authorOf /\ contentOf' = contentOf
        BY <3>3, <3>4, <3>9, <4>1
      <4>4. CASE to = "ExecutionFailed"
        <5>1. Phase(new) = "agreed" /\ AgreedIn(new) = old.reviewedBy
          BY <3>9, <4>1, <4>4 DEF Phase, AgreedIn
        <5>2. applied' = applied  BY <3>7, <4>1, <4>4
        <5> QED  BY <3>5, <3>6, <4>2, <4>3, <5>1, <5>2 DEF Contract!vars
      <4>5. CASE to = "Executed"
        <5>1. Phase(new) = "done" /\ AgreedIn(new) = old.reviewedBy
          BY <3>9, <4>1, <4>5 DEF Phase, AgreedIn
        <5>2. applied' = [applied EXCEPT ![a] = Append(applied[a], contentOf[a])]
          BY <3>1, <3>2, <3>9, <4>1, <4>5
        <5>3. Contract!TakeEffect(a)
          BY <3>1, <3>2, <3>5, <4>2, <4>3, <5>1, <5>2 DEF Contract!TakeEffect
        <5> QED  BY <5>3 DEF Contract!Next
      <4> QED  BY <4>1, <4>4, <4>5
    <3> QED  BY <2>2, <3>8, <3>10, <3>11, <3>12, <3>13 DEF Touched
  <2>3. ASSUME NEW a \in Ids, LinkedNow(a), \A b \in Ids \ {a} : Kept(b)
        PROVE  UNCHANGED Contract!vars
    <3>1. \A b \in Ids : approval'[b] = approval[b] /\ applied'[b] = applied[b]
      BY <2>3 DEF LinkedNow, Kept
    <3>2. applied' = applied  BY <3>1 DEF TypeOK
    <3>3. phaseOf' = phaseOf /\ authorOf' = authorOf /\ contentOf' = contentOf
          /\ agreedOf' = agreedOf
      BY <3>1 DEF phaseOf, authorOf, contentOf, agreedOf, Exists
    <3> QED  BY <3>2, <3>3 DEF Contract!vars
  <2> QED  BY <2>1, <2>2, <2>3, RowSteps
<1> QED
  BY <1>1, <1>2, Typing, SessionsHold, PTL DEF Spec, ImplementsContract, Contract!Spec
=============================================================================
