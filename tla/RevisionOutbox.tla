--------------------------- MODULE RevisionOutbox ---------------------------
(***************************************************************************)
(* Revise & resubmit (editApproval.ts): the submitter's request is closed  *)
(* and a write-once intent is recorded in one transaction; the successor   *)
(* is submitted in a second and linked in a third.  The request that       *)
(* started it and any number of drains run those steps concurrently, and   *)
(* each may die between two of them.                                       *)
(*                                                                         *)
(* All rows are requests on one target, of a family whose submit refuses a *)
(* second open request on its target.  A row's own lifecycle is taken from *)
(* Approvals with each of its transactions as one step; payloads, versions *)
(* and edits are left out (a version check only refuses more).  Of a row's *)
(* record only the event that links a revision is kept, as a count: what   *)
(* the rest of the record says is Approvals'.                              *)
(***************************************************************************)
EXTENDS Lifecycle, Naturals, FiniteSets

CONSTANTS
  Users,       \* members who submit, revise and drain
  Reviewers,   \* members with review and execute standing
  Workers,     \* API requests in flight
  MaxRows,     \* bound on approval ids allocated
  MaxAttempts, \* REVISION_MAX_ATTEMPTS
  MaxLosses,   \* bound on requests that die before they are done
  MaxDeploys,  \* bound on deployments that change the payload schema
  Nobody       \* a null identity

ASSUME BoundsAssumption ==
  /\ MaxRows \in Nat /\ MaxAttempts \in Nat \ {0}
  /\ MaxLosses \in Nat /\ MaxDeploys \in Nat
ASSUME NobodyAssumption == Nobody \notin Users \cup Reviewers

VARIABLES
  approval,   \* the rows allocated so far, by id
  intent,     \* the revision intent claimed on a source, by source id
  linkEvents, \* per row, the events of its record that say what it supersedes
  task,       \* per worker, what it is in the middle of
  losses,     \* requests lost so far
  unreadable, \* sources whose recorded payload the deployed schema refuses
  deploys     \* deployments so far that changed the schema

schema == <<unreadable, deploys>>
vars   == <<approval, intent, linkEvents, task, losses, unreadable, deploys>>

Ids  == 1..MaxRows
None == 0

NoRow    == [status |-> "None"]
NoIntent == [status |-> "None"]
Idle     == [pc |-> "idle"]

Rows == [status: ApprovalStatuses, submittedBy: Users, reviewedBy: Reviewers \cup {Nobody},
         revisionOf: Ids \cup {None}, supersededBy: Ids \cup {None}]

Intents == [status: {"Pending", "Completed", "Abandoned"}, submittedBy: Users,
            attempts: Nat, successor: Ids \cup {None}]

\* The awaits of completeRevisionIntent and of the submit in it.
Tasks == [pc: {"probe", "submit", "insert", "reprobe", "failed", "giveUp",
               "refused", "link"},
          user: Users, source: Ids, successor: Ids \cup {None}]

Exists(a) == approval[a] # NoRow

Init ==
  /\ approval   = [a \in Ids |-> NoRow]
  /\ intent     = [a \in Ids |-> NoIntent]
  /\ linkEvents = [a \in Ids |-> 0]
  /\ task       = [w \in Workers |-> Idle]
  /\ losses     = 0
  /\ unreadable = {}
  /\ deploys    = 0

-----------------------------------------------------------------------------
\* Mutated form: the probe takes any live request on the target.
LiveOnTarget(a) == {b \in Ids : Exists(b) /\ approval[b].status # "Withdrawn"}

\* findSuccessorApproval: the rows a probe may return.
LiveSuccessors(a) ==
  {b \in Ids : Exists(b) /\ approval[b].revisionOf = a /\ approval[b].status # "Withdrawn"}

OpenOnTarget == \E b \in Ids : Exists(b) /\ approval[b].status \in OpenStatuses

At(w, pc) == task[w] # Idle /\ task[w].pc = pc
Go(w, pc) == task' = [task EXCEPT ![w].pc = pc]
Done(w)   == task' = [task EXCEPT ![w] = Idle]

\* completeRevisionIntent is entered.
Start(w, u, a) ==
  /\ task[w] = Idle
  /\ task' = [task EXCEPT ![w] =
       [pc |-> "probe", user |-> u, source |-> a, successor |-> None]]

\* insertApproval: the next id, the row stamped with the source it revises.
InsertRow(b, u, source) ==
  /\ ~Exists(b) /\ \A c \in 1..(b - 1) : Exists(c)
  /\ approval' = [approval EXCEPT ![b] =
       [status |-> "Submitted", submittedBy |-> u, reviewedBy |-> Nobody,
        revisionOf |-> source, supersededBy |-> None]]

-----------------------------------------------------------------------------
(* Requests that start a task.                                             *)

\* An ordinary submit.  Its duplicate guard is a read before its transaction,
\* which may have been made before any row existed: it rules out no moment.
Submit(u) ==
  /\ \E b \in Ids : InsertRow(b, u, None)
  /\ UNCHANGED <<intent, linkEvents, task, losses, schema>>

\* insertRevisionIntent: a write-once claim on the source.
Claim(a, u) ==
  /\ intent[a] = NoIntent
  /\ intent' = [intent EXCEPT ![a] =
       [status |-> "Pending", submittedBy |-> u, attempts |-> 0, successor |-> None]]

\* Mutated form: a request under review is claimed but not withdrawn.
ReviseInReviewStaysOpen(w, u, a) ==
  /\ Exists(a)
  /\ approval[a].submittedBy = u
  /\ approval[a].status \in RevisableStatuses
  /\ approval[a].supersededBy = None
  /\ Claim(a, u)
  /\ approval' = [approval EXCEPT ![a].status =
       IF @ = "Submitted" THEN "Withdrawn" ELSE @]
  /\ Start(w, u, a)
  /\ UNCHANGED <<linkEvents, losses, schema>>

\* tx-1 of reviseApproval: re-gate under the lock, withdraw if open, claim.
Revise(w, u, a) ==
  /\ Exists(a)
  /\ approval[a].submittedBy = u
  /\ approval[a].status \in RevisableStatuses
  /\ approval[a].supersededBy = None
  /\ Claim(a, u)
  /\ approval' = [approval EXCEPT ![a].status =
       IF CanApply("withdraw", @) THEN "Withdrawn" ELSE @]
  /\ Start(w, u, a)
  /\ UNCHANGED <<linkEvents, losses, schema>>

\* drainApprovalRevisions takes up an intent it listed as Pending; it runs as
\* whoever called it.
Drain(w, u, a) ==
  /\ intent[a].status = "Pending"
  /\ Start(w, u, a)
  /\ UNCHANGED <<approval, intent, linkEvents, losses, schema>>

-----------------------------------------------------------------------------
(* completeRevisionIntent.                                                 *)

Found(w, b) == task' = [task EXCEPT ![w].pc = "link", ![w].successor = b]

\* The probe, and with no successor found the parse of the recorded payload.
\* The parse stands before the try: a payload the schema refuses throws out of
\* the task, which counts no attempt and abandons nothing.
Probe(w) ==
  /\ At(w, "probe")
  /\ \/ \E b \in LiveSuccessors(task[w].source) : Found(w, b)
     \/ /\ LiveSuccessors(task[w].source) = {}
        /\ IF task[w].source \in unreadable THEN Done(w) ELSE Go(w, "submit")
  /\ UNCHANGED <<approval, intent, linkEvents, losses, schema>>

\* The submit's duplicate guard, read before its transaction opens.  Its
\* refusal is a DomainError, so deterministic.
Guard(w) ==
  /\ At(w, "submit")
  /\ Go(w, IF OpenOnTarget THEN "refused" ELSE "insert")
  /\ UNCHANGED <<approval, intent, linkEvents, losses, schema>>

\* Mutated form: no unique index on live successors.
NoConflict(source) == FALSE

\* approval_one_live_successor (0061) refuses the insert.
Conflict(source) == LiveSuccessors(source) # {}

\* The submit's transaction.
Insert(w) ==
  /\ At(w, "insert")
  /\ ~Conflict(task[w].source)
  /\ \E b \in Ids : InsertRow(b, task[w].user, task[w].source) /\ Found(w, b)
  /\ UNCHANGED <<intent, linkEvents, losses, schema>>

InsertRefused(w) ==
  /\ At(w, "insert")
  /\ Conflict(task[w].source)
  /\ Go(w, "reprobe")
  /\ UNCHANGED <<approval, intent, linkEvents, losses, schema>>

\* A unique violation is answered by another probe.
Reprobe(w) ==
  /\ At(w, "reprobe")
  /\ \/ \E b \in LiveSuccessors(task[w].source) : Found(w, b)
     \/ LiveSuccessors(task[w].source) = {} /\ Go(w, "failed")
  /\ UNCHANGED <<approval, intent, linkEvents, losses, schema>>

\* A transient fault of the submit: anything that is not a DomainError (in the
\* model also an id sequence at its bound).
SubmitFault(w) ==
  /\ At(w, "submit") \/ At(w, "insert")
  /\ Go(w, "failed")
  /\ UNCHANGED <<approval, intent, linkEvents, losses, schema>>

\* attempts + 1, up to the backstop: nobody tells apart what lies beyond it.
OneMore(n) == IF n < MaxAttempts THEN n + 1 ELSE n

\* Mutated form: the attempt is not counted.
BumpUncounted(w) ==
  /\ At(w, "failed")
  /\ Done(w)
  /\ UNCHANGED <<approval, intent, linkEvents, losses, schema>>

\* bumpRevisionAttempt; past the backstop the task goes on to give up.
Bump(w) ==
  /\ At(w, "failed")
  /\ intent' = [intent EXCEPT ![task[w].source].attempts = OneMore(@)]
  /\ IF intent[task[w].source].attempts + 1 >= MaxAttempts
       THEN Go(w, "giveUp") ELSE Done(w)
  /\ UNCHANGED <<approval, linkEvents, losses, schema>>

\* Mutated form: a status the CHECK of 0058 does not know.
MarkFailed(w) ==
  /\ At(w, "refused") \/ At(w, "giveUp")
  /\ intent' = [intent EXCEPT ![task[w].source].status = "Failed"]
  /\ Done(w)
  /\ UNCHANGED <<approval, linkEvents, losses, schema>>

\* markRevisionAbandoned, which does not look at the intent's status.
MarkAbandoned(w) ==
  /\ At(w, "refused") \/ At(w, "giveUp")
  /\ intent' = [intent EXCEPT ![task[w].source].status = "Abandoned",
                              ![task[w].source].attempts = OneMore(@)]
  /\ Done(w)
  /\ UNCHANGED <<approval, linkEvents, losses, schema>>

\* markRevisionCompleted: only a Pending intent is completed.
MarkCompleted(a, b) ==
  intent' = IF intent[a].status = "Pending"
              THEN [intent EXCEPT ![a].status = "Completed", ![a].successor = b]
              ELSE intent

\* setSupersededBy: write-once.
LinkSource(a, b) ==
  approval' = IF approval[a].supersededBy = None
                THEN [approval EXCEPT ![a].supersededBy = b] ELSE approval

\* Mutated form: the event is appended by every call, not by the one that linked.
TellLinkAlways(a, b) ==
  linkEvents' = [linkEvents EXCEPT ![b] = @ + 1]

\* The event on the successor's record, by the call whose link was the first.
TellLink(a, b) ==
  linkEvents' = IF approval[a].supersededBy = None
                  THEN [linkEvents EXCEPT ![b] = @ + 1] ELSE linkEvents

\* tx-3: link the source, complete the intent and record the link, together.
Link(w) ==
  /\ At(w, "link")
  /\ LinkSource(task[w].source, task[w].successor)
  /\ TellLink(task[w].source, task[w].successor)
  /\ MarkCompleted(task[w].source, task[w].successor)
  /\ Done(w)
  /\ UNCHANGED <<losses, schema>>

\* The request dies: its uncommitted work is gone, its committed steps stay.
Lose(w) ==
  /\ task[w] # Idle
  /\ losses < MaxLosses
  /\ losses' = losses + 1
  /\ Done(w)
  /\ UNCHANGED <<approval, intent, linkEvents, schema>>

\* A deployment changes approvalPayloadSchema: any recorded payload may be one
\* it no longer accepts.  A payload is validated before it is recorded, so a new
\* intent is readable.
Redeploy ==
  /\ deploys < MaxDeploys
  /\ deploys' = deploys + 1
  /\ unreadable' \in SUBSET {a \in Ids : intent[a] # NoIntent} \ {unreadable}
  /\ UNCHANGED <<approval, intent, linkEvents, task, losses>>

-----------------------------------------------------------------------------
(* The rest of a row's life: the transactions of reviewApproval.ts and     *)
(* executeApproval.ts, each one step.                                      *)

Review(u, a, action) ==
  /\ Exists(a)
  /\ ~SelfReview(u, approval[a].submittedBy)
  /\ CanApply(action, approval[a].status)
  /\ approval' = [approval EXCEPT ![a].status = TargetStatus(action),
                                  ![a].reviewedBy = u]
  /\ UNCHANGED <<intent, linkEvents, task, losses, schema>>

Withdraw(a) ==
  /\ Exists(a)
  /\ CanApply("withdraw", approval[a].status)
  /\ approval' = [approval EXCEPT ![a].status = "Withdrawn"]
  /\ UNCHANGED <<intent, linkEvents, task, losses, schema>>

Execute(a) ==
  /\ Exists(a)
  /\ CanApply("execute", approval[a].status)
  /\ \E to \in {"Executed", "ExecutionFailed"} :
       approval' = [approval EXCEPT ![a].status = to]
  /\ UNCHANGED <<intent, linkEvents, task, losses, schema>>

-----------------------------------------------------------------------------
Step(w) ==
  \/ Probe(w) \/ Guard(w) \/ Insert(w) \/ InsertRefused(w) \/ Reprobe(w)
  \/ SubmitFault(w) \/ Bump(w) \/ MarkAbandoned(w) \/ Link(w)

Next ==
  \/ \E u \in Users : Submit(u)
  \/ \E w \in Workers, u \in Users, a \in Ids : Revise(w, u, a) \/ Drain(w, u, a)
  \/ \E w \in Workers : Step(w) \/ Lose(w)
  \/ \E u \in Reviewers, a \in Ids, action \in ReviewActions : Review(u, a, action)
  \/ \E a \in Ids : Withdraw(a) \/ Execute(a)
  \/ Redeploy

Spec == Init /\ [][Next]_vars

\* A task that has not died goes on.  Nothing makes anybody drain: the endpoint
\* is called by hand, and a revise completes its own intent only.
FairSpec == Spec /\ \A w \in Workers : WF_vars(Step(w))

-----------------------------------------------------------------------------
(* What must hold.                                                         *)

\* Every variable has its type.
TypeOK ==
  /\ approval   \in [Ids -> Rows \cup {NoRow}]
  /\ intent     \in [Ids -> Intents \cup {NoIntent}]
  /\ linkEvents \in [Ids -> Nat]
  /\ task       \in [Workers -> Tasks \cup {Idle}]
  /\ losses     \in 0..MaxLosses
  /\ unreadable \in SUBSET Ids
  /\ deploys    \in 0..MaxDeploys

\* A request never forks: however many drains, retries and crashes, at most
\* one successor of a source is live.
OneLiveSuccessor == \A a \in Ids : Cardinality(LiveSuccessors(a)) <= 1

\* The source points to a request that was made for it, and a completed intent
\* names the request its source points to.
LinksPaired ==
  \A a \in Ids : Exists(a) =>
    /\ approval[a].supersededBy # None =>
         /\ Exists(approval[a].supersededBy)
         /\ approval[approval[a].supersededBy].revisionOf = a
    /\ intent[a].status = "Completed" =>
         /\ intent[a].successor # None
         /\ intent[a].successor = approval[a].supersededBy

IsAnswer(b) ==
  /\ Exists(b) /\ approval[b].revisionOf # None
  /\ Exists(approval[b].revisionOf)
  /\ approval[approval[b].revisionOf].supersededBy = b

\* A request's record says once that it supersedes another, exactly when that
\* other points to it.
LinkTold == \A b \in Ids : linkEvents[b] = IF IsAnswer(b) THEN 1 ELSE 0

\* The links agree: the source's, the intent's and the one the successor's
\* record tells of, whoever completed the revision and however often.
LinksAgree == LinksPaired /\ LinkTold

\* Nothing is revised without being closed for good: an intent stands on a
\* closed source and a successor stands on an intent, so a request and its
\* revision are never both open to a decision.
SourceClosed ==
  \A a \in Ids :
    /\ intent[a] # NoIntent =>
         Exists(a) /\ approval[a].status \in {"Withdrawn", "Rejected"}
    /\ Exists(a) /\ approval[a].revisionOf # None =>
         intent[approval[a].revisionOf] # NoIntent

\* The rows and intents as the outbox sees them.  The link on the source is its
\* answer; the intent's own status may still say Abandoned beside it.
wishOf ==
  [a \in Ids |->
     IF intent[a] = NoIntent THEN "none"
     ELSE IF approval[a].supersededBy # None THEN "answered"
     ELSE IF intent[a].status = "Abandoned" THEN "dropped" ELSE "wanted"]
madeOf   == [a \in Ids |-> {b \in Ids : Exists(b) /\ approval[b].revisionOf = a}]
answerOf == [a \in Ids |-> IF Exists(a) THEN approval[a].supersededBy ELSE None]

Contract == INSTANCE Outbox WITH
  Sources <- Ids, Requests <- Ids, wish <- wishOf, made <- madeOf, answer <- answerOf

\* Revise & resubmit implements the outbox: a source is linked at most once and
\* for good, after its revision was recorded and to a request made for it, and
\* no race of drains, give-ups and crashes takes a recorded revision back.
ImplementsOutbox == Contract!Spec

\* What whoever operates the platform is asked for: a source that can be drained
\* again and again is drained again.
DrainedAgain(a) == SF_vars(\E w \in Workers, u \in Users : Drain(w, u, a))

\* Every revision that was recorded is finished one way or the other, whatever
\* died on the way, if its drain is called again for as long as it is Pending,
\* unless the deployed schema refuses its payload.
EveryIntentSettles ==
  \A a \in Ids :
    DrainedAgain(a) =>
      (intent[a].status = "Pending" ~> intent[a].status # "Pending" \/ a \in unreadable)

\* 0058: an Abandoned intent is "a deterministic refusal (a real
\* duplicate/guard) or the poison-pill backstop", after which "the submitter
\* re-submits fresh"; 0061: a losing drainer "re-probes, finds the winner's
\* successor, and no-ops".  So no intent is Abandoned while its successor is
\* live.
AbandonedHasNoSuccessor ==
  \A a \in Ids : intent[a].status = "Abandoned" => LiveSuccessors(a) = {}

\* Who wrote the content of a request: a revision carries what the person who
\* asked for the revision typed.
Author(a) ==
  IF approval[a].revisionOf = None THEN approval[a].submittedBy
  ELSE intent[approval[a].revisionOf].submittedBy

\* submitPersonOps.ts: the pipeline is "submit, review, approve, execute" with
\* requester and approver apart.  Nobody approves a content that they asked
\* for themselves.
AuthorDoesNotDecide ==
  \A a \in Ids :
    Exists(a) /\ approval[a].status \in {"Approved", "Executed", "ExecutionFailed"}
      => approval[a].reviewedBy # Author(a)
=============================================================================
