------------------------- MODULE RevisionOutboxProofs -------------------------
(***************************************************************************)
(* Theorems about revise & resubmit, for any set of members, reviewers and *)
(* workers and any bound on rows, attempts and losses.                     *)
(***************************************************************************)
EXTENDS RevisionOutbox, FiniteSetTheorems, TLAPS

-----------------------------------------------------------------------------
(* The invariant.                                                           *)

Busy(w) == task[w] # Idle

\* A request works on an intent that is recorded, and what it is about to link
\* is a request made for its source.
TaskSound(w) ==
  Busy(w) =>
    /\ intent[task[w].source] # NoIntent
    /\ task[w].pc = "link" =>
         /\ task[w].successor \in Ids
         /\ Exists(task[w].successor)
         /\ approval[task[w].successor].revisionOf = task[w].source

TasksSound == \A w \in Workers : TaskSound(w)

\* A source is not linked before its intent is settled.
PendingUnlinked ==
  \A a \in Ids : intent[a].status = "Pending" => approval[a].supersededBy = None

SuccessorsAgree ==
  \A a, b, c \in Ids :
    b \in LiveSuccessors(a) /\ c \in LiveSuccessors(a) => b = c

\* The rows, the intents and the tasks are typed: what the induction needs of
\* TypeOK.  The other variables follow the rows and have one of their own.
RowsTyped ==
  /\ approval \in [Ids -> Rows \cup {NoRow}]
  /\ intent   \in [Ids -> Intents \cup {NoIntent}]
  /\ task     \in [Workers -> Tasks \cup {Idle}]
  /\ losses   \in 0..MaxLosses

IInv ==
  /\ RowsTyped
  /\ TasksSound
  /\ SourceClosed
  /\ LinksPaired
  /\ PendingUnlinked
  /\ SuccessorsAgree

-----------------------------------------------------------------------------
(* What the small operators do.                                             *)

LEMMA BusyTyped ==
  ASSUME RowsTyped, NEW w \in Workers, Busy(w)
  PROVE  task[w] \in Tasks
BY DEF RowsTyped, Busy

LEMMA RowTyped ==
  ASSUME RowsTyped, NEW a \in Ids, Exists(a)
  PROVE  approval[a] \in Rows
BY DEF RowsTyped, Exists

LEMMA IntentTyped ==
  ASSUME RowsTyped, NEW a \in Ids, intent[a] # NoIntent
  PROVE  intent[a] \in Intents
BY DEF RowsTyped

\* A worker's step leaves the other workers alone and stays on its source.
LEMMA GoEffect ==
  ASSUME RowsTyped, NEW w \in Workers, Busy(w),
         NEW pc \in {"probe", "submit", "insert", "reprobe", "failed", "giveUp", "refused"},
         Go(w, pc)
  PROVE  /\ task' \in [Workers -> Tasks \cup {Idle}]
         /\ task'[w].source = task[w].source /\ task'[w].pc # "link"
         /\ \A v \in Workers \ {w} : task'[v] = task[v]
<1> DEFINE new == [pc |-> pc, user |-> task[w].user, source |-> task[w].source,
                   successor |-> task[w].successor]
<1>1. task[w] \in Tasks  BY BusyTyped
<1>2. [task[w] EXCEPT !.pc = pc] = new /\ new \in Tasks  BY <1>1 DEF Tasks
<1>3. task' = [task EXCEPT ![w] = new]  BY <1>2 DEF Go
<1> QED  BY <1>2, <1>3 DEF RowsTyped

LEMMA FoundEffect ==
  ASSUME RowsTyped, NEW w \in Workers, Busy(w), NEW b \in Ids, Found(w, b)
  PROVE  /\ task' \in [Workers -> Tasks \cup {Idle}]
         /\ task'[w].source = task[w].source /\ task'[w].successor = b
         /\ \A v \in Workers \ {w} : task'[v] = task[v]
<1> DEFINE new == [pc |-> "link", user |-> task[w].user, source |-> task[w].source,
                   successor |-> b]
<1>1. task[w] \in Tasks  BY BusyTyped
<1>2. [[task[w] EXCEPT !.pc = "link"] EXCEPT !.successor = b] = new /\ new \in Tasks
  <2> DEFINE linked == [pc |-> "link", user |-> task[w].user, source |-> task[w].source,
                        successor |-> task[w].successor]
  <2>1. [task[w] EXCEPT !.pc = "link"] = linked  BY <1>1 DEF Tasks
  <2>2. [linked EXCEPT !.successor = b] = new  OBVIOUS
  <2>3. new \in Tasks  BY <1>1 DEF Tasks
  <2> HIDE DEF linked, new
  <2> QED  BY <2>1, <2>2, <2>3
<1>3. task' = [task EXCEPT ![w] = new]  BY <1>2 DEF Found, RowsTyped
<1> QED  BY <1>2, <1>3 DEF RowsTyped

LEMMA DoneEffect ==
  ASSUME RowsTyped, NEW w \in Workers, Done(w)
  PROVE  /\ task' \in [Workers -> Tasks \cup {Idle}]
         /\ task'[w] = Idle
         /\ \A v \in Workers \ {w} : task'[v] = task[v]
BY DEF RowsTyped, Done

LEMMA StartEffect ==
  ASSUME RowsTyped, NEW w \in Workers, NEW u \in Users, NEW a \in Ids, Start(w, u, a)
  PROVE  /\ task' \in [Workers -> Tasks \cup {Idle}]
         /\ task'[w].source = a /\ task'[w].pc = "probe"
         /\ \A v \in Workers \ {w} : task'[v] = task[v]
BY DEF RowsTyped, Start, Tasks

\* A new row is open and carries the source it was made for.
LEMMA InsertEffect ==
  ASSUME RowsTyped, NEW b \in Ids, NEW u \in Users, NEW source \in Ids \cup {None},
         InsertRow(b, u, source)
  PROVE  /\ approval' \in [Ids -> Rows \cup {NoRow}]
         /\ ~Exists(b) /\ Exists(b)'
         /\ approval'[b].status = "Submitted" /\ approval'[b].revisionOf = source
         /\ approval'[b].supersededBy = None
         /\ \A c \in Ids \ {b} : approval'[c] = approval[c]
<1> DEFINE new == [status |-> "Submitted", submittedBy |-> u, reviewedBy |-> Nobody,
                   revisionOf |-> source, supersededBy |-> None]
<1>1. new \in Rows /\ new # NoRow  BY DEF Rows, ApprovalStatuses, NoRow
<1>2. approval' = [approval EXCEPT ![b] = new]  BY DEF InsertRow
<1> QED  BY <1>1, <1>2 DEF RowsTyped, InsertRow, Exists

\* A decision, a withdrawal or an execution changes a row's status, and
\* perhaps its reviewer, and nothing else.
StatusChange(a, from, to) ==
  /\ approval' \in [Ids -> Rows \cup {NoRow}]
  /\ Exists(a) /\ Exists(a)'
  /\ approval[a].status = from /\ approval'[a].status = to
  /\ approval'[a].revisionOf = approval[a].revisionOf
  /\ approval'[a].supersededBy = approval[a].supersededBy
  /\ \A c \in Ids \ {a} : approval'[c] = approval[c]

LEMMA StatusEffect ==
  ASSUME RowsTyped, NEW a \in Ids, Exists(a), NEW to \in ApprovalStatuses,
         approval' = [approval EXCEPT ![a].status = to]
  PROVE  StatusChange(a, approval[a].status, to)
<1> DEFINE new == [status |-> to, submittedBy |-> approval[a].submittedBy,
                   reviewedBy |-> approval[a].reviewedBy,
                   revisionOf |-> approval[a].revisionOf,
                   supersededBy |-> approval[a].supersededBy]
<1>1. approval[a] \in Rows  BY RowTyped
<1>2. [approval[a] EXCEPT !.status = to] = new  BY <1>1 DEF Rows
<1>3. new \in Rows /\ new # NoRow  BY <1>1 DEF Rows, NoRow
<1>4. approval' = [approval EXCEPT ![a] = new]  BY <1>2
<1> QED  BY <1>3, <1>4 DEF RowsTyped, Exists, StatusChange

LEMMA ReviewEffect ==
  ASSUME RowsTyped, NEW a \in Ids, Exists(a), NEW to \in ApprovalStatuses, NEW u \in Reviewers,
         approval' = [approval EXCEPT ![a].status = to, ![a].reviewedBy = u]
  PROVE  StatusChange(a, approval[a].status, to)
<1> DEFINE new == [status |-> to, submittedBy |-> approval[a].submittedBy,
                   reviewedBy |-> u,
                   revisionOf |-> approval[a].revisionOf,
                   supersededBy |-> approval[a].supersededBy]
<1>1. approval[a] \in Rows  BY RowTyped
<1>2. [[approval[a] EXCEPT !.status = to] EXCEPT !.reviewedBy = u] = new
  <2> DEFINE moved == [status |-> to, submittedBy |-> approval[a].submittedBy,
                       reviewedBy |-> approval[a].reviewedBy,
                       revisionOf |-> approval[a].revisionOf,
                       supersededBy |-> approval[a].supersededBy]
  <2>1. [approval[a] EXCEPT !.status = to] = moved  BY <1>1 DEF Rows
  <2>2. [moved EXCEPT !.reviewedBy = u] = new  OBVIOUS
  <2> HIDE DEF moved, new
  <2> QED  BY <2>1, <2>2
<1>3. new \in Rows /\ new # NoRow  BY <1>1 DEF Rows, NoRow
<1>4. approval' = [approval EXCEPT ![a] = new]  BY <1>2 DEF RowsTyped
<1> QED  BY <1>3, <1>4 DEF RowsTyped, Exists, StatusChange

\* An intent is changed and stays one.
LEMMA IntentEffect ==
  ASSUME RowsTyped, NEW a \in Ids, intent[a] # NoIntent,
         NEW status \in {"Pending", "Completed", "Abandoned"}, NEW n \in Nat,
         NEW b \in Ids \cup {None},
         intent' = [intent EXCEPT ![a] =
           [status |-> status, submittedBy |-> intent[a].submittedBy,
            attempts |-> n, successor |-> b]]
  PROVE  /\ intent' \in [Ids -> Intents \cup {NoIntent}]
         /\ intent'[a] # NoIntent /\ intent'[a].status = status
         /\ intent'[a].successor = b
         /\ \A c \in Ids \ {a} : intent'[c] = intent[c]
<1> DEFINE new == [status |-> status, submittedBy |-> intent[a].submittedBy,
                   attempts |-> n, successor |-> b]
<1>1. intent[a] \in Intents  BY IntentTyped
<1>2. new \in Intents /\ new # NoIntent  BY <1>1 DEF Intents, NoIntent
<1> QED  BY <1>2 DEF RowsTyped

LEMMA BumpedIntent ==
  ASSUME NEW i \in Intents
  PROVE  [i EXCEPT !.attempts = OneMore(@)]
         = [status |-> i.status, submittedBy |-> i.submittedBy,
            attempts |-> OneMore(i.attempts), successor |-> i.successor]
BY DEF Intents

LEMMA AbandonedIntent ==
  ASSUME NEW i \in Intents
  PROVE  [[i EXCEPT !.status = "Abandoned"] EXCEPT !.attempts = OneMore(@)]
         = [status |-> "Abandoned", submittedBy |-> i.submittedBy,
            attempts |-> OneMore(i.attempts), successor |-> i.successor]
<1> DEFINE j == [status |-> "Abandoned", submittedBy |-> i.submittedBy,
                 attempts |-> i.attempts, successor |-> i.successor]
<1>1. [i EXCEPT !.status = "Abandoned"] = j  BY DEF Intents
<1>2. [j EXCEPT !.attempts = OneMore(@)]
      = [status |-> "Abandoned", submittedBy |-> i.submittedBy,
         attempts |-> OneMore(i.attempts), successor |-> i.successor]
  OBVIOUS
<1> HIDE DEF j
<1> QED  BY <1>1, <1>2

LEMMA CompletedIntent ==
  ASSUME NEW i \in Intents, NEW b
  PROVE  [[i EXCEPT !.status = "Completed"] EXCEPT !.successor = b]
         = [status |-> "Completed", submittedBy |-> i.submittedBy,
            attempts |-> i.attempts, successor |-> b]
<1> DEFINE j == [status |-> "Completed", submittedBy |-> i.submittedBy,
                 attempts |-> i.attempts, successor |-> i.successor]
<1>1. [i EXCEPT !.status = "Completed"] = j  BY DEF Intents
<1>2. [j EXCEPT !.successor = b]
      = [status |-> "Completed", submittedBy |-> i.submittedBy,
         attempts |-> i.attempts, successor |-> b]
  OBVIOUS
<1> HIDE DEF j
<1> QED  BY <1>1, <1>2

-----------------------------------------------------------------------------
(* The parts of the invariant under each kind of change.                    *)

\* What the invariant says of rows and intents, without the tasks.
RowsSound == SourceClosed /\ LinksPaired /\ PendingUnlinked /\ SuccessorsAgree

\* A row is decided, withdrawn or executed: it was open, so nothing revises it.
LEMMA RowsAfterStatus ==
  ASSUME RowsTyped, RowsSound, UNCHANGED intent,
         NEW a \in Ids, NEW from \in OpenStatuses, NEW to, StatusChange(a, from, to)
  PROVE  RowsSound'
<1> USE DEF RowsSound, StatusChange
<1>1. \A c \in Ids : /\ Exists(c)' <=> Exists(c)
                     /\ Exists(c) => /\ approval'[c].revisionOf = approval[c].revisionOf
                                     /\ approval'[c].supersededBy = approval[c].supersededBy
  BY DEF Exists
<1>2. intent[a] = NoIntent  BY DEF SourceClosed, OpenStatuses
<1>3. SourceClosed'
  <2>1. \A c \in Ids : intent[c] # NoIntent => c # a /\ Exists(c)
    BY <1>2 DEF SourceClosed
  <2> QED  BY <1>1, <2>1 DEF SourceClosed
<1>4. LinksPaired'
  <2> SUFFICES ASSUME NEW c \in Ids, Exists(c)'
               PROVE  /\ approval'[c].supersededBy # None =>
                           /\ Exists(approval[c].supersededBy)'
                           /\ approval'[approval'[c].supersededBy].revisionOf = c
                      /\ intent[c].status = "Completed" =>
                           /\ intent[c].successor # None
                           /\ intent[c].successor = approval'[c].supersededBy
    BY DEF LinksPaired
  <2>1. Exists(c) /\ approval'[c].supersededBy = approval[c].supersededBy  BY <1>1
  <2>2. approval[c].supersededBy # None => approval[c].supersededBy \in Ids
    BY <2>1, RowTyped DEF Rows
  <2> QED  BY <1>1, <2>1, <2>2 DEF LinksPaired
<1>5. PendingUnlinked'
  BY <1>1, <1>2 DEF PendingUnlinked, SourceClosed, NoIntent
<1>6. \A c \in Ids : LiveSuccessors(c)' \subseteq LiveSuccessors(c)
  BY <1>1 DEF LiveSuccessors, OpenStatuses
<1>7. SuccessorsAgree'  BY <1>6 DEF SuccessorsAgree
<1> QED  BY <1>3, <1>4, <1>5, <1>7

\* A row is inserted, for no source or for a recorded source without a live
\* successor.
LEMMA RowsAfterInsert ==
  ASSUME RowsTyped, RowsSound, UNCHANGED intent,
         NEW b \in Ids, NEW u \in Users, NEW source \in Ids \cup {None},
         InsertRow(b, u, source),
         source # None => intent[source] # NoIntent /\ LiveSuccessors(source) = {}
  PROVE  RowsSound'
<1> USE DEF RowsSound
<1>1. /\ ~Exists(b) /\ Exists(b)'
      /\ approval'[b].status = "Submitted" /\ approval'[b].revisionOf = source
      /\ approval'[b].supersededBy = None
      /\ \A c \in Ids \ {b} : approval'[c] = approval[c]
  BY InsertEffect
<1>2. intent[b] = NoIntent  BY <1>1 DEF SourceClosed
<1>3. SourceClosed'
  <2>1. \A c \in Ids : intent[c] # NoIntent => c # b /\ Exists(c)
    BY <1>2 DEF SourceClosed
  <2> QED  BY <1>1, <2>1 DEF SourceClosed, Exists
<1>4. LinksPaired'
  <2> SUFFICES ASSUME NEW c \in Ids, Exists(c)'
               PROVE  /\ approval'[c].supersededBy # None =>
                           /\ Exists(approval[c].supersededBy)'
                           /\ approval'[approval'[c].supersededBy].revisionOf = c
                      /\ intent[c].status = "Completed" =>
                           /\ intent[c].successor # None
                           /\ intent[c].successor = approval'[c].supersededBy
    BY DEF LinksPaired
  <2>1. CASE c = b  BY <1>1, <1>2, <2>1 DEF NoIntent
  <2>2. CASE c # b
    <3>1. Exists(c) /\ approval'[c] = approval[c]  BY <1>1, <2>2 DEF Exists
    <3>2. approval[c].supersededBy # None =>
            approval[c].supersededBy \in Ids /\ Exists(approval[c].supersededBy)
      BY <3>1, RowTyped DEF Rows, LinksPaired
    <3>3. approval[c].supersededBy # None => approval[c].supersededBy # b
      BY <1>1, <3>2
    <3> QED  BY <1>1, <3>1, <3>2, <3>3 DEF LinksPaired, Exists
  <2> QED  BY <2>1, <2>2
<1>5. PendingUnlinked'  BY <1>1, <1>2 DEF PendingUnlinked, NoIntent
<1>6. \A c \in Ids : LiveSuccessors(c)' \subseteq
                       IF c = source THEN LiveSuccessors(c) \cup {b} ELSE LiveSuccessors(c)
  BY <1>1 DEF LiveSuccessors, Exists
<1>7. SuccessorsAgree'
  <2>1. source # None => LiveSuccessors(source)' \subseteq {b}  BY <1>6
  <2>2. \A c \in Ids : c # source => LiveSuccessors(c)' \subseteq LiveSuccessors(c)
    BY <1>6
  <2>3. \A c \in Ids : c # None  BY DEF Ids, None
  <2> QED  BY <2>1, <2>2, <2>3 DEF SuccessorsAgree
<1> QED  BY <1>3, <1>4, <1>5, <1>7

\* The tasks' part, when rows only gain, no intent is lost and one worker moves.
LEMMA TasksAfter ==
  ASSUME RowsTyped, TasksSound,
         \A c \in Ids : intent[c] # NoIntent => intent'[c] # NoIntent,
         \A c \in Ids : Exists(c) => /\ Exists(c)'
                                     /\ approval'[c].revisionOf = approval[c].revisionOf,
         NEW w \in Workers, \A v \in Workers \ {w} : task'[v] = task[v],
         task'[w] # task[w] => TaskSound(w)'
  PROVE  TasksSound'
<1> SUFFICES ASSUME NEW v \in Workers, task'[v] = task[v], Busy(v)
             PROVE  TaskSound(v)'
  BY DEF TasksSound, TaskSound, Busy
<1>1. task[v].source \in Ids  BY BusyTyped DEF Tasks
<1> QED  BY <1>1 DEF TasksSound, TaskSound, Busy

\* Statuses of intents change among those that are recorded, and only Pending
\* ones stay or become Pending.
LEMMA RowsAfterIntent ==
  ASSUME RowsTyped, RowsSound, UNCHANGED approval, NEW a \in Ids, intent[a] # NoIntent,
         intent'[a] # NoIntent, intent'[a].successor = intent[a].successor,
         intent'[a].status \in {intent[a].status, "Abandoned"},
         \A c \in Ids \ {a} : intent'[c] = intent[c]
  PROVE  RowsSound'
<1> USE DEF RowsSound
<1>1. SourceClosed'
  <2>1. \A c \in Ids : intent'[c] # NoIntent <=> intent[c] # NoIntent  OBVIOUS
  <2>2. \A c \in Ids : Exists(c)' <=> Exists(c)  BY DEF Exists
  <2>3. \A c \in Ids : Exists(c) /\ approval[c].revisionOf # None =>
                         approval[c].revisionOf \in Ids
    BY RowTyped DEF Rows
  <2> QED  BY <2>1, <2>2, <2>3 DEF SourceClosed
<1>2. LinksPaired'  BY DEF LinksPaired, Exists
<1>3. PendingUnlinked'  BY DEF PendingUnlinked
<1>4. SuccessorsAgree'  BY DEF SuccessorsAgree, LiveSuccessors, Exists
<1> QED  BY <1>1, <1>2, <1>3, <1>4

-----------------------------------------------------------------------------
(* Every step keeps the invariant.                                          *)

LEMMA IInvUnfold ==
  IInv <=> RowsTyped /\ TasksSound /\ RowsSound
BY DEF IInv, RowsSound

LEMMA StatusStep ==
  ASSUME IInv, NEW a \in Ids, NEW from \in OpenStatuses, NEW to,
         StatusChange(a, from, to), UNCHANGED <<intent, task, losses>>
  PROVE  IInv'
<1>1. RowsTyped /\ TasksSound /\ RowsSound  BY IInvUnfold
<1>2. RowsTyped'  BY <1>1 DEF RowsTyped, StatusChange
<1>3. RowsSound'  BY <1>1, RowsAfterStatus
<1>4. TasksSound'
  <2>1. \A c \in Ids : Exists(c) => /\ Exists(c)'
                                    /\ approval'[c].revisionOf = approval[c].revisionOf
    BY DEF StatusChange, Exists
  <2> QED
    BY <1>1, <2>1, BusyTyped DEF TasksSound, TaskSound, Busy, Tasks
<1> QED  BY <1>2, <1>3, <1>4 DEF IInv, RowsSound

\* A review, a withdrawal or an execution is of an open row.
LEMMA DecisionEffect ==
  ASSUME RowsTyped, NEW a \in Ids,
         (\E u \in Reviewers, action \in ReviewActions : Review(u, a, action))
           \/ Withdraw(a) \/ Execute(a)
  PROVE  \E from \in OpenStatuses, to \in ApprovalStatuses : StatusChange(a, from, to)
<1>1. Exists(a) /\ approval[a].status \in OpenStatuses
  BY DEF Review, Withdraw, Execute, CanApply, OpenStatuses, ReviewActions
<1>2. ASSUME NEW u \in Reviewers, NEW action \in ReviewActions, Review(u, a, action)
      PROVE  \E to \in ApprovalStatuses : StatusChange(a, approval[a].status, to)
  <2>1. TargetStatus(action) \in ApprovalStatuses
    BY DEF ReviewActions, TargetStatus, ApprovalStatuses
  <2> QED  BY <1>1, <1>2, <2>1, ReviewEffect DEF Review
<1>3. CASE Withdraw(a)
  BY <1>1, <1>3, StatusEffect DEF Withdraw, ApprovalStatuses
<1>4. CASE Execute(a)
  BY <1>1, <1>4, StatusEffect DEF Execute, ApprovalStatuses
<1> QED  BY <1>1, <1>2, <1>3, <1>4

LEMMA DecisionStep ==
  ASSUME IInv, NEW a \in Ids,
         (\E u \in Reviewers, action \in ReviewActions : Review(u, a, action))
           \/ Withdraw(a) \/ Execute(a)
  PROVE  IInv'
<1>1. RowsTyped  BY DEF IInv
<1>2. UNCHANGED <<intent, task, losses>>  BY DEF Review, Withdraw, Execute
<1> QED  BY <1>1, <1>2, DecisionEffect, StatusStep

LEMMA SubmitStep ==
  ASSUME IInv, NEW u \in Users, Submit(u)
  PROVE  IInv'
<1>1. RowsTyped /\ TasksSound /\ RowsSound  BY IInvUnfold
<1>2. PICK b \in Ids : InsertRow(b, u, None)  BY DEF Submit
<1>3. UNCHANGED <<intent, task, losses>>  BY DEF Submit
<1>4. RowsTyped'  BY <1>1, <1>2, <1>3, InsertEffect DEF RowsTyped
<1>5. RowsSound'  BY <1>1, <1>2, <1>3, RowsAfterInsert
<1>6. \A c \in Ids : Exists(c) => Exists(c)' /\ approval'[c] = approval[c]
  BY <1>1, <1>2, InsertEffect DEF Exists
<1>7. TasksSound'
  BY <1>1, <1>3, <1>6, BusyTyped DEF TasksSound, TaskSound, Busy, Tasks
<1> QED  BY <1>4, <1>5, <1>7 DEF IInv, RowsSound

\* What becomes of a source's status when it is revised.
Revised(status) == IF CanApply("withdraw", status) THEN "Withdrawn" ELSE status

LEMMA ReviseEffect ==
  ASSUME RowsTyped, NEW w \in Workers, NEW u \in Users, NEW a \in Ids, Revise(w, u, a)
  PROVE  /\ Exists(a) /\ approval[a].supersededBy = None
         /\ Revised(approval[a].status) \in {"Withdrawn", "Rejected"}
         /\ StatusChange(a, approval[a].status, Revised(approval[a].status))
         /\ intent[a] = NoIntent /\ intent' \in [Ids -> Intents \cup {NoIntent}]
         /\ intent'[a] # NoIntent /\ intent'[a].status = "Pending"
         /\ \A c \in Ids \ {a} : intent'[c] = intent[c]
<1> DEFINE to == Revised(approval[a].status)
<1>1. /\ Exists(a) /\ approval[a] \in Rows /\ approval[a].supersededBy = None
      /\ approval[a].status \in RevisableStatuses
  BY RowTyped DEF Revise
<1>2. to \in {"Withdrawn", "Rejected"}
  BY <1>1 DEF Revised, CanApply, RevisableStatuses
<1>3. StatusChange(a, approval[a].status, to)
  <2>1. approval' = [approval EXCEPT ![a].status = to]  BY DEF Revise, Revised
  <2> HIDE DEF to
  <2> QED  BY <1>1, <1>2, <2>1, StatusEffect DEF ApprovalStatuses
<1>4. /\ intent[a] = NoIntent /\ intent' \in [Ids -> Intents \cup {NoIntent}]
      /\ intent'[a] # NoIntent /\ intent'[a].status = "Pending"
      /\ \A c \in Ids \ {a} : intent'[c] = intent[c]
  BY DEF Revise, Claim, RowsTyped, Intents, NoIntent
<1> QED  BY <1>1, <1>2, <1>3, <1>4

LEMMA ReviseStep ==
  ASSUME IInv, NEW w \in Workers, NEW u \in Users, NEW a \in Ids, Revise(w, u, a)
  PROVE  IInv'
<1> DEFINE to == Revised(approval[a].status)
<1>1. RowsTyped /\ TasksSound /\ RowsSound  BY IInvUnfold
<1>2. Exists(a) /\ approval[a].supersededBy = None  BY <1>1, ReviseEffect
<1>3. to \in {"Withdrawn", "Rejected"}  BY <1>1, ReviseEffect
<1>4. StatusChange(a, approval[a].status, to)  BY <1>1, ReviseEffect
<1>5. /\ intent[a] = NoIntent /\ intent' \in [Ids -> Intents \cup {NoIntent}]
      /\ intent'[a] # NoIntent /\ intent'[a].status = "Pending"
      /\ \A c \in Ids \ {a} : intent'[c] = intent[c]
  BY <1>1, ReviseEffect
<1>6. /\ task' \in [Workers -> Tasks \cup {Idle}]
      /\ task'[w].source = a /\ task'[w].pc = "probe"
      /\ \A v \in Workers \ {w} : task'[v] = task[v]
  BY <1>1, StartEffect DEF Revise
<1>7. RowsTyped'  BY <1>1, <1>4, <1>5, <1>6 DEF RowsTyped, StatusChange, Revise
<1>8. \A c \in Ids : /\ Exists(c)' <=> Exists(c)
                     /\ Exists(c) => /\ approval'[c].revisionOf = approval[c].revisionOf
                                     /\ approval'[c].supersededBy = approval[c].supersededBy
  BY <1>4 DEF StatusChange, Exists
<1>9. TasksSound'
  <2>1. TaskSound(w)'  BY <1>5, <1>6 DEF TaskSound
  <2>2. \A c \in Ids : intent[c] # NoIntent => intent'[c] # NoIntent  BY <1>5
  <2>3. \A c \in Ids : Exists(c) => /\ Exists(c)'
                                    /\ approval'[c].revisionOf = approval[c].revisionOf
    BY <1>8
  <2> QED  BY <1>1, <1>6, <2>1, <2>2, <2>3, TasksAfter
<1> HIDE DEF to
<1>10. SourceClosed'
  <2>1. Exists(a)' /\ approval'[a].status \in {"Withdrawn", "Rejected"}
    BY <1>3, <1>4 DEF StatusChange
  <2>2. \A c \in Ids \ {a} : approval'[c] = approval[c]  BY <1>4 DEF StatusChange
  <2>3. \A c \in Ids : Exists(c) /\ approval[c].revisionOf # None =>
                         approval[c].revisionOf \in Ids
    BY <1>1, RowTyped DEF Rows
  <2> QED  BY <1>1, <1>5, <1>8, <2>1, <2>2, <2>3 DEF SourceClosed, RowsSound
<1>11. LinksPaired'
  <2> SUFFICES ASSUME NEW c \in Ids, Exists(c)'
               PROVE  /\ approval'[c].supersededBy # None =>
                           /\ Exists(approval[c].supersededBy)'
                           /\ approval'[approval'[c].supersededBy].revisionOf = c
                      /\ intent'[c].status = "Completed" =>
                           /\ intent'[c].successor # None
                           /\ intent'[c].successor = approval'[c].supersededBy
    BY <1>8 DEF LinksPaired
  <2>1. Exists(c) /\ approval'[c].supersededBy = approval[c].supersededBy  BY <1>8
  <2>2. approval[c].supersededBy # None =>
          approval[c].supersededBy \in Ids /\ Exists(approval[c].supersededBy)
               /\ approval[approval[c].supersededBy].revisionOf = c
    BY <1>1, <2>1, RowTyped DEF Rows, RowsSound, LinksPaired
  <2>3. intent'[c].status = "Completed" => c # a /\ intent'[c] = intent[c]  BY <1>5
  <2> QED  BY <1>1, <1>8, <2>1, <2>2, <2>3 DEF LinksPaired, RowsSound
<1>12. PendingUnlinked'
  <2>1. \A c \in Ids \ {a} : approval'[c] = approval[c]  BY <1>4 DEF StatusChange
  <2>2. approval'[a].supersededBy = None  BY <1>2, <1>4 DEF StatusChange
  <2> QED  BY <1>1, <1>5, <2>1, <2>2 DEF PendingUnlinked, RowsSound
<1>13. SuccessorsAgree'
  <2>1. \A c \in Ids : Exists(c)' /\ approval'[c].status # "Withdrawn"
                         => Exists(c) /\ approval[c].status # "Withdrawn"
    <3>1. \A c \in Ids \ {a} : approval'[c] = approval[c]  BY <1>4 DEF StatusChange
    <3>2. approval'[a].status # "Withdrawn" => approval[a].status # "Withdrawn"
      BY <1>4 DEF StatusChange, to, Revised, CanApply
    <3> QED  BY <1>8, <3>1, <3>2
  <2>2. \A c \in Ids : LiveSuccessors(c)' \subseteq LiveSuccessors(c)
    BY <1>8, <2>1 DEF LiveSuccessors
  <2> QED  BY <1>1, <2>2 DEF SuccessorsAgree, RowsSound
<1> QED  BY <1>7, <1>9, <1>10, <1>11, <1>12, <1>13 DEF IInv

LEMMA DrainStep ==
  ASSUME IInv, NEW w \in Workers, NEW u \in Users, NEW a \in Ids, Drain(w, u, a)
  PROVE  IInv'
<1>1. RowsTyped /\ TasksSound /\ RowsSound  BY IInvUnfold
<1>2. /\ task' \in [Workers -> Tasks \cup {Idle}]
      /\ task'[w].source = a /\ task'[w].pc = "probe"
      /\ \A v \in Workers \ {w} : task'[v] = task[v]
  BY <1>1, StartEffect DEF Drain
<1>3. UNCHANGED <<approval, intent, losses>> /\ intent[a] # NoIntent
  BY DEF Drain, NoIntent
<1>4. RowsTyped'  BY <1>1, <1>2, <1>3 DEF RowsTyped
<1>5. TasksSound'
  <2>1. TaskSound(w)'  BY <1>2, <1>3 DEF TaskSound
  <2> QED  BY <1>1, <1>2, <1>3, <2>1, TasksAfter DEF Exists
<1>6. RowsSound'
  BY <1>1, <1>3 DEF RowsSound, SourceClosed, LinksPaired, PendingUnlinked, SuccessorsAgree,
                    LiveSuccessors, Exists
<1> QED  BY <1>4, <1>5, <1>6 DEF IInv, RowsSound

\* A task moves on, and no row and no intent changes.
LEMMA MoveStep ==
  ASSUME IInv, NEW w \in Workers, UNCHANGED <<approval, intent>>,
         losses' \in 0..MaxLosses,
         task' \in [Workers -> Tasks \cup {Idle}],
         \A v \in Workers \ {w} : task'[v] = task[v],
         TaskSound(w)'
  PROVE  IInv'
<1>1. RowsTyped /\ TasksSound /\ RowsSound  BY IInvUnfold
<1>2. RowsTyped'  BY <1>1 DEF RowsTyped
<1>3. TasksSound'  BY <1>1, TasksAfter DEF Exists
<1>4. RowsSound'
  BY <1>1 DEF RowsSound, SourceClosed, LinksPaired, PendingUnlinked, SuccessorsAgree,
              LiveSuccessors, Exists
<1> QED  BY <1>2, <1>3, <1>4 DEF IInv, RowsSound

LEMMA GoStep ==
  ASSUME IInv, NEW w \in Workers, Busy(w), UNCHANGED <<approval, intent, losses>>,
         NEW pc \in {"probe", "submit", "insert", "reprobe", "failed", "giveUp", "refused"},
         Go(w, pc)
  PROVE  IInv'
<1>1. RowsTyped /\ TasksSound  BY DEF IInv
<1>2. /\ task' \in [Workers -> Tasks \cup {Idle}]
      /\ task'[w].source = task[w].source /\ task'[w].pc # "link"
      /\ \A v \in Workers \ {w} : task'[v] = task[v]
  BY <1>1, GoEffect
<1>3. TaskSound(w)'  BY <1>1, <1>2 DEF TasksSound, TaskSound, Busy
<1>4. losses' \in 0..MaxLosses  BY <1>1 DEF RowsTyped
<1> QED  BY <1>2, <1>3, <1>4, MoveStep

LEMMA FoundStep ==
  ASSUME IInv, NEW w \in Workers, Busy(w), UNCHANGED <<approval, intent, losses>>,
         NEW b \in LiveSuccessors(task[w].source), Found(w, b)
  PROVE  IInv'
<1>1. RowsTyped /\ TasksSound  BY DEF IInv
<1>2. b \in Ids /\ Exists(b) /\ approval[b].revisionOf = task[w].source
  BY DEF LiveSuccessors
<1>3. /\ task' \in [Workers -> Tasks \cup {Idle}]
      /\ task'[w].source = task[w].source /\ task'[w].successor = b
      /\ \A v \in Workers \ {w} : task'[v] = task[v]
  BY <1>1, <1>2, FoundEffect
<1>4. TaskSound(w)'  BY <1>1, <1>2, <1>3 DEF TasksSound, TaskSound, Busy, Exists
<1>5. losses' \in 0..MaxLosses  BY <1>1 DEF RowsTyped
<1> QED  BY <1>3, <1>4, <1>5, MoveStep

LEMMA DoneStep ==
  ASSUME IInv, NEW w \in Workers, UNCHANGED <<approval, intent, losses>>, Done(w)
  PROVE  IInv'
<1>1. RowsTyped  BY DEF IInv
<1>2. /\ task' \in [Workers -> Tasks \cup {Idle}] /\ task'[w] = Idle
      /\ \A v \in Workers \ {w} : task'[v] = task[v]
  BY <1>1, DoneEffect
<1>3. TaskSound(w)'  BY <1>2 DEF TaskSound, Busy
<1>4. losses' \in 0..MaxLosses  BY <1>1 DEF RowsTyped
<1> QED  BY <1>2, <1>3, <1>4, MoveStep

LEMMA LoseStep ==
  ASSUME IInv, NEW w \in Workers, Lose(w)
  PROVE  IInv'
<1>1. RowsTyped  BY DEF IInv
<1>2. losses' \in 0..MaxLosses
  BY <1>1, BoundsAssumption DEF Lose, RowsTyped
<1>3. /\ task' \in [Workers -> Tasks \cup {Idle}] /\ task'[w] = Idle
      /\ \A v \in Workers \ {w} : task'[v] = task[v]
  BY <1>1, DoneEffect DEF Lose
<1>4. TaskSound(w)'  BY <1>3 DEF TaskSound, Busy
<1> QED  BY <1>2, <1>3, <1>4, MoveStep DEF Lose

LEMMA InsertStep ==
  ASSUME IInv, NEW w \in Workers, Insert(w)
  PROVE  IInv'
<1>1. RowsTyped /\ TasksSound /\ RowsSound  BY IInvUnfold
<1> DEFINE source == task[w].source
<1>2. Busy(w) /\ task[w] \in Tasks  BY <1>1, BusyTyped DEF Insert, At, Busy
<1>3. /\ source \in Ids /\ task[w].user \in Users /\ intent[source] # NoIntent
      /\ LiveSuccessors(source) = {}
  BY <1>1, <1>2 DEF Tasks, TasksSound, TaskSound, Insert, Conflict
<1>4. PICK b \in Ids : InsertRow(b, task[w].user, source) /\ Found(w, b)  BY DEF Insert
<1>5. UNCHANGED <<intent, losses>>  BY DEF Insert
<1>6. /\ approval' \in [Ids -> Rows \cup {NoRow}] /\ Exists(b)' /\ ~Exists(b)
      /\ approval'[b].revisionOf = source
      /\ \A c \in Ids \ {b} : approval'[c] = approval[c]
  BY <1>1, <1>3, <1>4, InsertEffect
<1>7. /\ task' \in [Workers -> Tasks \cup {Idle}]
      /\ task'[w].source = source /\ task'[w].successor = b
      /\ \A v \in Workers \ {w} : task'[v] = task[v]
  BY <1>1, <1>2, <1>4, FoundEffect
<1>8. RowsTyped'  BY <1>1, <1>5, <1>6, <1>7 DEF RowsTyped
<1>9. RowsSound'  BY <1>1, <1>3, <1>4, <1>5, RowsAfterInsert
<1>10. TasksSound'
  <2>1. TaskSound(w)'  BY <1>3, <1>5, <1>6, <1>7 DEF TaskSound, Exists
  <2>2. \A c \in Ids : Exists(c) => Exists(c)' /\ approval'[c].revisionOf = approval[c].revisionOf
    BY <1>6 DEF Exists
  <2> QED  BY <1>1, <1>5, <1>7, <2>1, <2>2, TasksAfter
<1> QED  BY <1>8, <1>9, <1>10 DEF IInv, RowsSound

\* A task settles or counts its intent; the row behind it does not change.
LEMMA SettleStep ==
  ASSUME IInv, NEW w \in Workers, Busy(w), UNCHANGED <<approval, losses>>,
         NEW status, NEW n \in Nat,
         status \in {intent[task[w].source].status, "Abandoned"},
         intent' = [intent EXCEPT ![task[w].source] =
           [status |-> status, submittedBy |-> intent[task[w].source].submittedBy,
            attempts |-> n, successor |-> intent[task[w].source].successor]],
         Done(w) \/ Go(w, "giveUp")
  PROVE  IInv'
<1>1. RowsTyped /\ TasksSound /\ RowsSound  BY IInvUnfold
<1> DEFINE source == task[w].source
<1>2. task[w] \in Tasks /\ source \in Ids /\ intent[source] # NoIntent
  BY <1>1, BusyTyped DEF Tasks, TasksSound, TaskSound
<1>3. /\ status \in {"Pending", "Completed", "Abandoned"}
      /\ intent[source].successor \in Ids \cup {None}
  BY <1>1, <1>2, IntentTyped DEF Intents
<1>4. /\ intent' \in [Ids -> Intents \cup {NoIntent}]
      /\ intent'[source] # NoIntent /\ intent'[source].status = status
      /\ intent'[source].successor = intent[source].successor
      /\ \A c \in Ids \ {source} : intent'[c] = intent[c]
  <2> HIDE DEF source
  <2> QED  BY <1>1, <1>2, <1>3, IntentEffect DEF source
<1>5. /\ task' \in [Workers -> Tasks \cup {Idle}]
      /\ Busy(w)' => task'[w].source = source /\ task'[w].pc # "link"
      /\ \A v \in Workers \ {w} : task'[v] = task[v]
  BY <1>1, DoneEffect, GoEffect DEF Busy
<1>6. RowsTyped'  BY <1>1, <1>4, <1>5 DEF RowsTyped
<1>7. RowsSound'
  <2> HIDE DEF source
  <2> QED  BY <1>1, <1>2, <1>4, RowsAfterIntent DEF source
<1>8. TasksSound'
  <2>1. TaskSound(w)'  BY <1>4, <1>5 DEF TaskSound
  <2> QED  BY <1>1, <1>4, <1>5, <2>1, TasksAfter DEF Exists
<1> QED  BY <1>6, <1>7, <1>8 DEF IInv, RowsSound

LEMMA BumpEffect ==
  ASSUME IInv, NEW w \in Workers, Bump(w)
  PROVE  LET i == intent[task[w].source]
         IN  /\ Busy(w) /\ task[w].source \in Ids /\ i \in Intents
             /\ intent' = [intent EXCEPT ![task[w].source] =
                  [status |-> i.status, submittedBy |-> i.submittedBy,
                   attempts |-> OneMore(i.attempts), successor |-> i.successor]]
<1>1. RowsTyped /\ TasksSound  BY DEF IInv
<1> DEFINE i == intent[task[w].source]
<1>2. Busy(w) /\ task[w].source \in Ids /\ i \in Intents
  BY <1>1, BusyTyped, IntentTyped DEF Bump, At, Busy, Tasks, TasksSound, TaskSound
<1>3. intent' = [intent EXCEPT ![task[w].source] = [i EXCEPT !.attempts = OneMore(@)]]
  BY <1>1, <1>2 DEF Bump, RowsTyped
<1>4. intent' = [intent EXCEPT ![task[w].source] =
        [status |-> i.status, submittedBy |-> i.submittedBy,
         attempts |-> OneMore(i.attempts), successor |-> i.successor]]
  <2> HIDE DEF i
  <2> QED  BY <1>2, <1>3, BumpedIntent
<1> QED  BY <1>2, <1>4

LEMMA BumpStep ==
  ASSUME IInv, NEW w \in Workers, Bump(w)
  PROVE  IInv'
<1> DEFINE i == intent[task[w].source]
<1>1. OneMore(i.attempts) \in Nat
  <2>1. i \in Intents  BY BumpEffect
  <2> HIDE DEF i
  <2> QED  BY <2>1 DEF Intents, OneMore
<1>2. Done(w) \/ Go(w, "giveUp")  BY DEF Bump
<1> QED  BY <1>1, <1>2, BumpEffect, SettleStep DEF Bump

LEMMA MarkAbandonedEffect ==
  ASSUME IInv, NEW w \in Workers, MarkAbandoned(w)
  PROVE  LET i == intent[task[w].source]
         IN  /\ Busy(w) /\ task[w].source \in Ids /\ i \in Intents
             /\ intent' = [intent EXCEPT ![task[w].source] =
                  [status |-> "Abandoned", submittedBy |-> i.submittedBy,
                   attempts |-> OneMore(i.attempts), successor |-> i.successor]]
<1>1. RowsTyped /\ TasksSound  BY DEF IInv
<1> DEFINE i == intent[task[w].source]
<1>2. Busy(w) /\ task[w].source \in Ids /\ i \in Intents
  BY <1>1, BusyTyped, IntentTyped DEF MarkAbandoned, At, Busy, Tasks, TasksSound, TaskSound
<1>3. intent' = [intent EXCEPT ![task[w].source] =
        [[i EXCEPT !.status = "Abandoned"] EXCEPT !.attempts = OneMore(@)]]
  BY <1>1, <1>2 DEF MarkAbandoned, RowsTyped
<1>4. intent' = [intent EXCEPT ![task[w].source] =
        [status |-> "Abandoned", submittedBy |-> i.submittedBy,
         attempts |-> OneMore(i.attempts), successor |-> i.successor]]
  <2> HIDE DEF i
  <2> QED  BY <1>2, <1>3, AbandonedIntent
<1> QED  BY <1>2, <1>4

LEMMA MarkAbandonedStep ==
  ASSUME IInv, NEW w \in Workers, MarkAbandoned(w)
  PROVE  IInv'
<1> DEFINE i == intent[task[w].source]
<1>1. OneMore(i.attempts) \in Nat
  <2>1. i \in Intents  BY MarkAbandonedEffect
  <2> HIDE DEF i
  <2> QED  BY <2>1 DEF Intents, OneMore
<1>2. Done(w)  BY DEF MarkAbandoned
<1> QED  BY <1>1, <1>2, MarkAbandonedEffect, SettleStep DEF MarkAbandoned

LEMMA LinkEffect ==
  ASSUME RowsTyped, NEW a \in Ids, Exists(a), NEW b \in Ids, LinkSource(a, b)
  PROVE  /\ approval' \in [Ids -> Rows \cup {NoRow}]
         /\ Exists(a)'
         /\ approval'[a].status = approval[a].status
         /\ approval'[a].revisionOf = approval[a].revisionOf
         /\ approval'[a].supersededBy =
              IF approval[a].supersededBy = None THEN b ELSE approval[a].supersededBy
         /\ \A c \in Ids \ {a} : approval'[c] = approval[c]
<1> DEFINE new == [status |-> approval[a].status, submittedBy |-> approval[a].submittedBy,
                   reviewedBy |-> approval[a].reviewedBy,
                   revisionOf |-> approval[a].revisionOf, supersededBy |-> b]
<1>1. approval[a] \in Rows  BY RowTyped
<1>2. CASE approval[a].supersededBy # None
  BY <1>2 DEF LinkSource, RowsTyped, Exists
<1>3. CASE approval[a].supersededBy = None
  <2>1. [approval[a] EXCEPT !.supersededBy = b] = new  BY <1>1 DEF Rows
  <2>2. new \in Rows /\ new # NoRow  BY <1>1 DEF Rows, NoRow
  <2>3. approval' = [approval EXCEPT ![a] = new]  BY <1>3, <2>1 DEF LinkSource
  <2> QED  BY <1>3, <2>2, <2>3 DEF RowsTyped, Exists
<1> QED  BY <1>2, <1>3

LEMMA CompleteEffect ==
  ASSUME RowsTyped, NEW a \in Ids, intent[a] # NoIntent, NEW b \in Ids, MarkCompleted(a, b)
  PROVE  /\ intent' \in [Ids -> Intents \cup {NoIntent}]
         /\ intent'[a] # NoIntent /\ intent'[a].status # "Pending"
         /\ intent[a].status = "Pending" => intent'[a].successor = b
         /\ intent[a].status # "Pending" => intent'[a] = intent[a]
         /\ \A c \in Ids \ {a} : intent'[c] = intent[c]
<1>1. intent[a] \in Intents  BY IntentTyped
<1>2. CASE intent[a].status # "Pending"  BY <1>2 DEF MarkCompleted, RowsTyped
<1>3. CASE intent[a].status = "Pending"
  <2> DEFINE i == intent[a]
             new == [status |-> "Completed", submittedBy |-> i.submittedBy,
                     attempts |-> i.attempts, successor |-> b]
  <2>1. intent' = [intent EXCEPT ![a] = new]
    <3>1. intent' = [intent EXCEPT ![a] =
                       [[i EXCEPT !.status = "Completed"] EXCEPT !.successor = b]]
      BY <1>3 DEF MarkCompleted, RowsTyped
    <3> HIDE DEF i
    <3> QED  BY <1>1, <3>1, CompletedIntent DEF i
  <2>2. "Completed" \in {"Pending", "Completed", "Abandoned"} /\ i.attempts \in Nat
    BY <1>1 DEF Intents
  <2>3. /\ intent' \in [Ids -> Intents \cup {NoIntent}]
        /\ intent'[a] # NoIntent /\ intent'[a].status = "Completed"
        /\ intent'[a].successor = b
        /\ \A c \in Ids \ {a} : intent'[c] = intent[c]
    BY <2>1, <2>2, IntentEffect
  <2> QED  BY <1>3, <2>3
<1> QED  BY <1>2, <1>3

\* What is linked is a row made for its source, and the source is recorded.
LEMMA LinkSound ==
  ASSUME IInv, NEW w \in Workers, Link(w)
  PROVE  LET a == task[w].source
             b == task[w].successor
         IN  /\ a \in Ids /\ Exists(a) /\ intent[a] # NoIntent
             /\ b \in Ids /\ Exists(b) /\ approval[b].revisionOf = a
<1>1. RowsTyped /\ TasksSound /\ RowsSound  BY IInvUnfold
<1>2. task[w].source \in Ids  BY <1>1, BusyTyped DEF Link, At, Busy, Tasks
<1> QED
  BY <1>1, <1>2 DEF Link, At, Busy, TasksSound, TaskSound, RowsSound, SourceClosed

LEMMA LinkStep ==
  ASSUME IInv, NEW w \in Workers, Link(w)
  PROVE  IInv'
<1>1. RowsTyped /\ TasksSound /\ RowsSound  BY IInvUnfold
<1>2. PICK a \in Ids : a = task[w].source  BY LinkSound
<1>3. PICK b \in Ids : b = task[w].successor  BY LinkSound
<1>4. intent[a] # NoIntent /\ Exists(b) /\ approval[b].revisionOf = a
  BY <1>2, <1>3, LinkSound
<1>5. Exists(a)  BY <1>2, LinkSound
<1>6. LinkSource(a, b) /\ MarkCompleted(a, b) /\ Done(w) /\ UNCHANGED losses
  BY <1>2, <1>3 DEF Link
<1>7. /\ approval' \in [Ids -> Rows \cup {NoRow}]
      /\ Exists(a)'
      /\ approval'[a].status = approval[a].status
      /\ approval'[a].revisionOf = approval[a].revisionOf
      /\ approval'[a].supersededBy =
           IF approval[a].supersededBy = None THEN b ELSE approval[a].supersededBy
      /\ \A c \in Ids \ {a} : approval'[c] = approval[c]
  BY <1>1, <1>5, <1>6, LinkEffect
<1>8. /\ intent' \in [Ids -> Intents \cup {NoIntent}]
      /\ intent'[a] # NoIntent /\ intent'[a].status # "Pending"
      /\ intent[a].status = "Pending" => intent'[a].successor = b
      /\ intent[a].status # "Pending" => intent'[a] = intent[a]
      /\ \A c \in Ids \ {a} : intent'[c] = intent[c]
  BY <1>1, <1>4, <1>6, CompleteEffect
<1>9. /\ task' \in [Workers -> Tasks \cup {Idle}] /\ task'[w] = Idle
      /\ \A v \in Workers \ {w} : task'[v] = task[v]
  BY <1>1, <1>6, DoneEffect
<1>10. \A c \in Ids : /\ Exists(c)' <=> Exists(c)
                      /\ approval'[c].revisionOf = approval[c].revisionOf
                      /\ approval'[c].status = approval[c].status
  BY <1>5, <1>7 DEF Exists
<1>11. \A c \in Ids : Exists(c) => approval[c] \in Rows  BY <1>1, RowTyped
<1>12. RowsTyped'  BY <1>1, <1>6, <1>7, <1>8, <1>9 DEF RowsTyped
<1>13. TasksSound'
  <2>1. TaskSound(w)'  BY <1>9 DEF TaskSound, Busy
  <2>2. \A c \in Ids : intent[c] # NoIntent => intent'[c] # NoIntent  BY <1>8
  <2> QED  BY <1>1, <1>9, <1>10, <2>1, <2>2, TasksAfter
<1>14. SourceClosed'
  <2>1. \A c \in Ids : intent'[c] # NoIntent <=> intent[c] # NoIntent  BY <1>4, <1>8
  <2>2. \A c \in Ids : Exists(c) /\ approval[c].revisionOf # None =>
                         approval[c].revisionOf \in Ids
    BY <1>11 DEF Rows
  <2> QED  BY <1>1, <1>10, <2>1, <2>2 DEF SourceClosed, RowsSound
<1>15. LinksPaired'
  <2> SUFFICES ASSUME NEW c \in Ids, Exists(c)'
               PROVE  /\ approval'[c].supersededBy # None =>
                           /\ Exists(approval[c].supersededBy)'
                           /\ approval'[approval'[c].supersededBy].revisionOf = c
                      /\ intent'[c].status = "Completed" =>
                           /\ intent'[c].successor # None
                           /\ intent'[c].successor = approval'[c].supersededBy
    BY DEF LinksPaired, Exists
  <2>1. Exists(c)  BY <1>10
  <2>2. approval[c].supersededBy # None =>
          /\ approval[c].supersededBy \in Ids /\ Exists(approval[c].supersededBy)
          /\ approval[approval[c].supersededBy].revisionOf = c
    BY <1>1, <1>11, <2>1 DEF Rows, RowsSound, LinksPaired
  <2>3. approval'[c].supersededBy # None =>
          /\ approval'[c].supersededBy \in Ids /\ Exists(approval'[c].supersededBy)
          /\ approval[approval'[c].supersededBy].revisionOf = c
    BY <1>4, <1>7, <2>2
  <2>4. intent[c].status = "Completed" =>
          /\ intent[c].successor # None /\ intent[c].successor = approval[c].supersededBy
    BY <1>1, <2>1 DEF RowsSound, LinksPaired
  <2>5. intent[c].status = "Pending" => approval[c].supersededBy = None
    BY <1>1 DEF RowsSound, PendingUnlinked
  <2>6. intent'[c].status = "Completed" =>
          /\ intent'[c].successor # None /\ intent'[c].successor = approval'[c].supersededBy
    <3>1. CASE c # a  BY <1>7, <1>8, <2>4, <3>1
    <3>2. CASE c = a /\ intent[a].status = "Pending"
      BY <1>7, <1>8, <2>5, <3>2 DEF Ids, None
    <3>3. CASE c = a /\ intent[a].status # "Pending"  BY <1>7, <1>8, <2>4, <3>3
    <3> QED  BY <3>1, <3>2, <3>3
  <2>7. approval'[c].supersededBy # None => Exists(approval[c].supersededBy)'
    BY <1>10, <2>3 DEF Exists
  <2> QED  BY <1>10, <2>3, <2>6, <2>7
<1>16. PendingUnlinked'
  BY <1>1, <1>7, <1>8 DEF PendingUnlinked, RowsSound
<1>17. SuccessorsAgree'
  <2>1. \A c \in Ids : LiveSuccessors(c)' = LiveSuccessors(c)
    BY <1>10 DEF LiveSuccessors
  <2> QED  BY <1>1, <2>1 DEF SuccessorsAgree, RowsSound
<1> QED  BY <1>12, <1>13, <1>14, <1>15, <1>16, <1>17 DEF IInv

LEMMA TaskStep ==
  ASSUME IInv, NEW w \in Workers, Step(w)
  PROVE  IInv'
<1>1. CASE Probe(w)
  BY <1>1, GoStep, DoneStep, FoundStep DEF Probe, At, Busy
<1>2. CASE Guard(w)
  BY <1>2, GoStep DEF Guard, At, Busy
<1>3. CASE Insert(w)  BY <1>3, InsertStep
<1>4. CASE InsertRefused(w)
  BY <1>4, GoStep DEF InsertRefused, At, Busy
<1>5. CASE Reprobe(w)
  BY <1>5, GoStep, FoundStep DEF Reprobe, At, Busy
<1>6. CASE SubmitFault(w)
  BY <1>6, GoStep DEF SubmitFault, At, Busy
<1>7. CASE Bump(w)  BY <1>7, BumpStep
<1>8. CASE MarkAbandoned(w)  BY <1>8, MarkAbandonedStep
<1>9. CASE Link(w)  BY <1>9, LinkStep
<1> QED  BY <1>1, <1>2, <1>3, <1>4, <1>5, <1>6, <1>7, <1>8, <1>9 DEF Step

LEMMA InitInv == Init => IInv
<1> SUFFICES ASSUME Init PROVE IInv  OBVIOUS
<1> USE DEF Init
<1>1. RowsTyped  BY BoundsAssumption DEF RowsTyped
<1>2. TasksSound  BY DEF TasksSound, TaskSound, Busy
<1>3. SourceClosed /\ LinksPaired  BY DEF SourceClosed, LinksPaired, Exists
<1>4. PendingUnlinked  BY DEF PendingUnlinked, NoIntent
<1>5. SuccessorsAgree  BY DEF SuccessorsAgree, LiveSuccessors, Exists
<1> QED  BY <1>1, <1>2, <1>3, <1>4, <1>5 DEF IInv

LEMMA NextInv == IInv /\ [Next]_vars => IInv'
<1> SUFFICES ASSUME IInv, [Next]_vars PROVE IInv'  OBVIOUS
<1>1. ASSUME NEW u \in Users, Submit(u) PROVE IInv'  BY <1>1, SubmitStep
<1>2. ASSUME NEW w \in Workers, NEW u \in Users, NEW a \in Ids, Revise(w, u, a) \/ Drain(w, u, a)
      PROVE  IInv'
  BY <1>2, ReviseStep, DrainStep
<1>3. ASSUME NEW w \in Workers, Step(w) \/ Lose(w) PROVE IInv'  BY <1>3, TaskStep, LoseStep
<1>4. ASSUME NEW u \in Reviewers, NEW a \in Ids, NEW action \in ReviewActions,
             Review(u, a, action)
      PROVE  IInv'
  BY <1>4, DecisionStep
<1>5. ASSUME NEW a \in Ids, Withdraw(a) \/ Execute(a) PROVE IInv'
  BY <1>5, DecisionStep
<1>6. CASE UNCHANGED vars \/ Redeploy
  BY <1>6 DEF IInv, vars, Redeploy, RowsTyped, TasksSound, TaskSound, Busy, SourceClosed, LinksPaired,
              PendingUnlinked, SuccessorsAgree, LiveSuccessors, Exists
<1> QED  BY <1>1, <1>2, <1>3, <1>4, <1>5, <1>6 DEF Next

-----------------------------------------------------------------------------
(* The outbox.  The contract sees a source through its link, its intent and   *)
(* the rows made for it.                                                      *)

\* Rows may be added, without a link; no row loses or changes one, nor the
\* source it was made for.
LinksKept ==
  \A c \in Ids :
    /\ Exists(c) => /\ Exists(c)'
                    /\ approval'[c].revisionOf = approval[c].revisionOf
                    /\ approval'[c].supersededBy = approval[c].supersededBy
    /\ Exists(c)' /\ ~Exists(c) => approval'[c].supersededBy = None

\* Source c's intent is recorded, or given up, as far as it was before; that a
\* linked source's intent may still be given up is not seen.
IntentKept(c) ==
  /\ intent'[c] = NoIntent <=> intent[c] = NoIntent
  /\ intent[c] # NoIntent /\ approval[c].supersededBy = None =>
       (intent'[c].status = "Abandoned" <=> intent[c].status = "Abandoned")

LEMMA MadeTyped == madeOf' \in [Ids -> SUBSET Ids]
BY DEF madeOf

LEMMA MadeGrows ==
  ASSUME LinksKept
  PROVE  \A c \in Ids : madeOf[c] \subseteq madeOf'[c]
BY DEF madeOf, LinksKept

\* Rows come and go nowhere, and none changes the source it was made for.
LEMMA MadeSame ==
  ASSUME \A c \in Ids : /\ Exists(c)' <=> Exists(c)
                        /\ Exists(c) => approval'[c].revisionOf = approval[c].revisionOf
  PROVE  madeOf' = madeOf
BY DEF madeOf

LEMMA WishSeen ==
  ASSUME NEW c \in Ids
  PROVE  /\ intent[c] = NoIntent => wishOf[c] = "none"
         /\ intent[c] # NoIntent =>
              wishOf[c] = IF approval[c].supersededBy # None THEN "answered"
                          ELSE IF intent[c].status = "Abandoned" THEN "dropped" ELSE "wanted"
         /\ answerOf[c] = IF Exists(c) THEN approval[c].supersededBy ELSE None
BY DEF wishOf, answerOf

LEMMA WishSeenAfter ==
  ASSUME NEW c \in Ids
  PROVE  /\ intent'[c] = NoIntent => wishOf'[c] = "none"
         /\ intent'[c] # NoIntent =>
              wishOf'[c] = IF approval'[c].supersededBy # None THEN "answered"
                           ELSE IF intent'[c].status = "Abandoned" THEN "dropped" ELSE "wanted"
         /\ answerOf'[c] = IF Exists(c)' THEN approval'[c].supersededBy ELSE None
BY DEF wishOf, answerOf

LEMMA DiffersAt ==
  ASSUME NEW D, NEW f, NEW g, f = [x \in D |-> f[x]], g = [x \in D |-> g[x]],
         NEW d \in D, \A x \in D \ {d} : g[x] = f[x]
  PROVE  g = [f EXCEPT ![d] = g[d]]
OBVIOUS

LEMMA SameEverywhere ==
  ASSUME NEW D, NEW f, NEW g, f = [x \in D |-> f[x]], g = [x \in D |-> g[x]],
         \A x \in D : g[x] = f[x]
  PROVE  g = f
OBVIOUS

LEMMA SeenFunctions ==
  /\ wishOf = [c \in Ids |-> wishOf[c]] /\ wishOf' = [c \in Ids |-> wishOf'[c]]
  /\ answerOf = [c \in Ids |-> answerOf[c]] /\ answerOf' = [c \in Ids |-> answerOf'[c]]
<1>1. wishOf = [c \in Ids |-> wishOf[c]] /\ wishOf' = [c \in Ids |-> wishOf'[c]]
  BY DEF wishOf
<1>2. answerOf = [c \in Ids |-> answerOf[c]] /\ answerOf' = [c \in Ids |-> answerOf'[c]]
  BY DEF answerOf
<1> QED  BY <1>1, <1>2

\* A source is seen as before when its intent and its link are as before.
LEMMA SeenSame ==
  ASSUME IInv, NEW c \in Ids, IntentKept(c),
         /\ Exists(c) => Exists(c)' /\ approval'[c].supersededBy = approval[c].supersededBy
         /\ Exists(c)' /\ ~Exists(c) => approval'[c].supersededBy = None
  PROVE  wishOf'[c] = wishOf[c] /\ answerOf'[c] = answerOf[c]
<1>1. intent[c] # NoIntent => Exists(c)  BY DEF IInv, SourceClosed
<1>2. wishOf'[c] = wishOf[c]
  <2>1. CASE intent[c] = NoIntent
    BY <2>1, WishSeen, WishSeenAfter DEF IntentKept
  <2>2. CASE intent[c] # NoIntent
    BY <1>1, <2>2, WishSeen, WishSeenAfter DEF IntentKept
  <2> QED  BY <2>1, <2>2
<1>3. answerOf'[c] = answerOf[c]  BY WishSeen, WishSeenAfter
<1> QED  BY <1>2, <1>3

LEMMA QuietMapped ==
  ASSUME IInv, LinksKept, \A c \in Ids : IntentKept(c)
  PROVE  Contract!Next
<1>1. \A c \in Ids : wishOf'[c] = wishOf[c] /\ answerOf'[c] = answerOf[c]
  BY SeenSame DEF LinksKept
<1>2. wishOf' = wishOf /\ answerOf' = answerOf
  <2> HIDE DEF wishOf, answerOf
  <2> QED  BY <1>1, SeenFunctions, SameEverywhere
<1>3. Contract!Make  BY <1>2, MadeTyped, MadeGrows DEF Contract!Make
<1> QED  BY <1>3 DEF Contract!Next

\* Only source a is seen differently.
LEMMA SeenAt ==
  ASSUME IInv, NEW a \in Ids, \A c \in Ids \ {a} : intent'[c] = intent[c],
         \A c \in Ids \ {a} : approval'[c] = approval[c]
  PROVE  /\ wishOf'   = [wishOf EXCEPT ![a] = wishOf'[a]]
         /\ answerOf' = [answerOf EXCEPT ![a] = answerOf'[a]]
<1>1. \A c \in Ids \ {a} : wishOf'[c] = wishOf[c] /\ answerOf'[c] = answerOf[c]
  BY SeenSame DEF IntentKept, Exists
<1> HIDE DEF wishOf, answerOf
<1>2. wishOf' = [wishOf EXCEPT ![a] = wishOf'[a]]  BY <1>1, SeenFunctions, DiffersAt
<1>3. answerOf' = [answerOf EXCEPT ![a] = answerOf'[a]]  BY <1>1, SeenFunctions, DiffersAt
<1> QED  BY <1>2, <1>3

LEMMA AnswerSame ==
  ASSUME NEW a \in Ids, answerOf' = [answerOf EXCEPT ![a] = answerOf'[a]],
         answerOf'[a] = answerOf[a]
  PROVE  answerOf' = answerOf
<1>1. answerOf = [answerOf EXCEPT ![a] = answerOf[a]]  BY DEF answerOf
<1> QED  BY <1>1

LEMMA ReviseMapped ==
  ASSUME IInv, NEW w \in Workers, NEW u \in Users, NEW a \in Ids, Revise(w, u, a)
  PROVE  Contract!Next
<1>1. /\ Exists(a) /\ approval[a].supersededBy = None
      /\ intent[a] = NoIntent /\ intent'[a] # NoIntent /\ intent'[a].status = "Pending"
      /\ \A c \in Ids \ {a} : intent'[c] = intent[c]
  BY ReviseEffect DEF IInv
<1>2. StatusChange(a, approval[a].status, Revised(approval[a].status))
  BY ReviseEffect DEF IInv
<1>3. /\ Exists(a)' /\ approval'[a].supersededBy = None
      /\ \A c \in Ids \ {a} : approval'[c] = approval[c]
  BY <1>1, <1>2 DEF StatusChange
<1>4. wishOf[a] = "none" /\ wishOf'[a] = "wanted" /\ answerOf'[a] = answerOf[a]
  BY <1>1, <1>3, WishSeen, WishSeenAfter
<1>5. wishOf' = [wishOf EXCEPT ![a] = "wanted"] /\ answerOf' = answerOf
  BY <1>1, <1>3, <1>4, SeenAt, AnswerSame
<1>6. madeOf' = madeOf  BY <1>2, MadeSame DEF StatusChange, Exists
<1>7. Contract!Want(a)  BY <1>4, <1>5, <1>6 DEF Contract!Want
<1> QED  BY <1>7 DEF Contract!Next

\* Giving up an intent whose source is not linked yet is seen, as a drop; the
\* rest of what MarkAbandoned does is not.
LEMMA MarkAbandonedMapped ==
  ASSUME IInv, NEW w \in Workers, MarkAbandoned(w)
  PROVE  Contract!Next
<1>1. PICK a \in Ids : a = task[w].source  BY MarkAbandonedEffect
<1> DEFINE i == intent[a]
           new == [status |-> "Abandoned", submittedBy |-> i.submittedBy,
                   attempts |-> OneMore(i.attempts), successor |-> i.successor]
<1>2. i \in Intents /\ intent' = [intent EXCEPT ![a] = new] /\ approval' = approval
  BY <1>1, MarkAbandonedEffect DEF MarkAbandoned
<1>3. i # NoIntent /\ new # NoIntent /\ new.status = "Abandoned"
  BY <1>2 DEF Intents, NoIntent
<1>4. /\ intent'[a] = new
      /\ \A c \in Ids \ {a} : intent'[c] = intent[c]
  BY <1>2 DEF IInv, RowsTyped
<1> HIDE DEF new
<1>5. \A c \in Ids : Exists(c)' <=> Exists(c)  BY <1>2 DEF Exists
<1>6. LinksKept  BY <1>2, <1>5 DEF LinksKept
<1>7. CASE approval[a].supersededBy # None \/ i.status = "Abandoned"
  <2>1. \A c \in Ids : IntentKept(c)  BY <1>3, <1>4, <1>7 DEF IntentKept
  <2> QED  BY <1>6, <2>1, QuietMapped
<1>8. CASE approval[a].supersededBy = None /\ i.status # "Abandoned"
  <2>1. wishOf[a] = "wanted"  BY <1>3, <1>8, WishSeen
  <2>2. wishOf'[a] = "dropped" /\ answerOf'[a] = answerOf[a]
    BY <1>2, <1>3, <1>4, <1>5, <1>8, WishSeen, WishSeenAfter
  <2>3. wishOf' = [wishOf EXCEPT ![a] = "dropped"] /\ answerOf' = answerOf
    BY <1>2, <1>4, <2>2, SeenAt, AnswerSame
  <2>4. madeOf' = madeOf  BY <1>2, <1>5, MadeSame
  <2>5. Contract!Drop(a)  BY <2>1, <2>3, <2>4 DEF Contract!Drop
  <2> QED  BY <2>5 DEF Contract!Next
<1> QED  BY <1>7, <1>8

LEMMA BumpMapped ==
  ASSUME IInv, NEW w \in Workers, Bump(w)
  PROVE  Contract!Next
<1>1. PICK a \in Ids : a = task[w].source  BY BumpEffect
<1> DEFINE i == intent[a]
           new == [status |-> i.status, submittedBy |-> i.submittedBy,
                   attempts |-> OneMore(i.attempts), successor |-> i.successor]
<1>2. i \in Intents /\ intent' = [intent EXCEPT ![a] = new] /\ approval' = approval
  BY <1>1, BumpEffect DEF Bump
<1>3. i # NoIntent /\ new # NoIntent /\ new.status = i.status
  BY <1>2 DEF Intents, NoIntent
<1>4. /\ intent'[a] = new
      /\ \A c \in Ids \ {a} : intent'[c] = intent[c]
  BY <1>2 DEF IInv, RowsTyped
<1> HIDE DEF new
<1>5. LinksKept  BY <1>2 DEF LinksKept, Exists
<1>6. \A c \in Ids : IntentKept(c)  BY <1>3, <1>4 DEF IntentKept
<1> QED  BY <1>5, <1>6, QuietMapped

\* A link that is made is seen as the answer, whatever the intent's status.
LEMMA LinkMapped ==
  ASSUME IInv, NEW w \in Workers, Link(w)
  PROVE  Contract!Next
<1>1. PICK a \in Ids, b \in Ids : a = task[w].source /\ b = task[w].successor
  BY LinkSound
<1>2. /\ Exists(a) /\ intent[a] # NoIntent
      /\ Exists(b) /\ approval[b].revisionOf = a
  BY <1>1, LinkSound
<1>3. LinkSource(a, b) /\ MarkCompleted(a, b)  BY <1>1 DEF Link
<1>4. /\ Exists(a)'
      /\ approval'[a].revisionOf = approval[a].revisionOf
      /\ approval'[a].supersededBy =
           IF approval[a].supersededBy = None THEN b ELSE approval[a].supersededBy
      /\ \A c \in Ids \ {a} : approval'[c] = approval[c]
  BY <1>2, <1>3, LinkEffect DEF IInv
<1>5. /\ intent'[a] # NoIntent
      /\ intent[a].status # "Pending" => intent'[a] = intent[a]
      /\ \A c \in Ids \ {a} : intent'[c] = intent[c]
  BY <1>2, <1>3, CompleteEffect DEF IInv
<1>6. \A c \in Ids : /\ Exists(c)' <=> Exists(c)
                     /\ approval'[c].revisionOf = approval[c].revisionOf
  BY <1>2, <1>4 DEF Exists
<1>7. CASE approval[a].supersededBy # None
  <2>1. LinksKept  BY <1>4, <1>6, <1>7 DEF LinksKept
  <2>2. \A c \in Ids : IntentKept(c)  BY <1>2, <1>5, <1>7 DEF IntentKept
  <2> QED  BY <2>1, <2>2, QuietMapped
<1>8. CASE approval[a].supersededBy = None
  <2>1. wishOf[a] \in {"wanted", "dropped"}  BY <1>2, <1>8, WishSeen
  <2>2. b # None  BY BoundsAssumption DEF Ids, None
  <2>3. wishOf'[a] = "answered" /\ answerOf'[a] = b
    BY <1>4, <1>5, <1>8, <2>2, WishSeenAfter
  <2>4. /\ wishOf' = [wishOf EXCEPT ![a] = "answered"]
        /\ answerOf' = [answerOf EXCEPT ![a] = b]
    BY <1>4, <1>5, <2>3, SeenAt
  <2>5. madeOf' = madeOf  BY <1>6, MadeSame
  <2>6. b \in madeOf[a]  BY <1>2 DEF madeOf
  <2>7. Contract!Answer(a, b)  BY <2>1, <2>4, <2>5, <2>6 DEF Contract!Answer
  <2> QED  BY <2>7 DEF Contract!Next
<1> QED  BY <1>7, <1>8

LEMMA InsertRowMapped ==
  ASSUME IInv, UNCHANGED intent, NEW b \in Ids, NEW u \in Users,
         NEW source \in Ids \cup {None}, InsertRow(b, u, source)
  PROVE  Contract!Next
<1>1. LinksKept  BY InsertEffect DEF IInv, LinksKept, Exists
<1>2. \A c \in Ids : IntentKept(c)  BY DEF IntentKept
<1> QED  BY <1>1, <1>2, QuietMapped

LEMMA NextMapped ==
  ASSUME IInv, [Next]_vars
  PROVE  Contract!Next
<1>1. ASSUME NEW u \in Users, Submit(u) PROVE Contract!Next
  BY <1>1, InsertRowMapped DEF Submit
<1>2. ASSUME NEW w \in Workers, Insert(w) PROVE Contract!Next
  <2>1. task[w].user \in Users /\ task[w].source \in Ids
    BY <1>2, BusyTyped DEF IInv, Insert, At, Busy, Tasks
  <2> QED  BY <1>2, <2>1, InsertRowMapped DEF Insert
<1>3. ASSUME NEW a \in Ids, (\E u \in Reviewers, action \in ReviewActions : Review(u, a, action))
               \/ Withdraw(a) \/ Execute(a)
      PROVE  Contract!Next
  <2>1. PICK from \in OpenStatuses, to \in ApprovalStatuses : StatusChange(a, from, to)
    BY <1>3, DecisionEffect DEF IInv
  <2>2. LinksKept  BY <2>1 DEF LinksKept, StatusChange, Exists
  <2>3. UNCHANGED intent  BY <1>3 DEF Review, Withdraw, Execute
  <2>4. \A c \in Ids : IntentKept(c)  BY <2>3 DEF IntentKept
  <2> QED  BY <2>2, <2>4, QuietMapped
<1>4. CASE UNCHANGED <<approval, intent>>
  <2>1. LinksKept  BY <1>4 DEF LinksKept, Exists
  <2>2. \A c \in Ids : IntentKept(c)  BY <1>4 DEF IntentKept
  <2> QED  BY <2>1, <2>2, QuietMapped
<1>5. \/ UNCHANGED <<approval, intent>>
      \/ \E u \in Users : Submit(u)
      \/ \E w \in Workers, u \in Users, a \in Ids : Revise(w, u, a)
      \/ \E w \in Workers : Insert(w) \/ Bump(w) \/ MarkAbandoned(w) \/ Link(w)
      \/ \E a \in Ids : \/ \E u \in Reviewers, action \in ReviewActions : Review(u, a, action)
                        \/ Withdraw(a) \/ Execute(a)
  BY DEF Next, Step, Drain, Probe, Guard, InsertRefused, Reprobe, SubmitFault, Lose,
     Redeploy, vars
<1> QED
  BY <1>1, <1>2, <1>3, <1>4, <1>5, ReviseMapped, BumpMapped, MarkAbandonedMapped, LinkMapped

-----------------------------------------------------------------------------
(* The events that tell of a link follow the links.                         *)

RestTyped ==
  /\ linkEvents \in [Ids -> Nat]
  /\ unreadable \in SUBSET Ids
  /\ deploys    \in 0..MaxDeploys

\* The link of a source that had none, told on the record of the row that
\* answers it.
Linked(a, b) ==
  /\ Exists(a) /\ approval[a].supersededBy = None
  /\ Exists(b) /\ approval[b].revisionOf = a
  /\ Exists(a)' /\ approval'[a].supersededBy = b
  /\ \A c \in Ids \ {a} : approval'[c] = approval[c]
  /\ approval'[a].revisionOf = approval[a].revisionOf
  /\ linkEvents' = [linkEvents EXCEPT ![b] = @ + 1]

LEMMA LinkLinks ==
  ASSUME IInv, NEW w \in Workers, Link(w)
  PROVE  \/ LinksKept /\ linkEvents' = linkEvents
         \/ \E a, b \in Ids : Linked(a, b)
<1>1. PICK a \in Ids, b \in Ids : a = task[w].source /\ b = task[w].successor
  BY LinkSound
<1>2. Exists(a) /\ Exists(b) /\ approval[b].revisionOf = a
  BY <1>1, LinkSound
<1>3. LinkSource(a, b) /\ TellLink(a, b)  BY <1>1 DEF Link
<1>4. /\ Exists(a)'
      /\ approval'[a].revisionOf = approval[a].revisionOf
      /\ approval'[a].supersededBy =
           IF approval[a].supersededBy = None THEN b ELSE approval[a].supersededBy
      /\ \A c \in Ids \ {a} : approval'[c] = approval[c]
  BY <1>2, <1>3, LinkEffect DEF IInv
<1>5. CASE approval[a].supersededBy = None
  <2>1. linkEvents' = [linkEvents EXCEPT ![b] = @ + 1]  BY <1>3, <1>5 DEF TellLink
  <2>2. Linked(a, b)  BY <1>2, <1>4, <1>5, <2>1 DEF Linked
  <2> QED  BY <2>2
<1>6. CASE approval[a].supersededBy # None
  <2>1. linkEvents' = linkEvents  BY <1>3, <1>6 DEF TellLink
  <2>2. LinksKept  BY <1>2, <1>4, <1>6 DEF LinksKept, Exists
  <2> QED  BY <2>1, <2>2
<1> QED  BY <1>5, <1>6

LEMMA EventsFollow ==
  ASSUME IInv, [Next]_vars
  PROVE  \/ LinksKept /\ linkEvents' = linkEvents
         \/ \E a, b \in Ids : Linked(a, b)
<1>1. ASSUME NEW b \in Ids, NEW u \in Users, NEW source \in Ids \cup {None},
             InsertRow(b, u, source)
      PROVE  LinksKept
  BY <1>1, InsertEffect DEF IInv, LinksKept, Exists
<1>2. ASSUME NEW u \in Users, Submit(u) PROVE LinksKept /\ linkEvents' = linkEvents
  BY <1>1, <1>2 DEF Submit
<1>3. ASSUME NEW w \in Workers, Insert(w) PROVE LinksKept /\ linkEvents' = linkEvents
  <2>1. task[w].user \in Users /\ task[w].source \in Ids
    BY <1>3, BusyTyped DEF IInv, Insert, At, Busy, Tasks
  <2> QED  BY <1>1, <1>3, <2>1 DEF Insert
<1>4. ASSUME NEW a \in Ids, (\E u \in Reviewers, action \in ReviewActions : Review(u, a, action))
               \/ Withdraw(a) \/ Execute(a)
      PROVE  LinksKept /\ linkEvents' = linkEvents
  <2>1. PICK from \in OpenStatuses, to \in ApprovalStatuses : StatusChange(a, from, to)
    BY <1>4, DecisionEffect DEF IInv
  <2>2. LinksKept  BY <2>1 DEF LinksKept, StatusChange, Exists
  <2> QED  BY <1>4, <2>2 DEF Review, Withdraw, Execute
<1>5. ASSUME NEW w \in Workers, NEW u \in Users, NEW a \in Ids, Revise(w, u, a)
      PROVE  LinksKept /\ linkEvents' = linkEvents
  <2>1. StatusChange(a, approval[a].status, Revised(approval[a].status))
    BY <1>5, ReviseEffect DEF IInv
  <2>2. LinksKept  BY <2>1 DEF LinksKept, StatusChange, Exists
  <2> QED  BY <1>5, <2>2 DEF Revise
<1>6. CASE UNCHANGED <<approval, linkEvents>>
  BY <1>6 DEF LinksKept, Exists
<1>7. \/ UNCHANGED <<approval, linkEvents>>
      \/ \E u \in Users : Submit(u)
      \/ \E w \in Workers, u \in Users, a \in Ids : Revise(w, u, a)
      \/ \E w \in Workers : Insert(w) \/ Link(w)
      \/ \E a \in Ids : \/ \E u \in Reviewers, action \in ReviewActions : Review(u, a, action)
                        \/ Withdraw(a) \/ Execute(a)
  BY DEF Next, Step, Drain, Probe, Guard, InsertRefused, Reprobe, SubmitFault, Lose,
     Bump, MarkAbandoned, Redeploy, vars
<1> QED  BY <1>2, <1>3, <1>4, <1>5, <1>6, <1>7, LinkLinks

\* A row that is linked from its source is a row: no request is told of before
\* it exists.
LEMMA AnswerExists ==
  ASSUME IInv, NEW a \in Ids, Exists(a), approval[a].supersededBy # None
  PROVE  /\ approval[a].supersededBy \in Ids /\ Exists(approval[a].supersededBy)
         /\ approval[approval[a].supersededBy].revisionOf = a
BY RowTyped DEF IInv, Rows, LinksPaired

LEMMA RowTypedAfter ==
  ASSUME IInv', NEW a \in Ids, Exists(a)'
  PROVE  approval'[a] \in Rows
BY DEF IInv, RowsTyped, Exists

LEMMA AnswersKept ==
  ASSUME IInv, IInv', LinksKept, NEW b \in Ids
  PROVE  IsAnswer(b)' <=> IsAnswer(b)
<1>1. CASE Exists(b)
  <2>1. PICK a : a = approval[b].revisionOf  OBVIOUS
  <2>2. Exists(b)' /\ approval'[b].revisionOf = a  BY <1>1, <2>1 DEF LinksKept
  <2>3. a # None => a \in Ids /\ Exists(a)
    BY <1>1, <2>1, RowTyped DEF IInv, Rows, SourceClosed
  <2>4. a # None => Exists(a)' /\ approval'[a].supersededBy = approval[a].supersededBy
    BY <2>3 DEF LinksKept
  <2> QED  BY <1>1, <2>1, <2>2, <2>3, <2>4 DEF IsAnswer
<1>2. CASE ~Exists(b) /\ Exists(b)'
  <2>1. ~IsAnswer(b)  BY <1>2 DEF IsAnswer
  <2>2. PICK a : a = approval'[b].revisionOf  OBVIOUS
  <2>3. a # None => a \in Ids  BY <1>2, <2>2, RowTypedAfter DEF Rows
  <2>4. b # None  BY DEF Ids, None
  <2>5. ASSUME a \in Ids, Exists(a) PROVE approval'[a].supersededBy # b
    <3>1. approval'[a].supersededBy = approval[a].supersededBy  BY <2>5 DEF LinksKept
    <3> QED  BY <1>2, <2>4, <2>5, <3>1, AnswerExists
  <2>6. ASSUME a \in Ids, Exists(a)', ~Exists(a) PROVE approval'[a].supersededBy # b
    BY <2>4, <2>6 DEF LinksKept
  <2>7. ~IsAnswer(b)'  BY <2>2, <2>3, <2>5, <2>6 DEF IsAnswer
  <2> QED  BY <2>1, <2>7
<1>3. CASE ~Exists(b) /\ ~Exists(b)'  BY <1>3 DEF IsAnswer
<1> QED  BY <1>1, <1>2, <1>3

LEMMA AnswerMade ==
  ASSUME IInv, NEW a \in Ids, NEW b \in Ids, Linked(a, b)
  PROVE  /\ ~IsAnswer(b) /\ IsAnswer(b)'
         /\ \A c \in Ids \ {b} : IsAnswer(c)' <=> IsAnswer(c)
<1>1. \A c \in Ids : c # None  BY DEF Ids, None
<1>2. \A c \in Ids : /\ Exists(c)' <=> Exists(c)
                     /\ approval'[c].revisionOf = approval[c].revisionOf
  BY DEF Linked, Exists
<1>3. ~IsAnswer(b)  BY <1>1 DEF IsAnswer, Linked
<1>4. IsAnswer(b)'
  <2>1. Exists(b)' /\ approval'[b].revisionOf = a  BY <1>2 DEF Linked
  <2>2. Exists(a)' /\ approval'[a].supersededBy = b  BY DEF Linked
  <2> QED  BY <1>1, <2>1, <2>2 DEF IsAnswer, Exists
<1>5. ASSUME NEW c \in Ids \ {b} PROVE IsAnswer(c)' <=> IsAnswer(c)
  <2>1. PICK d : d = approval[c].revisionOf  OBVIOUS
  <2>2. Exists(c) => d = None \/ d \in Ids  BY <2>1, RowTyped DEF IInv, Rows
  <2>3. ASSUME d \in Ids PROVE approval'[d].supersededBy = c <=> approval[d].supersededBy = c
    <3>1. CASE d = a  BY <1>1, <3>1 DEF Linked
    <3>2. CASE d # a  BY <2>3, <3>2 DEF Linked
    <3> QED  BY <3>1, <3>2
  <2>4. /\ Exists(c)' <=> Exists(c)
        /\ approval'[c].revisionOf = d
        /\ d \in Ids => (Exists(d)' <=> Exists(d))
    BY <1>2, <2>1
  <2> QED  BY <2>1, <2>2, <2>3, <2>4 DEF IsAnswer
<1> QED  BY <1>3, <1>4, <1>5

LEMMA SchemaTyped ==
  ASSUME RestTyped, [Next]_vars
  PROVE  unreadable' \in SUBSET Ids /\ deploys' \in 0..MaxDeploys
<1>1. CASE Redeploy  BY <1>1, BoundsAssumption DEF Redeploy, RestTyped
<1>2. CASE UNCHANGED schema  BY <1>2 DEF schema, RestTyped
<1>3. Redeploy \/ UNCHANGED schema
  BY DEF Next, Step, Submit, Revise, Drain, Probe, Guard, Insert, InsertRefused, Reprobe,
     SubmitFault, Bump, MarkAbandoned, Link, Lose, Review, Withdraw, Execute, vars, schema
<1> QED  BY <1>1, <1>2, <1>3

LEMMA ToldStep ==
  ASSUME IInv, IInv', RestTyped, LinkTold, [Next]_vars
  PROVE  RestTyped' /\ LinkTold'
<1>1. CASE LinksKept /\ linkEvents' = linkEvents
  <2>1. LinkTold'  BY <1>1, AnswersKept DEF LinkTold
  <2>2. linkEvents' \in [Ids -> Nat]  BY <1>1 DEF RestTyped
  <2> QED  BY <2>1, <2>2, SchemaTyped DEF RestTyped
<1>2. ASSUME NEW a \in Ids, NEW b \in Ids, Linked(a, b) PROVE RestTyped' /\ LinkTold'
  <2>1. linkEvents' = [linkEvents EXCEPT ![b] = @ + 1]  BY <1>2 DEF Linked
  <2>2. /\ linkEvents' \in [Ids -> Nat]
        /\ linkEvents'[b] = linkEvents[b] + 1
        /\ \A c \in Ids \ {b} : linkEvents'[c] = linkEvents[c]
    BY <2>1 DEF RestTyped
  <2>3. LinkTold'  BY <1>2, <2>2, AnswerMade DEF LinkTold
  <2> QED  BY <2>2, <2>3, SchemaTyped DEF RestTyped
<1> QED  BY <1>1, <1>2, EventsFollow

-----------------------------------------------------------------------------
(* The theorems.                                                            *)

\* The strengthening every theorem below rests on: a request at work holds a
\* recorded intent and links a row that was made for its source.
THEOREM Invariant == Spec => []IInv
BY InitInv, NextInv, PTL DEF Spec

\* The record's part follows the rows: the whole is inductive together.
THEOREM InvariantTold == Spec => [](IInv /\ RestTyped /\ LinkTold)
<1>1. Init => IInv /\ RestTyped /\ LinkTold
  <2> SUFFICES ASSUME Init PROVE IInv /\ RestTyped /\ LinkTold  OBVIOUS
  <2>1. RestTyped  BY BoundsAssumption DEF Init, RestTyped
  <2>2. LinkTold  BY DEF Init, LinkTold, IsAnswer, Exists
  <2> QED  BY <2>1, <2>2, InitInv
<1>2. (IInv /\ RestTyped /\ LinkTold) /\ [Next]_vars => (IInv /\ RestTyped /\ LinkTold)'
  BY NextInv, ToldStep
<1> QED  BY <1>1, <1>2, PTL DEF Spec

\* Every reachable state is well typed (the rows of 0058 and 0061).
THEOREM Typing == Spec => []TypeOK
<1>1. IInv /\ RestTyped => TypeOK  BY DEF IInv, RowsTyped, RestTyped, TypeOK
<1> QED  BY <1>1, InvariantTold, PTL

\* A request never forks, however many drains race and die.
THEOREM NeverForks == Spec => []OneLiveSuccessor
<1>1. IInv => OneLiveSuccessor
  <2> SUFFICES ASSUME IInv, NEW a \in Ids PROVE Cardinality(LiveSuccessors(a)) <= 1
    BY DEF OneLiveSuccessor
  <2>1. CASE LiveSuccessors(a) = {}  BY <2>1, FS_EmptySet
  <2>2. CASE LiveSuccessors(a) # {}
    <3>1. PICK b : b \in LiveSuccessors(a)  BY <2>2
    <3>2. LiveSuccessors(a) = {b}
      BY <3>1 DEF IInv, SuccessorsAgree, LiveSuccessors
    <3> QED  BY <3>2, FS_Singleton
  <2> QED  BY <2>1, <2>2
<1> QED  BY <1>1, Invariant, PTL

\* The source's link, the intent's and the record of the successor agree: all
\* name a request that was made for the source, and the record tells of it once,
\* whoever's drain linked it (setSupersededBy and its approval_event).
THEOREM LinksHold == Spec => []LinksAgree
<1>1. IInv /\ LinkTold => LinksAgree  BY DEF IInv, LinksAgree
<1> QED  BY <1>1, InvariantTold, PTL

\* What is revised is closed for good.
THEOREM SourcesClosed == Spec => []SourceClosed
<1>1. IInv => SourceClosed  BY DEF IInv
<1> QED  BY <1>1, Invariant, PTL

\* Revise & resubmit implements the outbox: a revision maps to Want, giving up
\* to Drop while the source has no link, the link that is made to Answer, a
\* submit to Make, everything else to a step that changes nothing.
THEOREM Implements == Spec => ImplementsOutbox
<1>1. Init => Contract!Init
  <2> SUFFICES ASSUME Init PROVE Contract!Init  OBVIOUS
  <2>1. \A a \in Ids : ~Exists(a) /\ intent[a] = NoIntent  BY DEF Init, Exists
  <2>2. wishOf = [a \in Ids |-> "none"]  BY <2>1 DEF wishOf
  <2>3. madeOf = [a \in Ids |-> {}]  BY <2>1 DEF madeOf
  <2>4. answerOf = [a \in Ids |-> None]  BY <2>1 DEF answerOf
  <2> QED  BY <2>2, <2>3, <2>4 DEF Contract!Init
<1>2. IInv /\ [Next]_vars => [Contract!Next]_(Contract!vars)
  BY NextMapped
<1> QED  BY <1>1, <1>2, Invariant, PTL DEF Spec, ImplementsOutbox, Contract!Spec

\* A source's link, once made, is the one it keeps, and a recorded intent stays
\* recorded: what the outbox promises, seen on the rows (setSupersededBy and
\* markRevisionCompleted write once, whoever comes late).
LinkIsFinal ==
  [][\A a \in Ids :
       /\ intent[a] # NoIntent => intent'[a] # NoIntent
       /\ Exists(a) /\ approval[a].supersededBy # None =>
            Exists(a)' /\ approval'[a].supersededBy = approval[a].supersededBy]_vars

\* A link is final, and no step forgets a recorded revision.
THEOREM LinksFinal == Spec => LinkIsFinal
<1>1. ASSUME IInv, [Next]_vars, NEW a \in Ids, intent[a] # NoIntent PROVE intent'[a] # NoIntent
  <2>1. wishOf[a] # "none"  BY <1>1 DEF wishOf
  <2>2. wishOf'[a] # "none"
    BY <1>1, <2>1, NextMapped, SeenFunctions DEF Contract!Next, Contract!Make, Contract!Want, Contract!Drop,
       Contract!Answer
  <2> QED  BY <2>2 DEF wishOf
<1>2. ASSUME IInv, [Next]_vars, NEW a \in Ids, Exists(a), approval[a].supersededBy # None
      PROVE  Exists(a)' /\ approval'[a].supersededBy = approval[a].supersededBy
  <2>1. wishOf[a] = "answered" /\ answerOf[a] = approval[a].supersededBy
    <3>1. PICK b \in Ids : b = approval[a].supersededBy
      BY <1>2, RowTyped DEF IInv, Rows
    <3>2. Exists(b) /\ approval[b].revisionOf = a
      BY <1>2, <3>1 DEF IInv, LinksPaired
    <3>3. intent[a] # NoIntent
      <4>1. a # None  BY DEF Ids, None
      <4> QED  BY <1>2, <3>2, <4>1 DEF IInv, SourceClosed
    <3> QED  BY <1>2, <3>3 DEF wishOf, answerOf
  <2>2. answerOf'[a] = answerOf[a]
    BY <1>2, <2>1, NextMapped, SeenFunctions DEF Contract!Next, Contract!Make, Contract!Want, Contract!Drop,
       Contract!Answer
  <2> QED  BY <1>2, <2>1, <2>2 DEF answerOf
<1>3. IInv /\ [Next]_vars =>
        [\A a \in Ids :
           /\ intent[a] # NoIntent => intent'[a] # NoIntent
           /\ Exists(a) /\ approval[a].supersededBy # None =>
                Exists(a)' /\ approval'[a].supersededBy = approval[a].supersededBy]_vars
  BY <1>1, <1>2
<1> QED  BY <1>3, Invariant, PTL DEF Spec, LinkIsFinal
=============================================================================
