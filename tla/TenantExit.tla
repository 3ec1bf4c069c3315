----------------------------- MODULE TenantExit -----------------------------
(***************************************************************************)
(* The objects of one tenant in storage, and the tenant's exit             *)
(* (exitTenant.ts, blobBundle.ts, erasureJanitor.ts, intakeOps.ts,         *)
(* documentOps.ts, the upload routes of app.ts and the gateways of         *)
(* migrations 0059 to 0086).                                               *)
(*                                                                         *)
(* An upload records an intent, stores its object, and commits the row     *)
(* that owns it, resolving the intent; each is a step, and any may fail.   *)
(* The provider may publish an object whose PUT it was seen to reject.     *)
(* Whatever an upload leaves behind is deleted by the drain of the wipe    *)
(* ledger, by the sweep of the exit, or by the janitor afterwards.         *)
(*                                                                         *)
(* Every upload has a fresh key, so an upload and its key are one.  Time   *)
(* is left out: an intent or a lease may expire whenever its request is    *)
(* not inside a PUT, which the request's deadline ends well before.        *)
(***************************************************************************)
EXTENDS Integers, FiniteSets

CONSTANTS
  Guests,    \* uploads by guests, through the one intake link
  Staff,     \* uploads of a file by members
  Source,    \* copies by members of a guest's promoted upload: copy -> upload
  Janitors,  \* API processes that run janitor passes
  MaxFaults  \* bound on the stops of the exit command and of janitor passes

Copies  == DOMAIN Source
Uploads == Guests \cup Staff \cup Copies

ASSUME FaultsAssumption == MaxFaults \in Nat
ASSUME UploadsAssumption == IsFiniteSet(Uploads)
ASSUME SourceAssumption == \A c \in Copies : Source[c] \in Guests /\ c \notin Guests

VARIABLES
  tenant,    \* "Active", "Exiting", or "Gone" with its row
  link,      \* the intake link
  lease,     \* guests whose upload lease has not ended
  upload,    \* per upload, where its request is
  row,       \* per upload, the row that owns its object
  ledger,    \* blob_tombstone: per upload and reason, the state of the entry
  object,    \* keys present in storage
  late,      \* per upload, whether the provider has yet to publish it, or has
  exit,      \* where the operator's exit command is
  wipe,      \* the drain of the wipe ledger, with what it listed and deleted
  authority, \* erased_tenant_prefix, once there
  janitor,   \* per process, its pass
  faults     \* stops so far

requests == <<link, lease, upload, row, late>>
cleaners == <<exit, wipe, authority, janitor, faults>>
vars == <<tenant, link, lease, upload, row, ledger, object, late,
          exit, wipe, authority, janitor, faults>>

Reasons == {"compensation", "intake_reject", "quarantine_cleanup", "exit"}

\* "expired" is a prepared entry whose time to live has passed.
Prepared == {"prepared", "expired"}
Unswept  == Prepared \cup {"armed"}
Entries  == Unswept \cup {"none", "resolved", "swept"}

Fresh   == [step |-> "idle", unsure |-> FALSE]
NoWipe  == [step |-> "idle", listed |-> {}, deleted |-> {}]
NoPass  == [step |-> "idle", pending |-> {}, destroyed |-> {}]
NoAuthority == [armed |-> FALSE, pending |-> {}, count |-> 0, result |-> "none"]

Init ==
  /\ tenant = "Active"
  /\ link = "Active"
  /\ lease = {}
  /\ upload = [k \in Uploads |-> Fresh]
  /\ row = [k \in Uploads |-> "none"]
  /\ ledger = [k \in Uploads |-> [r \in Reasons |-> "none"]]
  /\ object = {}
  /\ late = [k \in Uploads |-> "no"]
  /\ exit = "idle"
  /\ wipe = NoWipe
  /\ authority = NoAuthority
  /\ janitor = [j \in Janitors |-> NoPass]
  /\ faults = 0

-----------------------------------------------------------------------------
(* Objects and who answers for them.                                        *)

\* A row names the object; that of a promoted upload until a copy replaces it.
Owned(k) ==
  \/ row[k] \in {"Live", "Pending"}
  \/ row[k] = "Promoted" /\ ledger[k]["quarantine_cleanup"] = "none"

Intent(k) == ledger[k]["compensation"]
InLedger(k) == \E r \in Reasons : ledger[k][r] \in Unswept

\* tenantBlobPrefixes: quarantine lies under a prefix of its own.
Prefix(p) == IF p = "intake" THEN Guests ELSE Uploads \ Guests

Set(k, r, s) == [ledger EXCEPT ![k][r] = s]

\* Every entry of "pairs" that is "from" becomes "to".
Move(pairs, from, to) ==
  [k \in Uploads |-> [r \in Reasons |->
     IF <<k, r>> \in pairs /\ ledger[k][r] = from THEN to ELSE ledger[k][r]]]

All == Uploads \X Reasons

-----------------------------------------------------------------------------
(* Uploads.                                                                 *)

Goto(k, step) == upload' = [upload EXCEPT ![k].step = step]

\* A guest needs a lease, a copy a promoted upload whose bytes are there.
Begin(k) ==
  /\ upload[k].step = "idle"
  /\ k \in Guests => tenant = "Active" /\ link = "Active"
  /\ k \in Copies => row[Source[k]] = "Promoted" /\ Source[k] \in object
  /\ lease' = lease \cup ({k} \cap Guests)
  /\ Goto(k, "begun")
  /\ UNCHANGED <<tenant, link, row, ledger, object, late, cleaners>>

\* The ledger takes no entry for a tenant that is gone: nothing is stored then.
Prepare(k) ==
  /\ upload[k].step = "begun"
  /\ IF tenant # "Gone"
     THEN ledger' = Set(k, "compensation", "prepared") /\ Goto(k, "prepared")
     ELSE UNCHANGED ledger /\ Goto(k, "done")
  /\ UNCHANGED <<tenant, link, lease, row, object, late, cleaners>>

\* A request past its deadline stores nothing more.
PutBegins(k) ==
  /\ upload[k].step = "prepared"
  /\ Goto(k, IF Intent(k) = "prepared" THEN "putting" ELSE "failing")
  /\ UNCHANGED <<tenant, link, lease, row, ledger, object, late, cleaners>>

PutSucceeds(k) ==
  /\ upload[k].step = "putting"
  /\ object' = object \cup {k}
  /\ Goto(k, "stored")
  /\ UNCHANGED <<tenant, link, lease, row, ledger, late, cleaners>>

\* A PUT seen to fail may have stored the object all the same, or may yet.
Stray(k) ==
  \/ UNCHANGED <<object, late>>
  \/ object' = object \cup {k} /\ UNCHANGED late
  \/ late' = [late EXCEPT ![k] = "pending"] /\ UNCHANGED object

PutFails(k) ==
  /\ upload[k].step = "putting"
  /\ Stray(k)
  /\ Goto(k, "failing")
  /\ UNCHANGED <<tenant, link, lease, row, ledger, cleaners>>

Publish(k) ==
  /\ late[k] = "pending"
  /\ late' = [late EXCEPT ![k] = "appeared"]
  /\ object' = object \cup {k}
  /\ UNCHANGED <<tenant, link, lease, upload, row, ledger, cleaners>>

\* What the transaction that inserts the owning row demands: the quiesce
\* trigger, the claim of the link, and the intent still being prepared.
MayRegister(k) ==
  /\ tenant = "Active"
  /\ Intent(k) \in Prepared
  /\ k \in Guests => link = "Active"
  /\ k \in Copies => ledger[Source[k]]["quarantine_cleanup"] = "none"

\* One transaction: the row, the intent resolved, and for a copy its source
\* handed to the drain.  The answer to its commit may be lost.
Register(k) ==
  /\ upload[k].step = "stored" /\ MayRegister(k)
  /\ row' = [row EXCEPT ![k] = IF k \in Guests THEN "Pending" ELSE "Live"]
  /\ link' = IF k \in Guests THEN "Consumed" ELSE link
  /\ ledger' = [i \in Uploads |-> [r \in Reasons |->
       IF i = k /\ r = "compensation" THEN "resolved"
       ELSE IF k \in Copies /\ i = Source[k] /\ r = "quarantine_cleanup" THEN "armed"
       ELSE ledger[i][r]]]
  /\ \E unsure \in BOOLEAN :
       upload' = [upload EXCEPT ![k].step = IF unsure THEN "failing"
                                            ELSE IF k \in Copies THEN "copied" ELSE "done",
                                ![k].unsure = unsure]
  /\ UNCHANGED <<tenant, lease, object, late, cleaners>>

\* The request deletes what it has copied; the drain finishes a miss.
DropSource(k) ==
  /\ upload[k].step = "copied"
  /\ object' \in {object, object \ {Source[k]}}
  /\ Goto(k, "done")
  /\ UNCHANGED <<tenant, link, lease, row, ledger, late, cleaners>>

\* A refusal, or a failure of the database.
RegisterFails(k) ==
  /\ upload[k].step = "stored"
  /\ Goto(k, "failing")
  /\ UNCHANGED <<tenant, link, lease, row, ledger, object, late, cleaners>>

\* armCompensation, discardStored: a failed request hands its object to the
\* drain.  A member's request goes on to delete when that fails, a guest's not.
Arm(k) ==
  /\ upload[k].step = "failing"
  /\ \/ /\ ledger' = IF Intent(k) \in Prepared THEN Set(k, "compensation", "armed") ELSE ledger
        /\ Goto(k, IF k \in Guests /\ link = "Gone" THEN "done" ELSE "cleaning")
     \/ UNCHANGED ledger /\ Goto(k, IF k \in Guests THEN "done" ELSE "cleaning")
  /\ UNCHANGED <<tenant, link, lease, row, object, late, cleaners>>

Clean(k) ==
  /\ upload[k].step = "cleaning"
  /\ object' \in {object, object \ {k}}
  /\ Goto(k, "done")
  /\ UNCHANGED <<tenant, link, lease, row, ledger, late, cleaners>>

Die(k) ==
  /\ upload[k].step \notin {"idle", "done"}
  /\ IF upload[k].step = "putting" THEN Stray(k) ELSE UNCHANGED <<object, late>>
  /\ Goto(k, "done")
  /\ UNCHANGED <<tenant, link, lease, row, ledger, cleaners>>

Expire(k) ==
  /\ Intent(k) = "prepared" /\ upload[k].step # "putting"
  /\ ledger' = Set(k, "compensation", "expired")
  /\ UNCHANGED <<tenant, object, requests, cleaners>>

\* A lease is released when its claim has committed, and expires otherwise.
LeaseEnds(k) ==
  /\ k \in lease /\ upload[k].step # "putting"
  /\ lease' = lease \ {k}
  /\ UNCHANGED <<tenant, link, upload, row, ledger, object, late, cleaners>>

UploadStep(k) ==
  \/ Begin(k) \/ Prepare(k) \/ PutBegins(k) \/ PutSucceeds(k) \/ PutFails(k) \/ Publish(k)
  \/ Register(k) \/ DropSource(k) \/ RegisterFails(k) \/ Arm(k) \/ Clean(k) \/ Die(k)

-----------------------------------------------------------------------------
(* Review of a guest's submission, and the drain of the wipe ledger.        *)

Promote(k) ==
  /\ row[k] = "Pending" /\ tenant = "Active"
  /\ row' = [row EXCEPT ![k] = "Promoted"]
  /\ UNCHANGED <<tenant, link, lease, upload, ledger, object, late, cleaners>>

RejectPrepared(k) ==
  /\ row[k] = "Pending" /\ tenant = "Active"
  /\ row' = [row EXCEPT ![k] = "Rejected"]
  /\ ledger' = Set(k, "intake_reject", "prepared")
  /\ UNCHANGED <<tenant, link, lease, upload, object, late, cleaners>>
Reject(k) ==
  /\ row[k] = "Pending" /\ tenant = "Active"
  /\ row' = [row EXCEPT ![k] = "Rejected"]
  /\ ledger' = Set(k, "intake_reject", "armed")
  /\ UNCHANGED <<tenant, link, lease, upload, object, late, cleaners>>

RevokeLink ==
  /\ link = "Active"
  /\ link' = "Revoked"
  /\ UNCHANGED <<tenant, lease, upload, row, ledger, object, late, cleaners>>

WipableAlsoPrepared == {"armed", "prepared"}
Wipable == {"armed"}

ToWipe == {p \in All : p[2] # "exit" /\ ledger[p[1]][p[2]] \in Wipable}

\* Entries of requests that are dead by now are armed (a drain that would find
\* nothing to arm and nothing to wipe is left out).  That the same
\* transaction purges resolved and swept entries of thirty days ago is left out:
\* all they still do is to keep a key from a second entry for their reason, and
\* no request lives that long.
DrainArms ==
  /\ wipe.step = "idle" /\ tenant # "Gone"
  /\ ledger' = Move(All, "expired", "armed")
  /\ ToWipe # {} \/ ledger' # ledger
  /\ wipe' = [NoWipe EXCEPT !.step = "armed"]
  /\ UNCHANGED <<tenant, object, requests, exit, authority, janitor, faults>>

\* What is armed is listed, by this drain or by anybody since.
DrainLists ==
  /\ wipe.step = "armed"
  /\ wipe' = IF ToWipe = {} THEN NoWipe
             ELSE [step |-> "listed", listed |-> ToWipe, deleted |-> {}]
  /\ UNCHANGED <<tenant, ledger, object, requests, exit, authority, janitor, faults>>

\* Each object is deleted and read back; some deletes may fail.
DrainDeletes ==
  /\ wipe.step = "listed"
  /\ \E gone \in SUBSET wipe.listed :
       /\ wipe' = [wipe EXCEPT !.step = "deleted", !.deleted = gone]
       /\ object' = object \ {p[1] : p \in gone}
  /\ UNCHANGED <<tenant, ledger, requests, exit, authority, janitor, faults>>

DrainRecordsListed ==
  /\ wipe.step = "deleted"
  /\ wipe' = NoWipe
  /\ ledger' \in {Move(wipe.listed, "armed", "swept"), ledger}
  /\ UNCHANGED <<tenant, object, requests, exit, authority, janitor, faults>>
DrainRecords ==
  /\ wipe.step = "deleted"
  /\ wipe' = NoWipe
  /\ ledger' \in {Move(wipe.deleted, "armed", "swept"), ledger}
  /\ UNCHANGED <<tenant, object, requests, exit, authority, janitor, faults>>

ReviewStep == (\E k \in Guests : Promote(k) \/ Reject(k)) \/ RevokeLink
DrainStep  == DrainArms \/ DrainLists \/ DrainDeletes \/ DrainRecords

-----------------------------------------------------------------------------
(* The exit command: exitTenant, the sweep, and later --finalize.           *)

Exiting(from, to) == exit = from /\ exit' = to

PhaseZeroOnce ==
  /\ Exiting("idle", "draining") /\ tenant = "Active"
  /\ tenant' = "Exiting"
  /\ link' = IF link = "Active" THEN "Revoked" ELSE link
  /\ UNCHANGED <<lease, upload, row, ledger, object, late, wipe, authority, janitor, faults>>
\* The members have been deactivated; an exit begun before is taken up again.
PhaseZero ==
  /\ Exiting("idle", "draining") /\ tenant # "Gone"
  /\ tenant' = "Exiting"
  /\ link' = IF link = "Active" THEN "Revoked" ELSE link
  /\ UNCHANGED <<lease, upload, row, ledger, object, late, wipe, authority, janitor, faults>>

LeasesDrained ==
  /\ Exiting("draining", "data") /\ lease = {}
  /\ UNCHANGED <<tenant, ledger, object, requests, wipe, authority, janitor, faults>>

\* enumerateTenantBlobs names what a row owns, except a promoted upload.
EraseData ==
  /\ Exiting("data", "census")
  /\ ledger' = [k \in Uploads |->
       IF row[k] \in {"Live", "Pending"} /\ ledger[k]["exit"] = "none"
       THEN [ledger[k] EXCEPT !["exit"] = "armed"] ELSE ledger[k]]
  /\ row' = [k \in Uploads |-> "none"]
  /\ UNCHANGED <<tenant, link, lease, upload, object, late, wipe, authority, janitor, faults>>

NoProducer(l) == \A k \in Uploads : l[k]["compensation"] \notin Prepared

\* The sweep parks while an intent protects a request that may still store.
CensusArmingAll ==
  /\ exit = "census"
  /\ ledger' = [k \in Uploads |-> [r \in Reasons |->
                  IF ledger[k][r] \in Prepared THEN "armed" ELSE ledger[k][r]]]
  /\ exit' = IF NoProducer(ledger') THEN "recensus" ELSE "idle"
  /\ UNCHANGED <<tenant, object, requests, wipe, authority, janitor, faults>>
Census ==
  /\ exit = "census"
  /\ ledger' = Move(All, "expired", "armed")
  /\ exit' = IF NoProducer(ledger') THEN "recensus" ELSE "idle"
  /\ UNCHANGED <<tenant, object, requests, wipe, authority, janitor, faults>>

Recensus ==
  /\ exit = "recensus"
  /\ exit' = IF NoProducer(ledger) THEN "docs" ELSE "idle"
  /\ UNCHANGED <<tenant, ledger, object, requests, wipe, authority, janitor, faults>>

\* Everything listed under the prefix is deleted; a failure ends the command.
SweepPrefix(p, next) ==
  /\ Exiting(p, next)
  /\ object' = object \ Prefix(p)
  /\ UNCHANGED <<tenant, ledger, requests, wipe, authority, janitor, faults>>

SweepFails(p) ==
  /\ Exiting(p, "idle")
  /\ \E some \in SUBSET (object \cap Prefix(p)) :
       some # object \cap Prefix(p) /\ object' = object \ some
  /\ UNCHANGED <<tenant, ledger, requests, wipe, authority, janitor, faults>>

\* An entry is marked once its object is seen to be gone.
SweepLedger ==
  /\ Exiting("ledger", "idle")
  /\ ledger' = Move({p \in All : p[1] \notin object}, "armed", "swept")
  /\ UNCHANGED <<tenant, object, requests, wipe, authority, janitor, faults>>

\* Both prefixes are listed before the transaction.
Relist(p, next) ==
  /\ exit = IF p = "docs" THEN "idle" ELSE "relist"
  /\ tenant = "Exiting"
  /\ object \cap Prefix(p) = {}
  /\ exit' = next
  /\ UNCHANGED <<tenant, ledger, object, requests, wipe, authority, janitor, faults>>

RelistRefused ==
  /\ Exiting("relist", "idle") /\ object \cap Prefix("intake") # {}
  /\ UNCHANGED <<tenant, ledger, object, requests, wipe, authority, janitor, faults>>

EverythingSwept == \A k \in Uploads : row[k] = "none" /\ ~InLedger(k)

Finalize ==
  /\ Exiting("relisted", "idle") /\ EverythingSwept
  /\ tenant' = "Gone" /\ link' = "Gone"
  /\ authority' = [NoAuthority EXCEPT !.armed = TRUE]
  /\ UNCHANGED <<lease, upload, row, ledger, object, late, wipe, janitor, faults>>

FinalizeRefused ==
  /\ Exiting("relisted", "idle") /\ ~EverythingSwept
  /\ UNCHANGED <<tenant, ledger, object, requests, wipe, authority, janitor, faults>>

\* The command is stopped, fails, or times out waiting for leases.
ExitStops ==
  /\ exit # "idle" /\ faults < MaxFaults
  /\ exit' = "idle" /\ faults' = faults + 1
  /\ UNCHANGED <<tenant, ledger, object, requests, wipe, authority, janitor>>

\* A command that runs goes on; which one is run is the operator's choice.
ExitRuns ==
  \/ LeasesDrained \/ EraseData \/ Census \/ Recensus \/ SweepLedger
  \/ SweepPrefix("docs", "intake") \/ SweepPrefix("intake", "ledger")
  \/ Relist("intake", "relisted") \/ RelistRefused \/ Finalize \/ FinalizeRefused

ExitStep ==
  \/ PhaseZero \/ Relist("docs", "relist") \/ ExitRuns \/ ExitStops
  \/ SweepFails("docs") \/ SweepFails("intake")

-----------------------------------------------------------------------------
(* The janitor, once the identity is gone.                                  *)

Pass(j, step) == [janitor EXCEPT ![j].step = step]

LockUntilClean(j) ==
  /\ authority.armed /\ authority.result # "clean"
  /\ janitor[j].step = "idle"
  /\ \A i \in Janitors : janitor[i].step # "listing"
  /\ janitor' = [janitor EXCEPT ![j] = [NoPass EXCEPT !.step = "listing",
                                                      !.pending = authority.pending]]
  /\ UNCHANGED <<tenant, ledger, object, requests, exit, wipe, authority, faults>>
\* FOR UPDATE SKIP LOCKED: one pass at a time is in its first phase.
Lock(j) ==
  /\ authority.armed
  /\ janitor[j].step = "idle"
  /\ \A i \in Janitors : janitor[i].step # "listing"
  /\ janitor' = [janitor EXCEPT ![j] = [NoPass EXCEPT !.step = "listing",
                                                      !.pending = authority.pending]]
  /\ UNCHANGED <<tenant, ledger, object, requests, exit, wipe, authority, faults>>

\* Lists until nothing new turns up.
Catch(j) ==
  /\ janitor[j].step = "listing"
  /\ object \ janitor[j].pending # {}
  /\ janitor' = [janitor EXCEPT ![j].pending = @ \cup object]
  /\ UNCHANGED <<tenant, ledger, object, requests, exit, wipe, authority, faults>>

\* The catch is committed before a byte is destroyed.
CommitCatchUnsaved(j) ==
  /\ janitor[j].step = "listing" /\ object \subseteq janitor[j].pending
  /\ authority' = [authority EXCEPT !.count = @ + Cardinality(janitor[j].pending \ authority.pending)]
  /\ janitor' = Pass(j, "destroying")
  /\ UNCHANGED <<tenant, ledger, object, requests, exit, wipe, faults>>
CommitCatch(j) ==
  /\ janitor[j].step = "listing" /\ object \subseteq janitor[j].pending
  /\ authority' = [authority EXCEPT !.pending = janitor[j].pending,
       !.count = @ + Cardinality(janitor[j].pending \ authority.pending)]
  /\ janitor' = Pass(j, "destroying")
  /\ UNCHANGED <<tenant, ledger, object, requests, exit, wipe, faults>>

Destroy(j) ==
  /\ janitor[j].step = "destroying"
  /\ \E k \in janitor[j].pending \ janitor[j].destroyed :
       /\ object' = object \ {k}
       /\ janitor' = [janitor EXCEPT ![j].destroyed = @ \cup {k}]
  /\ UNCHANGED <<tenant, ledger, requests, exit, wipe, authority, faults>>

\* A delete that fails ends the pass; it may have deleted all the same.
DestroyFails(j) ==
  /\ janitor[j].step = "destroying"
  /\ \E k \in janitor[j].pending \ janitor[j].destroyed : object' \in {object, object \ {k}}
  /\ janitor' = Pass(j, "confirming")
  /\ UNCHANGED <<tenant, ledger, requests, exit, wipe, authority, faults>>

Result(pass) ==
  IF pass.destroyed # {} THEN "stragglers_destroyed"
  ELSE IF pass.pending # {} THEN "incomplete" ELSE "clean"

ConfirmWhole(j) ==
  /\ \/ janitor[j].step = "confirming"
     \/ janitor[j].step = "destroying" /\ janitor[j].pending = janitor[j].destroyed
  /\ \A i \in Janitors : janitor[i].step # "listing"
  /\ authority' = [authority EXCEPT !.pending = {}, !.result = Result(janitor[j])]
  /\ janitor' = [janitor EXCEPT ![j] = NoPass]
  /\ UNCHANGED <<tenant, ledger, object, requests, exit, wipe, faults>>
Confirm(j) ==
  /\ \/ janitor[j].step = "confirming"
     \/ janitor[j].step = "destroying" /\ janitor[j].pending = janitor[j].destroyed
  /\ \A i \in Janitors : janitor[i].step # "listing"
  /\ authority' = [authority EXCEPT !.pending = @ \ janitor[j].destroyed,
                                    !.result = Result(janitor[j])]
  /\ janitor' = [janitor EXCEPT ![j] = NoPass]
  /\ UNCHANGED <<tenant, ledger, object, requests, exit, wipe, faults>>

\* The process stops, and what its transaction wrote is rolled back.
JanitorStops(j) ==
  /\ janitor[j].step # "idle" /\ faults < MaxFaults
  /\ janitor' = [janitor EXCEPT ![j] = NoPass] /\ faults' = faults + 1
  /\ UNCHANGED <<tenant, ledger, object, requests, exit, wipe, authority>>

\* A listing fails: the catch so far is committed all the same.
ListFails(j) ==
  /\ janitor[j].step = "listing" /\ faults < MaxFaults
  /\ authority' = [authority EXCEPT !.pending = janitor[j].pending, !.result = "failed",
       !.count = @ + Cardinality(janitor[j].pending \ authority.pending)]
  /\ janitor' = [janitor EXCEPT ![j] = NoPass] /\ faults' = faults + 1
  /\ UNCHANGED <<tenant, ledger, object, requests, exit, wipe>>

JanitorRuns(j) == Lock(j) \/ Catch(j) \/ CommitCatch(j) \/ Destroy(j) \/ Confirm(j)

Next ==
  \/ \E k \in Uploads : UploadStep(k) \/ Expire(k) \/ LeaseEnds(k)
  \/ ReviewStep \/ DrainStep \/ ExitStep
  \/ \E j \in Janitors : JanitorRuns(j) \/ DestroyFails(j) \/ JanitorStops(j) \/ ListFails(j)

Spec == Init /\ [][Next]_vars

\* Time passes and a PUT meets its deadline, a started command goes on, an
\* operator who has begun an exit runs both commands again until the tenant is
\* gone, the janitor's interval comes round, and storage does not refuse a
\* delete for ever.
Fairness ==
  /\ WF_vars(\E k \in Uploads : PutSucceeds(k) \/ PutFails(k) \/ Expire(k) \/ LeaseEnds(k))
  /\ WF_vars(ExitRuns)
  /\ SF_vars(PhaseZero /\ tenant = "Exiting") /\ SF_vars(Relist("docs", "relist"))
  /\ SF_vars(SweepPrefix("docs", "intake")) /\ SF_vars(SweepPrefix("intake", "ledger"))
  /\ \A j \in Janitors : WF_vars(JanitorRuns(j)) /\ SF_vars(Destroy(j))

FairSpec == Spec /\ Fairness

-----------------------------------------------------------------------------
(* Properties.                                                              *)

Steps == {"idle", "begun", "prepared", "putting", "stored", "copied", "failing", "cleaning", "done"}

\* Every row and every process has the shape its table or its code gives it.
TypeOK ==
  /\ tenant \in {"Active", "Exiting", "Gone"}
  /\ link \in {"Active", "Consumed", "Revoked", "Gone"}
  /\ lease \subseteq Guests
  /\ upload \in [Uploads -> [step: Steps, unsure: BOOLEAN]]
  /\ row \in [Uploads -> {"none", "Live", "Pending", "Promoted", "Rejected"}]
  /\ ledger \in [Uploads -> [Reasons -> Entries]]
  /\ \A k \in Uploads, r \in Reasons \ {"compensation"} :
       ledger[k][r] \in {"none", "armed", "swept"}
  /\ object \subseteq Uploads
  /\ late \in [Uploads -> {"no", "pending", "appeared"}]
  /\ authority.armed \in BOOLEAN /\ authority.pending \subseteq Uploads
  /\ faults \in 0..MaxFaults

\* What a row owns is there: no drain, sweep or late cleanup deletes it, and no
\* row is committed over bytes already deleted.  The exception is the upload
\* whose own commit went through without its knowing, and which then cleans up
\* (writeTx.ts, resolveCompensationIntent; stores.ts, claimAndInsert).
OwnedBytesExist ==
  \A k \in Uploads : Owned(k) => k \in object \/ upload[k].unsure

\* In a tenant at work every object is owned or is in the wipe ledger still,
\* whatever failed or died; the exception is one the provider published after
\* its deletion had been verified (0076).
NothingForgotten ==
  \A k \in object : tenant = "Active" => Owned(k) \/ InLedger(k) \/ late[k] = "appeared"

\* The identity goes if and only if the janitor is put in charge, and when it
\* goes nothing is left: no row, no open entry, and no object but those the
\* provider publishes later (finalizeTenantExit).
NothingLeftBehind ==
  /\ tenant = "Gone" <=> authority.armed
  /\ tenant = "Gone" =>
       /\ \A k \in Uploads : row[k] = "none" /\ ~InLedger(k)
       /\ \A k \in object : late[k] = "appeared"

\* A straggler is counted once, whichever passes catch it, fail on it or die
\* over it (0086, the pending_destroy outbox).
CountedOnce == authority.count <= Cardinality({k \in Uploads : late[k] = "appeared"})

\* A pass destroys no object whose catch is not on record (erasureJanitor.ts,
\* the commit between its phases), another pass confirming its own or not.
CaughtBeforeDestroyed ==
  [][janitor' # janitor => object \ object' \subseteq authority.pending]_vars

\* A key leaves the record only when its object has been destroyed, whoever put
\* it there: a confirmation neither forgets what its own pass failed to delete
\* nor takes off what another pass has caught since (erasureJanitor.ts, "a key
\* leaves pending_destroy ONLY after ITS delete").
OnlyDestroyedLeaves ==
  [][authority.armed => (authority.pending \ authority'.pending) \cap object' = {}]_vars

\* An exit once begun can always be brought to its end.
ExitCompletes == tenant = "Exiting" ~> tenant = "Gone"

\* Whatever appears in an erased tenant's storage is destroyed, and is taken off
\* the record.  So a `clean` that is recorded against keys still pending ("a
\* false statement stored permanently", erasureJanitor.ts) does not last; that it
\* is never recorded is not true: a pass commits its catch over an earlier
\* pass's `clean`, and a pass that saw nothing reports after another's catch.
StragglersDestroyed ==
  tenant = "Gone" /\ (object # {} \/ authority.pending # {})
    ~> object = {} /\ authority.pending = {}
=============================================================================
