--------------------------- MODULE TenantExitProofs ---------------------------
(***************************************************************************)
(* Proofs about TenantExit: whatever the uploads, the copies, the janitor  *)
(* processes and the number of stops.                                      *)
(*                                                                         *)
(* An object is answered for by its row or by an entry of the ledger, and  *)
(* an upload's intent says which: it is resolved exactly once, by the      *)
(* transaction that writes the row, and an entry for any other reason can  *)
(* exist only behind a resolved intent.  What a drain has listed is armed  *)
(* or swept, so no request can own it any more; what it has deleted comes  *)
(* back only if the provider publishes it late.                            *)
(***************************************************************************)
EXTENDS TenantExit, FiniteSetTheorems, TLAPS

-----------------------------------------------------------------------------
(* The invariant.                                                           *)

ExitSteps == {"idle", "draining", "data", "census", "recensus", "docs", "intake", "ledger",
              "relist", "relisted"}
PassSteps == {"idle", "listing", "destroying", "confirming"}
Results   == {"none", "clean", "incomplete", "stragglers_destroyed", "failed"}
Passes    == [step: PassSteps, pending: SUBSET Uploads, destroyed: SUBSET Uploads]

Typed ==
  /\ TypeOK
  /\ exit \in ExitSteps
  /\ wipe \in [step: {"idle", "armed", "listed", "deleted"}, listed: SUBSET All, deleted: SUBSET All]
  /\ authority \in [armed: BOOLEAN, pending: SUBSET Uploads, count: Nat, result: Results]
  /\ janitor \in [Janitors -> Passes]

\* What a request's step says of its intent, and what the intent says of the
\* row and of the other entries.
IntentSound ==
  \A k \in Uploads :
    /\ upload[k].step \in {"idle", "begun"} => Intent(k) = "none"
    /\ upload[k].step \in {"prepared", "stored"} => Intent(k) # "resolved"
    /\ upload[k].step = "putting" => Intent(k) = "prepared"
    /\ upload[k].step \in {"failing", "cleaning"} => upload[k].unsure \/ Intent(k) # "resolved"
    /\ upload[k].step \in {"idle", "begun", "prepared", "putting"} => late[k] = "no"
    /\ row[k] # "none" => Intent(k) = "resolved"
    /\ \A r \in Reasons \ {"compensation"} : ledger[k][r] # "none" => Intent(k) = "resolved"

\* An entry for a reason of the review is there only when the review is.
ReviewSound ==
  \A k \in Uploads :
    /\ ledger[k]["intake_reject"] # "none" => row[k] \in {"Rejected", "none"}
    /\ ledger[k]["quarantine_cleanup"] # "none" => row[k] \in {"Promoted", "none"}

CopySound ==
  \A k \in Copies :
    /\ upload[k].step # "idle" /\ tenant = "Active" => row[Source[k]] = "Promoted"
    /\ upload[k].step = "copied" => ledger[Source[k]]["quarantine_cleanup"] # "none"

CopiedIsCopy == \A k \in Uploads : upload[k].step = "copied" => k \in Copies

\* What the drain holds.
WipeSound ==
  /\ \A p \in wipe.listed : p[2] # "exit" /\ ledger[p[1]][p[2]] \in {"armed", "swept"}
  /\ wipe.deleted \subseteq wipe.listed
  /\ \A p \in wipe.deleted : p[1] \notin object \/ late[p[1]] = "appeared"

Swept == {"census", "recensus", "docs", "intake", "ledger"}

ExitSound ==
  /\ exit # "idle" => tenant = "Exiting"
  /\ exit \in Swept => \A k \in Uploads : row[k] = "none"

StoredIsThere ==
  \A k \in Uploads :
    upload[k].step = "stored" /\ tenant = "Active" /\ Intent(k) \in Prepared => k \in object

Answered(k) == InLedger(k) \/ late[k] = "appeared"

RelistSound ==
  /\ exit = "relist" => \A k \in object \cap Prefix("docs") : Answered(k)
  /\ exit = "relisted" => \A k \in object : Answered(k)

Appeared == {k \in Uploads : late[k] = "appeared"}

JanitorSound ==
  /\ authority.pending \subseteq Appeared
  /\ \A j \in Janitors :
       LET pass == janitor[j] IN
       /\ pass.step # "idle" => authority.armed
       /\ pass.step = "idle" => pass = NoPass
       /\ pass.pending \subseteq Appeared
       /\ pass.destroyed \subseteq pass.pending \ object
       /\ pass.step = "listing" => /\ authority.pending \subseteq pass.pending
                                   /\ \A i \in Janitors \ {j} : janitor[i].step # "listing"
       /\ pass.step \in {"destroying", "confirming"} =>
            pass.pending \cap object \subseteq authority.pending

\* Stragglers that may yet be counted: in storage or in a pass's catch, but
\* not on record.
Uncounted ==
  {k \in Appeared \ authority.pending :
     k \in object \/ \E j \in Janitors : janitor[j].step = "listing" /\ k \in janitor[j].pending}

CountSound == authority.count <= Cardinality(Appeared \ Uncounted)

IInv ==
  /\ Typed /\ IntentSound /\ ReviewSound /\ CopySound /\ CopiedIsCopy /\ WipeSound
  /\ ExitSound /\ StoredIsThere /\ RelistSound /\ JanitorSound /\ CountSound
  /\ OwnedBytesExist /\ NothingForgotten /\ NothingLeftBehind

-----------------------------------------------------------------------------
(* What the small operators do.                                             *)

LEMMA UploadsTyped == Guests \subseteq Uploads /\ Copies \subseteq Uploads
                      /\ \A c \in Copies : Source[c] \in Guests \ {c}
BY SourceAssumption DEF Uploads, Copies

\* A request moves to another step and stays as sure of its outcome.
LEMMA GotoEffect ==
  ASSUME Typed, NEW k \in Uploads, NEW s \in Steps, Goto(k, s)
  PROVE  /\ upload' \in [Uploads -> [step: Steps, unsure: BOOLEAN]]
         /\ upload'[k].step = s /\ upload'[k].unsure = upload[k].unsure
         /\ \A i \in Uploads \ {k} : upload'[i] = upload[i]
<1> DEFINE new == [step |-> s, unsure |-> upload[k].unsure]
<1>1. upload[k] \in [step: Steps, unsure: BOOLEAN]  BY DEF Typed, TypeOK
<1>2. [upload[k] EXCEPT !.step = s] = new /\ new \in [step: Steps, unsure: BOOLEAN]  BY <1>1
<1>3. upload' = [upload EXCEPT ![k] = new]  BY <1>2 DEF Goto
<1> QED  BY <1>2, <1>3 DEF Typed, TypeOK

\* What the type says of a ledger.
LedgerTyped(l) ==
  /\ l \in [Uploads -> [Reasons -> Entries]]
  /\ \A k \in Uploads, r \in Reasons \ {"compensation"} : l[k][r] \in {"none", "armed", "swept"}

\* One entry of the ledger is written.
LEMMA SetEffect ==
  ASSUME Typed, NEW k \in Uploads, NEW r \in Reasons, NEW s \in Entries,
         r = "compensation" \/ s = "armed",
         ledger' = Set(k, r, s)
  PROVE  /\ LedgerTyped(ledger')
         /\ ledger'[k][r] = s
         /\ \A i \in Uploads, q \in Reasons : i # k \/ q # r => ledger'[i][q] = ledger[i][q]
<1> DEFINE new == [ledger[k] EXCEPT ![r] = s]
<1>1. ledger[k] \in [Reasons -> Entries]  BY DEF Typed, TypeOK
<1>2. new \in [Reasons -> Entries] /\ new[r] = s /\ \A q \in Reasons \ {r} : new[q] = ledger[k][q]
  BY <1>1
<1>3. ledger' = [ledger EXCEPT ![k] = new]  BY DEF Set
<1> HIDE DEF new
<1>4. ledger' \in [Uploads -> [Reasons -> Entries]]  BY <1>2, <1>3 DEF Typed, TypeOK
<1>5. ledger'[k] = new /\ \A i \in Uploads \ {k} : ledger'[i] = ledger[i]
  BY <1>3 DEF Typed, TypeOK
<1>6. /\ ledger'[k][r] = s
      /\ \A i \in Uploads, q \in Reasons : i # k \/ q # r => ledger'[i][q] = ledger[i][q]
  BY <1>2, <1>5
<1>7. \A i \in Uploads, q \in Reasons \ {"compensation"} :
        ledger[i][q] \in {"none", "armed", "swept"}
  BY DEF Typed, TypeOK
<1>8. LedgerTyped(ledger')
  <2> SUFFICES ASSUME NEW i \in Uploads, NEW q \in Reasons \ {"compensation"}
               PROVE  ledger'[i][q] \in {"none", "armed", "swept"}
    BY <1>4 DEF LedgerTyped
  <2> QED  BY <1>6, <1>7
<1> QED  BY <1>6, <1>8

\* Entries move on together.
MovedTo(pairs, from, to) ==
  \A i \in Uploads, q \in Reasons :
    ledger'[i][q] = IF <<i, q>> \in pairs /\ ledger[i][q] = from THEN to ELSE ledger[i][q]

LEMMA MoveEffect ==
  ASSUME Typed, NEW pairs, NEW from, NEW to \in {"armed", "swept"}, ledger' = Move(pairs, from, to)
  PROVE  LedgerTyped(ledger') /\ MovedTo(pairs, from, to)
<1> DEFINE after(i, q) == IF <<i, q>> \in pairs /\ ledger[i][q] = from THEN to
                          ELSE ledger[i][q]
<1>1. \A i \in Uploads, q \in Reasons : ledger[i][q] \in Entries /\ after(i, q) \in Entries
  BY DEF Typed, TypeOK, Entries, Unswept
<1>2. \A i \in Uploads, q \in Reasons \ {"compensation"} : after(i, q) \in {"none", "armed", "swept"}
  BY DEF Typed, TypeOK
<1>3. ledger' = [i \in Uploads |-> [q \in Reasons |-> after(i, q)]]  BY DEF Move
<1> HIDE DEF after
<1>4. \A i \in Uploads, q \in Reasons : ledger'[i][q] = after(i, q)  BY <1>3
<1>5. ledger' \in [Uploads -> [Reasons -> Entries]]  BY <1>1, <1>3
<1>6. LedgerTyped(ledger')  BY <1>2, <1>4, <1>5 DEF LedgerTyped
<1> QED  BY <1>4, <1>6 DEF after, MovedTo

\* The transaction that writes the owning row: it resolves the intent and
\* hands the source of a copy to the drain.
LEMMA RegisterEffect ==
  ASSUME Typed, NEW k \in Uploads, Register(k)
  PROVE  /\ LedgerTyped(ledger')
         /\ \A i \in Uploads, r \in Reasons :
              ledger'[i][r] = IF i = k /\ r = "compensation" THEN "resolved"
                              ELSE IF k \in Copies /\ i = Source[k] /\ r = "quarantine_cleanup"
                              THEN "armed" ELSE ledger[i][r]
         /\ upload' \in [Uploads -> [step: Steps, unsure: BOOLEAN]]
         /\ \/ upload'[k].step = "failing" /\ upload'[k].unsure
            \/ upload'[k].step = "copied" /\ k \in Copies
            \/ upload'[k].step = "done"
         /\ \A i \in Uploads \ {k} : upload'[i] = upload[i]
         /\ row' \in [Uploads -> {"none", "Live", "Pending", "Promoted", "Rejected"}]
         /\ row'[k] = IF k \in Guests THEN "Pending" ELSE "Live"
         /\ \A i \in Uploads \ {k} : row'[i] = row[i]
<1> DEFINE after(i, r) == IF i = k /\ r = "compensation" THEN "resolved"
                          ELSE IF k \in Copies /\ i = Source[k] /\ r = "quarantine_cleanup"
                          THEN "armed" ELSE ledger[i][r]
<1>1. \A i \in Uploads, q \in Reasons : after(i, q) \in Entries
  BY DEF Typed, TypeOK, Entries, Unswept
<1>2. \A i \in Uploads, q \in Reasons \ {"compensation"} : after(i, q) \in {"none", "armed", "swept"}
  BY DEF Typed, TypeOK
<1>3. ledger' = [i \in Uploads |-> [q \in Reasons |-> after(i, q)]]  BY DEF Register
<1> HIDE DEF after
<1>4. \A i \in Uploads, q \in Reasons : ledger'[i][q] = after(i, q)  BY <1>3
<1>5. ledger' \in [Uploads -> [Reasons -> Entries]]  BY <1>1, <1>3
<1>6. LedgerTyped(ledger')  BY <1>2, <1>4, <1>5 DEF LedgerTyped
<1>7. PICK unsure \in BOOLEAN :
        upload' = [upload EXCEPT ![k].step = IF unsure THEN "failing"
                                             ELSE IF k \in Copies THEN "copied" ELSE "done",
                                 ![k].unsure = unsure]
  BY DEF Register
<1> DEFINE s == IF unsure THEN "failing" ELSE IF k \in Copies THEN "copied" ELSE "done"
           new == [step |-> s, unsure |-> unsure]
<1>8. s \in Steps /\ new \in [step: Steps, unsure: BOOLEAN]  BY DEF Steps
<1>9. upload' = [upload EXCEPT ![k] = new]
  <2>1. upload[k] \in [step: Steps, unsure: BOOLEAN]  BY DEF Typed, TypeOK
  <2> DEFINE mid == [step |-> s, unsure |-> upload[k].unsure]
  <2>2. [upload[k] EXCEPT !.step = s] = mid  BY <2>1
  <2>3. [mid EXCEPT !.unsure = unsure] = new  OBVIOUS
  <2> HIDE DEF mid, new
  <2>4. [[upload[k] EXCEPT !.step = s] EXCEPT !.unsure = unsure] = new  BY <2>2, <2>3
  <2> QED  BY <1>7, <2>4 DEF Typed, TypeOK
<1>10. /\ upload' \in [Uploads -> [step: Steps, unsure: BOOLEAN]]
       /\ upload'[k] = new
       /\ \A i \in Uploads \ {k} : upload'[i] = upload[i]
  BY <1>8, <1>9 DEF Typed, TypeOK
<1>11. /\ row' \in [Uploads -> {"none", "Live", "Pending", "Promoted", "Rejected"}]
       /\ row'[k] = IF k \in Guests THEN "Pending" ELSE "Live"
       /\ \A i \in Uploads \ {k} : row'[i] = row[i]
  BY DEF Typed, TypeOK, Register
<1>12. \/ upload'[k].step = "failing" /\ upload'[k].unsure
       \/ upload'[k].step = "copied" /\ k \in Copies
       \/ upload'[k].step = "done"
  BY <1>10
<1>13. \A i \in Uploads, r \in Reasons :
         ledger'[i][r] = IF i = k /\ r = "compensation" THEN "resolved"
                         ELSE IF k \in Copies /\ i = Source[k] /\ r = "quarantine_cleanup"
                         THEN "armed" ELSE ledger[i][r]
  BY <1>4 DEF after
<1> HIDE DEF s, new
<1> QED  BY <1>6, <1>10, <1>11, <1>12, <1>13

\* What rows own is handed to the drain of the exit, and the rows are erased.
LEMMA EraseEffect ==
  ASSUME Typed, EraseData
  PROVE  /\ LedgerTyped(ledger')
         /\ \A i \in Uploads, r \in Reasons :
              ledger'[i][r] = IF r = "exit" /\ ledger[i][r] = "none" /\ row[i] \in {"Live", "Pending"}
                              THEN "armed" ELSE ledger[i][r]
         /\ row' = [k \in Uploads |-> "none"]
<1> DEFINE after(i, r) == IF r = "exit" /\ ledger[i][r] = "none" /\ row[i] \in {"Live", "Pending"}
                          THEN "armed" ELSE ledger[i][r]
<1>1. \A i \in Uploads, q \in Reasons : after(i, q) \in Entries
  BY DEF Typed, TypeOK, Entries, Unswept
<1>2. \A i \in Uploads, q \in Reasons \ {"compensation"} : after(i, q) \in {"none", "armed", "swept"}
  BY DEF Typed, TypeOK
<1>3. \A i \in Uploads :
        (IF row[i] \in {"Live", "Pending"} /\ ledger[i]["exit"] = "none"
         THEN [ledger[i] EXCEPT !["exit"] = "armed"] ELSE ledger[i])
        = [q \in Reasons |-> after(i, q)]
  <2> SUFFICES ASSUME NEW i \in Uploads
               PROVE  (IF row[i] \in {"Live", "Pending"} /\ ledger[i]["exit"] = "none"
                       THEN [ledger[i] EXCEPT !["exit"] = "armed"] ELSE ledger[i])
                      = [q \in Reasons |-> after(i, q)]
    OBVIOUS
  <2>1. ledger[i] \in [Reasons -> Entries] /\ "exit" \in Reasons
    BY DEF Typed, TypeOK, Reasons
  <2> QED  BY <2>1
<1>4. ledger' = [i \in Uploads |-> [q \in Reasons |-> after(i, q)]]  BY <1>3 DEF EraseData
<1> HIDE DEF after
<1>5. \A i \in Uploads, q \in Reasons : ledger'[i][q] = after(i, q)  BY <1>4
<1>6. ledger' \in [Uploads -> [Reasons -> Entries]]  BY <1>1, <1>4
<1>7. LedgerTyped(ledger')  BY <1>2, <1>5, <1>6 DEF LedgerTyped
<1> QED  BY <1>5, <1>7 DEF after, EraseData

-----------------------------------------------------------------------------
(* What the janitor's steps do.                                             *)

Authorities == [armed: BOOLEAN, pending: SUBSET Uploads, count: Nat, result: Results]

\* A process's pass is replaced.
PassIs(j, new) ==
  /\ janitor' \in [Janitors -> Passes]
  /\ janitor'[j] = new
  /\ \A i \in Janitors \ {j} : janitor'[i] = janitor[i]

LEMMA PassSet ==
  ASSUME Typed, NEW j \in Janitors, NEW new \in Passes, janitor' = [janitor EXCEPT ![j] = new]
  PROVE  PassIs(j, new)
BY DEF Typed, PassIs

LEMMA NoPassTyped == NoPass \in Passes
BY DEF NoPass, Passes, PassSteps

LEMMA StepSet ==
  ASSUME Typed, NEW j \in Janitors, NEW s \in PassSteps, janitor' = Pass(j, s)
  PROVE  PassIs(j, [step |-> s, pending |-> janitor[j].pending,
                    destroyed |-> janitor[j].destroyed])
<1> DEFINE new == [step |-> s, pending |-> janitor[j].pending, destroyed |-> janitor[j].destroyed]
<1>1. janitor[j] \in Passes  BY DEF Typed
<1>2. [janitor[j] EXCEPT !.step = s] = new /\ new \in Passes  BY <1>1 DEF Passes
<1>3. janitor' = [janitor EXCEPT ![j] = new]  BY <1>2 DEF Pass
<1> HIDE DEF new
<1>4. PassIs(j, new)  BY <1>2, <1>3, PassSet
<1> QED  BY <1>4 DEF new

LEMMA LockEffect ==
  ASSUME Typed, NEW j \in Janitors, Lock(j)
  PROVE  PassIs(j, [step |-> "listing", pending |-> authority.pending, destroyed |-> {}])
<1> DEFINE new == [step |-> "listing", pending |-> authority.pending, destroyed |-> {}]
<1>1. [[NoPass EXCEPT !.step = "listing"] EXCEPT !.pending = authority.pending] = new
  <2> DEFINE mid == [step |-> "listing", pending |-> {}, destroyed |-> {}]
  <2>1. [NoPass EXCEPT !.step = "listing"] = mid  BY DEF NoPass
  <2>2. [mid EXCEPT !.pending = authority.pending] = new  OBVIOUS
  <2> HIDE DEF mid, new
  <2> QED  BY <2>1, <2>2
<1>2. new \in Passes  BY DEF Typed, Passes, PassSteps
<1> HIDE DEF new
<1>3. janitor' = [janitor EXCEPT ![j] = new]  BY <1>1 DEF Lock, NoPass
<1>4. PassIs(j, new)  BY <1>2, <1>3, PassSet
<1> QED  BY <1>4 DEF new

LEMMA CatchEffect ==
  ASSUME Typed, NEW j \in Janitors, Catch(j)
  PROVE  PassIs(j, [step |-> "listing", pending |-> janitor[j].pending \cup object,
                    destroyed |-> janitor[j].destroyed])
<1> DEFINE new == [step |-> "listing", pending |-> janitor[j].pending \cup object,
                   destroyed |-> janitor[j].destroyed]
<1>1. janitor[j] \in Passes /\ janitor[j].step = "listing" /\ object \subseteq Uploads
  BY DEF Typed, TypeOK, Catch
<1>2. [janitor[j] EXCEPT !.pending = @ \cup object] = new /\ new \in Passes  BY <1>1 DEF Passes
<1>3. janitor' = [janitor EXCEPT ![j] = new]  BY <1>2 DEF Catch
<1> HIDE DEF new
<1>4. PassIs(j, new)  BY <1>2, <1>3, PassSet
<1> QED  BY <1>4 DEF new

LEMMA DestroyEffect ==
  ASSUME Typed, NEW j \in Janitors, NEW k \in Uploads, janitor[j].step = "destroying",
         janitor' = [janitor EXCEPT ![j].destroyed = @ \cup {k}]
  PROVE  PassIs(j, [step |-> "destroying", pending |-> janitor[j].pending,
                    destroyed |-> janitor[j].destroyed \cup {k}])
<1> DEFINE new == [step |-> "destroying", pending |-> janitor[j].pending,
                   destroyed |-> janitor[j].destroyed \cup {k}]
<1>1. janitor[j] \in Passes  BY DEF Typed
<1>2. [janitor[j] EXCEPT !.destroyed = @ \cup {k}] = new /\ new \in Passes  BY <1>1 DEF Passes
<1>3. janitor' = [janitor EXCEPT ![j] = new]  BY <1>2
<1> HIDE DEF new
<1>4. PassIs(j, new)  BY <1>2, <1>3, PassSet
<1> QED  BY <1>4 DEF new

\* The catch of a pass goes on record, and what is new in it is counted.
Recorded(j, result) ==
  authority' = [armed |-> authority.armed, pending |-> janitor[j].pending,
                count |-> authority.count
                          + Cardinality(janitor[j].pending \ authority.pending),
                result |-> result]

LEMMA CountTyped ==
  ASSUME Typed, NEW j \in Janitors
  PROVE  Cardinality(janitor[j].pending \ authority.pending) \in Nat
<1>1. janitor[j].pending \ authority.pending \subseteq Uploads  BY DEF Typed, Passes
<1> QED  BY <1>1, UploadsAssumption, FS_Subset, FS_CardinalityType

LEMMA CommitEffect ==
  ASSUME Typed, NEW j \in Janitors, CommitCatch(j)
  PROVE  Recorded(j, authority.result)
<1> DEFINE n == authority.count + Cardinality(janitor[j].pending \ authority.pending)
           mid == [armed |-> authority.armed, pending |-> janitor[j].pending,
                   count |-> authority.count, result |-> authority.result]
           new == [armed |-> authority.armed, pending |-> janitor[j].pending,
                   count |-> n, result |-> authority.result]
<1>1. authority \in Authorities  BY DEF Typed, Authorities
<1>2. [authority EXCEPT !.pending = janitor[j].pending] = mid  BY <1>1 DEF Authorities
<1> HIDE DEF n
<1>3. [mid EXCEPT !.count = n] = new  OBVIOUS
<1> HIDE DEF mid, new
<1>4. authority' = new
  <2>1. authority' = [[authority EXCEPT !.pending = janitor[j].pending] EXCEPT !.count = n]
    BY <1>1 DEF CommitCatch, n, Authorities
  <2> QED  BY <1>2, <1>3, <2>1
<1> QED  BY <1>4 DEF new, n, Recorded

LEMMA ListFailsEffect ==
  ASSUME Typed, NEW j \in Janitors, ListFails(j)
  PROVE  Recorded(j, "failed")
<1> DEFINE n == authority.count + Cardinality(janitor[j].pending \ authority.pending)
           mid == [armed |-> authority.armed, pending |-> janitor[j].pending,
                   count |-> authority.count, result |-> authority.result]
           mid2 == [armed |-> authority.armed, pending |-> janitor[j].pending,
                    count |-> authority.count, result |-> "failed"]
           new == [armed |-> authority.armed, pending |-> janitor[j].pending,
                   count |-> n, result |-> "failed"]
<1>1. authority \in Authorities  BY DEF Typed, Authorities
<1>2. [authority EXCEPT !.pending = janitor[j].pending] = mid  BY <1>1 DEF Authorities
<1>3. [mid EXCEPT !.result = "failed"] = mid2  OBVIOUS
<1> HIDE DEF n
<1>4. [mid2 EXCEPT !.count = n] = new  OBVIOUS
<1> HIDE DEF mid, mid2, new
<1>5. authority' = new
  <2>1. authority' = [[[authority EXCEPT !.pending = janitor[j].pending]
                         EXCEPT !.result = "failed"] EXCEPT !.count = n]
    BY <1>1 DEF ListFails, n, Authorities
  <2> QED  BY <1>2, <1>3, <1>4, <2>1
<1> QED  BY <1>5 DEF new, n, Recorded

\* What a pass destroyed is taken off the record.
Confirmed(j) ==
  authority' = [armed |-> authority.armed, pending |-> authority.pending \ janitor[j].destroyed,
                count |-> authority.count, result |-> Result(janitor[j])]

LEMMA ConfirmEffect ==
  ASSUME Typed, NEW j \in Janitors, Confirm(j)
  PROVE  Confirmed(j)
<1> DEFINE left == authority.pending \ janitor[j].destroyed
           res == Result(janitor[j])
           mid == [armed |-> authority.armed, pending |-> left,
                   count |-> authority.count, result |-> authority.result]
           new == [armed |-> authority.armed, pending |-> left,
                   count |-> authority.count, result |-> res]
<1>1. authority \in Authorities  BY DEF Typed, Authorities
<1> HIDE DEF res, left
<1>2. [authority EXCEPT !.pending = left] = mid  BY <1>1 DEF Authorities
<1>3. [mid EXCEPT !.result = res] = new  OBVIOUS
<1> HIDE DEF mid, new
<1>4. authority' = new
  <2>1. authority' = [[authority EXCEPT !.pending = left] EXCEPT !.result = res]
    BY <1>1 DEF Confirm, left, res, Authorities
  <2> QED  BY <1>2, <1>3, <2>1
<1> QED  BY <1>4 DEF new, left, res, Confirmed

-----------------------------------------------------------------------------
(* Types.                                                                   *)

\* The type invariant in two halves: the objects, and those who clean up.
ObjectsTyped ==
  /\ tenant \in {"Active", "Exiting", "Gone"}
  /\ link \in {"Active", "Consumed", "Revoked", "Gone"}
  /\ lease \subseteq Guests
  /\ upload \in [Uploads -> [step: Steps, unsure: BOOLEAN]]
  /\ row \in [Uploads -> {"none", "Live", "Pending", "Promoted", "Rejected"}]
  /\ LedgerTyped(ledger)
  /\ object \subseteq Uploads
  /\ late \in [Uploads -> {"no", "pending", "appeared"}]

CleanersTyped ==
  /\ faults \in 0..MaxFaults
  /\ exit \in ExitSteps
  /\ wipe \in [step: {"idle", "armed", "listed", "deleted"}, listed: SUBSET All, deleted: SUBSET All]
  /\ authority \in Authorities
  /\ janitor \in [Janitors -> Passes]

LEMMA TypedAfter == ObjectsTyped' /\ CleanersTyped' => Typed'
BY DEF Typed, TypeOK, ObjectsTyped, CleanersTyped, Authorities, LedgerTyped

LEMMA InitTyped == Init => Typed
BY FaultsAssumption
DEF Init, Typed, TypeOK, Fresh, NoWipe, NoPass, NoAuthority, Steps, Entries, Unswept, Prepared,
    ExitSteps, Passes, PassSteps, Results, Reasons

LEMMA SameLedger ==
  ASSUME Typed, UNCHANGED ledger PROVE LedgerTyped(ledger')
BY DEF Typed, TypeOK, LedgerTyped

LEMMA StrayTyped ==
  ASSUME Typed, NEW k \in Uploads, Stray(k)
  PROVE  object' \subseteq Uploads /\ late' \in [Uploads -> {"no", "pending", "appeared"}]
BY DEF Typed, TypeOK, Stray

LEMMA UploadTyped ==
  ASSUME Typed, NEW k \in Uploads, UploadStep(k) \/ Expire(k) \/ LeaseEnds(k)
  PROVE  Typed'
<1>1. CleanersTyped'
  BY DEF UploadStep, Begin, Prepare, PutBegins, PutSucceeds, PutFails, Publish, Register, DropSource,
         RegisterFails, Arm, Clean, Die, Expire, LeaseEnds, cleaners, Typed, TypeOK, CleanersTyped,
         Authorities
<1>2. ObjectsTyped'
  <2>1. {"begun", "prepared", "done", "putting", "failing", "stored", "cleaning"} \subseteq Steps
        /\ {"prepared", "armed", "expired"} \subseteq Entries
        /\ "compensation" \in Reasons
    BY DEF Steps, Entries, Unswept, Prepared, Reasons
  <2> USE DEF Typed, TypeOK, ObjectsTyped
  <2>2. CASE Begin(k)  BY <2>1, <2>2, GotoEffect, SameLedger DEF Begin
  <2>3. CASE Prepare(k)
    BY <2>1, <2>3, GotoEffect, SameLedger, SetEffect DEF Prepare
  <2>4. CASE PutBegins(k)  BY <2>1, <2>4, GotoEffect, SameLedger DEF PutBegins
  <2>5. CASE PutSucceeds(k)  BY <2>1, <2>5, GotoEffect, SameLedger DEF PutSucceeds
  <2>6. CASE PutFails(k)  BY <2>1, <2>6, GotoEffect, SameLedger, StrayTyped DEF PutFails
  <2>7. CASE Publish(k)  BY <2>7, SameLedger DEF Publish
  <2>8. CASE Register(k)
    <3>1. LedgerTyped(ledger') /\ upload' \in [Uploads -> [step: Steps, unsure: BOOLEAN]]
          /\ row' \in [Uploads -> {"none", "Live", "Pending", "Promoted", "Rejected"}]
      BY <2>8, RegisterEffect
    <3>2. UNCHANGED <<tenant, lease, object, late>> /\ link' \in {link, "Consumed"}
      BY <2>8 DEF Register
    <3> QED  BY <3>1, <3>2
  <2>9. CASE DropSource(k)  BY <2>1, <2>9, GotoEffect, SameLedger DEF DropSource
  <2>10. CASE RegisterFails(k)  BY <2>1, <2>10, GotoEffect, SameLedger DEF RegisterFails
  <2>11. CASE Arm(k)
    <3>1. LedgerTyped(ledger')  BY <2>1, <2>11, SameLedger, SetEffect DEF Arm
    <3>2. \E s \in Steps : Goto(k, s)  BY <2>1, <2>11 DEF Arm
    <3>3. UNCHANGED <<tenant, link, lease, row, object, late>>  BY <2>11 DEF Arm
    <3> QED  BY <3>1, <3>2, <3>3, GotoEffect
  <2>12. CASE Clean(k)  BY <2>1, <2>12, GotoEffect, SameLedger DEF Clean
  <2>13. CASE Die(k)  BY <2>1, <2>13, GotoEffect, SameLedger, StrayTyped DEF Die
  <2>14. CASE Expire(k)  BY <2>1, <2>14, SetEffect DEF Expire, requests
  <2>15. CASE LeaseEnds(k)  BY <2>15, SameLedger DEF LeaseEnds
  <2> QED
    BY <2>2, <2>3, <2>4, <2>5, <2>6, <2>7, <2>8, <2>9, <2>10, <2>11, <2>12, <2>13, <2>14, <2>15
    DEF UploadStep
<1> QED  BY <1>1, <1>2, TypedAfter

LEMMA ReviewTyped == Typed /\ ReviewStep => Typed'
<1> SUFFICES ASSUME Typed, ReviewStep PROVE Typed'  OBVIOUS
<1>1. CleanersTyped'
  BY DEF ReviewStep, Promote, Reject, RevokeLink, cleaners, Typed, TypeOK, CleanersTyped, Authorities
<1>2. ObjectsTyped'
  <2>1. {"intake_reject"} \subseteq Reasons /\ "armed" \in Entries /\ Guests \subseteq Uploads
    BY UploadsTyped DEF Entries, Unswept, Reasons
  <2> USE DEF Typed, TypeOK, ObjectsTyped
  <2>2. ASSUME NEW k \in Guests, Promote(k) PROVE ObjectsTyped'
    BY <2>1, <2>2, SameLedger DEF Promote
  <2>3. ASSUME NEW k \in Guests, Reject(k) PROVE ObjectsTyped'
    BY <2>1, <2>3, SetEffect DEF Reject
  <2>4. CASE RevokeLink  BY <2>4, SameLedger DEF RevokeLink
  <2> QED  BY <2>2, <2>3, <2>4 DEF ReviewStep
<1> QED  BY <1>1, <1>2, TypedAfter

LEMMA DrainTyped == Typed /\ DrainStep => Typed'
<1> SUFFICES ASSUME Typed, DrainStep PROVE Typed'  OBVIOUS
<1>1. LedgerTyped(ledger')
  <2>1. CASE DrainArms  BY <2>1, MoveEffect DEF DrainArms
  <2>2. CASE DrainLists \/ DrainDeletes  BY <2>2, SameLedger DEF DrainLists, DrainDeletes
  <2>3. CASE DrainRecords  BY <2>3, MoveEffect, SameLedger DEF DrainRecords
  <2> QED  BY <2>1, <2>2, <2>3 DEF DrainStep
<1>2. object' \subseteq object /\ UNCHANGED <<tenant, requests, exit, authority, janitor, faults>>
  BY DEF DrainStep, DrainArms, DrainLists, DrainDeletes, DrainRecords
<1>3. wipe' \in [step: {"idle", "armed", "listed", "deleted"}, listed: SUBSET All, deleted: SUBSET All]
  <2>1. CASE DrainArms \/ DrainLists  BY <2>1 DEF DrainArms, DrainLists, NoWipe, ToWipe
  <2>2. CASE DrainDeletes
    <3>1. PICK gone \in SUBSET wipe.listed :
            wipe' = [wipe EXCEPT !.step = "deleted", !.deleted = gone]
      BY <2>2 DEF DrainDeletes
    <3> DEFINE mid == [step |-> "deleted", listed |-> wipe.listed, deleted |-> wipe.deleted]
               new == [step |-> "deleted", listed |-> wipe.listed, deleted |-> gone]
    <3>2. [wipe EXCEPT !.step = "deleted"] = mid  BY DEF Typed
    <3>3. [mid EXCEPT !.deleted = gone] = new  OBVIOUS
    <3>4. new \in [step: {"idle", "armed", "listed", "deleted"}, listed: SUBSET All, deleted: SUBSET All]
      BY DEF Typed
    <3> HIDE DEF mid, new
    <3>5. wipe' = [[wipe EXCEPT !.step = "deleted"] EXCEPT !.deleted = gone]  BY <3>1 DEF Typed
    <3> QED  BY <3>2, <3>3, <3>4, <3>5
  <2>3. CASE DrainRecords  BY <2>3 DEF DrainRecords, NoWipe
  <2> QED  BY <2>1, <2>2, <2>3 DEF DrainStep
<1>4. ObjectsTyped' /\ CleanersTyped'
  BY <1>1, <1>2, <1>3 DEF Typed, TypeOK, ObjectsTyped, CleanersTyped, Authorities, requests
<1> QED  BY <1>4, TypedAfter

LEMMA ExitTyped == Typed /\ ExitStep => Typed'
<1> SUFFICES ASSUME Typed, ExitStep PROVE Typed'  OBVIOUS
<1> USE DEF ExitStep, ExitRuns, Exiting
<1>1. LedgerTyped(ledger') /\ row' \in [Uploads -> {"none", "Live", "Pending", "Promoted", "Rejected"}]
  <2>1. CASE EraseData  BY <2>1, EraseEffect
  <2>2. CASE Census  BY <2>2, MoveEffect DEF Census, requests, Typed, TypeOK
  <2>3. CASE SweepLedger  BY <2>3, MoveEffect DEF SweepLedger, requests, Typed, TypeOK
  <2>4. CASE UNCHANGED <<ledger, row>>  BY <2>4, SameLedger DEF Typed, TypeOK
  <2> QED
    BY <2>1, <2>2, <2>3, <2>4
    DEF PhaseZero, LeasesDrained, Recensus, SweepPrefix, SweepFails, Relist, RelistRefused,
        Finalize, FinalizeRefused, ExitStops, requests
<1>2. /\ UNCHANGED <<lease, upload, late, wipe, janitor>>
      /\ object' \subseteq object
      /\ tenant' \in {tenant, "Exiting", "Gone"} /\ link' \in {link, "Revoked", "Gone"}
  BY DEF EraseData, Census, SweepLedger, PhaseZero, LeasesDrained, Recensus, SweepPrefix, SweepFails,
         Relist, RelistRefused, Finalize, FinalizeRefused, ExitStops, requests
<1>3. faults' \in 0..MaxFaults
  BY FaultsAssumption
  DEF EraseData, Census, SweepLedger, PhaseZero, LeasesDrained, Recensus, SweepPrefix, SweepFails,
      Relist, RelistRefused, Finalize, FinalizeRefused, ExitStops, requests, Typed, TypeOK
<1>4. exit' \in ExitSteps
  BY DEF EraseData, Census, SweepLedger, PhaseZero, LeasesDrained, Recensus, SweepPrefix, SweepFails,
         Relist, RelistRefused, Finalize, FinalizeRefused, ExitStops, requests, Typed, ExitSteps
<1>5. authority' \in Authorities
  <2>1. CASE Finalize  BY <2>1 DEF Finalize, Authorities, NoAuthority, Results
  <2>2. CASE UNCHANGED authority  BY <2>2 DEF Typed, Authorities
  <2> QED
    BY <2>1, <2>2
    DEF EraseData, Census, SweepLedger, PhaseZero, LeasesDrained, Recensus, SweepPrefix, SweepFails,
        Relist, RelistRefused, FinalizeRefused, ExitStops
<1>6. ObjectsTyped' /\ CleanersTyped'
  BY <1>1, <1>2, <1>3, <1>4, <1>5 DEF Typed, TypeOK, ObjectsTyped, CleanersTyped
<1> QED  BY <1>6, TypedAfter

JanitorStep(j) == JanitorRuns(j) \/ DestroyFails(j) \/ JanitorStops(j) \/ ListFails(j)

LEMMA JanitorTyped ==
  ASSUME Typed, NEW j \in Janitors, JanitorStep(j)
  PROVE  Typed'
<1> USE DEF JanitorStep, JanitorRuns
<1>1. /\ object' \subseteq object /\ UNCHANGED <<tenant, ledger, requests, exit, wipe>>
  BY DEF Lock, Catch, CommitCatch, Destroy, Confirm, DestroyFails, JanitorStops, ListFails
<1>2. faults' \in 0..MaxFaults
  BY FaultsAssumption
  DEF Lock, Catch, CommitCatch, Destroy, Confirm, DestroyFails, JanitorStops, ListFails, Typed, TypeOK
<1>3. janitor' \in [Janitors -> Passes]
  <2>1. {"destroying", "confirming"} \subseteq PassSteps  BY DEF PassSteps
  <2> USE DEF PassIs
  <2>2. CASE Lock(j)  BY <2>2, LockEffect
  <2>3. CASE Catch(j)  BY <2>3, CatchEffect
  <2>4. CASE CommitCatch(j)  BY <2>1, <2>4, StepSet DEF CommitCatch
  <2>5. CASE Destroy(j)
    <3>1. janitor[j].pending \subseteq Uploads  BY DEF Typed, Passes
    <3> QED  BY <2>5, <3>1, DestroyEffect DEF Destroy
  <2>6. CASE Confirm(j) \/ JanitorStops(j) \/ ListFails(j)
    BY <2>6, NoPassTyped, PassSet DEF Confirm, JanitorStops, ListFails
  <2>7. CASE DestroyFails(j)  BY <2>1, <2>7, StepSet DEF DestroyFails
  <2> QED  BY <2>2, <2>3, <2>4, <2>5, <2>6, <2>7
<1>4. authority' \in Authorities
  <2>1. authority \in Authorities /\ janitor[j].pending \subseteq Uploads
    BY DEF Typed, Authorities, Passes
  <2>2. Cardinality(janitor[j].pending \ authority.pending) \in Nat  BY CountTyped
  <2>3. CASE CommitCatch(j)
    BY <2>1, <2>2, <2>3, CommitEffect DEF Recorded, Authorities
  <2>4. CASE ListFails(j)
    BY <2>1, <2>2, <2>4, ListFailsEffect DEF Recorded, Authorities, Results
  <2>5. CASE Confirm(j)
    BY <2>1, <2>5, ConfirmEffect DEF Confirmed, Authorities, Results, Result
  <2>6. CASE UNCHANGED authority  BY <2>1, <2>6
  <2> QED
    BY <2>3, <2>4, <2>5, <2>6 DEF Lock, Catch, Destroy, DestroyFails, JanitorStops
<1>5. ObjectsTyped' /\ CleanersTyped'
  BY <1>1, <1>2, <1>3, <1>4, SameLedger DEF Typed, TypeOK, ObjectsTyped, CleanersTyped, requests
<1> QED  BY <1>5, TypedAfter

LEMMA NextTyped == Typed /\ [Next]_vars => Typed'
<1> SUFFICES ASSUME Typed, [Next]_vars PROVE Typed'  OBVIOUS
<1>1. CASE UNCHANGED vars  BY <1>1 DEF vars, Typed, TypeOK
<1>2. CASE Next
  BY <1>2, UploadTyped, ReviewTyped, DrainTyped, ExitTyped, JanitorTyped DEF Next, JanitorStep
<1> QED  BY <1>1, <1>2

-----------------------------------------------------------------------------
(* Objects, rows and ledger.                                                *)

ObjectsSound ==
  /\ IntentSound /\ ReviewSound /\ CopySound /\ CopiedIsCopy /\ WipeSound
  /\ StoredIsThere /\ OwnedBytesExist /\ NothingForgotten

\* A step that touches none of it, except that the tenant may stop working.
LEMMA Frame ==
  ASSUME Typed, ObjectsSound, UNCHANGED <<upload, row, ledger, object, late, wipe>>,
         tenant' = tenant \/ tenant' # "Active"
  PROVE  ObjectsSound'
<1> USE DEF ObjectsSound, Intent
<1>1. IntentSound' /\ ReviewSound' /\ CopiedIsCopy' /\ WipeSound'
  BY DEF IntentSound, ReviewSound, CopiedIsCopy, WipeSound
<1>2. CopySound' /\ StoredIsThere'  BY DEF CopySound, StoredIsThere
<1>3. OwnedBytesExist'  BY DEF OwnedBytesExist, Owned
<1>4. NothingForgotten'  BY DEF NothingForgotten, Owned, InLedger
<1> QED  BY <1>1, <1>2, <1>3, <1>4

\* Objects are removed that no row needs and no request is about to register.
LEMMA Removed ==
  ASSUME Typed, ObjectsSound, UNCHANGED <<tenant, upload, row, ledger, late>>,
         object' \subseteq object,
         UNCHANGED wipe,
         \A k \in object \ object' :
           /\ Owned(k) => upload[k].unsure
           /\ ~(upload[k].step = "stored" /\ tenant = "Active" /\ Intent(k) \in Prepared)
  PROVE  ObjectsSound'
<1> USE DEF ObjectsSound, Intent
<1>1. IntentSound' /\ ReviewSound' /\ CopiedIsCopy' /\ CopySound'
  BY DEF IntentSound, ReviewSound, CopiedIsCopy, CopySound
<1>2. WipeSound'  BY DEF WipeSound
<1>3. StoredIsThere'  BY DEF StoredIsThere
<1>4. OwnedBytesExist'  BY DEF OwnedBytesExist, Owned
<1>5. NothingForgotten'  BY DEF NothingForgotten, Owned, InLedger
<1> QED  BY <1>1, <1>2, <1>3, <1>4, <1>5

\* A request moves, and objects appear or go: what its new step claims must
\* hold, what appears is answered for, and what goes is not needed.
LEMMA Moved ==
  ASSUME Typed, ObjectsSound, UNCHANGED <<tenant, row, ledger, wipe>>,
         NEW k \in Uploads, NEW s \in Steps, Goto(k, s),
         s # "idle", upload[k].step # "idle",
         s # "begun",
         s = "putting" => Intent(k) = "prepared",
         s \in {"prepared", "stored"} => Intent(k) # "resolved",
         s \in {"failing", "cleaning"} => upload[k].unsure \/ Intent(k) # "resolved",
         s = "copied" => upload[k].step = "copied",
         s = "stored" => k \in object',
         s \in {"prepared", "putting"} => late'[k] = "no",
         \A i \in Uploads : late[i] = "appeared" => late'[i] = "appeared",
         \A i \in Uploads \ {k} : late'[i] = late[i],
         \A i \in object' \ object : (i = k /\ Intent(k) = "prepared") \/ late'[i] = "appeared",
         \A i \in object \ object' :
           /\ Owned(i) => upload[i].unsure
           /\ i # k => ~(upload[i].step = "stored" /\ tenant = "Active" /\ Intent(i) \in Prepared)
  PROVE  ObjectsSound'
<1> USE DEF ObjectsSound, Intent
<1>1. /\ upload' \in [Uploads -> [step: Steps, unsure: BOOLEAN]]
      /\ upload'[k].step = s /\ upload'[k].unsure = upload[k].unsure
      /\ \A i \in Uploads \ {k} : upload'[i] = upload[i]
  BY GotoEffect
<1>2. IntentSound'  BY <1>1 DEF IntentSound
<1>3. ReviewSound'  BY DEF ReviewSound
<1>4. CopySound' /\ CopiedIsCopy'
  <2>1. CopiedIsCopy'  BY <1>1 DEF CopiedIsCopy
  <2>2. CopySound'  BY <1>1, UploadsTyped DEF CopySound
  <2> QED  BY <2>1, <2>2
<1>5. WipeSound'
  <2>1. \A p \in wipe.listed : p \in All  BY DEF Typed
  <2>2. \A p \in wipe.listed : Intent(p[1]) # "prepared"
    BY <2>1 DEF WipeSound, IntentSound, All
  <2>3. \A p \in wipe.deleted : p[1] \notin object' \/ late'[p[1]] = "appeared"
    BY <2>1, <2>2 DEF WipeSound, All
  <2> QED  BY <2>3 DEF WipeSound
<1>6. StoredIsThere'  BY <1>1 DEF StoredIsThere
<1>7. OwnedBytesExist'  BY <1>1 DEF OwnedBytesExist, Owned
<1>8. NothingForgotten'
  <2>1. "compensation" \in Reasons /\ "prepared" \in Unswept  BY DEF Reasons, Unswept, Prepared
  <2> QED  BY <2>1 DEF NothingForgotten, Owned, InLedger, Typed, TypeOK
<1> QED  BY <1>2, <1>3, <1>4, <1>5, <1>6, <1>7, <1>8

\* Entries only move on: an intent ends or is handed over, a wiped object's
\* entry is swept.
Progress ==
  \A k \in Uploads, r \in Reasons :
    \/ ledger'[k][r] = ledger[k][r]
    \/ /\ ledger[k][r] \in Prepared /\ ledger'[k][r] \in {"expired", "armed"}
       /\ upload[k].step # "putting"
    \/ /\ ledger[k][r] = "armed" /\ ledger'[k][r] = "swept"
       /\ tenant = "Active" => k \notin object \/ late[k] = "appeared"

LEMMA Progressed ==
  ASSUME Typed, ObjectsSound, Progress, UNCHANGED <<tenant, row, object, late>>,
         \A k \in Uploads :
           \/ upload'[k] = upload[k]
           \/ /\ upload[k].step = "failing" /\ upload'[k].step \in {"cleaning", "done"}
              /\ upload'[k].unsure = upload[k].unsure,
         wipe'.deleted \subseteq wipe'.listed,
         \A p \in wipe'.listed : /\ p \in All /\ p[2] # "exit"
                                 /\ p \in wipe.listed \/ ledger'[p[1]][p[2]] = "armed",
         \A p \in wipe'.deleted : p \in wipe.deleted
  PROVE  ObjectsSound'
<1> USE DEF ObjectsSound, Intent
<1>1. {"compensation", "intake_reject", "quarantine_cleanup"} \subseteq Reasons  BY DEF Reasons
<1>2. \A k \in Uploads : k \in Copies => Source[k] \in Uploads  BY UploadsTyped
<1>3. \A k \in Uploads, r \in Reasons \ {"compensation"} :
        ledger[k][r] \in {"none", "armed", "swept"}
  BY DEF Typed, TypeOK
<1>4. \A k \in Uploads :
        /\ Intent(k)' = "resolved" <=> Intent(k) = "resolved"
        /\ Intent(k)' \in Prepared => Intent(k) \in Prepared
        /\ Intent(k)' = "prepared" <=> Intent(k) = "prepared" /\ Intent(k)' = Intent(k)
        /\ Intent(k)' = "none" <=> Intent(k) = "none"
        /\ upload[k].step = "putting" => (Intent(k) = "prepared" => Intent(k)' = "prepared")
  BY <1>1 DEF Progress, Prepared
<1>5. \A k \in Uploads, r \in Reasons \ {"compensation"} :
        ledger'[k][r] = "none" <=> ledger[k][r] = "none"
  BY <1>3 DEF Progress, Prepared
<1>6. IntentSound'  BY <1>4, <1>5 DEF IntentSound
<1>7. ReviewSound'  BY <1>1, <1>5 DEF ReviewSound
<1>8. CopySound' /\ CopiedIsCopy'
  <2>1. "quarantine_cleanup" \in Reasons \ {"compensation"}  BY <1>1
  <2>2. \A k \in Copies : k \in Uploads /\ Source[k] \in Uploads  BY UploadsTyped
  <2> QED  BY <1>5, <2>1, <2>2 DEF CopySound, CopiedIsCopy
<1>9. WipeSound'
  <2>1. \A p \in wipe.listed : p \in All  BY DEF Typed
  <2>2. \A p \in wipe.listed : ledger'[p[1]][p[2]] \in {"armed", "swept"}
    BY <2>1 DEF WipeSound, Progress, All, Prepared
  <2> QED  BY <2>1, <2>2 DEF WipeSound
<1>10. StoredIsThere'  BY <1>4 DEF StoredIsThere
<1>11. \A k \in Uploads : Owned(k)' <=> Owned(k)
  <2>1. "quarantine_cleanup" \in Reasons \ {"compensation"}  BY <1>1
  <2> QED  BY <1>5, <2>1 DEF Owned
<1>12. OwnedBytesExist'  BY <1>11 DEF OwnedBytesExist
<1>13. NothingForgotten'
  <2> SUFFICES ASSUME NEW k \in object, tenant = "Active"
               PROVE  Owned(k)' \/ InLedger(k)' \/ late[k] = "appeared"
    BY DEF NothingForgotten
  <2>1. k \in Uploads  BY DEF Typed, TypeOK
  <2>2. CASE InLedger(k)
    <3>1. PICK r \in Reasons : ledger[k][r] \in Unswept  BY <2>2 DEF InLedger
    <3>2. ledger'[k][r] \in Unswept \/ late[k] = "appeared"
      BY <2>1, <3>1 DEF Progress, Unswept, Prepared
    <3> QED  BY <3>2 DEF InLedger
  <2>3. CASE ~InLedger(k)  BY <1>11, <2>1, <2>3 DEF NothingForgotten
  <2> QED  BY <2>2, <2>3
<1> QED  BY <1>6, <1>7, <1>8, <1>9, <1>10, <1>12, <1>13

-----------------------------------------------------------------------------
(* The steps of an upload.                                                  *)

LEMMA BeginSound ==
  ASSUME Typed, ObjectsSound, NEW k \in Uploads, Begin(k)
  PROVE  ObjectsSound'
<1> USE DEF ObjectsSound, Intent
<1>0. "begun" \in Steps  BY DEF Steps
<1>1. /\ upload'[k].step = "begun" /\ upload'[k].unsure = upload[k].unsure
      /\ \A i \in Uploads \ {k} : upload'[i] = upload[i]
  BY <1>0, GotoEffect DEF Begin
<1>2. UNCHANGED <<tenant, row, ledger, object, late, wipe>>  BY DEF Begin, cleaners
<1>3. IntentSound'  BY <1>1, <1>2 DEF IntentSound, Begin
<1>4. CopySound' /\ CopiedIsCopy'
  BY <1>1, <1>2, UploadsTyped DEF CopySound, CopiedIsCopy, Begin
<1>5. ReviewSound' /\ WipeSound'  BY <1>2 DEF ReviewSound, WipeSound
<1>6. StoredIsThere' /\ OwnedBytesExist'  BY <1>1, <1>2 DEF StoredIsThere, OwnedBytesExist, Owned
<1>7. NothingForgotten'  BY <1>2 DEF NothingForgotten, Owned, InLedger
<1> QED  BY <1>3, <1>4, <1>5, <1>6, <1>7

LEMMA PrepareSound ==
  ASSUME Typed, ObjectsSound, NEW k \in Uploads, Prepare(k)
  PROVE  ObjectsSound'
<1> USE DEF ObjectsSound, Intent
<1>0. {"done", "prepared"} \subseteq Steps /\ "prepared" \in Entries /\ "compensation" \in Reasons
      /\ {"compensation", "intake_reject", "quarantine_cleanup"} \subseteq Reasons
  BY DEF Steps, Entries, Unswept, Prepared, Reasons
<1>1. UNCHANGED <<tenant, row, object, late, wipe>>  BY DEF Prepare, cleaners
<1>2. CASE tenant = "Gone"
  <2>1. Goto(k, "done") /\ UNCHANGED ledger  BY <1>2 DEF Prepare
  <2>2. upload[k].step = "begun"  BY DEF Prepare
  <2> QED  BY <1>0, <1>1, <2>1, <2>2, Moved
<1>3. CASE tenant # "Gone"
  <2>1. Goto(k, "prepared") /\ ledger' = Set(k, "compensation", "prepared")
        /\ upload[k].step = "begun"
    BY <1>3 DEF Prepare
  <2>2. /\ upload'[k].step = "prepared" /\ upload'[k].unsure = upload[k].unsure
        /\ \A i \in Uploads \ {k} : upload'[i] = upload[i]
    BY <1>0, <2>1, GotoEffect
  <2>3. /\ ledger'[k]["compensation"] = "prepared"
        /\ \A i \in Uploads, q \in Reasons :
             i # k \/ q # "compensation" => ledger'[i][q] = ledger[i][q]
    BY <1>0, <2>1, SetEffect
  <2>4. Intent(k) = "none" /\ row[k] = "none"
        /\ \A r \in Reasons : ledger[k][r] = "none"
    <3>1. Intent(k) = "none"  BY <2>1 DEF IntentSound
    <3>2. row[k] = "none" /\ \A r \in Reasons \ {"compensation"} : ledger[k][r] = "none"
      BY <3>1 DEF IntentSound
    <3> QED  BY <3>1, <3>2
  <2>5. IntentSound'
    <3>1. late[k] = "no"  BY <2>1 DEF IntentSound
    <3> QED  BY <1>0, <1>1, <2>2, <2>3, <2>4, <3>1 DEF IntentSound
  <2>6. CopySound' /\ CopiedIsCopy'
    BY <1>0, <1>1, <2>1, <2>2, <2>3, UploadsTyped DEF CopySound, CopiedIsCopy
  <2>7. ReviewSound'  BY <1>0, <1>1, <2>3 DEF ReviewSound
  <2>8. WipeSound'
    <3>1. \A p \in wipe.listed : p \in All  BY DEF Typed
    <3>2. \A p \in wipe.listed : p[1] # k  BY <2>4, <3>1 DEF WipeSound, All
    <3> QED  BY <1>1, <2>3, <3>1, <3>2 DEF WipeSound, All
  <2>9. StoredIsThere' /\ OwnedBytesExist'
    BY <1>0, <1>1, <2>2, <2>3 DEF StoredIsThere, OwnedBytesExist, Owned
  <2>10. NothingForgotten'
    <3>1. \A i \in Uploads : InLedger(i) => InLedger(i)'
      BY <2>3, <2>4 DEF InLedger, Unswept, Prepared
    <3>2. \A i \in Uploads : Owned(i) => Owned(i)'  BY <1>0, <1>1, <2>3 DEF Owned
    <3> QED  BY <1>1, <3>1, <3>2 DEF NothingForgotten, Typed, TypeOK
  <2> QED  BY <2>5, <2>6, <2>7, <2>8, <2>9, <2>10
<1> QED  BY <1>2, <1>3

LEMMA StrayEffect ==
  ASSUME Typed, IntentSound, NEW k \in Uploads, upload[k].step = "putting", Stray(k)
  PROVE  /\ object \subseteq object' /\ object' \subseteq object \cup {k}
         /\ \A i \in Uploads \ {k} : late'[i] = late[i]
         /\ \A i \in Uploads : late[i] = "appeared" => late'[i] = "appeared"
BY DEF Typed, TypeOK, Stray, IntentSound

\* What a request is about to delete of its own, no row needs.
LEMMA CleanIsSafe ==
  ASSUME Typed, ObjectsSound, NEW k \in Uploads, upload[k].step = "cleaning", Owned(k)
  PROVE  upload[k].unsure
<1>1. row[k] # "none"  BY DEF Owned
<1> QED  BY <1>1 DEF ObjectsSound, IntentSound

LEMMA PublishSound ==
  ASSUME Typed, ObjectsSound, NEW k \in Uploads, Publish(k)
  PROVE  ObjectsSound'
<1> USE DEF ObjectsSound, Intent
<1>1. /\ UNCHANGED <<tenant, upload, row, ledger, wipe>>
      /\ object' = object \cup {k} /\ late[k] = "pending" /\ late'[k] = "appeared"
      /\ \A i \in Uploads \ {k} : late'[i] = late[i]
  BY DEF Publish, cleaners, Typed, TypeOK
<1>2. IntentSound' /\ ReviewSound' /\ CopySound' /\ CopiedIsCopy'
  BY <1>1 DEF IntentSound, ReviewSound, CopySound, CopiedIsCopy
<1>3. WipeSound'
  <2>1. \A p \in wipe.listed : p \in All  BY DEF Typed
  <2> QED  BY <1>1, <2>1 DEF WipeSound, All
<1>4. StoredIsThere' /\ OwnedBytesExist'  BY <1>1 DEF StoredIsThere, OwnedBytesExist, Owned
<1>5. NothingForgotten'  BY <1>1 DEF NothingForgotten, Owned, InLedger, Typed, TypeOK
<1> QED  BY <1>2, <1>3, <1>4, <1>5

LEMMA RegisterSound ==
  ASSUME Typed, ObjectsSound, NEW k \in Uploads, Register(k)
  PROVE  ObjectsSound'
<1> USE DEF ObjectsSound, Intent
<1>0. {"compensation", "intake_reject", "quarantine_cleanup", "exit"} \subseteq Reasons
      /\ \A c \in Copies : c \in Uploads /\ Source[c] \in Uploads /\ Source[c] # c
      /\ "armed" \in Unswept
  BY UploadsTyped DEF Reasons, Unswept
<1>1. /\ UNCHANGED <<tenant, object, late, wipe>>
      /\ upload[k].step = "stored" /\ tenant = "Active" /\ Intent(k) \in Prepared
      /\ k \in Copies => ledger[Source[k]]["quarantine_cleanup"] = "none"
  BY DEF Register, MayRegister, cleaners
<1>2. /\ \A i \in Uploads, r \in Reasons :
           ledger'[i][r] = IF i = k /\ r = "compensation" THEN "resolved"
                           ELSE IF k \in Copies /\ i = Source[k] /\ r = "quarantine_cleanup"
                           THEN "armed" ELSE ledger[i][r]
      /\ \/ upload'[k].step = "failing" /\ upload'[k].unsure
         \/ upload'[k].step = "copied" /\ k \in Copies
         \/ upload'[k].step = "done"
      /\ \A i \in Uploads \ {k} : upload'[i] = upload[i]
      /\ row'[k] = IF k \in Guests THEN "Pending" ELSE "Live"
      /\ \A i \in Uploads \ {k} : row'[i] = row[i]
  BY RegisterEffect
<1>3. row[k] = "none" /\ \A r \in Reasons \ {"compensation"} : ledger[k][r] = "none"
  BY <1>1 DEF IntentSound, Prepared
<1>4. k \in Copies => row[Source[k]] = "Promoted" /\ Intent(Source[k]) = "resolved"
  BY <1>0, <1>1 DEF CopySound, IntentSound
<1>5. \A i \in Uploads : Intent(i)' = IF i = k THEN "resolved" ELSE Intent(i)
  BY <1>0, <1>2
<1>6. IntentSound'  BY <1>0, <1>1, <1>2, <1>4, <1>5 DEF IntentSound
<1>7. ReviewSound'  BY <1>0, <1>2, <1>3, <1>4 DEF ReviewSound
<1>8. CopySound' /\ CopiedIsCopy'
  <2>1. CopiedIsCopy'  BY <1>2 DEF CopiedIsCopy
  <2>2. \A c \in Copies : upload[c].step # "idle" => Source[c] # k
    BY <1>1, <1>3 DEF CopySound
  <2>3. CopySound'
    <3> SUFFICES ASSUME NEW c \in Copies
                 PROVE  /\ upload'[c].step # "idle" => row'[Source[c]] = "Promoted"
                        /\ upload'[c].step = "copied" =>
                             ledger'[Source[c]]["quarantine_cleanup"] # "none"
      BY <1>1 DEF CopySound
    <3>1. CASE c = k
      <4>1. row'[Source[c]] = "Promoted"
        <5>1. row[Source[c]] = "Promoted"  BY <1>4, <3>1
        <5>2. Source[c] # k /\ Source[c] \in Uploads  BY <1>0, <3>1
        <5> QED  BY <1>2, <5>1, <5>2
      <4>2. ledger'[Source[c]]["quarantine_cleanup"] = "armed"
        BY <1>0, <1>2, <3>1
      <4> QED  BY <4>1, <4>2
    <3>2. CASE c # k
      <4>1. upload'[c] = upload[c] /\ Source[c] \in Uploads
            /\ (upload[c].step # "idle" => Source[c] # k)
        BY <1>0, <1>2, <3>2, <2>2
      <4>2. upload[c].step # "idle" => row'[Source[c]] = row[Source[c]]  BY <1>2, <4>1
      <4>3. ledger[Source[c]]["quarantine_cleanup"] # "none" =>
              ledger'[Source[c]]["quarantine_cleanup"] # "none"
        BY <1>0, <1>2, <4>1
      <4> QED  BY <1>1, <4>1, <4>2, <4>3 DEF CopySound
    <3> QED  BY <3>1, <3>2
  <2> QED  BY <2>1, <2>3
<1>9. WipeSound'
  <2>1. \A p \in wipe.listed : p \in All  BY DEF Typed
  <2>2. \A p \in wipe.listed : p[1] # k
    BY <1>1, <1>3, <2>1 DEF WipeSound, All, Prepared
  <2>3. \A p \in wipe.listed : ledger'[p[1]][p[2]] = ledger[p[1]][p[2]]
                               \/ ledger'[p[1]][p[2]] = "armed"
    BY <1>2, <2>1, <2>2 DEF All
  <2> QED  BY <1>1, <2>3 DEF WipeSound
<1>10. StoredIsThere'  BY <1>1, <1>2, <1>5 DEF StoredIsThere
<1>11. OwnedBytesExist'
  <2> SUFFICES ASSUME NEW i \in Uploads, Owned(i)' PROVE i \in object \/ upload'[i].unsure
    BY <1>1 DEF OwnedBytesExist
  <2>1. CASE i = k  BY <1>1, <2>1 DEF StoredIsThere
  <2>2. CASE i # k
    <3>1. Owned(i)  BY <1>0, <1>2, <2>2 DEF Owned
    <3> QED  BY <1>2, <2>2, <3>1 DEF OwnedBytesExist
  <2> QED  BY <2>1, <2>2
<1>12. NothingForgotten'
  <2> SUFFICES ASSUME NEW i \in object PROVE Owned(i)' \/ InLedger(i)' \/ late[i] = "appeared"
    BY <1>1 DEF NothingForgotten
  <2>0. i \in Uploads  BY DEF Typed, TypeOK
  <2>1. CASE i = k  BY <1>2, <2>1 DEF Owned
  <2>2. CASE k \in Copies /\ i = Source[k]
    <3>1. "quarantine_cleanup" \in Reasons /\ ledger'[i]["quarantine_cleanup"] \in Unswept
      BY <1>0, <1>2, <2>2
    <3> QED  BY <3>1 DEF InLedger
  <2>3. CASE i # k /\ ~(k \in Copies /\ i = Source[k])
    <3>1. \A r \in Reasons : ledger'[i][r] = ledger[i][r]  BY <1>2, <2>0, <2>3
    <3>2. row'[i] = row[i]  BY <1>2, <2>0, <2>3
    <3> QED  BY <1>0, <1>1, <3>1, <3>2 DEF NothingForgotten, Owned, InLedger
  <2> QED  BY <2>1, <2>2, <2>3
<1> QED  BY <1>6, <1>7, <1>8, <1>9, <1>10, <1>11, <1>12

LEMMA ArmSound ==
  ASSUME Typed, ObjectsSound, NEW k \in Uploads, Arm(k)
  PROVE  ObjectsSound'
<1>0. {"cleaning", "done"} \subseteq Steps /\ "armed" \in Entries /\ "compensation" \in Reasons
  BY DEF Steps, Entries, Unswept, Reasons
<1>1. UNCHANGED <<tenant, row, object, late, wipe>> /\ upload[k].step = "failing"
  BY DEF Arm, cleaners
<1>2. PICK s \in {"cleaning", "done"} : Goto(k, s)  BY DEF Arm
<1>3. /\ upload'[k].step = s /\ upload'[k].unsure = upload[k].unsure
      /\ \A i \in Uploads \ {k} : upload'[i] = upload[i]
  BY <1>0, <1>2, GotoEffect
<1>4. Progress
  <2>1. CASE UNCHANGED ledger  BY <2>1 DEF Progress
  <2>2. CASE Intent(k) \in Prepared /\ ledger' = Set(k, "compensation", "armed")
    <3>1. /\ ledger'[k]["compensation"] = "armed"
          /\ \A i \in Uploads, q \in Reasons :
               i # k \/ q # "compensation" => ledger'[i][q] = ledger[i][q]
      BY <1>0, <2>2, SetEffect
    <3> QED  BY <1>1, <2>2, <3>1 DEF Progress, Intent
  <2> QED  BY <2>1, <2>2 DEF Arm
<1>5. \A p \in wipe.listed : p \in All /\ p[2] # "exit"
  BY DEF ObjectsSound, WipeSound, Typed
<1>6. wipe.deleted \subseteq wipe.listed  BY DEF ObjectsSound, WipeSound
<1> QED  BY <1>1, <1>3, <1>4, <1>5, <1>6, Progressed

LEMMA ExpireSound ==
  ASSUME Typed, ObjectsSound, NEW k \in Uploads, Expire(k)
  PROVE  ObjectsSound'
<1>0. "expired" \in Entries /\ "compensation" \in Reasons
  BY DEF Entries, Unswept, Prepared, Reasons
<1>1. UNCHANGED <<tenant, upload, row, object, late, wipe>> /\ upload[k].step # "putting"
      /\ ledger[k]["compensation"] = "prepared" /\ ledger' = Set(k, "compensation", "expired")
  BY DEF Expire, cleaners, requests, Intent
<1>2. /\ ledger'[k]["compensation"] = "expired"
      /\ \A i \in Uploads, q \in Reasons :
           i # k \/ q # "compensation" => ledger'[i][q] = ledger[i][q]
  BY <1>0, <1>1, SetEffect
<1>3. Progress  BY <1>1, <1>2 DEF Progress, Prepared
<1>4. \A p \in wipe.listed : p \in All /\ p[2] # "exit"
  BY DEF ObjectsSound, WipeSound, Typed
<1>5. wipe.deleted \subseteq wipe.listed  BY DEF ObjectsSound, WipeSound
<1> QED  BY <1>1, <1>3, <1>4, <1>5, Progressed

LEMMA UploadSound ==
  ASSUME Typed, ObjectsSound, NEW k \in Uploads, UploadStep(k) \/ Expire(k) \/ LeaseEnds(k)
  PROVE  ObjectsSound'
<1>0. {"putting", "stored", "failing", "cleaning", "done"} \subseteq Steps  BY DEF Steps
<1> USE DEF cleaners
<1>1. CASE PutBegins(k)
  <2>1. Goto(k, "putting") \/ Goto(k, "failing")  BY <1>1 DEF PutBegins
  <2>2. /\ upload[k].step = "prepared" /\ UNCHANGED <<tenant, row, ledger, wipe, object, late>>
        /\ Goto(k, "putting") => Intent(k) = "prepared"
    <3>1. CASE Intent(k) = "prepared"  BY <1>1, <3>1 DEF PutBegins
    <3>2. CASE Intent(k) # "prepared"
      <4>1. Goto(k, "failing")  BY <1>1, <3>2 DEF PutBegins
      <4>2. upload'[k].step = "failing"  BY <1>0, <4>1, GotoEffect
      <4>3. ~Goto(k, "putting")
        <5> SUFFICES ASSUME Goto(k, "putting") PROVE FALSE  OBVIOUS
        <5>1. upload'[k].step = "putting"  BY <1>0, GotoEffect
        <5> QED  BY <4>2, <5>1
      <4> QED  BY <1>1, <4>3 DEF PutBegins
    <3> QED  BY <3>1, <3>2
  <2>3. Intent(k) # "resolved" /\ late[k] = "no"  BY <2>2 DEF ObjectsSound, IntentSound
  <2> QED  BY <1>0, <2>1, <2>2, <2>3, Moved
<1>2. CASE PutSucceeds(k)
  <2>1. /\ upload[k].step = "putting" /\ UNCHANGED <<tenant, row, ledger, wipe, late>>
        /\ Goto(k, "stored") /\ object' = object \cup {k}
    BY <1>2 DEF PutSucceeds
  <2>2. Intent(k) = "prepared"  BY <2>1 DEF ObjectsSound, IntentSound
  <2> QED  BY <1>0, <2>1, <2>2, Moved
<1>3. CASE PutFails(k)
  <2>1. /\ upload[k].step = "putting" /\ UNCHANGED <<tenant, row, ledger, wipe>>
        /\ Goto(k, "failing") /\ Stray(k)
    BY <1>3 DEF PutFails
  <2>2. Intent(k) = "prepared"  BY <2>1 DEF ObjectsSound, IntentSound
  <2>3. /\ object \subseteq object' /\ object' \subseteq object \cup {k}
        /\ \A i \in Uploads \ {k} : late'[i] = late[i]
        /\ \A i \in Uploads : late[i] = "appeared" => late'[i] = "appeared"
    BY <2>1, StrayEffect DEF ObjectsSound
  <2> QED  BY <1>0, <2>1, <2>2, <2>3, Moved
<1>4. CASE DropSource(k)
  <2>1. /\ upload[k].step = "copied" /\ UNCHANGED <<tenant, row, ledger, wipe, late>>
        /\ Goto(k, "done") /\ object' \in {object, object \ {Source[k]}}
    BY <1>4 DEF DropSource
  <2>2. k \in Copies /\ Source[k] \in Uploads
    BY <2>1, UploadsTyped DEF ObjectsSound, CopiedIsCopy
  <2>3. ledger[Source[k]]["quarantine_cleanup"] # "none"
    BY <2>1, <2>2 DEF ObjectsSound, CopySound
  <2>4. ~Owned(Source[k])  BY <2>2, <2>3 DEF ObjectsSound, ReviewSound, Owned
  <2>5. Intent(Source[k]) = "resolved"
    <3>1. "quarantine_cleanup" \in Reasons \ {"compensation"}  BY DEF Reasons
    <3> QED  BY <2>2, <2>3, <3>1 DEF ObjectsSound, IntentSound
  <2>6. Intent(Source[k]) \notin Prepared  BY <2>5 DEF Prepared
  <2> QED  BY <1>0, <2>1, <2>4, <2>6, Moved
<1>5. CASE RegisterFails(k)
  <2>1. /\ upload[k].step = "stored" /\ UNCHANGED <<tenant, row, ledger, wipe, object, late>>
        /\ Goto(k, "failing")
    BY <1>5 DEF RegisterFails
  <2>2. Intent(k) # "resolved"  BY <2>1 DEF ObjectsSound, IntentSound
  <2> QED  BY <1>0, <2>1, <2>2, Moved
<1>6. CASE Clean(k)
  <2>1. /\ upload[k].step = "cleaning" /\ UNCHANGED <<tenant, row, ledger, wipe, late>>
        /\ Goto(k, "done") /\ object' \in {object, object \ {k}}
    BY <1>6 DEF Clean
  <2>2. Owned(k) => upload[k].unsure  BY <2>1, CleanIsSafe
  <2> QED  BY <1>0, <2>1, <2>2, Moved
<1>7. CASE Die(k)
  <2>1. UNCHANGED <<tenant, row, ledger, wipe>> /\ Goto(k, "done") /\ upload[k].step # "idle"
    BY <1>7 DEF Die
  <2>2. CASE upload[k].step = "putting"
    <3>1. Intent(k) = "prepared"  BY <2>2 DEF ObjectsSound, IntentSound
    <3>2. /\ object \subseteq object' /\ object' \subseteq object \cup {k}
          /\ \A i \in Uploads \ {k} : late'[i] = late[i]
          /\ \A i \in Uploads : late[i] = "appeared" => late'[i] = "appeared"
      BY <1>7, <2>2, StrayEffect DEF ObjectsSound, Die
    <3> QED  BY <1>0, <2>1, <2>2, <3>1, <3>2, Moved
  <2>3. CASE upload[k].step # "putting"
    <3>1. UNCHANGED <<object, late>>  BY <1>7, <2>3 DEF Die
    <3> QED  BY <1>0, <2>1, <3>1, Moved
  <2> QED  BY <2>2, <2>3
<1>8. CASE LeaseEnds(k)  BY <1>8, Frame DEF LeaseEnds
<1> QED
  BY <1>1, <1>2, <1>3, <1>4, <1>5, <1>6, <1>7, <1>8, BeginSound, PrepareSound, PublishSound,
     RegisterSound, ArmSound, ExpireSound
  DEF UploadStep

-----------------------------------------------------------------------------
(* Review, and the drain.                                                   *)

LEMMA PromoteSound ==
  ASSUME Typed, ObjectsSound, NEW k \in Guests, Promote(k)
  PROVE  ObjectsSound'
<1> USE DEF ObjectsSound, Intent
<1>1. /\ UNCHANGED <<tenant, upload, ledger, object, late, wipe>>
      /\ k \in Uploads /\ row[k] = "Pending" /\ row'[k] = "Promoted"
      /\ \A i \in Uploads \ {k} : row'[i] = row[i]
  BY UploadsTyped DEF Promote, cleaners, Typed, TypeOK
<1>2. ledger[k]["intake_reject"] = "none" /\ ledger[k]["quarantine_cleanup"] = "none"
  BY <1>1 DEF ReviewSound
<1>3. IntentSound' /\ ReviewSound'  BY <1>1, <1>2 DEF IntentSound, ReviewSound
<1>4. CopySound' /\ CopiedIsCopy'
  BY <1>1, UploadsTyped DEF CopySound, CopiedIsCopy
<1>5. WipeSound' /\ StoredIsThere'  BY <1>1 DEF WipeSound, StoredIsThere
<1>6. \A i \in Uploads : Owned(i)' <=> Owned(i)  BY <1>1, <1>2 DEF Owned
<1>7. OwnedBytesExist' /\ NothingForgotten'
  BY <1>1, <1>6 DEF OwnedBytesExist, NothingForgotten, InLedger, Typed, TypeOK
<1> QED  BY <1>3, <1>4, <1>5, <1>7

LEMMA RejectSound ==
  ASSUME Typed, ObjectsSound, NEW k \in Guests, Reject(k)
  PROVE  ObjectsSound'
<1> USE DEF ObjectsSound, Intent
<1>0. {"compensation", "intake_reject", "quarantine_cleanup"} \subseteq Reasons /\ "armed" \in Entries
  BY DEF Reasons, Entries, Unswept
<1>1. /\ UNCHANGED <<tenant, upload, object, late, wipe>>
      /\ k \in Uploads /\ row[k] = "Pending" /\ row'[k] = "Rejected"
      /\ \A i \in Uploads \ {k} : row'[i] = row[i]
      /\ ledger' = Set(k, "intake_reject", "armed")
  BY UploadsTyped DEF Reject, cleaners, Typed, TypeOK
<1>2. /\ ledger'[k]["intake_reject"] = "armed"
      /\ \A i \in Uploads, q \in Reasons :
           i # k \/ q # "intake_reject" => ledger'[i][q] = ledger[i][q]
  BY <1>0, <1>1, SetEffect
<1>3. ledger[k]["quarantine_cleanup"] = "none" /\ Intent(k) = "resolved"
  BY <1>1 DEF ReviewSound, IntentSound
<1>4. IntentSound'  BY <1>0, <1>1, <1>2, <1>3 DEF IntentSound
<1>5. ReviewSound'  BY <1>0, <1>1, <1>2, <1>3 DEF ReviewSound
<1>6. CopySound' /\ CopiedIsCopy'
  BY <1>0, <1>1, <1>2, UploadsTyped DEF CopySound, CopiedIsCopy
<1>7. WipeSound'
  <2>1. \A p \in wipe.listed : p \in All  BY DEF Typed
  <2> QED  BY <1>1, <1>2, <2>1 DEF WipeSound, All
<1>8. StoredIsThere'  BY <1>0, <1>1, <1>2 DEF StoredIsThere
<1>9. \A i \in Uploads \ {k} : Owned(i)' <=> Owned(i)  BY <1>0, <1>1, <1>2 DEF Owned
<1>10. ~Owned(k)'  BY <1>1 DEF Owned
<1>11. OwnedBytesExist'  BY <1>1, <1>9, <1>10 DEF OwnedBytesExist
<1>12. NothingForgotten'
  <2>1. InLedger(k)'
    <3>1. "intake_reject" \in Reasons /\ ledger'[k]["intake_reject"] \in Unswept
      BY <1>0, <1>2 DEF Unswept
    <3> QED  BY <3>1 DEF InLedger
  <2>2. \A i \in Uploads \ {k} : InLedger(i) => InLedger(i)'  BY <1>2 DEF InLedger
  <2> QED  BY <1>1, <1>9, <2>1, <2>2 DEF NothingForgotten, Typed, TypeOK
<1> QED  BY <1>4, <1>5, <1>6, <1>7, <1>8, <1>11, <1>12

LEMMA ReviewKeeps == Typed /\ ObjectsSound /\ ReviewStep => ObjectsSound'
<1>1. Typed /\ ObjectsSound /\ RevokeLink => ObjectsSound'
  BY Frame DEF RevokeLink, cleaners
<1> QED  BY <1>1, PromoteSound, RejectSound DEF ReviewStep

\* The entries a drain or a census arms are those of requests that are dead.
LEMMA ExpiredProgress ==
  ASSUME Typed, ObjectsSound, ledger' = Move(All, "expired", "armed")
  PROVE  Progress
<1>1. \A i \in Uploads, q \in Reasons :
        ledger'[i][q] = IF ledger[i][q] = "expired" THEN "armed" ELSE ledger[i][q]
  <2>1. MovedTo(All, "expired", "armed")  BY MoveEffect
  <2> QED  BY <2>1 DEF All, MovedTo
<1>2. \A i \in Uploads, q \in Reasons :
        ledger[i][q] = "expired" => upload[i].step # "putting"
  BY DEF Typed, TypeOK, ObjectsSound, IntentSound, Intent
<1> QED  BY <1>1, <1>2 DEF Progress, Prepared

LEMMA ListedTyped ==
  ASSUME Typed, ObjectsSound
  PROVE  /\ \A p \in wipe.listed : p \in All /\ p[2] # "exit"
         /\ wipe.deleted \subseteq wipe.listed
BY DEF ObjectsSound, WipeSound, Typed

LEMMA DrainKeeps == Typed /\ ObjectsSound /\ DrainStep => ObjectsSound'
<1> SUFFICES ASSUME Typed, ObjectsSound, DrainStep PROVE ObjectsSound'  OBVIOUS
<1>1. UNCHANGED <<tenant, upload, row, late>>
  BY DEF DrainStep, DrainArms, DrainLists, DrainDeletes, DrainRecords, requests
<1>2. CASE DrainArms
  <2>1. Progress  BY <1>2, ExpiredProgress DEF DrainArms
  <2>2. wipe'.deleted = {} /\ wipe'.listed = {} /\ object' = object  BY <1>2 DEF DrainArms, NoWipe
  <2> QED  BY <1>1, <2>1, <2>2, Progressed
<1>3. CASE DrainLists
  <2>1. ledger' = ledger /\ object' = object /\ wipe'.deleted = {} /\ wipe'.listed \subseteq ToWipe
    BY <1>3 DEF DrainLists, NoWipe
  <2>2. \A p \in wipe'.listed : p \in All /\ p[2] # "exit" /\ ledger'[p[1]][p[2]] = "armed"
    BY <2>1 DEF ToWipe, Wipable
  <2>3. Progress  BY <2>1 DEF Progress
  <2> QED  BY <1>1, <2>1, <2>2, <2>3, Progressed
<1>4. CASE DrainDeletes
  <2> USE DEF ObjectsSound, Intent
  <2>1. PICK gone \in SUBSET wipe.listed :
          wipe' = [wipe EXCEPT !.step = "deleted", !.deleted = gone]
          /\ object' = object \ {p[1] : p \in gone}
    BY <1>4 DEF DrainDeletes
  <2>2. wipe'.listed = wipe.listed /\ wipe'.deleted = gone  BY <2>1 DEF Typed
  <2>3. UNCHANGED ledger  BY <1>4 DEF DrainDeletes
  <2>4. ASSUME NEW p \in wipe.listed
        PROVE  /\ p[1] \in Uploads
               /\ ~Owned(p[1])
               /\ Intent(p[1]) \notin Prepared
    <3>1. p \in All /\ p[1] \in Uploads /\ p[2] \in Reasons /\ p[2] # "exit"
          /\ ledger[p[1]][p[2]] \in {"armed", "swept"}
      BY ListedTyped DEF WipeSound, All
    <3>2. CASE p[2] = "compensation"
      BY <3>1, <3>2 DEF IntentSound, Owned, Prepared
    <3>3. CASE p[2] = "intake_reject"
      <4>1. Intent(p[1]) = "resolved" /\ row[p[1]] \in {"Rejected", "none"}
        BY <3>1, <3>3 DEF IntentSound, ReviewSound
      <4> QED  BY <3>1, <4>1 DEF Owned, Prepared
    <3>4. CASE p[2] = "quarantine_cleanup"
      <4>1. Intent(p[1]) = "resolved" /\ row[p[1]] \in {"Promoted", "none"}
        BY <3>1, <3>4 DEF IntentSound, ReviewSound
      <4> QED  BY <3>1, <3>4, <4>1 DEF Owned, Prepared
    <3> QED  BY <3>1, <3>2, <3>3, <3>4 DEF Reasons
  <2>5. \A k \in object \ object' : k \in Uploads /\ ~Owned(k) /\ Intent(k) \notin Prepared
    BY <2>1, <2>4
  <2>6. object' \subseteq object  BY <2>1
  <2>7. IntentSound' /\ ReviewSound' /\ CopySound' /\ CopiedIsCopy'
    BY <1>1, <2>3 DEF IntentSound, ReviewSound, CopySound, CopiedIsCopy
  <2>8. WipeSound'
    <3>1. \A p \in gone : p[1] \notin object'  BY <2>1
    <3> QED  BY <1>1, <2>2, <2>3, <3>1 DEF WipeSound
  <2>9. StoredIsThere' /\ OwnedBytesExist'
    BY <1>1, <2>3, <2>5, <2>6 DEF StoredIsThere, OwnedBytesExist, Owned
  <2>10. NothingForgotten'  BY <1>1, <2>3, <2>6 DEF NothingForgotten, Owned, InLedger
  <2> QED  BY <2>7, <2>8, <2>9, <2>10
<1>5. CASE DrainRecords
  <2>1. wipe' = NoWipe /\ object' = object /\ wipe'.listed = {} /\ wipe'.deleted = {}
    BY <1>5 DEF DrainRecords, NoWipe
  <2>2. Progress
    <3>1. CASE ledger' = ledger  BY <3>1 DEF Progress
    <3>2. CASE ledger' = Move(wipe.deleted, "armed", "swept")
      <4>1. MovedTo(wipe.deleted, "armed", "swept")  BY <3>2, MoveEffect
      <4>2. \A i \in Uploads, q \in Reasons :
              <<i, q>> \in wipe.deleted => i \notin object \/ late[i] = "appeared"
        BY DEF ObjectsSound, WipeSound
      <4> QED  BY <4>1, <4>2 DEF Progress, MovedTo
    <3> QED  BY <1>5, <3>1, <3>2 DEF DrainRecords
  <2> QED  BY <1>1, <2>1, <2>2, Progressed
<1> QED  BY <1>2, <1>4, <1>5, <1>3 DEF DrainStep

-----------------------------------------------------------------------------
(* The exit and the janitor, as far as they touch objects, rows and ledger.  *)

LEMMA ExitKeeps == Typed /\ ObjectsSound /\ ExitSound /\ ExitStep => ObjectsSound'
<1> SUFFICES ASSUME Typed, ObjectsSound, ExitSound, ExitStep PROVE ObjectsSound'  OBVIOUS
<1> USE DEF Exiting, requests, cleaners
<1>1. CASE EraseData
  <2> USE DEF ObjectsSound, Intent
  <2>0. {"compensation", "intake_reject", "quarantine_cleanup", "exit"} \subseteq Reasons
    BY DEF Reasons
  <2>1. /\ UNCHANGED <<tenant, upload, object, late, wipe>> /\ tenant = "Exiting"
        /\ \A k \in Uploads : row'[k] = "none"
        /\ \A i \in Uploads, r \in Reasons :
             ledger'[i][r] = IF r = "exit" /\ ledger[i][r] = "none" /\ row[i] \in {"Live", "Pending"}
                             THEN "armed" ELSE ledger[i][r]
    BY <1>1, EraseEffect DEF EraseData, ExitSound
  <2>2. IntentSound'  BY <2>0, <2>1 DEF IntentSound
  <2>3. ReviewSound'  BY <2>0, <2>1 DEF ReviewSound
  <2>4. CopySound' /\ CopiedIsCopy'
    BY <2>0, <2>1, UploadsTyped DEF CopySound, CopiedIsCopy
  <2>5. WipeSound'
    <3>1. \A p \in wipe.listed : p \in All  BY DEF Typed
    <3> QED  BY <2>1, <3>1 DEF WipeSound, All
  <2>6. StoredIsThere' /\ NothingForgotten'  BY <2>1 DEF StoredIsThere, NothingForgotten
  <2>7. OwnedBytesExist'  BY <2>1 DEF OwnedBytesExist, Owned
  <2> QED  BY <2>2, <2>3, <2>4, <2>5, <2>6, <2>7
<1>2. CASE Census
  BY <1>2, ExpiredProgress, ListedTyped, Progressed DEF Census
<1>3. CASE SweepLedger
  <2>1. \A i \in Uploads, q \in Reasons :
          ledger'[i][q] = IF i \notin object /\ ledger[i][q] = "armed" THEN "swept"
                          ELSE ledger[i][q]
    <3> DEFINE gone == {x \in All : x[1] \notin object}
    <3>1. ledger' = Move(gone, "armed", "swept")  BY <1>3 DEF SweepLedger
    <3> HIDE DEF gone
    <3>2. MovedTo(gone, "armed", "swept")  BY <3>1, MoveEffect
    <3>3. \A i \in Uploads, q \in Reasons : <<i, q>> \in gone <=> i \notin object
      BY DEF gone, All
    <3> QED  BY <3>2, <3>3 DEF MovedTo
  <2>2. Progress  BY <2>1 DEF Progress
  <2> QED  BY <1>3, <2>2, ListedTyped, Progressed DEF SweepLedger
<1>4. ASSUME NEW p \in {"docs", "intake"}, NEW next, SweepPrefix(p, next) \/ SweepFails(p)
      PROVE  ObjectsSound'
  <2>1. object' \subseteq object /\ UNCHANGED <<tenant, upload, row, ledger, late, wipe>>
        /\ exit = p
    BY <1>4 DEF SweepPrefix, SweepFails
  <2>2. tenant = "Exiting" /\ \A k \in Uploads : ~Owned(k)
    BY <2>1 DEF ExitSound, Swept, Owned
  <2>3. object \subseteq Uploads  BY DEF Typed, TypeOK
  <2> QED  BY <2>1, <2>2, <2>3, Removed
<1>5. CASE /\ UNCHANGED <<upload, row, ledger, object, late, wipe>>
           /\ tenant' \in {tenant, "Exiting", "Gone"}
  BY <1>5, Frame
<1> QED
  BY <1>1, <1>2, <1>3, <1>4, <1>5
  DEF ExitStep, ExitRuns, PhaseZero, LeasesDrained, Recensus, Relist, RelistRefused,
      Finalize, FinalizeRefused, ExitStops

LEMMA JanitorKeeps ==
  ASSUME Typed, ObjectsSound, JanitorSound, NothingLeftBehind, NEW j \in Janitors, JanitorStep(j)
  PROVE  ObjectsSound'
<1>1. UNCHANGED <<tenant, upload, row, ledger, late, wipe>> /\ object' \subseteq object
  BY DEF JanitorStep, JanitorRuns, Lock, Catch, CommitCatch, Destroy, Confirm, DestroyFails,
         JanitorStops, ListFails, requests
<1>2. CASE object' = object  BY <1>1, <1>2, Frame
<1>3. CASE object' # object
  <2>1. janitor[j].step = "destroying"
    BY <1>3 DEF JanitorStep, JanitorRuns, Lock, Catch, CommitCatch, Destroy, Confirm, DestroyFails,
                JanitorStops, ListFails
  <2>2. authority.armed  BY <2>1 DEF JanitorSound
  <2>3. tenant = "Gone" /\ \A k \in Uploads : row[k] = "none"
    BY <2>2 DEF NothingLeftBehind
  <2>4. object \subseteq Uploads  BY DEF Typed, TypeOK
  <2>5. \A k \in Uploads : ~Owned(k)  BY <2>3 DEF Owned
  <2> QED  BY <1>1, <2>3, <2>4, <2>5, Removed
<1> QED  BY <1>2, <1>3

-----------------------------------------------------------------------------
(* Who answers for an object once the tenant no longer works.               *)

\* Whatever else happens, what appears is answered for, what was answered for
\* still is, no row is written, and a closed ledger stays closed.
Answering ==
  /\ \A k \in object' : (k \in object => Answered(k)) => Answered(k)'
  /\ \A k \in Uploads : row[k] = "none" => row'[k] = "none"
  /\ tenant = "Gone" => \A k \in Uploads : InLedger(k)' => InLedger(k)

LEMMA QuietAnswering ==
  ASSUME Typed, UNCHANGED <<row, ledger, late>>, object' \subseteq object
  PROVE  Answering
BY DEF Answering, Answered, InLedger

\* A request that stores an object has its intent open.
LEMMA PutAnswering ==
  ASSUME Typed, ObjectsSound, NEW k \in Uploads, upload[k].step = "putting",
         UNCHANGED <<row, ledger>>, object' \subseteq object \cup {k},
         \A i \in Uploads : late[i] = "appeared" => late'[i] = "appeared"
  PROVE  Answering
<1>1. ledger[k]["compensation"] = "prepared"  BY DEF ObjectsSound, IntentSound, Intent
<1>2. "compensation" \in Reasons /\ "prepared" \in Unswept  BY DEF Reasons, Unswept, Prepared
<1>3. InLedger(k)  BY <1>1, <1>2 DEF InLedger
<1>4. \A i \in Uploads : InLedger(i)' <=> InLedger(i)  BY DEF InLedger
<1>5. \A i \in object : i \in Uploads  BY DEF Typed, TypeOK
<1> QED  BY <1>3, <1>4, <1>5 DEF Answering, Answered

\* So have the entries that move on, but for what is swept.
LEMMA ProgressAnswering ==
  ASSUME Typed, Progress, UNCHANGED <<row, object, late>>,
         \A k \in Uploads, r \in Reasons :
           ledger[k][r] = "armed" /\ ledger'[k][r] = "swept" => k \notin object \/ late[k] = "appeared"
  PROVE  Answering
<1>1. ASSUME NEW k \in Uploads, InLedger(k)' PROVE InLedger(k)
  <2>1. PICK r \in Reasons : ledger'[k][r] \in Unswept  BY <1>1 DEF InLedger
  <2>2. ledger[k][r] \in Unswept  BY <2>1 DEF Progress, Unswept, Prepared
  <2> QED  BY <2>2 DEF InLedger
<1>2. ASSUME NEW k \in object, Answered(k) PROVE Answered(k)'
  <2>1. k \in Uploads  BY DEF Typed, TypeOK
  <2>2. CASE late[k] = "appeared"  BY <2>2 DEF Answered
  <2>3. CASE late[k] # "appeared"
    <3>1. PICK r \in Reasons : ledger[k][r] \in Unswept  BY <1>2, <2>3 DEF Answered, InLedger
    <3>2. ledger'[k][r] \in Unswept  BY <2>1, <2>3, <3>1 DEF Progress, Unswept, Prepared
    <3> QED  BY <3>2 DEF Answered, InLedger
  <2> QED  BY <2>2, <2>3
<1> QED  BY <1>1, <1>2 DEF Answering

LEMMA UploadAnswering ==
  ASSUME Typed, ObjectsSound, tenant # "Active", NEW k \in Uploads,
         UploadStep(k) \/ Expire(k) \/ LeaseEnds(k)
  PROVE  Answering
<1> USE DEF cleaners, requests
<1>1. CASE PutSucceeds(k)  BY <1>1, PutAnswering DEF PutSucceeds
<1>2. CASE PutFails(k)
  <2>1. upload[k].step = "putting" /\ Stray(k) /\ UNCHANGED <<row, ledger>>
    BY <1>2 DEF PutFails
  <2>2. object' \subseteq object \cup {k}
        /\ \A i \in Uploads : late[i] = "appeared" => late'[i] = "appeared"
    BY <2>1, StrayEffect DEF ObjectsSound
  <2> QED  BY <2>1, <2>2, PutAnswering
<1>3. CASE Die(k) /\ upload[k].step = "putting"
  <2>1. Stray(k) /\ UNCHANGED <<row, ledger>>  BY <1>3 DEF Die
  <2>2. object' \subseteq object \cup {k}
        /\ \A i \in Uploads : late[i] = "appeared" => late'[i] = "appeared"
    BY <1>3, <2>1, StrayEffect DEF ObjectsSound
  <2> QED  BY <1>3, <2>1, <2>2, PutAnswering
<1>4. CASE Publish(k)
  <2>1. UNCHANGED <<row, ledger>> /\ object' = object \cup {k} /\ late'[k] = "appeared"
        /\ \A i \in Uploads \ {k} : late'[i] = late[i]
    BY <1>4 DEF Publish, Typed, TypeOK
  <2>2. \A i \in object : i \in Uploads  BY DEF Typed, TypeOK
  <2> QED  BY <2>1, <2>2 DEF Answering, Answered, InLedger
<1>5. CASE Prepare(k) /\ tenant # "Gone"
  <2>1. UNCHANGED <<row, object, late>> /\ ledger' = Set(k, "compensation", "prepared")
        /\ "compensation" \in Reasons /\ "prepared" \in Entries /\ "prepared" \in Unswept
    BY <1>5 DEF Prepare, Reasons, Entries, Unswept, Prepared
  <2>2. ledger'[k]["compensation"] = "prepared"
        /\ \A i \in Uploads, q \in Reasons :
             i # k \/ q # "compensation" => ledger'[i][q] = ledger[i][q]
    BY <2>1, SetEffect
  <2>3. \A i \in Uploads : InLedger(i) => InLedger(i)'
    <3> SUFFICES ASSUME NEW i \in Uploads, NEW r \in Reasons, ledger[i][r] \in Unswept
                 PROVE  \E q \in Reasons : ledger'[i][q] \in Unswept
      BY DEF InLedger
    <3>1. CASE i = k /\ r = "compensation"  BY <2>1, <2>2, <3>1
    <3>2. CASE i # k \/ r # "compensation"  BY <2>2, <3>2
    <3> QED  BY <3>1, <3>2
  <2> QED  BY <1>5, <2>1, <2>3 DEF Answering, Answered, Typed, TypeOK
<1>6. CASE Arm(k) /\ ledger' # ledger
  <2>1. UNCHANGED <<row, object, late>> /\ ledger' = Set(k, "compensation", "armed")
        /\ upload[k].step = "failing" /\ ledger[k]["compensation"] \in Prepared
        /\ "compensation" \in Reasons /\ "armed" \in Entries
    BY <1>6 DEF Arm, Reasons, Entries, Unswept, Intent
  <2>2. ledger'[k]["compensation"] = "armed"
        /\ \A i \in Uploads, q \in Reasons :
             i # k \/ q # "compensation" => ledger'[i][q] = ledger[i][q]
    BY <2>1, SetEffect
  <2>3. Progress  BY <2>1, <2>2 DEF Progress
  <2> QED  BY <2>1, <2>2, <2>3, ProgressAnswering
<1>7. CASE Expire(k)
  <2>1. UNCHANGED <<row, object, late>> /\ ledger' = Set(k, "compensation", "expired")
        /\ ledger[k]["compensation"] = "prepared" /\ upload[k].step # "putting"
        /\ "compensation" \in Reasons /\ "expired" \in Entries
    BY <1>7 DEF Expire, Reasons, Entries, Unswept, Prepared, Intent
  <2>2. ledger'[k]["compensation"] = "expired"
        /\ \A i \in Uploads, q \in Reasons :
             i # k \/ q # "compensation" => ledger'[i][q] = ledger[i][q]
    BY <2>1, SetEffect
  <2>3. Progress  BY <2>1, <2>2 DEF Progress, Prepared
  <2> QED  BY <2>1, <2>2, <2>3, ProgressAnswering
<1>8. ~Register(k)  BY DEF Register, MayRegister
<1>9. CASE UNCHANGED <<row, ledger, late>> /\ object' \subseteq object
  BY <1>9, QuietAnswering
<1> QED
  BY <1>1, <1>2, <1>3, <1>4, <1>5, <1>6, <1>7, <1>8, <1>9
  DEF UploadStep, Begin, Prepare, PutBegins, DropSource, RegisterFails, Arm, Clean, Die, LeaseEnds

LEMMA DrainAnswering ==
  ASSUME Typed, ObjectsSound, DrainStep
  PROVE  Answering
<1> USE DEF cleaners, requests
<1>1. CASE DrainArms
  <2>1. Progress /\ MovedTo(All, "expired", "armed")
    BY <1>1, ExpiredProgress, MoveEffect DEF DrainArms
  <2>2. \A k \in Uploads, r \in Reasons : ~(ledger[k][r] = "armed" /\ ledger'[k][r] = "swept")
    BY <2>1 DEF MovedTo
  <2> QED  BY <1>1, <2>1, <2>2, ProgressAnswering DEF DrainArms
<1>2. CASE DrainLists \/ DrainDeletes  BY <1>2, QuietAnswering DEF DrainLists, DrainDeletes
<1>3. CASE DrainRecords
  <2>1. CASE ledger' = ledger  BY <1>3, <2>1, QuietAnswering DEF DrainRecords
  <2>2. CASE ledger' = Move(wipe.deleted, "armed", "swept")
    <3>1. MovedTo(wipe.deleted, "armed", "swept")  BY <2>2, MoveEffect
    <3>2. \A i \in Uploads, q \in Reasons :
            <<i, q>> \in wipe.deleted => i \notin object \/ late[i] = "appeared"
      BY DEF ObjectsSound, WipeSound
    <3>3. \A k \in Uploads, r \in Reasons :
            ledger[k][r] = "armed" /\ ledger'[k][r] = "swept" => k \notin object \/ late[k] = "appeared"
      BY <3>1, <3>2 DEF MovedTo
    <3>4. Progress  BY <3>1, <3>3 DEF Progress, MovedTo
    <3> QED  BY <1>3, <3>3, <3>4, ProgressAnswering DEF DrainRecords
  <2> QED  BY <1>3, <2>1, <2>2 DEF DrainRecords
<1> QED  BY <1>1, <1>2, <1>3 DEF DrainStep

-----------------------------------------------------------------------------
(* The exit.                                                                *)

Gone == ExitSound /\ RelistSound /\ NothingLeftBehind

\* A step of anything but the exit command.
LEMMA OthersLeave ==
  ASSUME Typed, Gone, UNCHANGED <<tenant, exit>>, authority'.armed = authority.armed,
         tenant # "Active" => Answering, object' \subseteq Uploads
  PROVE  Gone'
<1> USE DEF Gone
<1>1. ExitSound'
  <2>1. exit \in Swept => tenant # "Active"  BY DEF ExitSound, Swept
  <2> QED  BY <2>1 DEF ExitSound, Answering
<1>2. RelistSound'
  <2>1. CASE exit \in {"relist", "relisted"}
    <3>1. Answering  BY <2>1 DEF ExitSound
    <3>2. \A k \in object' : (k \in object => Answered(k)) => Answered(k)'  BY <3>1 DEF Answering
    <3> QED  BY <3>2 DEF RelistSound, Prefix
  <2>2. CASE exit \notin {"relist", "relisted"}  BY <2>2 DEF RelistSound
  <2> QED  BY <2>1, <2>2
<1>3. NothingLeftBehind'
  <2>1. CASE tenant = "Gone"
    <3>1. Answering  BY <2>1
    <3>2. \A k \in Uploads : row'[k] = "none" /\ ~InLedger(k)'
      BY <2>1, <3>1 DEF NothingLeftBehind, Answering
    <3>3. \A k \in object : Answered(k)  BY <2>1 DEF NothingLeftBehind, Answered
    <3>4. \A k \in object' : Answered(k)'  BY <3>1, <3>3 DEF Answering
    <3>5. \A k \in object' : late'[k] = "appeared"  BY <3>2, <3>4 DEF Answered
    <3> QED  BY <2>1, <3>2, <3>5 DEF NothingLeftBehind
  <2>2. CASE tenant # "Gone"  BY <2>2 DEF NothingLeftBehind
  <2> QED  BY <2>1, <2>2
<1> QED  BY <1>1, <1>2, <1>3

LEMMA FinalizeGone ==
  ASSUME Typed, Gone, Finalize
  PROVE  Gone'
<1>1. /\ exit = "relisted" /\ exit' = "idle" /\ tenant' = "Gone"
      /\ UNCHANGED <<row, ledger, object, late>> /\ EverythingSwept
      /\ authority'.armed
  BY DEF Finalize, Exiting, NoAuthority
<1>2. \A k \in Uploads : row'[k] = "none" /\ ~InLedger(k)'
  BY <1>1 DEF EverythingSwept, InLedger
<1>3. \A k \in object : Answered(k) /\ k \in Uploads
  BY <1>1 DEF Gone, RelistSound, Typed, TypeOK
<1>4. \A k \in object' : late'[k] = "appeared"
  BY <1>1, <1>2, <1>3 DEF Answered, EverythingSwept
<1>5. NothingLeftBehind'  BY <1>1, <1>2, <1>4 DEF NothingLeftBehind
<1>6. ExitSound' /\ RelistSound'  BY <1>1 DEF ExitSound, RelistSound, Swept
<1> QED  BY <1>5, <1>6 DEF Gone

LEMMA ExitGone == Typed /\ Gone /\ ExitStep => Gone'
<1> SUFFICES ASSUME Typed, Gone, ExitStep PROVE Gone'  OBVIOUS
<1> USE DEF Exiting, requests, cleaners, Gone
<1>1. CASE Finalize  BY <1>1, FinalizeGone
<1>2. CASE ~Finalize
  <2>1. tenant # "Gone"
    BY <1>2 DEF ExitStep, ExitRuns, PhaseZero, LeasesDrained, EraseData, Census, Recensus, SweepPrefix,
                SweepFails, SweepLedger, Relist, RelistRefused, FinalizeRefused, ExitStops, ExitSound
  <2>2. tenant' # "Gone" /\ authority' = authority
    BY <1>2, <2>1 DEF ExitStep, ExitRuns, PhaseZero, LeasesDrained, EraseData, Census, Recensus,
                SweepPrefix, SweepFails, SweepLedger, Relist, RelistRefused, FinalizeRefused, ExitStops
  <2>3. NothingLeftBehind'  BY <2>1, <2>2 DEF NothingLeftBehind
  <2>4. exit' # "idle" => tenant' = "Exiting"
    BY <1>2 DEF ExitStep, ExitRuns, PhaseZero, LeasesDrained, EraseData, Census, Recensus, SweepPrefix,
                SweepFails, SweepLedger, Relist, RelistRefused, FinalizeRefused, ExitStops, ExitSound
  <2>5. exit' \in Swept => \A k \in Uploads : row'[k] = "none"
    BY <1>2 DEF ExitStep, ExitRuns, PhaseZero, LeasesDrained, EraseData, Census, Recensus, SweepPrefix,
                SweepFails, SweepLedger, Relist, RelistRefused, FinalizeRefused, ExitStops, ExitSound,
                Swept
  <2>6. RelistSound'
    <3>1. CASE Relist("docs", "relist")
      BY <3>1 DEF Relist, RelistSound
    <3>2. CASE Relist("intake", "relisted")
      <4>1. /\ exit = "relist" /\ exit' = "relisted" /\ UNCHANGED <<ledger, object, late>>
            /\ object \cap Prefix("intake") = {}
        BY <3>2 DEF Relist
      <4>2. \A k \in object : k \in Prefix("docs")  BY <4>1 DEF Prefix, Typed, TypeOK
      <4>3. \A k \in object : Answered(k)  BY <4>1, <4>2 DEF RelistSound
      <4> QED  BY <4>1, <4>3 DEF RelistSound, Answered, InLedger
    <3>3. CASE exit' \notin {"relist", "relisted"}  BY <3>3 DEF RelistSound
    <3> QED
      BY <1>2, <3>1, <3>2, <3>3
      DEF ExitStep, ExitRuns, PhaseZero, LeasesDrained, EraseData, Census, Recensus, SweepPrefix,
          SweepFails, SweepLedger, RelistRefused, FinalizeRefused, ExitStops
  <2> QED  BY <2>3, <2>4, <2>5, <2>6 DEF ExitSound
<1> QED  BY <1>1, <1>2

LEMMA JanitorArmed ==
  ASSUME Typed, NEW j \in Janitors, JanitorStep(j)
  PROVE  authority'.armed = authority.armed
<1>1. CASE CommitCatch(j)
  <2>1. Recorded(j, authority.result)  BY <1>1, CommitEffect
  <2> QED  BY <2>1 DEF Recorded
<1>2. CASE ListFails(j)
  <2>1. Recorded(j, "failed")  BY <1>2, ListFailsEffect
  <2> QED  BY <2>1 DEF Recorded
<1>3. CASE Confirm(j)
  <2>1. Confirmed(j)  BY <1>3, ConfirmEffect
  <2> QED  BY <2>1 DEF Confirmed
<1>4. CASE UNCHANGED authority  BY <1>4
<1> QED
  BY <1>1, <1>2, <1>3, <1>4
  DEF JanitorStep, JanitorRuns, Lock, Catch, Destroy, DestroyFails, JanitorStops

LEMMA NextGone ==
  ASSUME Typed, Typed', ObjectsSound, Gone, Next
  PROVE  Gone'
<1> USE DEF requests, cleaners
<1>0. object' \subseteq Uploads  BY DEF Typed, TypeOK
<1>1. ASSUME NEW k \in Uploads, UploadStep(k) \/ Expire(k) \/ LeaseEnds(k) PROVE Gone'
  <2>1. UNCHANGED <<tenant, exit, authority>>
    BY <1>1 DEF UploadStep, Begin, Prepare, PutBegins, PutSucceeds, PutFails, Publish, Register,
                DropSource, RegisterFails, Arm, Clean, Die, Expire, LeaseEnds
  <2>2. tenant # "Active" => Answering  BY <1>1, UploadAnswering
  <2> QED  BY <1>0, <2>1, <2>2, OthersLeave
<1>2. CASE ReviewStep
  <2>1. UNCHANGED <<tenant, exit, authority>>
    BY <1>2 DEF ReviewStep, Promote, Reject, RevokeLink
  <2>2. tenant # "Active" => Answering
    BY <1>2, QuietAnswering DEF ReviewStep, Promote, Reject, RevokeLink
  <2> QED  BY <1>0, <2>1, <2>2, OthersLeave
<1>3. CASE DrainStep
  <2>1. UNCHANGED <<tenant, exit, authority>>
    BY <1>3 DEF DrainStep, DrainArms, DrainLists, DrainDeletes, DrainRecords
  <2> QED  BY <1>0, <1>3, <2>1, DrainAnswering, OthersLeave
<1>4. CASE ExitStep  BY <1>4, ExitGone
<1>5. ASSUME NEW j \in Janitors, JanitorStep(j) PROVE Gone'
  <2>1. UNCHANGED <<tenant, exit, row, ledger, late>> /\ object' \subseteq object
    BY <1>5 DEF JanitorStep, JanitorRuns, Lock, Catch, CommitCatch, Destroy, Confirm, DestroyFails,
                JanitorStops, ListFails
  <2> QED  BY <1>0, <1>5, <2>1, QuietAnswering, JanitorArmed, OthersLeave
<1> QED  BY <1>1, <1>2, <1>3, <1>4, <1>5 DEF Next, JanitorStep

-----------------------------------------------------------------------------
(* The janitor.                                                             *)

\* Nothing comes back: what appears in storage has not been late before.
LEMMA NothingComesBack ==
  ASSUME Typed, ObjectsSound, NEW k \in Uploads, UploadStep(k) \/ Expire(k) \/ LeaseEnds(k)
  PROVE  Appeared \subseteq Appeared' /\ (object' \ object) \cap Appeared = {}
<1> USE DEF Appeared
<1>1. CASE PutSucceeds(k)
  <2>1. upload[k].step = "putting" /\ late' = late /\ object' = object \cup {k}
    BY <1>1 DEF PutSucceeds
  <2>2. late[k] = "no"  BY <2>1 DEF ObjectsSound, IntentSound
  <2> QED  BY <2>1, <2>2
<1>2. CASE Publish(k)
  <2>1. late[k] = "pending" /\ object' = object \cup {k}
        /\ \A i \in Uploads \ {k} : late'[i] = late[i]
    BY <1>2 DEF Publish, Typed, TypeOK
  <2> QED  BY <2>1
<1>3. CASE upload[k].step = "putting" /\ Stray(k)
  <2>1. late[k] = "no"  BY <1>3 DEF ObjectsSound, IntentSound
  <2>2. object' \subseteq object \cup {k}
        /\ \A i \in Uploads : late[i] = "appeared" => late'[i] = "appeared"
    BY <1>3, StrayEffect DEF ObjectsSound
  <2> QED  BY <2>1, <2>2
<1>4. CASE late' = late /\ object' \subseteq object  BY <1>4
<1> QED
  BY <1>1, <1>2, <1>3, <1>4
  DEF UploadStep, Begin, Prepare, PutBegins, PutFails, Register, DropSource, RegisterFails, Arm,
      Clean, Die, Expire, LeaseEnds, cleaners, requests

LEMMA AppearedFinite == IsFiniteSet(Appeared) /\ Cardinality(Appeared) \in Nat
BY UploadsAssumption, FS_Subset, FS_CardinalityType DEF Appeared

\* The count stands when no straggler is up for counting again.
LEMMA CountKept ==
  ASSUME Typed, CountSound, authority'.count = authority.count,
         Typed', Appeared \subseteq Appeared', Appeared \cap Uncounted' \subseteq Uncounted
  PROVE  CountSound'
<1>1. Appeared \ Uncounted \subseteq (Appeared \ Uncounted)'  OBVIOUS
<1>2. IsFiniteSet(Appeared')
  <2>1. Appeared' \subseteq Uploads  BY DEF Appeared
  <2> QED  BY <2>1, UploadsAssumption, FS_Subset
<1>3. IsFiniteSet((Appeared \ Uncounted)')
  <2>1. (Appeared \ Uncounted)' \subseteq Appeared'  OBVIOUS
  <2> QED  BY <1>2, <2>1, FS_Subset
<1>4. Cardinality(Appeared \ Uncounted) <= Cardinality((Appeared \ Uncounted)')
      /\ Cardinality(Appeared \ Uncounted) \in Nat
      /\ Cardinality((Appeared \ Uncounted)') \in Nat
  BY <1>1, <1>3, FS_Subset, FS_CardinalityType
<1>5. authority.count \in Nat  BY DEF Typed
<1> QED  BY <1>4, <1>5 DEF CountSound

\* A step of anything but the janitor, or the exit's last.
LEMMA OthersJanitor ==
  ASSUME Typed, Typed', JanitorSound, CountSound, UNCHANGED <<authority, janitor>>,
         Appeared \subseteq Appeared', (object' \ object) \cap Appeared = {}
  PROVE  JanitorSound' /\ CountSound'
<1>1. JanitorSound'  BY DEF JanitorSound
<1>2. Appeared \cap Uncounted' \subseteq Uncounted  BY DEF Uncounted
<1>3. CountSound'  BY <1>2, CountKept
<1> QED  BY <1>1, <1>3

LEMMA FinalizeJanitor ==
  ASSUME Typed, Typed', JanitorSound, NothingLeftBehind, ExitSound, Finalize
  PROVE  JanitorSound' /\ CountSound'
<1>1. /\ ~authority.armed /\ UNCHANGED <<janitor, object, late>>
      /\ authority'.pending = {} /\ authority'.count = 0
  BY DEF Finalize, Exiting, ExitSound, NothingLeftBehind, NoAuthority
<1>2. \A j \in Janitors : janitor'[j] = NoPass  BY <1>1 DEF JanitorSound
<1>3. JanitorSound'  BY <1>1, <1>2 DEF JanitorSound, NoPass
<1>4. (Appeared \ Uncounted)' \subseteq Uploads  BY DEF Appeared
<1>5. Cardinality((Appeared \ Uncounted)') \in Nat
  BY <1>4, UploadsAssumption, FS_Subset, FS_CardinalityType
<1>6. CountSound'  BY <1>1, <1>5 DEF CountSound
<1> QED  BY <1>3, <1>6

\* What a pass has caught is a part of what may yet be counted; on record, it
\* is counted for good.
LEMMA RecordedCount ==
  ASSUME Typed, Typed', CountSound, JanitorSound, NEW j \in Janitors, NEW result, Recorded(j, result),
         janitor[j].step = "listing", UNCHANGED <<object, late>>,
         \A i \in Janitors : janitor'[i].step # "listing"
  PROVE  CountSound'
<1> DEFINE new == janitor[j].pending \ authority.pending
           old == Appeared \ Uncounted
           now == (Appeared \ Uncounted)'
<1>1. authority'.count = authority.count + Cardinality(new)
      /\ authority'.pending = janitor[j].pending
  BY DEF Recorded
<1>2. Appeared' = Appeared  BY DEF Appeared
<1>3. new \subseteq Uncounted  BY DEF JanitorSound, Uncounted
<1>4. authority.pending \subseteq janitor[j].pending  BY DEF JanitorSound
<1>5. \A k \in Uncounted' : k \in Appeared /\ k \notin janitor[j].pending /\ k \in object
  BY <1>1, <1>2 DEF Uncounted
<1>6. Uncounted' \subseteq Uncounted \ new  BY <1>4, <1>5 DEF Uncounted
<1>7. new \subseteq Appeared  BY <1>3 DEF Uncounted
<1>8. old \cup new \subseteq now  BY <1>2, <1>6, <1>7, <1>3
<1>9. old \cap new = {}  BY <1>3
<1>10. IsFiniteSet(now) /\ IsFiniteSet(old) /\ IsFiniteSet(new)
  <2>1. now \subseteq Appeared /\ old \subseteq Appeared /\ new \subseteq Appeared
    BY <1>2, <1>7
  <2> QED  BY <2>1, AppearedFinite, FS_Subset
<1> HIDE DEF new, old, now
<1>11. Cardinality(old \cup new) = Cardinality(old) + Cardinality(new) - Cardinality({})
       /\ IsFiniteSet(old \cup new)
  BY <1>9, <1>10, FS_Union
<1>12. Cardinality({}) = 0  BY FS_EmptySet
<1>13. /\ Cardinality(old) \in Nat /\ Cardinality(new) \in Nat /\ Cardinality(now) \in Nat
       /\ Cardinality(old \cup new) \in Nat
  BY <1>10, <1>11, FS_CardinalityType
<1>14. Cardinality(old \cup new) <= Cardinality(now)  BY <1>8, <1>10, FS_Subset
<1>15. authority.count <= Cardinality(old)  BY DEF CountSound, old
<1>16. authority.count \in Nat  BY DEF Typed
<1>17. authority'.count <= Cardinality(now)
  BY <1>1, <1>11, <1>12, <1>13, <1>14, <1>15, <1>16
<1> QED  BY <1>17 DEF CountSound, now

LEMMA NoPassFields == /\ NoPass.step = "idle" /\ NoPass.pending = {} /\ NoPass.destroyed = {}
BY DEF NoPass

LEMMA JanitorStepSound ==
  ASSUME Typed, Typed', JanitorSound, CountSound, NothingLeftBehind,
         NEW j \in Janitors, JanitorStep(j)
  PROVE  JanitorSound' /\ CountSound'
<1>0. UNCHANGED late /\ object' \subseteq object /\ Appeared' = Appeared
  BY DEF JanitorStep, JanitorRuns, Lock, Catch, CommitCatch, Destroy, Confirm, DestroyFails,
         JanitorStops, ListFails, requests, Appeared
<1> USE DEF PassIs
<1>1. CASE Lock(j)
  <2>1. PassIs(j, [step |-> "listing", pending |-> authority.pending, destroyed |-> {}])
    BY <1>1, LockEffect
  <2>2. UNCHANGED <<object, authority>> /\ authority.armed
        /\ \A i \in Janitors : janitor[i].step # "listing"
    BY <1>1 DEF Lock
  <2>3. JanitorSound'  BY <1>0, <2>1, <2>2 DEF JanitorSound
  <2>4. Appeared \cap Uncounted' \subseteq Uncounted  BY <1>0, <2>1, <2>2 DEF Uncounted
  <2> QED  BY <1>0, <2>2, <2>3, <2>4, CountKept
<1>2. CASE Catch(j)
  <2>1. PassIs(j, [step |-> "listing", pending |-> janitor[j].pending \cup object,
                   destroyed |-> janitor[j].destroyed])
    BY <1>2, CatchEffect
  <2>2. UNCHANGED <<object, authority>> /\ janitor[j].step = "listing"
    BY <1>2 DEF Catch
  <2>3. object \subseteq Appeared
    BY <2>2 DEF JanitorSound, NothingLeftBehind, Typed, TypeOK, Appeared
  <2>4. JanitorSound'  BY <1>0, <2>1, <2>2, <2>3 DEF JanitorSound
  <2>5. Appeared \cap Uncounted' \subseteq Uncounted  BY <1>0, <2>1, <2>2 DEF Uncounted
  <2> QED  BY <1>0, <2>2, <2>4, <2>5, CountKept
<1>3. CASE CommitCatch(j)
  <2>1. PassIs(j, [step |-> "destroying", pending |-> janitor[j].pending,
                   destroyed |-> janitor[j].destroyed])
    BY <1>3, StepSet DEF CommitCatch, PassSteps
  <2>2. Recorded(j, authority.result)  BY <1>3, CommitEffect
  <2>3. authority'.armed = authority.armed /\ authority'.pending = janitor[j].pending
    BY <2>2 DEF Recorded
  <2>4. UNCHANGED <<object, late>> /\ janitor[j].step = "listing"
    BY <1>3 DEF CommitCatch, requests
  <2>5. \A i \in Janitors : janitor'[i].step # "listing"
    BY <2>1, <2>4 DEF JanitorSound
  <2>6. JanitorSound'  BY <1>0, <2>1, <2>3, <2>4, <2>5 DEF JanitorSound
  <2> QED  BY <2>2, <2>4, <2>5, <2>6, RecordedCount
<1>4. CASE ListFails(j)
  <2>1. PassIs(j, NoPass)  BY <1>4, NoPassTyped, PassSet DEF ListFails
  <2>2. Recorded(j, "failed")  BY <1>4, ListFailsEffect
  <2>3. authority'.armed = authority.armed /\ authority'.pending = janitor[j].pending
    BY <2>2 DEF Recorded
  <2>4. UNCHANGED <<object, late>> /\ janitor[j].step = "listing"
    BY <1>4 DEF ListFails, requests
  <2>5. \A i \in Janitors : janitor'[i].step # "listing"
    BY <2>1, <2>4, NoPassFields DEF JanitorSound
  <2>6. JanitorSound'  BY <1>0, <2>1, <2>3, <2>4, <2>5, NoPassFields DEF JanitorSound
  <2> QED  BY <2>2, <2>4, <2>5, <2>6, RecordedCount
<1>5. CASE Destroy(j)
  <2>1. PICK k \in janitor[j].pending \ janitor[j].destroyed :
          /\ object' = object \ {k}
          /\ janitor' = [janitor EXCEPT ![j].destroyed = @ \cup {k}]
    BY <1>5 DEF Destroy
  <2>2. k \in Uploads /\ janitor[j].step = "destroying" /\ UNCHANGED authority
    BY <1>5 DEF Destroy, Typed, Passes
  <2>3. PassIs(j, [step |-> "destroying", pending |-> janitor[j].pending,
                   destroyed |-> janitor[j].destroyed \cup {k}])
    BY <2>1, <2>2, DestroyEffect
  <2>4. /\ janitor'[j].step = "destroying" /\ janitor'[j].pending = janitor[j].pending
        /\ janitor'[j].destroyed = janitor[j].destroyed \cup {k}
        /\ \A i \in Janitors \ {j} : janitor'[i] = janitor[i]
    BY <2>3
  <2>5. \A i \in Janitors : janitor'[i].step = janitor[i].step
                            /\ janitor'[i].pending = janitor[i].pending
    BY <2>2, <2>4
  <2>6. \A i \in Janitors : janitor'[i].destroyed \subseteq janitor'[i].pending \ object'
    <3>1. janitor'[j].destroyed \subseteq janitor'[j].pending \ object'
      BY <2>1, <2>4 DEF JanitorSound
    <3>2. \A i \in Janitors \ {j} : janitor'[i].destroyed \subseteq janitor'[i].pending \ object'
      BY <1>0, <2>4 DEF JanitorSound
    <3> QED  BY <3>1, <3>2
  <2>7. \A i \in Janitors : janitor'[i].step = "idle" => janitor'[i] = NoPass
    BY <2>4 DEF JanitorSound
  <2>8. JanitorSound'  BY <1>0, <2>2, <2>5, <2>6, <2>7 DEF JanitorSound
  <2>9. Appeared \cap Uncounted' \subseteq Uncounted  BY <1>0, <2>2, <2>3 DEF Uncounted
  <2> QED  BY <1>0, <2>2, <2>8, <2>9, CountKept
<1>6. CASE Confirm(j)
  <2>1. PassIs(j, NoPass)  BY <1>6, NoPassTyped, PassSet DEF Confirm
  <2>2. Confirmed(j)  BY <1>6, ConfirmEffect
  <2>3. /\ authority'.armed = authority.armed /\ authority'.count = authority.count
        /\ authority'.pending = authority.pending \ janitor[j].destroyed
    BY <2>2 DEF Confirmed
  <2>4. UNCHANGED object /\ \A i \in Janitors : janitor[i].step # "listing"
    BY <1>6 DEF Confirm, requests
  <2>5. JanitorSound'  BY <1>0, <2>1, <2>3, <2>4, NoPassFields DEF JanitorSound
  <2>6. Appeared \cap Uncounted' \subseteq Uncounted
    BY <1>0, <2>1, <2>3, <2>4, NoPassFields DEF Uncounted, JanitorSound
  <2> QED  BY <1>0, <2>3, <2>5, <2>6, CountKept
<1>7. CASE DestroyFails(j)
  <2>1. PassIs(j, [step |-> "confirming", pending |-> janitor[j].pending,
                   destroyed |-> janitor[j].destroyed])
    BY <1>7, StepSet DEF DestroyFails, PassSteps
  <2>2. UNCHANGED authority /\ janitor[j].step = "destroying"  BY <1>7 DEF DestroyFails
  <2>3. JanitorSound'  BY <1>0, <2>1, <2>2 DEF JanitorSound
  <2>4. Appeared \cap Uncounted' \subseteq Uncounted  BY <1>0, <2>1, <2>2 DEF Uncounted
  <2> QED  BY <1>0, <2>2, <2>3, <2>4, CountKept
<1>8. CASE JanitorStops(j)
  <2>1. PassIs(j, NoPass)  BY <1>8, NoPassTyped, PassSet DEF JanitorStops
  <2>2. UNCHANGED <<authority, object>>  BY <1>8 DEF JanitorStops, requests
  <2>3. JanitorSound'  BY <1>0, <2>1, <2>2, NoPassFields DEF JanitorSound
  <2>4. Appeared \cap Uncounted' \subseteq Uncounted
    BY <1>0, <2>1, <2>2, NoPassFields DEF Uncounted
  <2> QED  BY <1>0, <2>2, <2>3, <2>4, CountKept
<1> QED
  BY <1>1, <1>2, <1>3, <1>4, <1>5, <1>6, <1>7, <1>8 DEF JanitorStep, JanitorRuns

-----------------------------------------------------------------------------
(* The theorems.                                                            *)

LEMMA InitInv == Init => IInv
<1> SUFFICES ASSUME Init PROVE IInv  OBVIOUS
<1>1. Typed  BY InitTyped
<1>2. /\ tenant = "Active" /\ object = {} /\ exit = "idle" /\ wipe = NoWipe
      /\ authority = NoAuthority
      /\ \A k \in Uploads : /\ upload[k] = Fresh /\ row[k] = "none" /\ late[k] = "no"
                            /\ \A r \in Reasons : ledger[k][r] = "none"
      /\ \A j \in Janitors : janitor[j] = NoPass
  BY DEF Init
<1>3. {"compensation", "intake_reject", "quarantine_cleanup", "exit"} \subseteq Reasons
      /\ \A c \in Copies : c \in Uploads /\ Source[c] \in Uploads
  BY UploadsTyped DEF Reasons
<1>4. IntentSound /\ ReviewSound /\ CopySound /\ CopiedIsCopy /\ StoredIsThere
  BY <1>2, <1>3
  DEF IntentSound, ReviewSound, CopySound, CopiedIsCopy, StoredIsThere, Intent, Fresh
<1>5. WipeSound  BY <1>2 DEF WipeSound, NoWipe
<1>6. OwnedBytesExist /\ NothingForgotten /\ NothingLeftBehind
  BY <1>2 DEF OwnedBytesExist, NothingForgotten, NothingLeftBehind, Owned, NoAuthority
<1>7. ExitSound /\ RelistSound  BY <1>2 DEF ExitSound, RelistSound, Swept
<1>8. JanitorSound  BY <1>2 DEF JanitorSound, NoAuthority, NoPass
<1>9. CountSound
  <2>1. Appeared \ Uncounted \subseteq Uploads  BY DEF Appeared
  <2>2. Cardinality(Appeared \ Uncounted) \in Nat
    BY <2>1, UploadsAssumption, FS_Subset, FS_CardinalityType
  <2> QED  BY <1>2, <2>2 DEF CountSound, NoAuthority
<1> QED  BY <1>1, <1>4, <1>5, <1>6, <1>7, <1>8, <1>9 DEF IInv

LEMMA NextJanitor ==
  ASSUME Typed, Typed', ObjectsSound, ExitSound, NothingLeftBehind, JanitorSound, CountSound, Next
  PROVE  JanitorSound' /\ CountSound'
<1>1. ASSUME NEW k \in Uploads, UploadStep(k) \/ Expire(k) \/ LeaseEnds(k)
      PROVE  JanitorSound' /\ CountSound'
  <2>1. UNCHANGED <<authority, janitor>>
    BY <1>1 DEF UploadStep, Begin, Prepare, PutBegins, PutSucceeds, PutFails, Publish, Register,
                DropSource, RegisterFails, Arm, Clean, Die, Expire, LeaseEnds, cleaners
  <2> QED  BY <1>1, <2>1, NothingComesBack, OthersJanitor
<1>2. CASE UNCHANGED <<authority, janitor, late>> /\ object' \subseteq object
  <2>1. Appeared' = Appeared  BY <1>2 DEF Appeared
  <2> QED  BY <1>2, <2>1, OthersJanitor
<1>3. CASE Finalize  BY <1>3, FinalizeJanitor
<1>4. CASE ReviewStep
  BY <1>2, <1>4 DEF ReviewStep, Promote, Reject, RevokeLink, cleaners
<1>5. CASE DrainStep
  BY <1>2, <1>5 DEF DrainStep, DrainArms, DrainLists, DrainDeletes, DrainRecords, requests
<1>6. CASE ExitStep
  BY <1>2, <1>3, <1>6
  DEF ExitStep, ExitRuns, PhaseZero, LeasesDrained, EraseData, Census, Recensus, SweepPrefix,
      SweepFails, SweepLedger, Relist, RelistRefused, FinalizeRefused, ExitStops, requests
<1>7. ASSUME NEW j \in Janitors, JanitorStep(j) PROVE JanitorSound' /\ CountSound'
  BY <1>7, JanitorStepSound
<1> QED  BY <1>1, <1>4, <1>5, <1>6, <1>7 DEF Next, JanitorStep

LEMMA NextInv == IInv /\ [Next]_vars => IInv'
<1> SUFFICES ASSUME IInv, [Next]_vars PROVE IInv'  OBVIOUS
<1>1. Typed /\ ObjectsSound /\ Gone /\ JanitorSound /\ CountSound
  BY DEF IInv, ObjectsSound, Gone
<1>2. Typed'  BY <1>1, NextTyped
<1>3. CASE Next
  <2>1. Gone'  BY <1>1, <1>2, <1>3, NextGone
  <2>2. JanitorSound' /\ CountSound'  BY <1>1, <1>2, <1>3, NextJanitor DEF Gone
  <2>3. ObjectsSound'
    BY <1>1, <1>3, UploadSound, ReviewKeeps, DrainKeeps, ExitKeeps, JanitorKeeps
    DEF Next, JanitorStep, Gone
  <2> QED  BY <1>2, <2>1, <2>2, <2>3 DEF IInv, ObjectsSound, Gone
<1>4. CASE UNCHANGED vars
  <2>1. ObjectsSound'  BY <1>1, <1>4, Frame DEF vars
  <2>2. Appeared' = Appeared /\ Uncounted' = Uncounted  BY <1>4 DEF vars, Appeared, Uncounted
  <2>3. JanitorSound' /\ CountSound'
    BY <1>1, <1>4, <2>2 DEF vars, JanitorSound, CountSound
  <2>4. Gone'
    BY <1>1, <1>4
    DEF vars, Gone, ExitSound, RelistSound, NothingLeftBehind, Answered, InLedger, Prefix
  <2> QED  BY <1>2, <2>1, <2>3, <2>4 DEF IInv, ObjectsSound, Gone
<1> QED  BY <1>3, <1>4

\* The strengthening every theorem below rests on: an entry of the ledger other
\* than an open intent stands behind a resolved one, or no row needs the object.
THEOREM Invariant == Spec => []IInv
BY InitInv, NextInv, PTL DEF Spec

\* Every reachable state is well typed.
THEOREM Typing == Spec => []TypeOK
<1>1. IInv => TypeOK  BY DEF IInv, Typed
<1> QED  BY <1>1, Invariant, PTL

\* What a row owns is in storage, whatever deletes (resolveCompensationIntent).
THEOREM RowsHaveBytes == Spec => []OwnedBytesExist
<1>1. IInv => OwnedBytesExist  BY DEF IInv
<1> QED  BY <1>1, Invariant, PTL

\* What is in storage is answered for, whatever fails (0076, blob_tombstone).
THEOREM BytesAnsweredFor == Spec => []NothingForgotten
<1>1. IInv => NothingForgotten  BY DEF IInv
<1> QED  BY <1>1, Invariant, PTL

\* A tenant's identity goes last (finalizeTenantExit).
THEOREM IdentityGoesLast == Spec => []NothingLeftBehind
<1>1. IInv => NothingLeftBehind  BY DEF IInv
<1> QED  BY <1>1, Invariant, PTL

\* No straggler is counted twice (0086).
THEOREM CountIsHonest == Spec => []CountedOnce
<1>1. IInv => CountedOnce
  <2> SUFFICES ASSUME IInv PROVE CountedOnce  OBVIOUS
  <2>1. Appeared \ Uncounted \subseteq Appeared  OBVIOUS
  <2>2. Cardinality(Appeared \ Uncounted) <= Cardinality(Appeared)
        /\ Cardinality(Appeared \ Uncounted) \in Nat
    BY <2>1, AppearedFinite, FS_Subset, FS_CardinalityType
  <2>3. authority.count <= Cardinality(Appeared \ Uncounted) /\ authority.count \in Nat
    BY DEF IInv, CountSound, Typed
  <2>4. authority.count <= Cardinality(Appeared)  BY <2>2, <2>3, AppearedFinite
  <2> QED  BY <2>4 DEF CountedOnce, Appeared
<1> QED  BY <1>1, Invariant, PTL

\* Nothing but a pass moves a pass.
LEMMA OnlyPasses ==
  ASSUME Next, janitor' # janitor
  PROVE  \E j \in Janitors : JanitorStep(j)
BY DEF Next, JanitorStep, UploadStep, Begin, Prepare, PutBegins, PutSucceeds, PutFails, Publish,
       Register, DropSource, RegisterFails, Arm, Clean, Die, Expire, LeaseEnds, cleaners,
       ReviewStep, Promote, Reject, RevokeLink, DrainStep, DrainArms, DrainLists, DrainDeletes,
       DrainRecords, ExitStep, ExitRuns, PhaseZero, LeasesDrained, EraseData, Census, Recensus,
       SweepPrefix, SweepFails, SweepLedger, Relist, RelistRefused, Finalize, FinalizeRefused,
       ExitStops, requests

\* A pass destroys only what is on record (erasureJanitor.ts).
THEOREM OnRecordFirst == Spec => CaughtBeforeDestroyed
<1>1. IInv /\ [Next]_vars =>
        [janitor' # janitor => object \ object' \subseteq authority.pending]_vars
  <2> SUFFICES ASSUME IInv, Next, janitor' # janitor
               PROVE  object \ object' \subseteq authority.pending
    BY DEF vars
  <2>1. PICK j \in Janitors : JanitorStep(j)
    BY OnlyPasses
  <2>2. CASE Destroy(j) \/ DestroyFails(j)
    <3>1. object \ object' \subseteq janitor[j].pending /\ janitor[j].step = "destroying"
      BY <2>2 DEF Destroy, DestroyFails
    <3> QED  BY <3>1 DEF IInv, JanitorSound
  <2>3. CASE object' = object  BY <2>3
  <2> QED
    BY <2>1, <2>2, <2>3
    DEF JanitorStep, JanitorRuns, Lock, Catch, CommitCatch, Confirm, JanitorStops, ListFails, requests
<1> QED  BY <1>1, Invariant, PTL DEF Spec, CaughtBeforeDestroyed

\* Nothing but the end of the exit and a pass writes the authority.
LEMMA WhoWritesAuthority ==
  ASSUME Next
  PROVE  Finalize \/ (\E j \in Janitors : JanitorStep(j)) \/ UNCHANGED authority
BY DEF Next, JanitorStep, UploadStep, Begin, Prepare, PutBegins, PutSucceeds, PutFails, Publish,
       Register, DropSource, RegisterFails, Arm, Clean, Die, Expire, LeaseEnds, cleaners,
       ReviewStep, Promote, Reject, RevokeLink, DrainStep, DrainArms, DrainLists, DrainDeletes,
       DrainRecords, ExitStep, ExitRuns, PhaseZero, LeasesDrained, EraseData, Census, Recensus,
       SweepPrefix, SweepFails, SweepLedger, Relist, RelistRefused, FinalizeRefused,
       ExitStops, requests

\* A key is taken off the record by the pass that has destroyed its object, and
\* by nothing else (erasureJanitor.ts, the confirmation of a pass).
THEOREM RecordKept == Spec => OnlyDestroyedLeaves
<1>1. IInv /\ [Next]_vars =>
        [authority.armed => (authority.pending \ authority'.pending) \cap object' = {}]_vars
  <2> SUFFICES ASSUME IInv, Next, authority.armed
               PROVE  (authority.pending \ authority'.pending) \cap object' = {}
    BY DEF vars
  <2>0. Typed /\ JanitorSound  BY DEF IInv
  <2>1. CASE UNCHANGED authority  BY <2>1
  <2>2. ~Finalize  BY DEF Finalize, Exiting, IInv, ExitSound, NothingLeftBehind
  <2>3. ASSUME NEW j \in Janitors, Confirm(j)
        PROVE  (authority.pending \ authority'.pending) \cap object' = {}
    <3>1. authority.pending \ authority'.pending \subseteq janitor[j].destroyed
      BY <2>0, <2>3, ConfirmEffect DEF Confirmed
    <3>2. janitor[j].destroyed \cap object = {}  BY <2>0 DEF JanitorSound
    <3>3. object' = object  BY <2>3 DEF Confirm
    <3> QED  BY <3>1, <3>2, <3>3
  <2>4. ASSUME NEW j \in Janitors, CommitCatch(j) \/ ListFails(j)
        PROVE  authority.pending \subseteq authority'.pending
    <3>1. janitor[j].step = "listing"  BY <2>4 DEF CommitCatch, ListFails
    <3>2. authority.pending \subseteq janitor[j].pending  BY <2>0, <3>1 DEF JanitorSound
    <3>3. Recorded(j, authority.result) \/ Recorded(j, "failed")
      BY <2>0, <2>4, CommitEffect, ListFailsEffect
    <3>4. authority'.pending = janitor[j].pending  BY <3>3 DEF Recorded
    <3> QED  BY <3>2, <3>4
  <2>5. ASSUME NEW j \in Janitors, JanitorStep(j)
        PROVE  Confirm(j) \/ CommitCatch(j) \/ ListFails(j) \/ UNCHANGED authority
    BY <2>5 DEF JanitorStep, JanitorRuns, Lock, Catch, Destroy, DestroyFails, JanitorStops
  <2> QED  BY <2>1, <2>2, <2>3, <2>4, <2>5, WhoWritesAuthority
<1> QED  BY <1>1, Invariant, PTL DEF Spec, OnlyDestroyedLeaves

=============================================================================
