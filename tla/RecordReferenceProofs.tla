----------------------- MODULE RecordReferenceProofs -----------------------
(***************************************************************************)
(* The shared draft of an agent's deployments: proved of RecordReference    *)
(* for any jobs, any calls, any repetition of job ids and any bounds.       *)
(*                                                                         *)
(* The properties speak of admitted jobs.  What makes them hold is decided  *)
(* before: a call that will store its job holds a reference that it added   *)
(* itself, which nobody else of the same job has (HolderOK, OneHolder), and *)
(* the call that made the record is alone with it until its item stands     *)
(* (MakerOK, OneMaker).  So an item with one reference in it is that of the *)
(* claimant, and after the claim nobody can be admitted with the record.    *)
(***************************************************************************)
EXTENDS RecordReference, TLAPS

\* A call that has its job's reference, and one that made the record.
HoldPCs   == {"gate", "client", "put", "release"}
CreatePCs == {"init", "rollback", "unmake", "restore"}
Holds(c)  == call[c].at \in HoldPCs
Makes(c)  == call[c].at \in CreatePCs

\* A job that was admitted with a record.
UsesRec(j, r) == Admits(j) /\ jobs[j].rec = r

\* No record is spoken of that was not created.
Known ==
  /\ draft <= made /\ items \subseteq 1 .. made
  /\ \A c \in Calls : call[c].rec <= made
  /\ \A j \in Jobs : jobs[j].rec <= made

\* A call with a reference is in the item; its job was not admitted with this record
\* before.
HolderOK(c) ==
  Holds(c) => /\ call[c].rec \in items /\ JobOf[c] \in refs[call[c].rec]
              /\ call[c].at = "put" => call[c].rec \in clients
              /\ ~UsesRec(JobOf[c], call[c].rec)

\* Two calls of one job never both have a reference to one record.
OneHolder ==
  \A c, d \in Calls :
    Holds(c) /\ Holds(d) /\ JobOf[c] = JobOf[d] /\ call[c].rec = call[d].rec => c = d

\* The flag "added" of a call says that it has a reference.
AddedOK(c) == call[c].at # "done" => (call[c].added <=> Holds(c))

\* No item and no admitted job has the record.
Alone(c) == call[c].rec \notin items /\ \A j \in Jobs : ~UsesRec(j, call[c].rec)

\* The item may exist although initializing it raised: then the creator's job is in it.
Joinable(c) ==
  /\ call[c].at = "rollback"
  /\ call[c].rec \in items /\ JobOf[c] \in refs[call[c].rec]
  /\ ~UsesRec(JobOf[c], call[c].rec)
  /\ \A d \in Calls : Holds(d) /\ JobOf[d] = JobOf[c] => call[d].rec # call[c].rec

\* A call that made a record and does not hold a reference yet.
MakerOK(c) == Makes(c) => call[c].rec \in Records /\ (Alone(c) \/ Joinable(c))

\* A record was made by one call.
OneMaker ==
  \A c, d \in Calls : Makes(c) /\ Makes(d) /\ call[c].rec = call[d].rec => c = d

\* Where a compensation is after its claim.
Claimed == {"cleanup", "record", "settle", "done"}

\* An admitted job is in its item until its own claim; after that the target names the
\* record as long as it exists.
AdmittedOK(j) ==
  Admits(j) =>
    \/ /\ jobs[j].rec \in items /\ j \in refs[jobs[j].rec]
    \/ /\ jobs[j].rec \in Records \ items
       /\ jobs[j].status = "failed" /\ comp[j] \in Claimed
       /\ targets[j] = jobs[j].rec \/ draft # jobs[j].rec

\* The client of a job in use exists.
ClientKept(j) == InUse(j) => jobs[j].rec \in clients

\* What a compensation has done already.
CompOK(j) ==
  /\ comp[j] # "no" => jobs[j].status = "failed"
  /\ comp[j] \in {"cleanup", "record"} => jobs[j].rec \notin items
  /\ comp[j] \in {"claim", "cleanup", "record"} => targets[j] = jobs[j].rec
  /\ comp[j] = "settle" /\ ~errors[j] => draft # jobs[j].rec

\* The invariant.
CallsOK == \A c \in Calls : HolderOK(c) /\ AddedOK(c) /\ MakerOK(c)
JobsOK  == \A j \in Jobs : AdmittedOK(j) /\ ClientKept(j) /\ CompOK(j)

RefInv == TypeOK /\ Known /\ CallsOK /\ OneHolder /\ OneMaker /\ JobsOK

-----------------------------------------------------------------------------
(* What the building blocks of the actions do.                              *)

\* The other calls stay where they are.
OthersStay(c) == \A d \in Calls : d # c => call'[d] = call[d]

\* A call that is somewhere else, with other locals, is still a call.
LEMMA CallStep ==
  ASSUME TypeOK, NEW c \in Calls, NEW row \in CallRow, call' = [call EXCEPT ![c] = row]
  PROVE  call' \in [Calls -> CallRow] /\ call'[c] = row /\ OthersStay(c)
  BY DEF TypeOK, OthersStay

\* A call that goes on keeps its locals.
LEMMA GotoStep ==
  ASSUME TypeOK, NEW c \in Calls, NEW p \in CallPCs, Goto(c, p)
  PROVE  /\ call' \in [Calls -> CallRow] /\ call'[c] = [call[c] EXCEPT !.at = p]
         /\ OthersStay(c)
         /\ call'[c].at = p /\ call'[c].rec = call[c].rec /\ call'[c].added = call[c].added
  <1>1. call[c] \in CallRow /\ [call[c] EXCEPT !.at = p] \in CallRow
    BY DEF TypeOK, CallRow
  <1>2. call' = [call EXCEPT ![c] = [call[c] EXCEPT !.at = p]]
    BY DEF Goto, TypeOK
  <1>3. QED
    BY <1>1, <1>2, CallStep DEF CallRow

\* A call that leaves releases what it added, and nothing else.
LEMMA LeaveStep ==
  ASSUME TypeOK, NEW c \in Calls, AddedOK(c), call[c].at # "done", Leave(c)
  PROVE  /\ call' \in [Calls -> CallRow] /\ OthersStay(c)
         /\ call'[c].at = (IF Holds(c) THEN "release" ELSE "done")
         /\ call'[c].rec = call[c].rec /\ call'[c].added = call[c].added
  BY GotoStep DEF Leave, AddedOK, CallPCs

\* Adding a reference touches one item.
LEMMA AddRefStep ==
  ASSUME TypeOK, NEW r \in Records, NEW j \in Jobs, AddRef(r, j)
  PROVE  /\ items' = items \cup {r} /\ items' \subseteq Records
         /\ refs' \in [Records -> SUBSET Jobs]
         /\ refs'[r] = refs[r] \cup {j}
         /\ \A s \in Records : s # r => refs'[s] = refs[s]
  BY DEF TypeOK, AddRef

\* So does deleting an item.
LEMMA DropItemStep ==
  ASSUME TypeOK, NEW r \in Records, DropItem(r)
  PROVE  /\ items' = items \ {r} /\ items' \subseteq Records
         /\ refs' \in [Records -> SUBSET Jobs]
         /\ \A s \in Records : s # r => refs'[s] = refs[s]
  BY DEF TypeOK, DropItem

\* The records that matter are records.
LEMMA RecTyped ==
  ASSUME RefInv
  PROVE  /\ \A c \in Calls : call[c].rec \in 0 .. MaxRecords
         /\ \A c \in Calls : Holds(c) \/ Makes(c) => call[c].rec \in Records
         /\ \A j \in Jobs : jobs[j].rec \in 0 .. MaxRecords
         /\ \A j \in Jobs : Admits(j) => jobs[j].rec \in Records
         /\ made \in Nat
  <1>1. /\ \A c \in Calls : call[c] \in CallRow
        /\ \A j \in Jobs : jobs[j] \in JobRow
    BY DEF RefInv, TypeOK
  <1>2. \A c \in Calls : Holds(c) \/ Makes(c) => call[c].rec \in Records
    BY DEF RefInv, CallsOK, HolderOK, MakerOK, TypeOK
  <1>3. \A j \in Jobs : Admits(j) => jobs[j].rec \in Records
    BY DEF RefInv, JobsOK, AdmittedOK, TypeOK
  <1>4. made \in Nat
    BY ReferenceAssumption DEF RefInv, TypeOK
  <1>5. QED
    BY <1>1, <1>2, <1>3, <1>4 DEF CallRow, JobRow

-----------------------------------------------------------------------------
(* What a call of create_job may do to the jobs that were admitted.         *)

\* The items of the records that jobs were admitted with do not change
\* for those jobs.
ItemsKept ==
  \A j \in Jobs : Admits(j) =>
    LET r == jobs[j].rec IN
    /\ r \in items' <=> r \in items
    /\ r \in items /\ j \in refs[r] => j \in refs'[r]

\* A step of create_job that leaves those items alone keeps what is known of the jobs.
LEMMA JobsFrame ==
  ASSUME RefInv, jobs' = jobs, targets' = targets, comp' = comp, errors' = errors, clients \subseteq clients',
         draft' \in {draft, 0, made + 1}, ItemsKept
  PROVE  JobsOK'
  <1>2. made \in Nat
    BY RecTyped
  <1>3. ASSUME NEW j \in Jobs
        PROVE  AdmittedOK(j)' /\ ClientKept(j)' /\ CompOK(j)'
    <2>0. AdmittedOK(j) /\ ClientKept(j) /\ CompOK(j)
      BY DEF RefInv, JobsOK
    <2>1. Admits(j) => jobs[j].rec \in 1 .. made
      BY RecTyped DEF RefInv, Known, Records
    <2>a. Admits(j) /\ draft' = jobs[j].rec => draft = jobs[j].rec
      BY <1>2, <2>1
    <2>2. AdmittedOK(j)'
      BY <2>0, <2>a DEF AdmittedOK, Admits, ItemsKept
    <2>3. ClientKept(j)'
      BY <2>0 DEF ClientKept, InUse
    <2>4. CompOK(j)'
      BY <2>0, <2>a DEF CompOK, Admits, ItemsKept
    <2>5. QED
      BY <2>2, <2>3, <2>4
  <1>4. QED
    BY <1>3 DEF JobsOK

-----------------------------------------------------------------------------
(* Everything keeps its shape.                                              *)

\* A step of create_job keeps the locals of its call in shape.
LEMMA CallsTyped ==
  ASSUME RefInv, NEW c \in Calls, Create(c)
  PROVE  call' \in [Calls -> CallRow]
  <1>a. TypeOK /\ AddedOK(c) /\ call[c] \in CallRow
    BY DEF RefInv, CallsOK, TypeOK
  <1>b. ASSUME NEW p \in CallPCs, Goto(c, p)
        PROVE  call' \in [Calls -> CallRow]
    BY <1>a, <1>b, GotoStep
  <1>c. ASSUME call[c].at # "done", Leave(c)
        PROVE  call' \in [Calls -> CallRow]
    BY <1>a, <1>c, LeaveStep
  <1>1. CASE Begin(c)
    BY <1>1, <1>b DEF Begin, CallPCs
  <1>2. CASE Find(c)
    <2>1. [call[c] EXCEPT !.at = IF draft = 0 THEN "create" ELSE "reserve", !.rec = draft] \in CallRow
      BY <1>a DEF CallRow, CallPCs, TypeOK
    <2>2. call' = [call EXCEPT ![c] =
            [call[c] EXCEPT !.at = IF draft = 0 THEN "create" ELSE "reserve", !.rec = draft]]
      BY <1>2, <1>a DEF Find, TypeOK
    <2>3. QED
      BY <1>a, <2>1, <2>2, CallStep
  <1>3. CASE Reserve(c)
    <2>1. CASE call' = [call EXCEPT ![c].at = IF JobOf[c] \in refs[call[c].rec] THEN "peek" ELSE "gate",
                                    ![c].added = JobOf[c] \notin refs[call[c].rec]]
      <3> DEFINE row == [call[c] EXCEPT !.at = IF JobOf[c] \in refs[call[c].rec] THEN "peek" ELSE "gate",
                                        !.added = JobOf[c] \notin refs[call[c].rec]]
      <3>1. row \in CallRow
        BY <1>a DEF CallRow, CallPCs
      <3>2. call' = [call EXCEPT ![c] = row]
        BY <2>1, <1>a DEF TypeOK
      <3>3. QED
        BY <1>a, <3>1, <3>2, CallStep
    <2>2. QED
      BY <1>3, <1>b, <2>1 DEF Reserve, CallPCs
  <1>4. CASE Peek(c) \/ Refuse(c) \/ Allow(c)
    BY <1>4, <1>b, <1>c DEF Peek, Refuse, Allow, At, CallPCs
  <1>5. CASE CreateDraft(c)
    <2>1. CASE /\ call' = [call EXCEPT ![c].at = "init", ![c].rec = made + 1, ![c].recCreated = TRUE]
               /\ made < MaxRecords
      <3> DEFINE row == [call[c] EXCEPT !.at = "init", !.rec = made + 1, !.recCreated = TRUE]
      <3>1. made + 1 \in 0 .. MaxRecords
        BY <1>a, <2>1, ReferenceAssumption DEF TypeOK
      <3>2. row \in CallRow
        BY <1>a, <3>1 DEF CallRow, CallPCs
      <3>3. call' = [call EXCEPT ![c] = row]
        BY <2>1, <1>a DEF TypeOK
      <3>4. QED
        BY <1>a, <3>2, <3>3, CallStep
    <2>2. QED
      BY <1>5, <1>b, <2>1 DEF CreateDraft, CallPCs
  <1>6. CASE Initialize(c)
    <2>1. CASE call' = [call EXCEPT ![c].at = "client", ![c].added = TRUE]
      <3> DEFINE row == [call[c] EXCEPT !.at = "client", !.added = TRUE]
      <3>1. row \in CallRow
        BY <1>a DEF CallRow, CallPCs
      <3>2. call' = [call EXCEPT ![c] = row]
        BY <2>1, <1>a DEF TypeOK
      <3>3. QED
        BY <1>a, <3>1, <3>2, CallStep
    <2>2. QED
      BY <1>6, <1>b, <2>1 DEF Initialize, CallPCs
  <1>7. CASE Rollback(c) \/ Unmake(c) \/ Restore(c) \/ Release(c) \/ CallCrash(c)
    BY <1>7, <1>b DEF Rollback, Unmake, Restore, Release, CallCrash, CallPCs
  <1>8. CASE ProvisionClient(c)
    <2>1. CASE call' = [call EXCEPT ![c].at = "put", ![c].cliCreated = call[c].rec \notin clients]
      <3> DEFINE row == [call[c] EXCEPT !.at = "put", !.cliCreated = call[c].rec \notin clients]
      <3>1. row \in CallRow
        BY <1>a DEF CallRow, CallPCs
      <3>2. call' = [call EXCEPT ![c] = row]
        BY <2>1, <1>a DEF TypeOK
      <3>3. QED
        BY <1>a, <3>1, <3>2, CallStep
    <2>2. QED
      BY <1>8, <1>c, <2>1 DEF ProvisionClient, At
  <1>9. CASE Put(c)
    BY <1>9, <1>b, <1>c DEF Put, At, CallPCs
  <1>10. QED
    BY <1>1, <1>2, <1>3, <1>4, <1>5, <1>6, <1>7, <1>8, <1>9 DEF Create

\* What else a call of create_job writes.
LEMMA CreateTyped ==
  ASSUME RefInv, NEW c \in Calls, Create(c)
  PROVE  TypeOK'
  <1>a. TypeOK /\ call' \in [Calls -> CallRow] /\ call[c] \in CallRow /\ JobOf[c] \in Jobs
    BY CallsTyped, ReferenceAssumption DEF RefInv, TypeOK
  <1>b. Holds(c) \/ Makes(c) => call[c].rec \in Records
    BY RecTyped
  <1>c. /\ targets' = targets /\ comp' = comp /\ errors' = errors /\ faults' \in Nat
    BY <1>a DEF Create, Begin, Find, Reserve, Peek, Refuse, Allow, CreateDraft, Initialize,
      Rollback,
       Unmake, Restore, ProvisionClient, Put, Release, CallCrash, Fault, TypeOK
  <1>d. draft' \in 0 .. MaxRecords /\ made' \in 0 .. MaxRecords
    BY <1>a, ReferenceAssumption
    DEF Create, Begin, Find, Reserve, Peek, Refuse, Allow, CreateDraft, Initialize, Rollback,
        Unmake, Restore, ProvisionClient, Put, Release, CallCrash, Remote, TypeOK, Without, Unanswered
  <1>e. clients' \subseteq Records
    BY <1>a, <1>b
    DEF Create, Begin, Find, Reserve, Peek, Refuse, Allow, CreateDraft, Initialize, Rollback,
        Unmake, Restore, ProvisionClient, Put, Release, CallCrash, Remote, TypeOK, Holds, HoldPCs, At
  <1>f. jobs' \in [Jobs -> JobRow]
    <2>1. Admitted(c) \in JobRow
      BY <1>a DEF Admitted, CallRow, JobRow, Statuses
    <2>2. CASE Put(c)
      BY <2>1, <2>2, <1>a DEF Put, TypeOK
    <2>3. CASE ~Put(c)
      BY <2>3, <1>a
      DEF Create, Begin, Find, Reserve, Peek, Refuse, Allow, CreateDraft, Initialize, Rollback,
          Unmake, Restore, ProvisionClient, Release, CallCrash, TypeOK
    <2>4. QED
      BY <2>2, <2>3
  <1>g. items' \subseteq Records /\ refs' \in [Records -> SUBSET Jobs]
    <2>1. ASSUME NEW r \in Records, AddRef(r, JobOf[c])
          PROVE  items' \subseteq Records /\ refs' \in [Records -> SUBSET Jobs]
      BY <1>a, <2>1, AddRefStep
    <2>2. ASSUME NEW r \in Records, DropItem(r)
          PROVE  items' \subseteq Records /\ refs' \in [Records -> SUBSET Jobs]
      BY <1>a, <2>2, DropItemStep
    <2>3. CASE UNCHANGED References
      BY <2>3, <1>a DEF References, TypeOK
    <2>4. CASE Reserve(c)
      BY <2>4, <2>1, <1>a DEF Reserve, References, TypeOK
    <2>5. CASE Initialize(c)
      BY <2>5, <2>1, <1>a, <1>b DEF Initialize, References, TypeOK, Makes, CreatePCs, At
    <2>6. CASE Rollback(c)
      BY <2>6, <2>2, <1>a, <1>b DEF Rollback, References, TypeOK, Makes, CreatePCs, At
    <2>7. CASE Restore(c)
      BY <2>7, <2>1, <1>a, <1>b DEF Restore, References, TypeOK, Makes, CreatePCs, At
    <2>8. CASE Release(c)
      BY <2>8, <1>a, <1>b DEF Release, TypeOK, Holds, HoldPCs, At
    <2>9. QED
      BY <2>3, <2>4, <2>5, <2>6, <2>7, <2>8
      DEF Create, Begin, Find, Peek, Refuse, Allow, CreateDraft, Unmake, ProvisionClient, Put, CallCrash
  <1>q. QED
    BY <1>a, <1>c, <1>d, <1>e, <1>f, <1>g DEF TypeOK

\* What a job's end and its compensation write.
LEMMA LiveTyped ==
  ASSUME RefInv, NEW j \in Jobs, Live(j)
  PROVE  TypeOK'
  <1>a. TypeOK /\ jobs[j] \in JobRow /\ jobs[j].rec \in 0 .. MaxRecords
    BY RecTyped DEF RefInv, TypeOK
  <1>b. call' = call /\ made' = made /\ faults' \in Nat
    BY <1>a DEF Live, Succeed, Fail, PutTarget, Claim, DropTarget, Cleanup, DeleteRecord, Settle,
       CompCrash, Fault, TypeOK, Remote
  <1>c. jobs' \in [Jobs -> JobRow]
    <2>1. [jobs[j] EXCEPT !.status = "ready"] \in JobRow /\ [jobs[j] EXCEPT !.status = "failed"] \in JobRow
      BY <1>a DEF JobRow, Statuses
    <2>2. CASE Succeed(j)
      BY <1>a, <2>1, <2>2 DEF Succeed, TypeOK
    <2>3. CASE Fail(j)
      BY <1>a, <2>1, <2>3 DEF Fail, TypeOK
    <2>4. QED
      BY <2>2, <2>3, <1>a
      DEF Live, PutTarget, Claim, DropTarget, Cleanup, DeleteRecord, Settle, CompCrash, TypeOK
  <1>d. draft' \in 0 .. MaxRecords /\ clients' \subseteq Records
    <2>1. CASE Cleanup(j)
      BY <1>a, <2>1 DEF Cleanup, TypeOK
    <2>2. CASE DeleteRecord(j)
      BY <1>a, <2>2, ReferenceAssumption DEF DeleteRecord, TypeOK, Without, Unanswered
    <2>3. QED
      BY <1>a, <2>1, <2>2 DEF Live, Succeed, Fail, PutTarget, Claim, DropTarget, Settle, CompCrash,
         TypeOK, Remote
  <1>e. targets' \in [Jobs -> 0 .. MaxRecords] /\ errors' \in [Jobs -> BOOLEAN]
    <2>1. ASSUME Err(j)
          PROVE  errors' \in [Jobs -> BOOLEAN]
      BY <1>a, <2>1 DEF Err, TypeOK
    <2>2. errors' \in [Jobs -> BOOLEAN]
      BY <1>a, <2>1 DEF Live, Succeed, Fail, PutTarget, Claim, DropTarget, Cleanup, DeleteRecord,
        Settle,
         CompCrash, TypeOK
    <2>3. ASSUME NEW r \in 0 .. MaxRecords
          PROVE  [targets EXCEPT ![j] = r] \in [Jobs -> 0 .. MaxRecords]
      BY <1>a DEF TypeOK
    <2>4. targets' \in [Jobs -> 0 .. MaxRecords]
      BY <1>a, <2>3, ReferenceAssumption
      DEF Live, Succeed, Fail, PutTarget, Claim, DropTarget, Cleanup, DeleteRecord, Settle, CompCrash, TypeOK
    <2>5. QED
      BY <2>2, <2>4
  <1>f. comp' \in [Jobs -> CompPCs]
    BY <1>a DEF Live, Succeed, Fail, PutTarget, Claim, DropTarget, Cleanup, DeleteRecord, Settle,
       CompCrash, TypeOK, Next1, CompPCs
  <1>g. items' \subseteq Records /\ refs' \in [Records -> SUBSET Jobs]
    BY <1>a DEF Live, Succeed, Fail, PutTarget, Claim, DropTarget, Cleanup, DeleteRecord, Settle,
       CompCrash, TypeOK, References, DropItem
  <1>h. QED
    BY <1>a, <1>b, <1>c, <1>d, <1>e, <1>f, <1>g DEF TypeOK

-----------------------------------------------------------------------------
(* Steps that change little.                                                *)

\* A retried job id is answered or goes on: nothing but the call moves.
LEMMA KeepBegin ==
  ASSUME RefInv, NEW c \in Calls, Begin(c)
  PROVE  RefInv'
  <1>1. TypeOK'
    BY CreateTyped DEF Create
  <1>2. Known'
    BY RecTyped DEF RefInv, TypeOK, Begin, At, Goto, Stored, Remote, References, Known
  <1>3. CallsOK'
    <2>1. ASSUME NEW d \in Calls PROVE HolderOK(d)' /\ AddedOK(d)'
      BY RecTyped, ReferenceAssumption DEF RefInv, TypeOK, Begin, At, Goto, Stored, Remote,
         References, CallsOK, HolderOK, AddedOK, Holds, HoldPCs, Makes, CreatePCs, UsesRec,
         Admits
    <2>2. ASSUME NEW d \in Calls PROVE MakerOK(d)'
      BY RecTyped, ReferenceAssumption DEF RefInv, TypeOK, Begin, At, Goto, Stored, Remote,
         References, CallsOK, AddedOK, MakerOK, Holds, HoldPCs, Makes, CreatePCs, Alone,
         Joinable, UsesRec, Admits
    <2>3. QED
      BY <2>1, <2>2 DEF CallsOK
  <1>4. OneHolder'
    BY RecTyped DEF RefInv, TypeOK, Begin, At, Goto, Stored, Remote, References, OneHolder, CallsOK,
      AddedOK, HolderOK, Holds, HoldPCs
  <1>5. OneMaker'
    BY RecTyped DEF RefInv, TypeOK, Begin, At, Goto, Stored, Remote, References, OneMaker, Makes,
      CreatePCs
  <1>6. JobsOK'
    BY RecTyped DEF RefInv, TypeOK, Begin, At, Goto, Stored, Remote, References, JobsOK, AdmittedOK,
      ClientKept, CompOK, Claimed, Admits, InUse
  <1>7. QED
    BY <1>1, <1>2, <1>3, <1>4, <1>5, <1>6 DEF RefInv

\* The call now has the draft in hand, but no reference yet.
LEMMA KeepFind ==
  ASSUME RefInv, NEW c \in Calls, Find(c)
  PROVE  RefInv'
  <1>1. TypeOK'
    BY CreateTyped DEF Create
  <1>2. Known'
    BY RecTyped DEF RefInv, TypeOK, Find, At, Remote, References, Known
  <1>3. CallsOK'
    <2>1. ASSUME NEW d \in Calls PROVE HolderOK(d)' /\ AddedOK(d)'
      BY RecTyped, ReferenceAssumption DEF RefInv, TypeOK, Find, At, Remote, References,
         CallsOK, HolderOK, AddedOK, Holds, HoldPCs, Makes, CreatePCs, UsesRec, Admits
    <2>2. ASSUME NEW d \in Calls PROVE MakerOK(d)'
      BY RecTyped, ReferenceAssumption DEF RefInv, TypeOK, Find, At, Remote, References,
         CallsOK, AddedOK, MakerOK, Holds, HoldPCs, Makes, CreatePCs, Alone, Joinable, UsesRec,
         Admits
    <2>3. QED
      BY <2>1, <2>2 DEF CallsOK
  <1>4. OneHolder'
    BY RecTyped DEF RefInv, TypeOK, Find, At, Remote, References, OneHolder, CallsOK, AddedOK,
      HolderOK, Holds, HoldPCs
  <1>5. OneMaker'
    BY RecTyped DEF RefInv, TypeOK, Find, At, Remote, References, OneMaker, Makes, CreatePCs
  <1>6. JobsOK'
    BY RecTyped DEF RefInv, TypeOK, Find, At, Remote, References, JobsOK, AdmittedOK, ClientKept,
      CompOK, Claimed, Admits, InUse
  <1>7. QED
    BY <1>1, <1>2, <1>3, <1>4, <1>5, <1>6 DEF RefInv

\* A call that met its own job's reference has added nothing, so it releases nothing.
LEMMA KeepPeek ==
  ASSUME RefInv, NEW c \in Calls, Peek(c)
  PROVE  RefInv'
  <1>1. TypeOK'
    BY CreateTyped DEF Create
  <1>2. Known'
    BY RecTyped DEF RefInv, TypeOK, Peek, At, Goto, Leave, Remote, References, Known
  <1>3. CallsOK'
    BY RecTyped, ReferenceAssumption DEF RefInv, TypeOK, Peek, At, Goto, Leave, Remote, References,
      CallsOK, HolderOK, AddedOK, MakerOK, Holds, HoldPCs, Makes, CreatePCs, Alone, Joinable, UsesRec,
      Admits
  <1>4. OneHolder'
    BY RecTyped DEF RefInv, TypeOK, Peek, At, Goto, Leave, Remote, References, OneHolder, CallsOK,
      AddedOK, HolderOK, Holds, HoldPCs
  <1>5. OneMaker'
    BY RecTyped DEF RefInv, TypeOK, Peek, At, Goto, Leave, Remote, References, OneMaker, Makes,
      CreatePCs
  <1>6. JobsOK'
    BY RecTyped DEF RefInv, TypeOK, Peek, At, Goto, Leave, Remote, References, JobsOK, AdmittedOK,
      ClientKept, CompOK, Claimed, Admits, InUse
  <1>7. QED
    BY <1>1, <1>2, <1>3, <1>4, <1>5, <1>6 DEF RefInv

\* A refused call goes on holding its reference until it has released it.
LEMMA KeepRefuse ==
  ASSUME RefInv, NEW c \in Calls, Refuse(c)
  PROVE  RefInv'
  <1>1. TypeOK'
    BY CreateTyped DEF Create
  <1>2. Known'
    BY RecTyped DEF RefInv, TypeOK, Refuse, Goto, Leave, Remote, References, Known
  <1>3. CallsOK'
    <2>1. ASSUME NEW d \in Calls PROVE HolderOK(d)' /\ AddedOK(d)'
      BY RecTyped, ReferenceAssumption DEF RefInv, TypeOK, Refuse, Goto, Leave, Remote,
         References, CallsOK, HolderOK, AddedOK, Holds, HoldPCs, Makes, CreatePCs, UsesRec,
         Admits
    <2>2. ASSUME NEW d \in Calls PROVE MakerOK(d)'
      BY RecTyped, ReferenceAssumption DEF RefInv, TypeOK, Refuse, Goto, Leave, Remote,
         References, CallsOK, AddedOK, MakerOK, Holds, HoldPCs, Makes, CreatePCs, Alone,
         Joinable, UsesRec, Admits
    <2>3. QED
      BY <2>1, <2>2 DEF CallsOK
  <1>4. OneHolder'
    BY RecTyped DEF RefInv, TypeOK, Refuse, Goto, Leave, Remote, References, OneHolder, CallsOK,
      AddedOK, HolderOK, Holds, HoldPCs
  <1>5. OneMaker'
    BY RecTyped DEF RefInv, TypeOK, Refuse, Goto, Leave, Remote, References, OneMaker, Makes,
      CreatePCs
  <1>6. JobsOK'
    BY RecTyped DEF RefInv, TypeOK, Refuse, Goto, Leave, Remote, References, JobsOK, AdmittedOK,
      ClientKept, CompOK, Claimed, Admits, InUse
  <1>7. QED
    BY <1>1, <1>2, <1>3, <1>4, <1>5, <1>6 DEF RefInv

\* The gate lets a call through with its reference.
LEMMA KeepAllow ==
  ASSUME RefInv, NEW c \in Calls, Allow(c)
  PROVE  RefInv'
  <1>1. TypeOK'
    BY CreateTyped DEF Create
  <1>2. Known'
    BY RecTyped DEF RefInv, TypeOK, Allow, At, Goto, Remote, References, Known
  <1>3. CallsOK'
    <2>1. ASSUME NEW d \in Calls PROVE HolderOK(d)' /\ AddedOK(d)'
      BY RecTyped, ReferenceAssumption DEF RefInv, TypeOK, Allow, At, Goto, Remote, References,
         CallsOK, HolderOK, AddedOK, Holds, HoldPCs, Makes, CreatePCs, UsesRec, Admits
    <2>2. ASSUME NEW d \in Calls PROVE MakerOK(d)'
      BY RecTyped, ReferenceAssumption DEF RefInv, TypeOK, Allow, At, Goto, Remote, References,
         CallsOK, AddedOK, MakerOK, Holds, HoldPCs, Makes, CreatePCs, Alone, Joinable, UsesRec,
         Admits
    <2>3. QED
      BY <2>1, <2>2 DEF CallsOK
  <1>4. OneHolder'
    BY RecTyped DEF RefInv, TypeOK, Allow, At, Goto, Remote, References, OneHolder, CallsOK,
      AddedOK, HolderOK, Holds, HoldPCs
  <1>5. OneMaker'
    BY RecTyped DEF RefInv, TypeOK, Allow, At, Goto, Remote, References, OneMaker, Makes, CreatePCs
  <1>6. JobsOK'
    BY RecTyped DEF RefInv, TypeOK, Allow, At, Goto, Remote, References, JobsOK, AdmittedOK,
      ClientKept, CompOK, Claimed, Admits, InUse
  <1>7. QED
    BY <1>1, <1>2, <1>3, <1>4, <1>5, <1>6 DEF RefInv

\* No admitted job and no reference can be in the way of an item put back.
LEMMA KeepRestore ==
  ASSUME RefInv, NEW c \in Calls, Restore(c)
  PROVE  RefInv'
  <1>1. TypeOK'
    BY CreateTyped DEF Create
  <1>2. Known'
    <2>1. call[c].rec \in 1 .. made /\ items' \subseteq items \cup {call[c].rec}
      BY RecTyped DEF RefInv, Known, Records, Restore, At, Goto, Fault, AddRef, Remote, References,
        Makes, CreatePCs
    <2>2. QED
      BY <2>1, RecTyped DEF RefInv, TypeOK, Known, Restore, At, Goto, Fault, AddRef, Remote,
        References
  <1>3. CallsOK'
    <2>1. ASSUME NEW d \in Calls PROVE HolderOK(d)' /\ AddedOK(d)'
      BY RecTyped, ReferenceAssumption DEF RefInv, TypeOK, Restore, At, Goto, Fault, AddRef,
         Remote, References, CallsOK, HolderOK, AddedOK, Holds, HoldPCs, Makes, CreatePCs,
         UsesRec, Admits, OneMaker
    <2>2. ASSUME NEW d \in Calls PROVE MakerOK(d)'
      BY RecTyped, ReferenceAssumption DEF RefInv, TypeOK, Restore, At, Goto, Fault, AddRef,
         Remote, References, CallsOK, AddedOK, MakerOK, Holds, HoldPCs, Makes, CreatePCs, Alone,
         Joinable, UsesRec, Admits, OneMaker
    <2>3. QED
      BY <2>1, <2>2 DEF CallsOK
  <1>4. OneHolder'
    BY RecTyped DEF RefInv, TypeOK, Restore, At, Goto, Fault, AddRef, Remote, References, OneHolder,
      CallsOK, AddedOK, HolderOK, Holds, HoldPCs
  <1>5. OneMaker'
    BY RecTyped DEF RefInv, TypeOK, Restore, At, Goto, Fault, AddRef, Remote, References, OneMaker,
      Makes, CreatePCs
  <1>6. JobsOK'
    BY RecTyped DEF RefInv, TypeOK, Restore, At, Goto, Fault, AddRef, Remote, References, JobsOK,
      AdmittedOK, ClientKept, CompOK, Claimed, Admits, InUse, CallsOK,
      MakerOK, Makes, CreatePCs, Alone, Joinable, UsesRec
  <1>7. QED
    BY <1>1, <1>2, <1>3, <1>4, <1>5, <1>6 DEF RefInv

\* A call that dies leaves its reference behind, which disturbs nobody.
LEMMA KeepCallCrash ==
  ASSUME RefInv, NEW c \in Calls, CallCrash(c)
  PROVE  RefInv'
  <1>1. TypeOK'
    BY CreateTyped DEF Create
  <1>2. Known'
    BY RecTyped DEF RefInv, TypeOK, CallCrash, Goto, Fault, Remote, References, Known
  <1>3. CallsOK'
    BY RecTyped, ReferenceAssumption DEF RefInv, TypeOK, CallCrash, Goto, Fault, Remote, References,
      CallsOK, HolderOK, AddedOK, MakerOK, Holds, HoldPCs, Makes, CreatePCs, Alone, Joinable, UsesRec,
      Admits
  <1>4. OneHolder'
    BY RecTyped DEF RefInv, TypeOK, CallCrash, Goto, Fault, Remote, References, OneHolder, CallsOK,
      AddedOK, HolderOK, Holds, HoldPCs
  <1>5. OneMaker'
    BY RecTyped DEF RefInv, TypeOK, CallCrash, Goto, Fault, Remote, References, OneMaker, Makes,
      CreatePCs
  <1>6. JobsOK'
    BY RecTyped DEF RefInv, TypeOK, CallCrash, Goto, Fault, Remote, References, JobsOK, AdmittedOK,
      ClientKept, CompOK, Claimed, Admits, InUse
  <1>7. QED
    BY <1>1, <1>2, <1>3, <1>4, <1>5, <1>6 DEF RefInv

\* A job that ends READY has not begun to compensate.
LEMMA KeepSucceed ==
  ASSUME RefInv, NEW j \in Jobs, Succeed(j)
  PROVE  RefInv'
  <1>1. TypeOK'
    BY LiveTyped DEF Live
  <1>2. Known'
    BY RecTyped DEF RefInv, TypeOK, Succeed, Remote, References, Known
  <1>3. CallsOK'
    BY RecTyped, ReferenceAssumption DEF RefInv, TypeOK, Succeed, Remote, References, CallsOK,
      HolderOK, AddedOK, MakerOK, Holds, HoldPCs, Makes, CreatePCs, Alone, Joinable, UsesRec, Admits
  <1>4. OneHolder'
    BY RecTyped DEF RefInv, TypeOK, Succeed, Remote, References, OneHolder, CallsOK, AddedOK,
      HolderOK, Holds, HoldPCs
  <1>5. OneMaker'
    BY RecTyped DEF RefInv, TypeOK, Succeed, Remote, References, OneMaker, Makes, CreatePCs
  <1>6. JobsOK'
    BY RecTyped DEF RefInv, TypeOK, Succeed, Remote, References, JobsOK, AdmittedOK, ClientKept,
      CompOK, Claimed, Admits, InUse
  <1>7. QED
    BY <1>1, <1>2, <1>3, <1>4, <1>5, <1>6 DEF RefInv

\* Only the executor that failed the job begins its compensation.
LEMMA KeepFail ==
  ASSUME RefInv, NEW j \in Jobs, Fail(j)
  PROVE  RefInv'
  <1>1. TypeOK'
    BY LiveTyped DEF Live
  <1>2. Known'
    BY RecTyped DEF RefInv, TypeOK, Fail, Remote, References, Known
  <1>3. CallsOK'
    BY RecTyped, ReferenceAssumption DEF RefInv, TypeOK, Fail, Remote, References, CallsOK,
      HolderOK, AddedOK, MakerOK, Holds, HoldPCs, Makes, CreatePCs, Alone, Joinable, UsesRec, Admits
  <1>4. OneHolder'
    BY RecTyped DEF RefInv, TypeOK, Fail, Remote, References, OneHolder, CallsOK, AddedOK, HolderOK,
      Holds, HoldPCs
  <1>5. OneMaker'
    BY RecTyped DEF RefInv, TypeOK, Fail, Remote, References, OneMaker, Makes, CreatePCs
  <1>6. JobsOK'
    BY RecTyped DEF RefInv, TypeOK, Fail, Remote, References, JobsOK, AdmittedOK, ClientKept,
      CompOK, Claimed, Admits, InUse
  <1>7. QED
    BY <1>1, <1>2, <1>3, <1>4, <1>5, <1>6 DEF RefInv

\* The target is stored before the claim.
LEMMA KeepPutTarget ==
  ASSUME RefInv, NEW j \in Jobs, PutTarget(j)
  PROVE  RefInv'
  <1>1. TypeOK'
    BY LiveTyped DEF Live
  <1>2. Known'
    BY RecTyped DEF RefInv, TypeOK, PutTarget, Fault, Remote, References, Next1, Known
  <1>3. CallsOK'
    BY RecTyped, ReferenceAssumption DEF RefInv, TypeOK, PutTarget, Fault, Remote, References,
      Next1, CallsOK, HolderOK, AddedOK, MakerOK, Holds, HoldPCs, Makes, CreatePCs, Alone, Joinable,
      UsesRec, Admits
  <1>4. OneHolder'
    BY RecTyped DEF RefInv, TypeOK, PutTarget, Fault, Remote, References, Next1, OneHolder, CallsOK,
      AddedOK, HolderOK, Holds, HoldPCs
  <1>5. OneMaker'
    BY RecTyped DEF RefInv, TypeOK, PutTarget, Fault, Remote, References, Next1, OneMaker, Makes,
      CreatePCs
  <1>6. JobsOK'
    BY RecTyped DEF RefInv, TypeOK, PutTarget, Fault, Remote, References, Next1, JobsOK, AdmittedOK,
      ClientKept, CompOK, Claimed, Admits, InUse
  <1>7. QED
    BY <1>1, <1>2, <1>3, <1>4, <1>5, <1>6 DEF RefInv

\* Who could not claim is still in the item, so no target is needed.
LEMMA KeepDropTarget ==
  ASSUME RefInv, NEW j \in Jobs, DropTarget(j)
  PROVE  RefInv'
  <1>1. TypeOK'
    BY LiveTyped DEF Live
  <1>2. Known'
    BY RecTyped DEF RefInv, TypeOK, DropTarget, Fault, Remote, References, Next1, Known
  <1>3. CallsOK'
    BY RecTyped, ReferenceAssumption DEF RefInv, TypeOK, DropTarget, Fault, Remote, References,
      Next1, CallsOK, HolderOK, AddedOK, MakerOK, Holds, HoldPCs, Makes, CreatePCs, Alone, Joinable,
      UsesRec, Admits
  <1>4. OneHolder'
    BY RecTyped DEF RefInv, TypeOK, DropTarget, Fault, Remote, References, Next1, OneHolder,
      CallsOK, AddedOK, HolderOK, Holds, HoldPCs
  <1>5. OneMaker'
    BY RecTyped DEF RefInv, TypeOK, DropTarget, Fault, Remote, References, Next1, OneMaker, Makes,
      CreatePCs
  <1>6. JobsOK'
    BY RecTyped DEF RefInv, TypeOK, DropTarget, Fault, Remote, References, Next1, JobsOK,
      AdmittedOK, ClientKept, CompOK, Claimed, Admits, InUse
  <1>7. QED
    BY <1>1, <1>2, <1>3, <1>4, <1>5, <1>6 DEF RefInv

\* After the claim nobody that uses the record is left.
LEMMA KeepCleanup ==
  ASSUME RefInv, NEW j \in Jobs, Cleanup(j)
  PROVE  RefInv'
  <1>1. TypeOK'
    BY LiveTyped DEF Live
  <1>2. Known'
    BY RecTyped DEF RefInv, TypeOK, Cleanup, Fault, References, Next1, Err, Known
  <1>3. CallsOK'
    <2>1. ASSUME NEW d \in Calls PROVE HolderOK(d)' /\ AddedOK(d)'
      BY RecTyped, ReferenceAssumption DEF RefInv, TypeOK, Cleanup, Fault, References, Next1,
         Err, CallsOK, HolderOK, AddedOK, Holds, HoldPCs, Makes, CreatePCs, UsesRec, Admits,
         JobsOK, CompOK
    <2>2. ASSUME NEW d \in Calls PROVE MakerOK(d)'
      BY RecTyped, ReferenceAssumption DEF RefInv, TypeOK, Cleanup, Fault, References, Next1,
         Err, CallsOK, AddedOK, MakerOK, Holds, HoldPCs, Makes, CreatePCs, Alone, Joinable,
         UsesRec, Admits, JobsOK, CompOK
    <2>3. QED
      BY <2>1, <2>2 DEF CallsOK
  <1>4. OneHolder'
    BY RecTyped DEF RefInv, TypeOK, Cleanup, Fault, References, Next1, Err, OneHolder, CallsOK,
      AddedOK, HolderOK, Holds, HoldPCs
  <1>5. OneMaker'
    BY RecTyped DEF RefInv, TypeOK, Cleanup, Fault, References, Next1, Err, OneMaker, Makes,
      CreatePCs
  <1>6. JobsOK'
    BY RecTyped DEF RefInv, TypeOK, Cleanup, Fault, References, Next1, Err, JobsOK, AdmittedOK,
      ClientKept, CompOK, Claimed, Admits, InUse
  <1>7. QED
    BY <1>1, <1>2, <1>3, <1>4, <1>5, <1>6 DEF RefInv

\* A record that is still there after its deletion leaves an error.
LEMMA DeleteAnswered ==
  ASSUME TypeOK, NEW j \in Jobs, DeleteRecord(j), jobs[j].rec \in Records
  PROVE  draft' = jobs[j].rec => errors'[j]
  <1>1. Without(jobs[j].rec) # jobs[j].rec
    BY DEF Without, Records
  <1>2. Err(j) => errors'[j]
    BY DEF Err, TypeOK
  <1>3. QED
    BY <1>1, <1>2 DEF DeleteRecord

\* A record that a claimant deletes is that of no job in use.
LEMMA DeleteKeepsJobs ==
  ASSUME RefInv, NEW j \in Jobs, DeleteRecord(j)
  PROVE  JobsOK'
  <1>1. /\ jobs' = jobs /\ items' = items /\ refs' = refs /\ clients' = clients /\ targets' = targets
        /\ comp[j] = "record" /\ comp' = [comp EXCEPT ![j] = "settle"]
        /\ Err(j) \/ errors' = errors
    BY DEF DeleteRecord, References, Next1
  <1>2. /\ comp'[j] = "settle"
        /\ \A k \in Jobs : k # j => comp'[k] = comp[k] /\ errors'[k] = errors[k]
    BY <1>1 DEF RefInv, TypeOK, Err
  <1>3. jobs[j].rec \in Records /\ jobs[j].status = "failed"
    BY <1>1, RecTyped DEF RefInv, JobsOK, CompOK, Admits
  <1>4. draft' = jobs[j].rec => errors'[j]
    BY <1>3, DeleteAnswered DEF RefInv
  <1>5. draft' = draft \/ draft' = 0
    BY DEF DeleteRecord, Without, Unanswered
  <1>6. ASSUME NEW k \in Jobs
        PROVE  AdmittedOK(k)' /\ ClientKept(k)' /\ CompOK(k)'
    <2>1. AdmittedOK(k) /\ ClientKept(k) /\ CompOK(k)
      BY DEF RefInv, JobsOK
    <2>2. Admits(k) => jobs[k].rec \in Records /\ jobs[k].rec # 0
      BY RecTyped DEF Records
    <2>3. AdmittedOK(k)'
      BY <1>1, <1>2, <1>5, <2>1, <2>2 DEF AdmittedOK, Admits, Claimed
    <2>4. ClientKept(k)'
      BY <1>1, <2>1 DEF ClientKept, InUse
    <2>5. CompOK(k)'
      BY <1>1, <1>2, <1>3, <1>4, <1>5, <2>1, <2>2 DEF CompOK, Admits
    <2>6. QED
      BY <2>3, <2>4, <2>5
  <1>7. QED
    BY <1>6 DEF JobsOK

\* After the claim the draft may go.
LEMMA KeepDeleteRecord ==
  ASSUME RefInv, NEW j \in Jobs, DeleteRecord(j)
  PROVE  RefInv'
  <1>1. TypeOK'
    BY LiveTyped DEF Live
  <1>2. Known'
    BY RecTyped DEF RefInv, TypeOK, DeleteRecord, Fault, Without, Unanswered, References, Next1,
      Err, Known
  <1>3. CallsOK'
    BY RecTyped, ReferenceAssumption DEF RefInv, TypeOK, DeleteRecord, Fault, Without, Unanswered,
      References, Next1, Err, CallsOK, HolderOK, AddedOK, MakerOK, Holds, HoldPCs, Makes, CreatePCs,
      Alone, Joinable, UsesRec, Admits
  <1>4. OneHolder'
    BY RecTyped DEF RefInv, TypeOK, DeleteRecord, Fault, Without, Unanswered, References, Next1,
      Err, OneHolder, CallsOK, AddedOK, HolderOK, Holds, HoldPCs
  <1>5. OneMaker'
    BY RecTyped DEF RefInv, TypeOK, DeleteRecord, Fault, Without, Unanswered, References, Next1,
      Err, OneMaker, Makes, CreatePCs
  <1>6. JobsOK'
    BY DeleteKeepsJobs
  <1>7. QED
    BY <1>1, <1>2, <1>3, <1>4, <1>5, <1>6 DEF RefInv

\* A cleanup without errors has deleted the draft, so its target may go.
LEMMA KeepSettle ==
  ASSUME RefInv, NEW j \in Jobs, Settle(j)
  PROVE  RefInv'
  <1>1. TypeOK'
    BY LiveTyped DEF Live
  <1>2. Known'
    BY RecTyped DEF RefInv, TypeOK, Settle, Fault, Remote, References, Next1, Known
  <1>3. CallsOK'
    BY RecTyped, ReferenceAssumption DEF RefInv, TypeOK, Settle, Fault, Remote, References, Next1,
      CallsOK, HolderOK, AddedOK, MakerOK, Holds, HoldPCs, Makes, CreatePCs, Alone, Joinable, UsesRec,
      Admits
  <1>4. OneHolder'
    BY RecTyped DEF RefInv, TypeOK, Settle, Fault, Remote, References, Next1, OneHolder, CallsOK,
      AddedOK, HolderOK, Holds, HoldPCs
  <1>5. OneMaker'
    BY RecTyped DEF RefInv, TypeOK, Settle, Fault, Remote, References, Next1, OneMaker, Makes,
      CreatePCs
  <1>6. JobsOK'
    BY RecTyped DEF RefInv, TypeOK, Settle, Fault, Remote, References, Next1, JobsOK, AdmittedOK,
      ClientKept, CompOK, Claimed, Admits, InUse
  <1>7. QED
    BY <1>1, <1>2, <1>3, <1>4, <1>5, <1>6 DEF RefInv

\* A compensation that dies keeps the target it stored.
LEMMA KeepCompCrash ==
  ASSUME RefInv, NEW j \in Jobs, CompCrash(j)
  PROVE  RefInv'
  <1>1. TypeOK'
    BY LiveTyped DEF Live
  <1>2. Known'
    BY RecTyped DEF RefInv, TypeOK, CompCrash, Fault, Remote, References, Next1, Known
  <1>3. CallsOK'
    BY RecTyped, ReferenceAssumption DEF RefInv, TypeOK, CompCrash, Fault, Remote, References,
      Next1, CallsOK, HolderOK, AddedOK, MakerOK, Holds, HoldPCs, Makes, CreatePCs, Alone, Joinable,
      UsesRec, Admits
  <1>4. OneHolder'
    BY RecTyped DEF RefInv, TypeOK, CompCrash, Fault, Remote, References, Next1, OneHolder, CallsOK,
      AddedOK, HolderOK, Holds, HoldPCs
  <1>5. OneMaker'
    BY RecTyped DEF RefInv, TypeOK, CompCrash, Fault, Remote, References, Next1, OneMaker, Makes,
      CreatePCs
  <1>6. JobsOK'
    BY RecTyped DEF RefInv, TypeOK, CompCrash, Fault, Remote, References, Next1, JobsOK, AdmittedOK,
      ClientKept, CompOK, Claimed, Admits, InUse
  <1>7. QED
    BY <1>1, <1>2, <1>3, <1>4, <1>5, <1>6 DEF RefInv

-----------------------------------------------------------------------------
(* Steps that change the items, the draft, the clients or the jobs.         *)

\* A replay joins an item, or finds its job there already.
LEMMA ReserveAdds ==
  ASSUME RefInv, TypeOK', NEW c \in Calls, Reserve(c), call[c].rec \in items,
         call'[c].at # "done"
  PROVE  RefInv'
  <1>a. /\ TypeOK /\ Known /\ OneHolder /\ OneMaker /\ JobsOK
        /\ \A d \in Calls : HolderOK(d) /\ AddedOK(d) /\ MakerOK(d)
        /\ \A d \in Calls : JobOf[d] \in Jobs
    BY ReferenceAssumption DEF RefInv, CallsOK
  <1>b. /\ draft' = draft /\ made' = made /\ clients' = clients /\ jobs' = jobs /\ targets' = targets
        /\ comp' = comp /\ errors' = errors
    BY DEF Reserve, Remote
  <1>c. /\ call[c].at = "reserve" /\ call[c].rec \in Records
        /\ AddRef(call[c].rec, JobOf[c])
        /\ call' = [call EXCEPT ![c].at = IF JobOf[c] \in refs[call[c].rec] THEN "peek" ELSE "gate",
                                ![c].added = JobOf[c] \notin refs[call[c].rec]]
    BY GotoStep DEF Reserve, At, RefInv, TypeOK, CallPCs
  <1>d. /\ items' = items /\ refs'[call[c].rec] = refs[call[c].rec] \cup {JobOf[c]}
        /\ \A s \in Records : s # call[c].rec => refs'[s] = refs[s]
    BY <1>a, <1>c, AddRefStep
  <1>e. /\ OthersStay(c) /\ call'[c].rec = call[c].rec
        /\ call'[c].at = (IF JobOf[c] \in refs[call[c].rec] THEN "peek" ELSE "gate")
        /\ call'[c].added = (JobOf[c] \notin refs[call[c].rec])
    BY <1>a, <1>c DEF TypeOK, CallRow, OthersStay
  <1>1. Known'
    BY <1>a, <1>b, <1>d, <1>e, RecTyped DEF Known, OthersStay
  <1>2. \A d \in Calls : HolderOK(d)'
    BY <1>a, <1>b, <1>d, <1>e, RecTyped DEF HolderOK, Holds, HoldPCs, MakerOK, Makes, CreatePCs,
      Alone, Joinable, UsesRec, JobsOK, AdmittedOK, Admits, OthersStay
  <1>3. \A d \in Calls : AddedOK(d)'
    BY <1>a, <1>b, <1>d, <1>e, RecTyped DEF AddedOK, Holds, HoldPCs, OthersStay
  <1>4. \A d \in Calls : MakerOK(d)'
    BY <1>a, <1>b, <1>d, <1>e, RecTyped DEF MakerOK, Makes, CreatePCs, Alone, Joinable, Holds,
      HoldPCs, HolderOK, UsesRec, Admits, OthersStay
  <1>5. OneHolder'
    BY <1>a, <1>b, <1>d, <1>e, RecTyped DEF OneHolder, Holds, HoldPCs, HolderOK, OthersStay
  <1>6. OneMaker'
    BY <1>a, <1>b, <1>d, <1>e, RecTyped DEF OneMaker, Makes, CreatePCs, OthersStay
  <1>7. JobsOK'
    <2>1. ItemsKept
      BY <1>a, <1>b, <1>d, <1>e, RecTyped DEF ItemsKept, HolderOK, Holds, HoldPCs, MakerOK, Makes,
        CreatePCs, Alone, Joinable, UsesRec, Admits
    <2>2. QED
      BY <1>a, <1>b, <1>d, <1>e, <2>1, JobsFrame
  <1>8. QED
    BY <1>a, <1>1, <1>2, <1>3, <1>4, <1>5, <1>6, <1>7 DEF RefInv, CallsOK

\* A reservation that raises may have added the job, and nobody will release it.
LEMMA ReserveFails ==
  ASSUME RefInv, TypeOK', NEW c \in Calls, Reserve(c), call'[c].at = "done"
  PROVE  RefInv'
  <1>a. /\ TypeOK /\ Known /\ OneHolder /\ OneMaker /\ JobsOK
        /\ \A d \in Calls : HolderOK(d) /\ AddedOK(d) /\ MakerOK(d)
        /\ \A d \in Calls : JobOf[d] \in Jobs
    BY ReferenceAssumption DEF RefInv, CallsOK
  <1>b. /\ draft' = draft /\ made' = made /\ clients' = clients
        /\ jobs' = jobs /\ targets' = targets /\ comp' = comp /\ errors' = errors
    BY DEF Reserve, Remote
  <1>c. Goto(c, "done") /\ call[c].at = "reserve"
    BY <1>a, CallStep DEF Reserve, At, RefInv, TypeOK, CallRow
  <1>d. /\ OthersStay(c) /\ call'[c].rec = call[c].rec /\ call'[c].added = call[c].added
        /\ call'[c].at = "done"
    BY <1>a, <1>c, GotoStep DEF CallPCs
  <1>e. UNCHANGED References \/ (call[c].rec \in items \cap Records /\ AddRef(call[c].rec, JobOf[c]))
    BY <1>a DEF Reserve, TypeOK
  <1>f. \/ items' = items /\ refs' = refs
        \/ /\ items' = items /\ \A s \in Records : s # call[c].rec => refs'[s] = refs[s]
           /\ call[c].rec \in items /\ refs'[call[c].rec] = refs[call[c].rec] \cup {JobOf[c]}
    <2>1. CASE UNCHANGED References
      BY <2>1 DEF References
    <2>2. CASE call[c].rec \in items \cap Records /\ AddRef(call[c].rec, JobOf[c])
      <3>1. items' = items \cup {call[c].rec} /\ refs'[call[c].rec] = refs[call[c].rec] \cup {JobOf[c]}
            /\ \A s \in Records : s # call[c].rec => refs'[s] = refs[s]
        BY <1>a, <2>2, AddRefStep
      <3>2. items' = items
        BY <2>2, <3>1
      <3>3. QED
        BY <2>2, <3>1, <3>2
    <2>3. QED
      BY <1>e, <2>1, <2>2
  <1>1. Known'
    BY <1>a, <1>b, <1>d, <1>f, RecTyped DEF Known, OthersStay
  <1>2. \A d \in Calls : HolderOK(d)'
    BY <1>a, <1>b, <1>d, <1>f, RecTyped DEF HolderOK, Holds, HoldPCs, MakerOK, Makes, CreatePCs,
      Alone, Joinable, UsesRec, JobsOK, AdmittedOK, Admits, OthersStay
  <1>3. \A d \in Calls : AddedOK(d)'
    BY <1>a, <1>b, <1>d, <1>f, RecTyped DEF AddedOK, Holds, HoldPCs, OthersStay
  <1>4. \A d \in Calls : MakerOK(d)'
    BY <1>a, <1>b, <1>d, <1>f, RecTyped DEF MakerOK, Makes, CreatePCs, Alone, Joinable, Holds,
      HoldPCs, HolderOK, UsesRec, Admits, OthersStay
  <1>5. OneHolder'
    BY <1>a, <1>b, <1>d, <1>f, RecTyped DEF OneHolder, Holds, HoldPCs, HolderOK, OthersStay
  <1>6. OneMaker'
    BY <1>a, <1>b, <1>d, <1>f, RecTyped DEF OneMaker, Makes, CreatePCs, OthersStay
  <1>7. JobsOK'
    <2>1. ItemsKept
      BY <1>a, <1>b, <1>d, <1>f, RecTyped DEF ItemsKept, HolderOK, Holds, HoldPCs, MakerOK, Makes,
        CreatePCs, Alone, Joinable, UsesRec, Admits
    <2>2. QED
      BY <1>a, <1>b, <1>d, <1>f, <2>1, JobsFrame
  <1>8. QED
    BY <1>a, <1>1, <1>2, <1>3, <1>4, <1>5, <1>6, <1>7 DEF RefInv, CallsOK

\* A new record was never spoken of before.
LEMMA DraftMade ==
  ASSUME RefInv, TypeOK', NEW c \in Calls, CreateDraft(c), call'[c].at = "init"
  PROVE  RefInv'
  <1>a. /\ TypeOK /\ Known /\ OneHolder /\ OneMaker /\ JobsOK
        /\ \A d \in Calls : HolderOK(d) /\ AddedOK(d) /\ MakerOK(d)
        /\ \A d \in Calls : JobOf[d] \in Jobs
    BY ReferenceAssumption DEF RefInv, CallsOK
  <1>b. /\ clients' = clients /\ jobs' = jobs /\ targets' = targets /\ comp' = comp /\ errors' = errors
        /\ items' = items /\ refs' = refs
    BY DEF CreateDraft, References
  <1>c. /\ made' = made + 1 /\ draft' = made + 1 /\ draft = 0 /\ made \in 0 .. MaxRecords /\ call[c].at = "create"
        /\ call' = [call EXCEPT ![c].at = "init", ![c].rec = made + 1, ![c].recCreated = TRUE]
    BY <1>a, GotoStep DEF CreateDraft, At, TypeOK, CallPCs
  <1>d. /\ OthersStay(c) /\ call'[c].rec = made + 1 /\ call'[c].at = "init" /\ call'[c].added = call[c].added
        /\ made + 1 \in Records
    BY <1>a, <1>c, CallsTyped DEF TypeOK, CallRow, OthersStay, Records, Create
  <1>e. made' = made + 1 /\ draft' = made + 1 /\ made \in 0 .. MaxRecords /\ call[c].at = "create"
    BY <1>c
  <1>1. Known'
    BY <1>a, <1>b, <1>d, <1>e, RecTyped DEF Known, OthersStay
  <1>2. \A d \in Calls : HolderOK(d)'
    BY <1>a, <1>b, <1>d, <1>e, RecTyped DEF HolderOK, Holds, HoldPCs, MakerOK, Makes, CreatePCs,
      Alone, Joinable, UsesRec, JobsOK, AdmittedOK, Admits, OthersStay
  <1>3. \A d \in Calls : AddedOK(d)'
    BY <1>a, <1>b, <1>d, <1>e, RecTyped DEF AddedOK, Holds, HoldPCs, OthersStay
  <1>4. \A d \in Calls : MakerOK(d)'
    BY <1>a, <1>b, <1>d, <1>e, RecTyped DEF MakerOK, Makes, CreatePCs, Alone, Joinable, Holds,
      HoldPCs, HolderOK, UsesRec, Admits, OthersStay, Known
  <1>5. OneHolder'
    BY <1>a, <1>b, <1>d, <1>e, RecTyped DEF OneHolder, Holds, HoldPCs, HolderOK, OthersStay
  <1>6. OneMaker'
    BY <1>a, <1>b, <1>d, <1>e, RecTyped DEF OneMaker, Makes, CreatePCs, OthersStay, Known
  <1>7. JobsOK'
    <2>1. ItemsKept
      BY <1>a, <1>b, <1>d, <1>e, RecTyped DEF ItemsKept, HolderOK, Holds, HoldPCs, MakerOK, Makes,
        CreatePCs, Alone, Joinable, UsesRec, Admits
    <2>2. QED
      BY <1>a, <1>b, <1>d, <1>e, <2>1, JobsFrame
  <1>8. QED
    BY <1>a, <1>1, <1>2, <1>3, <1>4, <1>5, <1>6, <1>7 DEF RefInv, CallsOK

\* The call that is refused, or that never learns of the record it made.
LEMMA DraftNotMade ==
  ASSUME RefInv, TypeOK', NEW c \in Calls, CreateDraft(c), call'[c].at = "done"
  PROVE  RefInv'
  <1>a. /\ TypeOK /\ Known /\ OneHolder /\ OneMaker /\ JobsOK
        /\ \A d \in Calls : HolderOK(d) /\ AddedOK(d) /\ MakerOK(d)
        /\ \A d \in Calls : JobOf[d] \in Jobs
    BY ReferenceAssumption DEF RefInv, CallsOK
  <1>b. /\ clients' = clients /\ jobs' = jobs /\ targets' = targets /\ comp' = comp /\ errors' = errors
        /\ items' = items /\ refs' = refs
    BY DEF CreateDraft, References
  <1>c. Goto(c, "done") /\ call[c].at = "create"
    BY <1>a DEF CreateDraft, At, TypeOK, CallRow
  <1>d. /\ OthersStay(c) /\ call'[c].rec = call[c].rec /\ call'[c].added = call[c].added
        /\ call'[c].at = "done"
    BY <1>a, <1>c, GotoStep DEF CallPCs
  <1>e. /\ \/ made' = made /\ draft' = draft
           \/ made' = made + 1 /\ draft' = made + 1
        /\ made \in 0 .. MaxRecords
    BY <1>a DEF CreateDraft, TypeOK
  <1>1. Known'
    BY <1>a, <1>b, <1>d, <1>e, RecTyped DEF Known, OthersStay
  <1>2. \A d \in Calls : HolderOK(d)'
    BY <1>a, <1>b, <1>d, <1>e, RecTyped DEF HolderOK, Holds, HoldPCs, MakerOK, Makes, CreatePCs,
      Alone, Joinable, UsesRec, JobsOK, AdmittedOK, Admits, OthersStay
  <1>3. \A d \in Calls : AddedOK(d)'
    BY <1>a, <1>b, <1>d, <1>e, RecTyped DEF AddedOK, Holds, HoldPCs, OthersStay
  <1>4. \A d \in Calls : MakerOK(d)'
    BY <1>a, <1>b, <1>d, <1>e, RecTyped DEF MakerOK, Makes, CreatePCs, Alone, Joinable, Holds,
      HoldPCs, HolderOK, UsesRec, Admits, OthersStay
  <1>5. OneHolder'
    BY <1>a, <1>b, <1>d, <1>e, RecTyped DEF OneHolder, Holds, HoldPCs, HolderOK, OthersStay
  <1>6. OneMaker'
    BY <1>a, <1>b, <1>d, <1>e, RecTyped DEF OneMaker, Makes, CreatePCs, OthersStay
  <1>7. JobsOK'
    <2>1. ItemsKept
      BY <1>a, <1>b, <1>d, <1>e, RecTyped DEF ItemsKept, HolderOK, Holds, HoldPCs, MakerOK, Makes,
        CreatePCs, Alone, Joinable, UsesRec, Admits
    <2>2. QED
      BY <1>a, <1>b, <1>d, <1>e, <2>1, JobsFrame
  <1>8. QED
    BY <1>a, <1>1, <1>2, <1>3, <1>4, <1>5, <1>6, <1>7 DEF RefInv, CallsOK

\* The creator's item is new: no other call and no job has it.
LEMMA InitializeAdds ==
  ASSUME RefInv, TypeOK', NEW c \in Calls, Initialize(c), call'[c].at = "client"
  PROVE  RefInv'
  <1>a. /\ TypeOK /\ Known /\ OneHolder /\ OneMaker /\ JobsOK
        /\ \A d \in Calls : HolderOK(d) /\ AddedOK(d) /\ MakerOK(d)
        /\ \A d \in Calls : JobOf[d] \in Jobs
    BY ReferenceAssumption DEF RefInv, CallsOK
  <1>b. /\ draft' = draft /\ made' = made /\ clients' = clients
        /\ jobs' = jobs /\ targets' = targets /\ comp' = comp /\ errors' = errors
    BY DEF Initialize, Remote
  <1>c. /\ call[c].at = "init" /\ call[c].rec \in Records /\ AddRef(call[c].rec, JobOf[c])
        /\ call' = [call EXCEPT ![c].at = "client", ![c].added = TRUE]
    BY <1>a, GotoStep, RecTyped DEF Initialize, At, Makes, CreatePCs, CallPCs
  <1>d. /\ OthersStay(c) /\ call'[c].rec = call[c].rec /\ call'[c].at = "client" /\ call'[c].added = TRUE
    BY <1>a, <1>c DEF TypeOK, CallRow, OthersStay
  <1>e. /\ items' = items \cup {call[c].rec} /\ refs'[call[c].rec] = refs[call[c].rec] \cup {JobOf[c]}
        /\ \A s \in Records : s # call[c].rec => refs'[s] = refs[s]
        /\ call[c].at = "init" /\ call[c].rec \in Records /\ call[c].rec \in 1 .. made
    BY <1>a, <1>c, AddRefStep, RecTyped DEF Known, Records
  <1>1. Known'
    BY <1>a, <1>b, <1>d, <1>e, RecTyped DEF Known, OthersStay
  <1>2. \A d \in Calls : HolderOK(d)'
    BY <1>a, <1>b, <1>d, <1>e, RecTyped DEF HolderOK, Holds, HoldPCs, MakerOK, Makes, CreatePCs,
      Alone, Joinable, UsesRec, JobsOK, AdmittedOK, Admits, OthersStay
  <1>3. \A d \in Calls : AddedOK(d)'
    BY <1>a, <1>b, <1>d, <1>e, RecTyped DEF AddedOK, Holds, HoldPCs, OthersStay
  <1>4. \A d \in Calls : MakerOK(d)'
    BY <1>a, <1>b, <1>d, <1>e, RecTyped DEF MakerOK, Makes, CreatePCs, Alone, Joinable, Holds,
      HoldPCs, HolderOK, UsesRec, Admits, OthersStay, OneMaker
  <1>5. OneHolder'
    BY <1>a, <1>b, <1>d, <1>e, RecTyped DEF OneHolder, Holds, HoldPCs, HolderOK, OthersStay,
      MakerOK, Makes, CreatePCs, Alone, Joinable
  <1>6. OneMaker'
    BY <1>a, <1>b, <1>d, <1>e, RecTyped DEF OneMaker, Makes, CreatePCs, OthersStay
  <1>7. JobsOK'
    <2>1. ItemsKept
      BY <1>a, <1>b, <1>d, <1>e, RecTyped DEF ItemsKept, HolderOK, Holds, HoldPCs, MakerOK, Makes,
        CreatePCs, Alone, Joinable, UsesRec, Admits
    <2>2. QED
      BY <1>a, <1>b, <1>d, <1>e, <2>1, JobsFrame
  <1>8. QED
    BY <1>a, <1>1, <1>2, <1>3, <1>4, <1>5, <1>6, <1>7 DEF RefInv, CallsOK

\* The item may be there all the same, with this job in it.
LEMMA InitializeFails ==
  ASSUME RefInv, TypeOK', NEW c \in Calls, Initialize(c), call'[c].at = "rollback"
  PROVE  RefInv'
  <1>a. /\ TypeOK /\ Known /\ OneHolder /\ OneMaker /\ JobsOK
        /\ \A d \in Calls : HolderOK(d) /\ AddedOK(d) /\ MakerOK(d)
        /\ \A d \in Calls : JobOf[d] \in Jobs
    BY ReferenceAssumption DEF RefInv, CallsOK
  <1>b. /\ draft' = draft /\ made' = made /\ clients' = clients
        /\ jobs' = jobs /\ targets' = targets /\ comp' = comp /\ errors' = errors
    BY DEF Initialize, Remote
  <1>c. /\ call[c].at = "init" /\ call[c].rec \in Records /\ Goto(c, "rollback")
        /\ AddRef(call[c].rec, JobOf[c]) \/ UNCHANGED References
    BY <1>a, RecTyped DEF Initialize, At, Makes, CreatePCs, TypeOK, CallRow
  <1>d. /\ OthersStay(c) /\ call'[c].rec = call[c].rec /\ call'[c].added = call[c].added
        /\ call'[c].at = "rollback"
    BY <1>a, <1>c, GotoStep DEF CallPCs
  <1>e. /\ call[c].at = "init" /\ call[c].rec \in Records /\ call[c].rec \in 1 .. made
        /\ \/ items' = items /\ refs' = refs
           \/ /\ items' = items \cup {call[c].rec} /\ refs'[call[c].rec] = refs[call[c].rec] \cup {JobOf[c]}
              /\ \A s \in Records : s # call[c].rec => refs'[s] = refs[s]
    BY <1>a, <1>c, AddRefStep, RecTyped DEF References, Known, Records
  <1>1. Known'
    BY <1>a, <1>b, <1>d, <1>e, RecTyped DEF Known, OthersStay
  <1>2. \A d \in Calls : HolderOK(d)'
    BY <1>a, <1>b, <1>d, <1>e, RecTyped DEF HolderOK, Holds, HoldPCs, MakerOK, Makes, CreatePCs,
      Alone, Joinable, UsesRec, JobsOK, AdmittedOK, Admits, OthersStay
  <1>3. \A d \in Calls : AddedOK(d)'
    BY <1>a, <1>b, <1>d, <1>e, RecTyped DEF AddedOK, Holds, HoldPCs, OthersStay
  <1>4. \A d \in Calls : MakerOK(d)'
    BY <1>a, <1>b, <1>d, <1>e, RecTyped DEF MakerOK, Makes, CreatePCs, Alone, Joinable, Holds,
      HoldPCs, HolderOK, UsesRec, Admits, OthersStay, OneMaker
  <1>5. OneHolder'
    BY <1>a, <1>b, <1>d, <1>e, RecTyped DEF OneHolder, Holds, HoldPCs, HolderOK, OthersStay
  <1>6. OneMaker'
    BY <1>a, <1>b, <1>d, <1>e, RecTyped DEF OneMaker, Makes, CreatePCs, OthersStay
  <1>7. JobsOK'
    <2>1. ItemsKept
      BY <1>a, <1>b, <1>d, <1>e, RecTyped DEF ItemsKept, HolderOK, Holds, HoldPCs, MakerOK, Makes,
        CreatePCs, Alone, Joinable, UsesRec, Admits
    <2>2. QED
      BY <1>a, <1>b, <1>d, <1>e, <2>1, JobsFrame
  <1>8. QED
    BY <1>a, <1>1, <1>2, <1>3, <1>4, <1>5, <1>6, <1>7 DEF RefInv, CallsOK

\* The item that a rollback deletes held nobody who uses the record.
LEMMA RollbackKeeps ==
  ASSUME RefInv, TypeOK', NEW c \in Calls, Rollback(c)
  PROVE  RefInv'
  <1>a. /\ TypeOK /\ Known /\ OneHolder /\ OneMaker /\ JobsOK
        /\ \A d \in Calls : HolderOK(d) /\ AddedOK(d) /\ MakerOK(d)
        /\ \A d \in Calls : JobOf[d] \in Jobs
    BY ReferenceAssumption DEF RefInv, CallsOK
  <1>b. /\ draft' = draft /\ made' = made /\ clients' = clients
        /\ jobs' = jobs /\ targets' = targets /\ comp' = comp /\ errors' = errors
    BY DEF Rollback, Remote
  <1>c. /\ call[c].at = "rollback" /\ call[c].rec \in Records
    BY <1>a, RecTyped DEF Rollback, At, Makes, CreatePCs
  <1>d. \/ Goto(c, "done") /\ UNCHANGED References
        \/ /\ Goto(c, "done") \/ Goto(c, "unmake")
           /\ DropItem(call[c].rec) /\ (call[c].rec \notin items \/ refs[call[c].rec] = {JobOf[c]})
    BY DEF Rollback
  <1>e. \/ /\ call'[c].at = "done" /\ items' = items /\ refs' = refs
        \/ /\ call'[c].at \in {"done", "unmake"} /\ (call[c].rec \notin items \/ refs[call[c].rec] = {JobOf[c]})
           /\ items' = items \ {call[c].rec} /\ \A s \in Records : s # call[c].rec => refs'[s] = refs[s]
    BY <1>a, <1>c, <1>d, GotoStep, DropItemStep DEF References, CallPCs
  <1>f. OthersStay(c) /\ call'[c].rec = call[c].rec /\ call'[c].added = call[c].added
    BY <1>a, <1>d, GotoStep DEF CallPCs
  <1>g. (call[c].rec \notin items \/ refs[call[c].rec] = {JobOf[c]}) => \A j \in Jobs : ~UsesRec(j, call[c].rec)
    BY <1>a, <1>c DEF MakerOK, Makes, CreatePCs, Alone, Joinable, UsesRec, JobsOK, AdmittedOK
  <1>1. Known'
    BY <1>a, <1>b, <1>c, <1>e, <1>f, <1>g, RecTyped DEF Known, OthersStay
  <1>2. \A d \in Calls : HolderOK(d)'
    BY <1>a, <1>b, <1>c, <1>e, <1>f, <1>g, RecTyped DEF HolderOK, Holds, HoldPCs, MakerOK, Makes,
      CreatePCs, Alone, Joinable, UsesRec, JobsOK, AdmittedOK, Admits, OthersStay
  <1>3. \A d \in Calls : AddedOK(d)'
    BY <1>a, <1>b, <1>c, <1>e, <1>f, <1>g, RecTyped DEF AddedOK, Holds, HoldPCs, OthersStay
  <1>4. \A d \in Calls : MakerOK(d)'
    BY <1>a, <1>b, <1>c, <1>e, <1>f, <1>g, RecTyped DEF MakerOK, Makes, CreatePCs, Alone,
      Joinable, Holds, HoldPCs, HolderOK, UsesRec, Admits, OthersStay, OneMaker
  <1>5. OneHolder'
    BY <1>a, <1>b, <1>c, <1>e, <1>f, <1>g, RecTyped DEF OneHolder, Holds, HoldPCs, HolderOK,
      OthersStay
  <1>6. OneMaker'
    BY <1>a, <1>b, <1>c, <1>e, <1>f, <1>g, RecTyped DEF OneMaker, Makes, CreatePCs, OthersStay
  <1>7. JobsOK'
    <2>1. ItemsKept
      BY <1>a, <1>b, <1>c, <1>e, <1>f, <1>g, RecTyped DEF ItemsKept, HolderOK, Holds, HoldPCs,
        MakerOK, Makes, CreatePCs, Alone, Joinable, UsesRec, Admits
    <2>2. QED
      BY <1>a, <1>b, <1>c, <1>e, <1>f, <1>g, <2>1, JobsFrame
  <1>8. QED
    BY <1>a, <1>1, <1>2, <1>3, <1>4, <1>5, <1>6, <1>7 DEF RefInv, CallsOK

\* The creator deletes a record that nobody was admitted with.
LEMMA UnmakeKeeps ==
  ASSUME RefInv, TypeOK', NEW c \in Calls, Unmake(c)
  PROVE  RefInv'
  <1>a. /\ TypeOK /\ Known /\ OneHolder /\ OneMaker /\ JobsOK
        /\ \A d \in Calls : HolderOK(d) /\ AddedOK(d) /\ MakerOK(d)
        /\ \A d \in Calls : JobOf[d] \in Jobs
    BY ReferenceAssumption DEF RefInv, CallsOK
  <1>b. /\ made' = made /\ clients' = clients /\ items' = items /\ refs' = refs
        /\ jobs' = jobs /\ targets' = targets /\ comp' = comp /\ errors' = errors
    BY DEF Unmake, References
  <1>c. /\ call[c].at = "unmake" /\ draft' \in {0, draft}
        /\ Goto(c, "done") \/ Goto(c, "restore")
    BY DEF Unmake, At, Without, Unanswered
  <1>d. /\ OthersStay(c) /\ call'[c].rec = call[c].rec /\ call'[c].added = call[c].added
        /\ call'[c].at \in {"done", "restore"}
    BY <1>a, <1>c, GotoStep DEF CallPCs
  <1>e. call[c].at = "unmake" /\ draft' \in {0, draft} /\ made \in 0 .. MaxRecords
    BY <1>a, <1>c DEF TypeOK
  <1>1. Known'
    BY <1>a, <1>b, <1>d, <1>e, RecTyped DEF Known, OthersStay
  <1>2. \A d \in Calls : HolderOK(d)'
    BY <1>a, <1>b, <1>d, <1>e, RecTyped DEF HolderOK, Holds, HoldPCs, MakerOK, Makes, CreatePCs,
      Alone, Joinable, UsesRec, JobsOK, AdmittedOK, Admits, OthersStay
  <1>3. \A d \in Calls : AddedOK(d)'
    BY <1>a, <1>b, <1>d, <1>e, RecTyped DEF AddedOK, Holds, HoldPCs, OthersStay
  <1>4. \A d \in Calls : MakerOK(d)'
    BY <1>a, <1>b, <1>d, <1>e, RecTyped DEF MakerOK, Makes, CreatePCs, Alone, Joinable, Holds,
      HoldPCs, HolderOK, UsesRec, Admits, OthersStay
  <1>5. OneHolder'
    BY <1>a, <1>b, <1>d, <1>e, RecTyped DEF OneHolder, Holds, HoldPCs, HolderOK, OthersStay
  <1>6. OneMaker'
    BY <1>a, <1>b, <1>d, <1>e, RecTyped DEF OneMaker, Makes, CreatePCs, OthersStay
  <1>7. JobsOK'
    <2>1. ItemsKept
      BY <1>a, <1>b, <1>d, <1>e, RecTyped DEF ItemsKept, HolderOK, Holds, HoldPCs, MakerOK, Makes,
        CreatePCs, Alone, Joinable, UsesRec, Admits
    <2>2. QED
      BY <1>a, <1>b, <1>d, <1>e, <2>1, JobsFrame
  <1>8. QED
    BY <1>a, <1>1, <1>2, <1>3, <1>4, <1>5, <1>6, <1>7 DEF RefInv, CallsOK

\* A call that is about to store its job has the client.
LEMMA ProvisionGives ==
  ASSUME RefInv, TypeOK', NEW c \in Calls, ProvisionClient(c), call'[c].at = "put"
  PROVE  RefInv'
  <1>a. /\ TypeOK /\ Known /\ OneHolder /\ OneMaker /\ JobsOK
        /\ \A d \in Calls : HolderOK(d) /\ AddedOK(d) /\ MakerOK(d)
        /\ \A d \in Calls : JobOf[d] \in Jobs
    BY ReferenceAssumption DEF RefInv, CallsOK
  <1>b. /\ draft' = draft /\ made' = made /\ clients' = clients \cup {call[c].rec}
        /\ items' = items /\ refs' = refs /\ call[c].at = "client"
        /\ jobs' = jobs /\ targets' = targets /\ comp' = comp /\ errors' = errors
    BY <1>a, LeaveStep DEF ProvisionClient, References, At, TypeOK
  <1>c. call' = [call EXCEPT ![c].at = "put", ![c].cliCreated = call[c].rec \notin clients]
    BY <1>a, LeaveStep DEF ProvisionClient, At
  <1>d. /\ OthersStay(c) /\ call'[c].rec = call[c].rec /\ call'[c].added = call[c].added
        /\ call'[c].at = "put"
    BY <1>a, <1>c DEF TypeOK, CallRow, OthersStay
  <1>1. Known'
    BY <1>a, <1>b, <1>d, RecTyped DEF Known, OthersStay
  <1>2. \A d \in Calls : HolderOK(d)'
    BY <1>a, <1>b, <1>d, RecTyped DEF HolderOK, Holds, HoldPCs, MakerOK, Makes, CreatePCs, Alone,
      Joinable, UsesRec, JobsOK, AdmittedOK, Admits, OthersStay
  <1>3. \A d \in Calls : AddedOK(d)'
    BY <1>a, <1>b, <1>d, RecTyped DEF AddedOK, Holds, HoldPCs, OthersStay
  <1>4. \A d \in Calls : MakerOK(d)'
    BY <1>a, <1>b, <1>d, RecTyped DEF MakerOK, Makes, CreatePCs, Alone, Joinable, Holds, HoldPCs,
      HolderOK, UsesRec, Admits, OthersStay
  <1>5. OneHolder'
    BY <1>a, <1>b, <1>d, RecTyped DEF OneHolder, Holds, HoldPCs, HolderOK, OthersStay
  <1>6. OneMaker'
    BY <1>a, <1>b, <1>d, RecTyped DEF OneMaker, Makes, CreatePCs, OthersStay
  <1>7. JobsOK'
    <2>1. ItemsKept
      BY <1>a, <1>b, <1>d, RecTyped DEF ItemsKept, HolderOK, Holds, HoldPCs, MakerOK, Makes,
        CreatePCs, Alone, Joinable, UsesRec, Admits
    <2>2. QED
      BY <1>a, <1>b, <1>d, <2>1, JobsFrame
  <1>8. QED
    BY <1>a, <1>1, <1>2, <1>3, <1>4, <1>5, <1>6, <1>7 DEF RefInv, CallsOK

\* The client may exist although the call is refused.
LEMMA ProvisionRaises ==
  ASSUME RefInv, TypeOK', NEW c \in Calls, ProvisionClient(c), Leave(c)
  PROVE  RefInv'
  <1>a. /\ TypeOK /\ Known /\ OneHolder /\ OneMaker /\ JobsOK
        /\ \A d \in Calls : HolderOK(d) /\ AddedOK(d) /\ MakerOK(d)
        /\ \A d \in Calls : JobOf[d] \in Jobs
    BY ReferenceAssumption DEF RefInv, CallsOK
  <1>b. /\ draft' = draft /\ made' = made /\ clients \subseteq clients'
        /\ items' = items /\ refs' = refs /\ call[c].at = "client"
        /\ jobs' = jobs /\ targets' = targets /\ comp' = comp /\ errors' = errors
    BY DEF ProvisionClient, References, At
  <1>c. /\ OthersStay(c) /\ call'[c].rec = call[c].rec /\ call'[c].added = call[c].added
        /\ call'[c].at = "release"
    BY <1>a, <1>b, LeaveStep DEF Holds, HoldPCs
  <1>1. Known'
    BY <1>a, <1>b, <1>c, RecTyped DEF Known, OthersStay
  <1>2. \A d \in Calls : HolderOK(d)'
    BY <1>a, <1>b, <1>c, RecTyped DEF HolderOK, Holds, HoldPCs, MakerOK, Makes, CreatePCs, Alone,
      Joinable, UsesRec, JobsOK, AdmittedOK, Admits, OthersStay
  <1>3. \A d \in Calls : AddedOK(d)'
    BY <1>a, <1>b, <1>c, RecTyped DEF AddedOK, Holds, HoldPCs, OthersStay
  <1>4. \A d \in Calls : MakerOK(d)'
    BY <1>a, <1>b, <1>c, RecTyped DEF MakerOK, Makes, CreatePCs, Alone, Joinable, Holds, HoldPCs,
      HolderOK, UsesRec, Admits, OthersStay
  <1>5. OneHolder'
    BY <1>a, <1>b, <1>c, RecTyped DEF OneHolder, Holds, HoldPCs, HolderOK, OthersStay
  <1>6. OneMaker'
    BY <1>a, <1>b, <1>c, RecTyped DEF OneMaker, Makes, CreatePCs, OthersStay
  <1>7. JobsOK'
    <2>1. ItemsKept
      BY <1>a, <1>b, <1>c, RecTyped DEF ItemsKept, HolderOK, Holds, HoldPCs, MakerOK, Makes,
        CreatePCs, Alone, Joinable, UsesRec, Admits
    <2>2. QED
      BY <1>a, <1>b, <1>c, <2>1, JobsFrame
  <1>8. QED
    BY <1>a, <1>1, <1>2, <1>3, <1>4, <1>5, <1>6, <1>7 DEF RefInv, CallsOK

\* A job is admitted with its reference, its record and its client.
LEMMA PutKeeps ==
  ASSUME RefInv, TypeOK', "projection" \notin FaultKinds, NEW c \in Calls, Put(c)
  PROVE  RefInv'
  <1>a. /\ TypeOK /\ Known /\ OneHolder /\ OneMaker /\ JobsOK
        /\ \A d \in Calls : HolderOK(d) /\ AddedOK(d) /\ MakerOK(d)
        /\ \A d \in Calls : JobOf[d] \in Jobs
    BY ReferenceAssumption DEF RefInv, CallsOK
  <1>b. /\ draft' = draft /\ made' = made /\ clients' = clients /\ items' = items /\ refs' = refs
        /\ targets' = targets /\ comp' = comp /\ errors' = errors
    BY DEF Put, Remote, References
  <1>c. /\ call[c].at = "put"
        /\ Goto(c, "done") \/ Leave(c)
    BY DEF Put, At
  <1>d. /\ OthersStay(c) /\ call'[c].rec = call[c].rec /\ call'[c].added = call[c].added
        /\ call'[c].at \in {"done", "release"}
    BY <1>a, <1>c, GotoStep, LeaveStep DEF CallPCs
  <1>e. \/ jobs' = jobs
        \/ /\ jobs[JobOf[c]].status = "none" /\ call'[c].at = "done"
           /\ jobs' = [jobs EXCEPT ![JobOf[c]] = Admitted(c)]
    BY <1>a, GotoStep DEF Put, Stored, CallPCs
  <1>f. /\ call[c].at = "put" /\ call[c].rec \in Records
        /\ \/ jobs' = jobs
           \/ /\ jobs[JobOf[c]].status = "none" /\ call'[c].at = "done"
              /\ jobs'[JobOf[c]].status = "running" /\ jobs'[JobOf[c]].rec = call[c].rec
              /\ \A j \in Jobs : j # JobOf[c] => jobs'[j] = jobs[j]
    BY <1>a, <1>c, <1>e, RecTyped DEF Admitted, TypeOK, Holds, HoldPCs
  <1>1. Known'
    BY <1>a, <1>b, <1>d, <1>f, RecTyped DEF Known, OthersStay
  <1>2. \A d \in Calls : HolderOK(d)'
    BY <1>a, <1>b, <1>d, <1>f, RecTyped DEF HolderOK, Holds, HoldPCs, MakerOK, Makes, CreatePCs,
      Alone, Joinable, UsesRec, JobsOK, AdmittedOK, Admits, OthersStay, OneHolder
  <1>3. \A d \in Calls : AddedOK(d)'
    BY <1>a, <1>b, <1>d, <1>f, RecTyped DEF AddedOK, Holds, HoldPCs, OthersStay
  <1>4. \A d \in Calls : MakerOK(d)'
    BY <1>a, <1>b, <1>d, <1>f, RecTyped DEF MakerOK, Makes, CreatePCs, Alone, Joinable, Holds,
      HoldPCs, HolderOK, UsesRec, Admits, OthersStay
  <1>5. OneHolder'
    BY <1>a, <1>b, <1>d, <1>f, RecTyped DEF OneHolder, Holds, HoldPCs, HolderOK, OthersStay
  <1>6. OneMaker'
    BY <1>a, <1>b, <1>d, <1>f, RecTyped DEF OneMaker, Makes, CreatePCs, OthersStay
  <1>7. JobsOK'
    <2> SUFFICES ASSUME NEW j \in Jobs
                 PROVE  AdmittedOK(j)' /\ ClientKept(j)' /\ CompOK(j)'
      BY DEF JobsOK
    <2>1. AdmittedOK(j) /\ ClientKept(j) /\ CompOK(j)
      BY <1>a DEF JobsOK
    <2>2. CASE jobs'[j] = jobs[j]
      BY <1>b, <2>1, <2>2 DEF AdmittedOK, ClientKept, CompOK, Admits, InUse
    <2>3. CASE jobs'[j] # jobs[j]
      <3>1. /\ jobs[j].status = "none" /\ jobs'[j].status = "running" /\ j = JobOf[c]
            /\ jobs'[j].rec = call[c].rec /\ call[c].at = "put"
        BY <1>f, <2>3
      <3>2. call[c].rec \in items /\ j \in refs[call[c].rec] /\ call[c].rec \in clients
        BY <1>a, <3>1 DEF HolderOK, Holds, HoldPCs
      <3>3. AdmittedOK(j)' /\ ClientKept(j)'
        BY <1>b, <3>1, <3>2 DEF AdmittedOK, ClientKept
      <3>4. CompOK(j)'
        BY <1>b, <2>1, <3>1 DEF CompOK
      <3>5. QED
        BY <3>3, <3>4
    <2>4. QED
      BY <2>2, <2>3
  <1>8. QED
    BY <1>a, <1>1, <1>2, <1>3, <1>4, <1>5, <1>6, <1>7 DEF RefInv, CallsOK

\* A refused call takes out its own reference; its job was not admitted with it.
LEMMA ReleaseKeeps ==
  ASSUME RefInv, TypeOK', NEW c \in Calls, Release(c)
  PROVE  RefInv'
  <1>a. /\ TypeOK /\ Known /\ OneHolder /\ OneMaker /\ JobsOK
        /\ \A d \in Calls : HolderOK(d) /\ AddedOK(d) /\ MakerOK(d)
        /\ \A d \in Calls : JobOf[d] \in Jobs
    BY ReferenceAssumption DEF RefInv, CallsOK
  <1>b. /\ draft' = draft /\ made' = made /\ clients' = clients /\ items' = items
        /\ jobs' = jobs /\ targets' = targets /\ comp' = comp /\ errors' = errors
    BY DEF Release, Remote
  <1>c. call[c].at = "release" /\ Goto(c, "done")
    BY DEF Release, At
  <1>d. /\ OthersStay(c) /\ call'[c].rec = call[c].rec /\ call'[c].added = call[c].added
        /\ call'[c].at = "done"
    BY <1>a, <1>c, GotoStep DEF CallPCs
  <1>e. /\ call[c].at = "release" /\ call[c].rec \in Records
        /\ \/ refs' = refs
           \/ /\ refs'[call[c].rec] = refs[call[c].rec] \ {JobOf[c]}
              /\ \A s \in Records : s # call[c].rec => refs'[s] = refs[s]
    BY <1>a, <1>c, RecTyped DEF Release, TypeOK, Holds, HoldPCs
  <1>1. Known'
    BY <1>a, <1>b, <1>d, <1>e, RecTyped DEF Known, OthersStay
  <1>2. \A d \in Calls : HolderOK(d)'
    BY <1>a, <1>b, <1>d, <1>e, RecTyped DEF HolderOK, Holds, HoldPCs, MakerOK, Makes, CreatePCs,
      Alone, Joinable, UsesRec, JobsOK, AdmittedOK, Admits, OthersStay, OneHolder
  <1>3. \A d \in Calls : AddedOK(d)'
    BY <1>a, <1>b, <1>d, <1>e, RecTyped DEF AddedOK, Holds, HoldPCs, OthersStay
  <1>4. \A d \in Calls : MakerOK(d)'
    BY <1>a, <1>b, <1>d, <1>e, RecTyped DEF MakerOK, Makes, CreatePCs, Alone, Joinable, Holds,
      HoldPCs, HolderOK, UsesRec, Admits, OthersStay
  <1>5. OneHolder'
    BY <1>a, <1>b, <1>d, <1>e, RecTyped DEF OneHolder, Holds, HoldPCs, HolderOK, OthersStay
  <1>6. OneMaker'
    BY <1>a, <1>b, <1>d, <1>e, RecTyped DEF OneMaker, Makes, CreatePCs, OthersStay
  <1>7. JobsOK'
    <2>1. ItemsKept
      BY <1>a, <1>b, <1>d, <1>e, RecTyped DEF ItemsKept, HolderOK, Holds, HoldPCs, MakerOK, Makes,
        CreatePCs, Alone, Joinable, UsesRec, Admits
    <2>2. QED
      BY <1>a, <1>b, <1>d, <1>e, <2>1, JobsFrame
  <1>8. QED
    BY <1>a, <1>1, <1>2, <1>3, <1>4, <1>5, <1>6, <1>7 DEF RefInv, CallsOK

\* The item that a claim deletes held nobody's reference but the claimant's.
LEMMA ClaimDrops ==
  ASSUME RefInv, TypeOK', NEW j \in Jobs, Claim(j), DropItem(jobs[j].rec),
         jobs[j].rec \in items, refs[jobs[j].rec] = {j}
  PROVE  RefInv'
  <1>1. /\ call' = call /\ jobs' = jobs /\ targets' = targets /\ draft' = draft /\ made' = made
        /\ clients' = clients /\ comp[j] = "claim"
    BY DEF Claim, Remote
  <1>2. /\ jobs[j].rec \in Records /\ jobs[j].status = "failed" /\ Admits(j)
        /\ targets[j] = jobs[j].rec
    BY <1>1, RecTyped DEF RefInv, JobsOK, CompOK, Admits, TypeOK
  <1>3. /\ items' = items \ {jobs[j].rec}
        /\ \A s \in Records : s # jobs[j].rec => refs'[s] = refs[s]
    BY <1>2, DropItemStep DEF RefInv
  <1>4. /\ comp'[j] = "cleanup" \/ (comp'[j] = "settle" /\ errors'[j])
        /\ \A k \in Jobs : k # j => comp'[k] = comp[k] /\ errors'[k] = errors[k]
    BY DEF Claim, Next1, Err, RefInv, TypeOK
  <1>5. ASSUME NEW c \in Calls, call[c].rec = jobs[j].rec
        PROVE  ~Holds(c) /\ ~(Makes(c) /\ Joinable(c))
    <2>1. ~(JobOf[c] \in refs[call[c].rec] /\ ~UsesRec(JobOf[c], call[c].rec))
      BY <1>2, <1>5 DEF UsesRec
    <2>2. HolderOK(c)
      BY DEF RefInv, CallsOK
    <2>3. QED
      BY <2>1, <2>2 DEF HolderOK, Joinable
  <1>6. ASSUME NEW c \in Calls
        PROVE  HolderOK(c)' /\ AddedOK(c)' /\ MakerOK(c)'
    <2>1. HolderOK(c) /\ AddedOK(c) /\ MakerOK(c)
      BY DEF RefInv, CallsOK
    <2>2. HolderOK(c)'
      BY <1>1, <1>3, <1>5, <2>1, RecTyped DEF HolderOK, Holds, UsesRec, Admits
    <2>3. AddedOK(c)'
      BY <1>1, <2>1 DEF AddedOK, Holds
    <2>4. MakerOK(c)'
      BY <1>1, <1>3, <1>5, <2>1 DEF MakerOK, Makes, Alone, Joinable, Holds, UsesRec, Admits
    <2>5. QED
      BY <2>2, <2>3, <2>4
  <1>7. ASSUME NEW k \in Jobs
        PROVE  AdmittedOK(k)' /\ ClientKept(k)' /\ CompOK(k)'
    <2>1. AdmittedOK(k) /\ ClientKept(k) /\ CompOK(k)
      BY DEF RefInv, JobsOK
    <2>2. CASE k = j
      BY <1>1, <1>2, <1>3, <1>4, <2>1, <2>2 DEF AdmittedOK, ClientKept, CompOK, Admits, InUse,
        Claimed
    <2>3. CASE k # j
      <3>1. ~(Admits(k) /\ jobs[k].rec = jobs[j].rec)
        BY <2>1, <2>3 DEF AdmittedOK
      <3>2. AdmittedOK(k)'
        BY <1>1, <1>3, <1>4, <2>1, <2>3, <3>1, RecTyped DEF AdmittedOK, Admits
      <3>3. ClientKept(k)' /\ CompOK(k)'
        BY <1>1, <1>3, <1>4, <2>1, <2>3 DEF ClientKept, CompOK, InUse
      <3>4. QED
        BY <3>2, <3>3
    <2>4. QED
      BY <2>2, <2>3
  <1>8. Known' /\ OneHolder' /\ OneMaker'
    BY <1>1, <1>3 DEF RefInv, Known, OneHolder, OneMaker, Holds, Makes
  <1>9. QED
    BY <1>6, <1>7, <1>8 DEF RefInv, CallsOK, JobsOK

\* Who is not alone in the item, or gets no answer, deletes nothing.
LEMMA ClaimLeaves ==
  ASSUME RefInv, TypeOK', NEW j \in Jobs, Claim(j), UNCHANGED References
  PROVE  RefInv'
  <1>1. /\ call' = call /\ jobs' = jobs /\ targets' = targets /\ draft' = draft /\ made' = made
        /\ clients' = clients /\ items' = items /\ refs' = refs /\ comp[j] = "claim"
    BY DEF Claim, Remote, References
  <1>2. /\ comp'[j] = "drop" \/ (comp'[j] = "settle" /\ errors'[j])
        /\ \A k \in Jobs : k # j => comp'[k] = comp[k] /\ errors'[k] = errors[k]
    <2>1. CASE DropItem(jobs[j].rec) /\ jobs[j].rec \in items
      BY <1>1, <2>1 DEF DropItem
    <2>2. QED
      BY <2>1 DEF Claim, Next1, Err, RefInv, TypeOK
  <1>3. ASSUME NEW k \in Jobs
        PROVE  AdmittedOK(k)' /\ ClientKept(k)' /\ CompOK(k)'
    <2>1. AdmittedOK(k) /\ ClientKept(k) /\ CompOK(k)
      BY DEF RefInv, JobsOK
    <2>2. AdmittedOK(k)' /\ ClientKept(k)'
      BY <1>1, <1>2, <2>1 DEF AdmittedOK, ClientKept, Admits, InUse, Claimed
    <2>3. CompOK(k)'
      BY <1>1, <1>2, <2>1 DEF CompOK
    <2>4. QED
      BY <2>2, <2>3
  <1>4. CallsOK'
    BY <1>1 DEF RefInv, CallsOK, HolderOK, AddedOK, MakerOK, Holds, Makes, Alone, Joinable,
      UsesRec, Admits
  <1>5. Known' /\ OneHolder' /\ OneMaker'
    BY <1>1 DEF RefInv, Known, OneHolder, OneMaker, Holds, Makes
  <1>6. QED
    BY <1>3, <1>4, <1>5 DEF RefInv, JobsOK

-----------------------------------------------------------------------------
(* The invariant and what follows from it.                                  *)

\* Every step of create_job keeps the invariant, unless a refused call may have stored its job.
LEMMA CreateKeeps ==
  ASSUME RefInv, "projection" \notin FaultKinds, NEW c \in Calls, Create(c)
  PROVE  RefInv'
  <1>a. TypeOK /\ TypeOK' /\ call[c] \in CallRow /\ AddedOK(c)
    BY CreateTyped DEF RefInv, TypeOK, CallsOK
  <1>1. CASE Begin(c) \/ Find(c) \/ Peek(c) \/ Refuse(c) \/ Allow(c) \/ Restore(c) \/ CallCrash(c)
    BY <1>1, KeepBegin, KeepFind, KeepPeek, KeepRefuse, KeepAllow, KeepRestore, KeepCallCrash
  <1>2. CASE Reserve(c)
    <2>1. CASE call'[c].at = "done"
      BY <1>2, <2>1, <1>a, ReserveFails
    <2>2. CASE call'[c].at # "done"
      <3>1. ~Goto(c, "done")
        BY <1>a, <2>2, GotoStep DEF CallPCs
      <3>2. QED
        BY <1>2, <1>a, <2>2, <3>1, ReserveAdds DEF Reserve
    <2>3. QED
      BY <2>1, <2>2
  <1>3. CASE CreateDraft(c)
    <2>1. Goto(c, "done") => call'[c].at = "done"
      BY <1>a, GotoStep DEF CallPCs
    <2>2. call' = [call EXCEPT ![c].at = "init", ![c].rec = made + 1, ![c].recCreated = TRUE]
          => call'[c].at = "init"
      BY <1>a DEF TypeOK, CallRow
    <2>3. call'[c].at \in {"init", "done"}
      BY <1>3, <2>1, <2>2 DEF CreateDraft
    <2>4. QED
      BY <1>3, <1>a, <2>3, DraftMade, DraftNotMade
  <1>4. CASE Initialize(c)
    <2>1. Goto(c, "rollback") => call'[c].at = "rollback"
      BY <1>a, GotoStep DEF CallPCs
    <2>2. call' = [call EXCEPT ![c].at = "client", ![c].added = TRUE] => call'[c].at = "client"
      BY <1>a DEF TypeOK, CallRow
    <2>3. call'[c].at \in {"client", "rollback"}
      BY <1>4, <2>1, <2>2 DEF Initialize
    <2>4. QED
      BY <1>4, <1>a, <2>3, InitializeAdds, InitializeFails
  <1>5. CASE ProvisionClient(c)
    <2>1. call' = [call EXCEPT ![c].at = "put", ![c].cliCreated = call[c].rec \notin clients]
          => call'[c].at = "put"
      BY <1>a DEF TypeOK, CallRow
    <2>2. call'[c].at = "put" \/ Leave(c)
      BY <1>5, <2>1 DEF ProvisionClient
    <2>3. QED
      BY <1>5, <1>a, <2>2, ProvisionGives, ProvisionRaises
  <1>6. CASE Rollback(c) \/ Unmake(c) \/ Put(c) \/ Release(c)
    BY <1>6, <1>a, RollbackKeeps, UnmakeKeeps, PutKeeps, ReleaseKeeps
  <1>7. QED
    BY <1>1, <1>2, <1>3, <1>4, <1>5, <1>6 DEF Create

\* So does every step of a job's end and of its compensation.
LEMMA LiveKeeps ==
  ASSUME RefInv, NEW j \in Jobs, Live(j)
  PROVE  RefInv'
  <1>1. CASE Claim(j)
    <2>1. TypeOK'
      BY LiveTyped
    <2>2. \/ UNCHANGED References
          \/ DropItem(jobs[j].rec) /\ jobs[j].rec \in items /\ refs[jobs[j].rec] = {j}
      BY <1>1 DEF Claim
    <2>3. QED
      BY <1>1, <2>1, <2>2, ClaimDrops, ClaimLeaves
  <1>2. CASE ~Claim(j)
    BY <1>2, KeepSucceed, KeepFail, KeepPutTarget, KeepDropTarget, KeepCleanup, KeepDeleteRecord,
       KeepSettle, KeepCompCrash DEF Live
  <1>3. QED
    BY <1>1, <1>2

\* At first there is no record and no call under way.
LEMMA InitKeeps == Init => RefInv
  <1> SUFFICES ASSUME Init
               PROVE  RefInv
    OBVIOUS
  <1>1. TypeOK
    BY ReferenceAssumption
    DEF Init, TypeOK, JobRow, Fresh, Statuses, CallRow, CallPCs, CompPCs, Records
  <1>2. Known /\ OneHolder /\ OneMaker
    BY ReferenceAssumption DEF Init, Known, OneHolder, OneMaker, Holds, HoldPCs, Makes, CreatePCs,
      Fresh
  <1>3. CallsOK
    BY DEF Init, CallsOK, HolderOK, AddedOK, MakerOK, Holds, HoldPCs, Makes, CreatePCs
  <1>4. JobsOK
    BY DEF Init, JobsOK, AdmittedOK, ClientKept, CompOK, Admits, InUse, Fresh
  <1>5. QED
    BY <1>1, <1>2, <1>3, <1>4 DEF RefInv

\* A step that changes nothing keeps it.
LEMMA StutterKeeps ==
  ASSUME RefInv, UNCHANGED vars
  PROVE  RefInv'
  BY DEF vars, RefInv, TypeOK, Known, CallsOK, JobsOK, HolderOK, AddedOK, MakerOK, OneHolder,
    OneMaker,
     AdmittedOK, ClientKept, CompOK, Holds, Makes, Alone, Joinable, UsesRec, InUse, Admits

\* The reference items of create_job and of the compensation are sound: a call that
\* will store its job has it in the item of its record, a job in use stays there, and
\* what lost its item has a target.  Only a put_if_absent that stores the job and
\* raises is excluded.
THEOREM ReferenceInvariant ==
  ASSUME "projection" \notin FaultKinds
  PROVE  Spec => []RefInv
  <1>1. RefInv /\ [Next]_vars => RefInv'
    BY CreateKeeps, LiveKeeps, StutterKeeps DEF Next
  <1>2. QED
    BY <1>1, InitKeeps, PTL DEF Spec

\* Drafts, items, jobs, targets, calls and compensations keep their shape.
THEOREM ReferenceTyped ==
  ASSUME "projection" \notin FaultKinds
  PROVE  Spec => []TypeOK
  BY ReferenceInvariant, PTL DEF RefInv

\* No duplicate request that is refused (the release in "finally" of create_job), no
\* rollback and no compensation of another job takes an admitted job out of its item.
THEOREM AdmittedStayReferenced ==
  ASSUME "projection" \notin FaultKinds
  PROVE  Spec => []AdmittedReferenced
  <1>1. RefInv => AdmittedReferenced
    BY DEF RefInv, JobsOK, AdmittedOK, AdmittedReferenced, Admits, InUse
  <1>2. QED
    BY <1>1, ReferenceInvariant, PTL

\* A draft whose item _compensate_agent_record claimed, and that still exists, is named
\* by a stored compensation target, whatever of the cleanup raised or crashed.
THEOREM StrandedAreRecorded ==
  ASSUME "projection" \notin FaultKinds
  PROVE  Spec => []StrandedIsRecorded
  <1>1. RefInv => StrandedIsRecorded
    BY DEF RefInv, JobsOK, AdmittedOK, StrandedIsRecorded
  <1>2. QED
    BY <1>1, ReferenceInvariant, PTL

\* What the comment of claim_exclusive_job_reference_for_record promises: while a
\* compensation that claimed the item cleans up, no other job in use has the record.  The
\* run record_exclusive refutes it with a put_if_absent that stores the job and raises;
\* without that one fault it holds.
THEOREM ClaimsExclude ==
  ASSUME "projection" \notin FaultKinds
  PROVE  Spec => []ClaimIsExclusive
  <1>1. RefInv => ClaimIsExclusive
    BY DEF RefInv, JobsOK, AdmittedOK, CompOK, ClaimIsExclusive, Admits, InUse
  <1>2. QED
    BY <1>1, ReferenceInvariant, PTL

-----------------------------------------------------------------------------
(* The draft itself.  A deletion that took place without its reply puts the *)
(* item of a deleted record back (Restore), so this needs "reply" excluded. *)

\* An item belongs to the live draft, and so does the record of a call that made one.
DraftInv == items \subseteq {draft} /\ \A c \in Calls : Makes(c) => draft = call[c].rec

\* A step that leaves the draft alone brings back an item only of a record in hand.
LEMMA DraftStays ==
  ASSUME DraftInv, draft' = draft, NEW c \in Calls,
         items' \subseteq items \/ (Makes(c) /\ items' \subseteq items \cup {call[c].rec}),
         \A d \in Calls : Makes(d)' => Makes(d) /\ call'[d].rec = call[d].rec
  PROVE  DraftInv'
  BY DEF DraftInv, Makes

\* When the draft goes, its item is gone and no call holds it.
LEMMA DraftGoes ==
  ASSUME DraftInv, draft' = 0, items' = items, draft \notin items,
         \A d \in Calls : Makes(d)' => Makes(d) /\ call'[d].rec = call[d].rec /\ call[d].rec # draft
  PROVE  DraftInv'
  BY DEF DraftInv, Makes

\* create_job never leaves an item without its record.
LEMMA CreateKeepsDraft ==
  ASSUME RefInv, DraftInv, "reply" \notin FaultKinds, NEW c \in Calls, Create(c)
  PROVE  DraftInv'
  <1>a. TypeOK /\ AddedOK(c) /\ call[c] \in CallRow /\ MakerOK(c) /\ OneMaker
    BY DEF RefInv, TypeOK, CallsOK
  <1>b. ASSUME NEW p \in CallPCs, Goto(c, p), Makes(c) \/ p \notin CreatePCs
        PROVE  \A d \in Calls : Makes(d)' => Makes(d) /\ call'[d].rec = call[d].rec
    <2>1. OthersStay(c) /\ call'[c].at = p /\ call'[c].rec = call[c].rec
      BY <1>a, <1>b, GotoStep
    <2>2. \A d \in Calls : d # c => call'[d] = call[d]
      BY <2>1 DEF OthersStay
    <2>3. QED
      BY <1>b, <2>1, <2>2 DEF Makes
  <1>c. ASSUME call[c].at # "done", Leave(c)
        PROVE  \A d \in Calls : Makes(d)' => Makes(d) /\ call'[d].rec = call[d].rec
    BY <1>a, <1>c, LeaveStep DEF Makes, CreatePCs, OthersStay
  <1>1. CASE Begin(c) \/ Peek(c) \/ Refuse(c) \/ Allow(c) \/ Put(c) \/ Release(c) \/ CallCrash(c)
    BY <1>1, <1>b, <1>c, DraftStays
    DEF Begin, Peek, Refuse, Allow, Put, Release, CallCrash, At, Remote, References, CallPCs, CreatePCs
  <1>2. CASE Find(c) \/ Reserve(c) \/ ProvisionClient(c)
    <2>1. \A d \in Calls : Makes(d)' => Makes(d) /\ call'[d].rec = call[d].rec
      <3>1. CASE Find(c)
        BY <3>1, <1>a DEF Find, Makes, CreatePCs, TypeOK, CallRow
      <3>2. CASE Reserve(c)
        <4>1. call'[c].at \in {"done", "peek", "gate"} /\ OthersStay(c)
          BY <3>2, <1>a DEF Reserve, Goto, OthersStay, TypeOK, CallRow
        <4>2. QED
          BY <4>1 DEF OthersStay, Makes, CreatePCs
      <3>3. CASE ProvisionClient(c)
        BY <3>3, <1>a, <1>c DEF ProvisionClient, At, Makes, CreatePCs, TypeOK, CallRow
      <3>4. QED
        BY <1>2, <3>1, <3>2, <3>3
    <2>2. draft' = draft /\ items' \subseteq items
      BY <1>2 DEF Find, Reserve, ProvisionClient, Remote, References, AddRef
    <2>3. QED
      BY <2>1, <2>2, DraftStays
  <1>3. CASE CreateDraft(c)
    <2>1. CASE draft # 0
      BY <1>3, <2>1, <1>b, DraftStays DEF CreateDraft, References, CallPCs, CreatePCs
    <2>2. CASE draft = 0
      <3>1. items' = {} /\ \A d \in Calls : ~Makes(d)
        BY <1>3, <2>2, RecTyped DEF DraftInv, CreateDraft, References, Records, RefInv, TypeOK
      <3>2. \A d \in Calls : Makes(d)' => d = c /\ call'[c].rec = made + 1
        <4>1. CASE Goto(c, "done")
          BY <4>1, <3>1, <1>b DEF CallPCs, CreatePCs
        <4>2. CASE call' = [call EXCEPT ![c].at = "init", ![c].rec = made + 1, ![c].recCreated = TRUE]
          BY <4>2, <3>1, <1>a DEF Makes, TypeOK, CallRow
        <4>3. QED
          BY <1>3, <2>2, <4>1, <4>2 DEF CreateDraft
      <3>3. draft' = made + 1
        BY <1>3, <2>2 DEF CreateDraft
      <3>4. QED
        BY <3>1, <3>2, <3>3 DEF DraftInv
    <2>3. QED
      BY <2>1, <2>2
  <1>4. CASE Initialize(c) \/ Rollback(c) \/ Restore(c)
    <2>1. Makes(c) /\ draft' = draft /\ items' \subseteq items \cup {call[c].rec}
      BY <1>4 DEF Initialize, Rollback, Restore, Makes, CreatePCs, At, Remote, References, AddRef,
        DropItem
    <2>2. \A d \in Calls : Makes(d)' => Makes(d) /\ call'[d].rec = call[d].rec
      <3>1. CASE call' = [call EXCEPT ![c].at = "client", ![c].added = TRUE]
        BY <3>1, <2>1, <1>a DEF Makes, TypeOK, CallRow
      <3>2. QED
        BY <1>4, <2>1, <3>1, <1>b DEF Initialize, Rollback, Restore, CallPCs
    <2>3. QED
      BY <2>1, <2>2, DraftStays
  <1>5. CASE Unmake(c)
    <2>1. /\ Makes(c) /\ call[c].rec \notin items /\ items' = items
          /\ Goto(c, "done") \/ Goto(c, "restore")
      BY <1>5, <1>a DEF Unmake, Makes, CreatePCs, At, MakerOK, Alone, Joinable, References
    <2>2. \A d \in Calls : Makes(d)' => Makes(d) /\ call'[d].rec = call[d].rec
      BY <2>1, <1>b DEF CallPCs
    <2>3. CASE draft' = draft
      BY <2>1, <2>2, <2>3, DraftStays
    <2>4. CASE draft' # draft
      <3>1. draft' = 0 /\ Goto(c, "done") /\ call[c].rec = draft
        BY <1>5, <2>4 DEF Unmake, Without, Unanswered
      <3>2. call'[c].at = "done"
        BY <1>a, <3>1, GotoStep DEF CallPCs
      <3>3. \A d \in Calls : Makes(d)' => call[d].rec # draft
        BY <1>a, <2>1, <2>2, <3>1, <3>2 DEF OneMaker, Makes, CreatePCs
      <3>4. QED
        BY <2>1, <2>2, <3>1, <3>3, DraftGoes
    <2>5. QED
      BY <2>3, <2>4
  <1>6. QED
    BY <1>1, <1>2, <1>3, <1>4, <1>5 DEF Create

\* Neither does a compensation: the item goes before the record.
LEMMA LiveKeepsDraft ==
  ASSUME RefInv, DraftInv, "reply" \notin FaultKinds, NEW j \in Jobs, Live(j)
  PROVE  DraftInv'
  <1>1. call' = call /\ items' \subseteq items
    BY DEF Live, Succeed, Fail, PutTarget, Claim, DropTarget, Cleanup, DeleteRecord, Settle,
      CompCrash,
       References, DropItem
  <1>2. CASE draft' = draft
    BY <1>1, <1>2 DEF DraftInv, Makes
  <1>3. CASE draft' # draft
    <2>1. comp[j] = "record" /\ draft' = 0 /\ draft = jobs[j].rec /\ items' = items
      BY <1>3 DEF Live, Succeed, Fail, PutTarget, Claim, DropTarget, Cleanup, DeleteRecord,
        Settle, CompCrash,
         References, Remote, Without, Unanswered
    <2>2. draft \notin items /\ UsesRec(j, draft)
      BY <2>1 DEF RefInv, JobsOK, CompOK, UsesRec, Admits
    <2>3. ASSUME NEW d \in Calls, Makes(d)
          PROVE  call[d].rec # draft
      BY <2>2, <2>3 DEF RefInv, CallsOK, MakerOK, Alone, Joinable
    <2>4. QED
      BY <1>1, <2>1, <2>2, <2>3, DraftGoes DEF Makes
  <1>4. QED
    BY <1>2, <1>3

\* Items and rollbacks are about the live draft only.
THEOREM DraftInvariant ==
  ASSUME FaultKinds \cap {"projection", "reply"} = {}
  PROVE  Spec => []DraftInv
  <1>0. Spec => []RefInv
    <2>1. "projection" \notin FaultKinds
      OBVIOUS
    <2>2. QED
      BY <2>1, ReferenceInvariant
  <1>1. Init => DraftInv
    BY DEF Init, DraftInv, Makes, CreatePCs
  <1>2. RefInv /\ DraftInv /\ [Next]_vars => DraftInv'
    <2>1. RefInv /\ DraftInv /\ UNCHANGED vars => DraftInv'
      BY DEF vars, DraftInv, Makes
    <2>2. QED
      BY <2>1, CreateKeepsDraft, LiveKeepsDraft DEF Next
  <1>3. QED
    BY <1>0, <1>1, <1>2, PTL DEF Spec

\* The draft and the OAuth client of an admitted job are not deleted by the failure of
\* another deployment of the agent that shares them.
THEOREM SharedDraftStays ==
  ASSUME FaultKinds \cap {"projection", "reply"} = {}
  PROVE  Spec => []SharedDraftKept
  <1>0. Spec => []RefInv
    <2>1. "projection" \notin FaultKinds
      OBVIOUS
    <2>2. QED
      BY <2>1, ReferenceInvariant
  <1>1. RefInv /\ DraftInv => SharedDraftKept
    BY DEF RefInv, JobsOK, AdmittedOK, ClientKept, DraftInv, SharedDraftKept, Admits, InUse
  <1>2. QED
    BY <1>0, <1>1, DraftInvariant, PTL

=============================================================================
