-------------------------- MODULE RecordReference --------------------------
(***************************************************************************)
(* The draft Registry record that several deployment jobs of one agent     *)
(* share, from create_job to the compensation of a failed job.             *)
(*                                                                         *)
(* create_job either makes a draft record or recovers the one an earlier,  *)
(* unfinished deployment of the same agent left (same name, version and    *)
(* principal).  A reference item, RECORDREF#<record>, holds the set of     *)
(* jobs that use the record: the creator initializes it, a replay adds     *)
(* itself to it, a caller whose admission fails takes itself out.  A job   *)
(* that fails deletes the record, its authorization artifacts and its      *)
(* OAuth client only after it has deleted the item while the item held     *)
(* nobody but itself.  Before that claim it stores a target, from which an *)
(* unfinished cleanup can be reconciled.                                   *)
(*                                                                         *)
(* All calls here are for one agent, so the Registry, which refuses a      *)
(* second record of the same name and version, holds one draft at most.    *)
(***************************************************************************)
EXTENDS Naturals, FiniteSets

CONSTANTS
  Jobs,        \* job ids
  Calls,       \* calls of create_job
  JobOf,       \* the job id of each call: a retried request repeats it
  FaultKinds,  \* which calls may raise: "admission", "cleanup"; "projection":
               \* a raising admission may have stored the job; "reply": a
               \* raising deletion of a record may have deleted it
  MaxRecords,  \* bound: records ever created
  MaxFaults    \* bound: remote calls that raise, crashes

Records == 1 .. MaxRecords

ASSUME ReferenceAssumption ==
  /\ IsFiniteSet(Jobs) /\ IsFiniteSet(Calls)
  /\ JobOf \in [Calls -> Jobs]
  /\ FaultKinds \subseteq {"admission", "projection", "cleanup", "reply"}
  /\ MaxRecords \in Nat /\ MaxFaults \in Nat

VARIABLES
  draft,    \* the live draft record, 0 if there is none
  made,     \* how many records were ever created
  items,    \* the records that have a reference item
  refs,     \* the job ids in each item
  clients,  \* the records whose OAuth client exists
  jobs,     \* the job store
  targets,  \* the stored compensation targets: the record, 0 if none
  call,     \* where each call of create_job is, and its local variables
  comp,     \* where the compensation of each job is
  errors,   \* whether that compensation has met an error
  faults

vars == <<draft, made, items, refs, clients, jobs, targets, call, comp,
          errors, faults>>

References == <<items, refs>>
Remote     == <<draft, made, clients>>

Statuses == {"none", "running", "ready", "failed"}
JobRow   == [status : Statuses, rec : 0 .. MaxRecords,
             recCreated : BOOLEAN, cliCreated : BOOLEAN]
Fresh    == [status |-> "none", rec |-> 0,
             recCreated |-> FALSE, cliCreated |-> FALSE]

CallPCs  == {"start", "find", "reserve", "peek", "gate", "create", "init",
             "rollback", "unmake", "restore", "client", "put", "release",
             "done"}
CallRow  == [at : CallPCs, rec : 0 .. MaxRecords, added : BOOLEAN,
             recCreated : BOOLEAN, cliCreated : BOOLEAN]
CompPCs  == {"no", "target", "claim", "drop", "cleanup", "record", "settle",
             "done"}

Init ==
  /\ draft = 0 /\ made = 0
  /\ items = {} /\ refs = [r \in Records |-> {}]
  /\ clients = {}
  /\ jobs    = [j \in Jobs |-> Fresh]
  /\ targets = [j \in Jobs |-> 0]
  /\ call    = [c \in Calls |-> [at |-> "start", rec |-> 0, added |-> FALSE,
                                 recCreated |-> FALSE, cliCreated |-> FALSE]]
  /\ comp    = [j \in Jobs |-> "no"]
  /\ errors  = [j \in Jobs |-> FALSE]
  /\ faults  = 0

-----------------------------------------------------------------------------
(* Building blocks. *)

At(c, p)   == call[c].at = p
Goto(c, p) == call' = [call EXCEPT ![c].at = p]
Stored(c)  == jobs[JobOf[c]].status # "none"

Fault(k) == /\ k \in FaultKinds /\ faults < MaxFaults
            /\ faults' = faults + 1

\* An exception leaves create_job: "finally" releases the reference that this
\* call added, and only that one.
LeaveRelease(c) == Goto(c, "release")     \* mutant: also what it did not add
Leave(c) == Goto(c, IF call[c].added THEN "release" ELSE "done")

AddRecordRef(r, j) ==                     \* mutant: the record id goes in
  items' = items \cup {r} /\ refs' = [refs EXCEPT ![r] = @ \cup {r}]
AddRef(r, j)  == items' = items \cup {r} /\ refs' = [refs EXCEPT ![r] = @ \cup {j}]
Without(r)    == IF draft = r THEN 0 ELSE draft
\* The record after a deletion that raised: it is gone if the reply was lost.
Unanswered(r) == {draft} \cup (IF "reply" \in FaultKinds THEN {Without(r)} ELSE {})
DropItem(r)   == items' = items \ {r} /\ refs' = [refs EXCEPT ![r] = {}]

-----------------------------------------------------------------------------
(* create_job. *)

\* A job id that is already stored is answered with the stored job.
Begin(c) ==
  /\ At(c, "start")
  /\ Goto(c, IF Stored(c) THEN "done" ELSE "find")
  /\ UNCHANGED <<Remote, References, jobs, targets, comp, errors, faults>>

\* _find_replay_record.
Find(c) ==
  /\ At(c, "find")
  /\ call' = [call EXCEPT ![c].at  = IF draft = 0 THEN "create" ELSE "reserve",
                          ![c].rec = draft]
  /\ UNCHANGED <<Remote, References, jobs, targets, comp, errors, faults>>

\* reserve_job_reference_for_record: the item must exist.  Without a reply
\* the call raises and forgets that it may have added the job.
Reserve(c) ==
  /\ At(c, "reserve")
  /\ LET r == call[c].rec
         j == JobOf[c]
     IN \/ /\ r \notin items
           /\ Goto(c, "done") /\ UNCHANGED <<References, faults>>
        \/ /\ r \in items
           /\ AddRef(r, j)
           /\ call' = [call EXCEPT ![c].at = IF j \in refs[r] THEN "peek"
                                             ELSE "gate",
                                   ![c].added = j \notin refs[r]]
           /\ UNCHANGED faults
        \/ /\ r \in items
           /\ Fault("admission") /\ AddRef(r, j) /\ Goto(c, "done")
  /\ UNCHANGED <<Remote, jobs, targets, comp, errors>>

\* Another call holds this job's reference: its job is returned, or, while it
\* is not stored yet, ConcurrentJobAdmission is raised.
Peek(c) ==
  /\ At(c, "peek")
  /\ Leave(c)
  /\ UNCHANGED <<Remote, References, jobs, targets, comp, errors, faults>>

\* The name is taken, or the gate refuses the deployment.
Refuse(c) ==
  /\ call[c].at \in {"gate", "create"}
  /\ Leave(c)
  /\ UNCHANGED <<Remote, References, jobs, targets, comp, errors, faults>>

Allow(c) ==
  /\ At(c, "gate")
  /\ Goto(c, "client")
  /\ UNCHANGED <<Remote, References, jobs, targets, comp, errors, faults>>

\* _create_agent_draft: the Registry refuses a second record of the name.  The
\* record may exist although the call raises (it is polled until DRAFT).
CreateDraft(c) ==
  /\ At(c, "create")
  /\ IF draft # 0
     THEN Goto(c, "done") /\ UNCHANGED <<draft, made, faults>>
     ELSE /\ made < MaxRecords
          /\ made' = made + 1 /\ draft' = made + 1
          /\ \/ /\ call' = [call EXCEPT ![c].at = "init", ![c].rec = made + 1,
                                        ![c].recCreated = TRUE]
                /\ UNCHANGED faults
             \/ Fault("admission") /\ Goto(c, "done")
  /\ UNCHANGED <<clients, References, jobs, targets, comp, errors>>

\* initialize_job_reference_for_record; a raising call may have taken effect.
Initialize(c) ==
  /\ At(c, "init")
  /\ LET r == call[c].rec IN
     \/ /\ AddRef(r, JobOf[c])
        /\ call' = [call EXCEPT ![c].at = "client", ![c].added = TRUE]
        /\ UNCHANGED faults
     \/ /\ Fault("admission")
        /\ AddRef(r, JobOf[c]) \/ UNCHANGED References
        /\ Goto(c, "rollback")
  /\ UNCHANGED <<Remote, jobs, targets, comp, errors>>

\* rollback_job_reference_initialization_for_record: only if nobody joined.
Rollback(c) ==
  /\ At(c, "rollback")
  /\ LET r == call[c].rec
         safe == r \notin items \/ refs[r] = {JobOf[c]}
     IN \/ /\ safe /\ DropItem(r) /\ Goto(c, "unmake") /\ UNCHANGED faults
        \/ /\ ~safe /\ Goto(c, "done") /\ UNCHANGED <<References, faults>>
        \/ /\ Fault("admission") /\ Goto(c, "done")
           /\ UNCHANGED References \/ (safe /\ DropItem(r))
  /\ UNCHANGED <<Remote, jobs, targets, comp, errors>>

Unmake(c) ==
  /\ At(c, "unmake")
  /\ \/ /\ draft' = Without(call[c].rec)
        /\ Goto(c, "done") /\ UNCHANGED faults
     \/ /\ Fault("admission") /\ Goto(c, "restore")
        /\ draft' \in Unanswered(call[c].rec)
  /\ UNCHANGED <<made, clients, References, jobs, targets, comp, errors>>

\* The record could not be deleted: its item is put back, without this job
\* (unless the release that follows raises), so that a replay can use the
\* record.
Restore(c) ==
  /\ At(c, "restore")
  /\ \/ /\ items' = items \cup {call[c].rec}
        /\ UNCHANGED <<refs, faults>>
     \/ /\ Fault("admission")
        /\ UNCHANGED References \/ AddRef(call[c].rec, JobOf[c])
  /\ Goto(c, "done")
  /\ UNCHANGED <<Remote, jobs, targets, comp, errors>>

\* provision_managed_runtime_client_with_provenance, or it raises.
ProvisionClient(c) ==
  /\ At(c, "client")
  /\ LET r == call[c].rec IN
     \/ /\ clients' = clients \cup {r}
        /\ call' = [call EXCEPT ![c].at = "put",
                                ![c].cliCreated = r \notin clients]
        /\ UNCHANGED faults
     \/ /\ Fault("admission") /\ Leave(c)
        /\ clients' \in {clients, clients \cup {r}}
  /\ UNCHANGED <<draft, made, References, jobs, targets, comp, errors>>

Admitted(c) == [status |-> "running", rec |-> call[c].rec,
                recCreated |-> call[c].recCreated,
                cliCreated |-> call[c].cliCreated]

\* put_if_absent: the job, then its monitoring projection.  When the second
\* write raises (or the reply of the first is lost), the job is stored but the
\* call takes itself for refused.
Put(c) ==
  /\ At(c, "put")
  /\ LET j == JobOf[c]
         stored == IF Stored(c) THEN jobs
                   ELSE [jobs EXCEPT ![j] = Admitted(c)]
     IN \/ jobs' = stored /\ Goto(c, "done") /\ UNCHANGED faults
        \/ /\ Fault("admission") /\ Leave(c)
           /\ jobs' \in {jobs} \cup (IF "projection" \in FaultKinds
                                   THEN {stored} ELSE {})
  /\ UNCHANGED <<Remote, References, targets, comp, errors>>

\* release_job_reference_for_record: the item stays, even when it is empty.
Release(c) ==
  /\ At(c, "release")
  /\ \/ /\ refs' = [refs EXCEPT ![call[c].rec] = @ \ {JobOf[c]}]
        /\ UNCHANGED faults
     \/ Fault("admission") /\ UNCHANGED refs
  /\ Goto(c, "done")
  /\ UNCHANGED <<Remote, items, jobs, targets, comp, errors>>

\* The process dies inside create_job.
CallCrash(c) ==
  /\ call[c].at \notin {"start", "done"}
  /\ Fault("admission")
  /\ Goto(c, "done")
  /\ UNCHANGED <<Remote, References, jobs, targets, comp, errors>>

-----------------------------------------------------------------------------
(* The life of an admitted job (module AgentDeploy). *)

Succeed(j) ==
  /\ jobs[j].status = "running"
  /\ jobs' = [jobs EXCEPT ![j].status = "ready"]
  /\ UNCHANGED <<Remote, References, targets, call, comp, errors, faults>>

\* One executor moves the job to FAILED; if the provisioning is its own, it
\* compensates the record.
Fail(j) ==
  /\ jobs[j].status = "running"
  /\ jobs' = [jobs EXCEPT ![j].status = "failed"]
  /\ \E p \in {"target", "done"} : comp' = [comp EXCEPT ![j] = p]
  /\ UNCHANGED <<Remote, References, targets, call, errors, faults>>

-----------------------------------------------------------------------------
(* _compensate_agent_record, for a new agent. *)

Next1(j, p) == comp' = [comp EXCEPT ![j] = p]
Err(j)      == errors' = [errors EXCEPT ![j] = TRUE]

\* put_agent_compensation_target comes before the claim.  If it raises, or
\* finds a target, everything is skipped.
PutTarget(j) ==
  /\ comp[j] = "target"
  /\ \/ /\ targets[j] = 0
        /\ targets' = [targets EXCEPT ![j] = jobs[j].rec]
        /\ Next1(j, "claim") /\ UNCHANGED faults
     \/ /\ targets[j] # 0
        /\ Next1(j, "done") /\ UNCHANGED <<targets, faults>>
     \/ /\ Fault("cleanup")
        /\ targets' \in {targets, [targets EXCEPT ![j] = jobs[j].rec]}
        /\ Next1(j, "done")
  /\ UNCHANGED <<Remote, References, jobs, call, errors>>

\* Mutant of Claim: the claim asks only that the job is in the item.
ClaimShared(j) ==
  /\ comp[j] = "claim"
  /\ LET r == jobs[j].rec IN
     IF r \in items /\ j \in refs[r]
     THEN DropItem(r) /\ Next1(j, "cleanup")
     ELSE UNCHANGED References /\ Next1(j, "drop")
  /\ UNCHANGED <<Remote, jobs, targets, call, errors, faults>>

\* Mutant of Claim: the target is forgotten as soon as the claim succeeded.
ClaimAndForget(j) ==
  /\ comp[j] = "claim"
  /\ LET r == jobs[j].rec IN
     IF r \in items /\ refs[r] = {j}
     THEN DropItem(r) /\ Next1(j, "cleanup")
          /\ targets' = [targets EXCEPT ![j] = 0]
     ELSE UNCHANGED <<References, targets>> /\ Next1(j, "drop")
  /\ UNCHANGED <<Remote, jobs, call, errors, faults>>

\* claim_exclusive_job_reference_for_record: the item goes if this job is the
\* only one in it.  A call without a reply may have deleted the item.
Claim(j) ==
  /\ comp[j] = "claim"
  /\ LET r == jobs[j].rec
         alone == r \in items /\ refs[r] = {j}
     IN \/ alone /\ DropItem(r) /\ Next1(j, "cleanup")
           /\ UNCHANGED <<errors, faults>>
        \/ ~alone /\ Next1(j, "drop") /\ UNCHANGED <<References, errors, faults>>
        \/ /\ Fault("cleanup")
           /\ UNCHANGED References \/ (alone /\ DropItem(r))
           /\ Next1(j, "settle") /\ Err(j)
  /\ UNCHANGED <<Remote, jobs, targets, call>>

\* Not exclusive: the target is taken back and nothing is cleaned up.
DropTarget(j) ==
  /\ comp[j] = "drop"
  /\ \/ targets' = [targets EXCEPT ![j] = 0] /\ UNCHANGED faults
     \/ Fault("cleanup") /\ UNCHANGED targets
  /\ Next1(j, "done")
  /\ UNCHANGED <<Remote, References, jobs, call, errors>>

\* Authorization artifacts and OAuth client: what this job created.  A record or
\* a client that another job created is skipped, and that counts as an error.
Cleanup(j) ==
  /\ comp[j] = "cleanup"
  /\ LET rest == IF jobs[j].cliCreated THEN clients \ {jobs[j].rec}
                 ELSE clients
     IN \/ /\ clients' = rest
           /\ Next1(j, IF jobs[j].recCreated THEN "record" ELSE "settle")
           /\ IF jobs[j].recCreated /\ jobs[j].cliCreated THEN UNCHANGED errors ELSE Err(j)
           /\ UNCHANGED faults
        \/ /\ Fault("cleanup")
           /\ Next1(j, "settle") /\ Err(j)
           /\ clients' \in {clients, rest}
  /\ UNCHANGED <<draft, made, References, jobs, targets, call>>

DeleteRecord(j) ==
  /\ comp[j] = "record"
  /\ \/ draft' = Without(jobs[j].rec) /\ UNCHANGED <<errors, faults>>
     \/ Fault("cleanup") /\ Err(j) /\ draft' \in Unanswered(jobs[j].rec)
  /\ Next1(j, "settle")
  /\ UNCHANGED <<made, clients, References, jobs, targets, call>>

\* With errors the target stays, for reconciliation; without, it is deleted.
Settle(j) ==
  /\ comp[j] = "settle"
  /\ \/ /\ targets' = IF errors[j] THEN targets ELSE [targets EXCEPT ![j] = 0]
        /\ UNCHANGED faults
     \/ ~errors[j] /\ Fault("cleanup") /\ UNCHANGED targets
  /\ Next1(j, "done")
  /\ UNCHANGED <<Remote, References, jobs, call, errors>>

CompCrash(j) ==
  /\ comp[j] \notin {"no", "done"}
  /\ Fault("cleanup")
  /\ Next1(j, "done")
  /\ UNCHANGED <<Remote, References, jobs, targets, call, errors>>

Create(c) ==
  \/ Begin(c) \/ Find(c) \/ Reserve(c) \/ Peek(c) \/ Refuse(c) \/ Allow(c)
  \/ CreateDraft(c) \/ Initialize(c) \/ Rollback(c) \/ Unmake(c) \/ Restore(c)
  \/ ProvisionClient(c) \/ Put(c) \/ Release(c) \/ CallCrash(c)

Live(j) ==
  \/ Succeed(j) \/ Fail(j)
  \/ PutTarget(j) \/ Claim(j) \/ DropTarget(j) \/ Cleanup(j) \/ DeleteRecord(j)
  \/ Settle(j) \/ CompCrash(j)

Next == (\E c \in Calls : Create(c)) \/ (\E j \in Jobs : Live(j))

Spec == Init /\ [][Next]_vars

-----------------------------------------------------------------------------
(* Properties. *)

TypeOK ==
  /\ draft \in 0 .. MaxRecords /\ made \in 0 .. MaxRecords
  /\ items \subseteq Records /\ refs \in [Records -> SUBSET Jobs]
  /\ clients \subseteq Records
  /\ jobs \in [Jobs -> JobRow] /\ targets \in [Jobs -> 0 .. MaxRecords]
  /\ call \in [Calls -> CallRow] /\ comp \in [Jobs -> CompPCs]
  /\ errors \in [Jobs -> BOOLEAN] /\ faults \in Nat

Admits(j) == jobs[j].status # "none"
InUse(j) == jobs[j].status \in {"running", "ready"}

\* The record and the OAuth client of an admitted job that has not failed
\* exist: neither the compensation of another job that shares the draft nor
\* the rollback of a call that could not be admitted takes them away.
SharedDraftKept ==
  \A j \in Jobs : InUse(j) => /\ draft = jobs[j].rec
                              /\ jobs[j].rec \in clients

\* An admitted job stays in the item of its record: no refused duplicate of
\* its request and no other job takes it out.
AdmittedReferenced ==
  \A j \in Jobs : InUse(j) => /\ jobs[j].rec \in items
                              /\ j \in refs[jobs[j].rec]

\* A draft that a job was admitted with and that lost its reference item, so
\* that no deployment can use it again, is named by a compensation target,
\* whatever of the cleanup raised and wherever it crashed.
StrandedIsRecorded ==
  \A j \in Jobs : Admits(j) /\ draft = jobs[j].rec /\ draft \notin items
                 => \E k \in Jobs : targets[k] = draft

-----------------------------------------------------------------------------
(* A claim of the source that a run refutes. *)

\* claim_exclusive_job_reference_for_record: the claimant has exclusivity, so
\* no admitted job uses the record while it is cleaned up.
ClaimIsExclusive ==
  \A j \in Jobs : comp[j] \in {"cleanup", "record"} =>
    \A k \in Jobs \ {j} : InUse(k) => jobs[k].rec # jobs[j].rec
=============================================================================
