------------------------------ MODULE McpDeploy ------------------------------
(***************************************************************************)
(* Deployments of one MCP server name (deploy/jobs.py): advance and        *)
(* compensate_failure, run by overlapping polls over a shared job store,   *)
(* one Lambda function, one Gateway Target per sensitivity slice and the   *)
(* catalog records.  A poll computes on a private copy of its job and      *)
(* commits it only when no other commit went between.  A target is         *)
(* identified by the job that created it, and so is the function's code.   *)
(***************************************************************************)
EXTENDS Naturals, FiniteSets

CONSTANTS
  McpJobs,        \* deployments of the name
  McpProcs,       \* processes, each with one poll in flight
  MaxMcpFaults    \* bound on failing calls and dying processes

ASSUME McpDeployAssumption ==
  /\ McpJobs \cap {"none", "standing"} = {}
  /\ MaxMcpFaults \in Nat

VARIABLES
  mcpCase,        \* how the deployments relate
  version,        \* source version of each job
  mcpJob,         \* the stored jobs
  function,       \* whose marker and whose code the Lambda function carries
  sliceTarget,        \* whose Target stands for each slice
  records,        \* jobs whose descriptors are in the catalog
  mcpPoll,        \* what each process is doing
  mcpFaults

mcpVars == <<mcpCase, version, mcpJob, function, sliceTarget, records, mcpPoll, mcpFaults>>

\* Two first deployments of one asset, of two assets under one name (the name
\* is compared with the catalog only at admission), or two redeployments.
McpCases == {"first", "rival", "redeploy"}

McpSlices == 1 .. 2

McpPhases == {"QUEUED", "BUILDING", "REGISTERING_TARGET", "READY", "FAILED"}

Finished(phase) == phase \in {"READY", "FAILED"}

\* A slice of a job: not wired, failed, its own Target, or one it found.
SliceStates == {"absent", "failed", "created", "reused", "deleted"}

McpRow ==
  [phase : McpPhases, arn : BOOLEAN, owner : McpProcs \cup {"none", "gone"},
   slice : [McpSlices -> SliceStates]]

Steps ==
  {"idle", "loaded", "examined", "configured", "settled", "wire", "register",
   "policy", "claim", "verify", "undo", "persist"}

NewRow ==
  [phase |-> "QUEUED", arn |-> FALSE, owner |-> "none",
   slice |-> [s \in McpSlices |-> "absent"]]

Redeploying == mcpCase = "redeploy"

\* What the previous deployment left has version 1.
VersionOf(x) == IF x \in McpJobs THEN version[x] ELSE 1

McpInit ==
  /\ mcpCase \in McpCases
  /\ version \in [McpJobs -> 2 .. 3] /\ \E j \in McpJobs : version[j] = 2
  /\ mcpJob = [j \in McpJobs |-> NewRow]
  /\ function = LET x == IF Redeploying THEN "standing" ELSE "none"
                IN  [mark |-> x, code |-> x]
  /\ sliceTarget = [s \in McpSlices |->
                  IF Redeploying /\ s = 1 THEN "standing" ELSE "none"]
  /\ records = {}
  /\ mcpPoll = [p \in McpProcs |-> [pc |-> "idle"]]
  /\ mcpFaults = 0

----------------------------------------------------------------------------
\* A poll of a process, and its job.
AtStep(p, pc) == mcpPoll[p].pc = pc
JobOf(p)  == mcpPoll[p].job
CopyOf(p) == mcpPoll[p].copy

\* The poll goes on at pc with the copy c.
Goes(p, pc, c) == mcpPoll' = [mcpPoll EXCEPT ![p].pc = pc, ![p].copy = c]

FailsJob(p) == Goes(p, "claim", [CopyOf(p) EXCEPT !.phase = "FAILED"])

McpFault == mcpFaults < MaxMcpFaults /\ mcpFaults' = mcpFaults + 1

Elsewhere == UNCHANGED <<mcpCase, version>>

\* poll loads an unfinished job.
StartPoll(p, j) ==
  /\ AtStep(p, "idle") /\ ~ Finished(mcpJob[j].phase)
  /\ mcpPoll' = [mcpPoll EXCEPT ![p] =
       [pc |-> "loaded", job |-> j, copy |-> mcpJob[j],
        behind |-> FALSE, fresh |-> FALSE, k |-> 1]]
  /\ Elsewhere /\ UNCHANGED <<mcpJob, function, sliceTarget, records, mcpFaults>>

InPhase(p, phase) == AtStep(p, "loaded") /\ CopyOf(p).phase = phase

StartBuild(p) ==
  /\ InPhase(p, "QUEUED")
  /\ Goes(p, "claim", [CopyOf(p) EXCEPT !.phase = "BUILDING"])
  /\ Elsewhere /\ UNCHANGED <<mcpJob, function, sliceTarget, records, mcpFaults>>

\* The build runs, a sensitivity change awaits its approval, or Targets
\* synchronize: the unchanged copy is committed all the same.
StillWaits(p) ==
  /\ InPhase(p, "BUILDING") \/ InPhase(p, "REGISTERING_TARGET")
  /\ Goes(p, "claim", CopyOf(p))
  /\ Elsewhere /\ UNCHANGED <<mcpJob, function, sliceTarget, records, mcpFaults>>

BuildFails(p) ==
  /\ InPhase(p, "BUILDING") /\ FailsJob(p)
  /\ Elsewhere /\ UNCHANGED <<mcpJob, function, sliceTarget, records, mcpFaults>>

----------------------------------------------------------------------------
\* The Lambda function.  A write of p makes the revision others read stale.
Wrote(p, pc, c) ==
  mcpPoll' = [q \in McpProcs |->
    CASE q = p             -> [mcpPoll[q] EXCEPT !.pc = pc, !.copy = c]
      [] AtStep(q, "idle")     -> mcpPoll[q]
      [] OTHER             -> [mcpPoll[q] EXCEPT !.fresh = FALSE]]

CreateLambda(p) ==
  /\ InPhase(p, "BUILDING") /\ function.mark = "none"
  /\ function' = [mark |-> JobOf(p), code |-> JobOf(p)]
  /\ Wrote(p, "wire", [CopyOf(p) EXCEPT !.arn = TRUE, !.owner = p])
  /\ Elsewhere /\ UNCHANGED <<mcpJob, sliceTarget, records, mcpFaults>>

\* The marker allows the same asset, and no older source version.
Allowed(p) ==
  LET j == JobOf(p) IN
  /\ mcpCase = "rival" => function.mark = j
  /\ VersionOf(function.mark) <= version[j]

\* get_function: the marker is judged and the revision taken.
ExamineLambda(p) ==
  /\ InPhase(p, "BUILDING") /\ function.mark # "none"
  /\ IF Allowed(p)
       THEN mcpPoll' = [mcpPoll EXCEPT ![p].pc = "examined", ![p].fresh = TRUE]
       ELSE FailsJob(p)
  /\ Elsewhere /\ UNCHANGED <<mcpJob, function, sliceTarget, records, mcpFaults>>

\* Mutant of Unchanged: the write is made without RevisionId.
AnyRevision(p) == TRUE

\* RevisionId: the function is as the poll last read it.
Unchanged(p) == mcpPoll[p].fresh

\* update_function_configuration at the revision read with the marker.
ConfigureLambda(p) ==
  /\ AtStep(p, "examined")
  /\ IF Unchanged(p)
       THEN /\ function' = [function EXCEPT !.mark = JobOf(p)]
            /\ Wrote(p, "configured", CopyOf(p))
       ELSE FailsJob(p) /\ UNCHANGED function
  /\ Elsewhere /\ UNCHANGED <<mcpJob, sliceTarget, records, mcpFaults>>

\* After the waiter the revision is read again, the marker is not.
SettleLambda(p) ==
  /\ AtStep(p, "configured")
  /\ mcpPoll' = [mcpPoll EXCEPT ![p].pc = "settled", ![p].fresh = TRUE]
  /\ Elsewhere /\ UNCHANGED <<mcpJob, function, sliceTarget, records, mcpFaults>>

UpdateCode(p) ==
  /\ AtStep(p, "settled")
  /\ IF Unchanged(p)
       THEN /\ function' = [function EXCEPT !.code = JobOf(p)]
            /\ Wrote(p, "wire", [CopyOf(p) EXCEPT !.arn = TRUE])
       ELSE FailsJob(p) /\ UNCHANGED function
  /\ Elsewhere /\ UNCHANGED <<mcpJob, sliceTarget, records, mcpFaults>>

\* A Lambda call raises; a create, configuration or code write may be done.
LambdaFails(p) ==
  /\ McpFault /\ Elsewhere /\ UNCHANGED <<mcpJob, sliceTarget, records>>
  /\ LET failed == [CopyOf(p) EXCEPT !.phase = "FAILED"] IN
     \/ /\ InPhase(p, "BUILDING") \/ AtStep(p, "examined")
           \/ AtStep(p, "configured") \/ AtStep(p, "settled")
        /\ FailsJob(p) /\ UNCHANGED function
     \/ /\ InPhase(p, "BUILDING") /\ function.mark = "none"
        /\ function' = [mark |-> JobOf(p), code |-> JobOf(p)]
        /\ Wrote(p, "claim", failed)
     \/ /\ AtStep(p, "examined") /\ Unchanged(p)
        /\ function' = [function EXCEPT !.mark = JobOf(p)]
        /\ Wrote(p, "claim", failed)
     \/ /\ AtStep(p, "settled") /\ Unchanged(p)
        /\ function' = [function EXCEPT !.code = JobOf(p)]
        /\ Wrote(p, "claim", failed)

----------------------------------------------------------------------------
\* What becomes of a slice: a redeployment updates the Target it finds, and
\* create_gateway_target, keyed by the job, gives each job only its own.
Wired(j, s) ==
  CASE sliceTarget[s] # "none" /\ Redeploying -> "reused"
    [] sliceTarget[s] \in {"none", j}         -> "created"
    [] OTHER                              -> "failed"

\* The slice k is settled as state; the last one decides the phase.
SliceDone(p, state) ==
  LET k == mcpPoll[p].k
      c == [CopyOf(p) EXCEPT !.slice[k] = state]
      failed == \E s \in McpSlices : c.slice[s] = "failed"
  IN IF k + 1 \in McpSlices
       THEN mcpPoll' = [mcpPoll EXCEPT ![p].copy = c, ![p].k = k + 1]
       ELSE Goes(p, "claim",
              [c EXCEPT !.phase = IF failed THEN "FAILED" ELSE "REGISTERING_TARGET"])

Stands(j, s) ==
  sliceTarget' = [sliceTarget EXCEPT ![s] = IF @ = "none" THEN j ELSE @]

WireTarget(p) ==
  /\ AtStep(p, "wire")
  /\ LET j == JobOf(p) s == mcpPoll[p].k IN
     /\ Stands(j, s)
     /\ SliceDone(p, Wired(j, s))
  /\ Elsewhere /\ UNCHANGED <<mcpJob, function, records, mcpFaults>>

\* A Gateway call raises, its effect done or not; the next slice is tried.
WireFails(p) ==
  /\ AtStep(p, "wire") /\ McpFault
  /\ (Stands(JobOf(p), mcpPoll[p].k) \/ UNCHANGED sliceTarget)
  /\ SliceDone(p, "failed")
  /\ Elsewhere /\ UNCHANGED <<mcpJob, function, records>>

----------------------------------------------------------------------------
\* The Targets that a row names exist.
Stand(j, row) ==
  \A s \in McpSlices :
    /\ row.slice[s] = "created" => sliceTarget[s] = j
    /\ row.slice[s] = "reused"  => sliceTarget[s] # "none"

CheckTargets(p) ==
  /\ InPhase(p, "REGISTERING_TARGET")
  /\ IF Stand(JobOf(p), CopyOf(p)) THEN Goes(p, "register", CopyOf(p)) ELSE FailsJob(p)
  /\ Elsewhere /\ UNCHANGED <<mcpJob, function, sliceTarget, records, mcpFaults>>

TargetFails(p) ==
  /\ InPhase(p, "REGISTERING_TARGET") /\ McpFault /\ FailsJob(p)
  /\ Elsewhere /\ UNCHANGED <<mcpJob, function, sliceTarget, records>>

\* A new record of a name and version that exists is refused; the standing
\* record takes the descriptors of any redeployment.
RecordExists(j) == ~ Redeploying /\ \E i \in records : version[i] = version[j]

Recorded(j) == IF Redeploying THEN {j} ELSE records \cup {j}

RegisterRecord(p) ==
  /\ AtStep(p, "register")
  /\ IF RecordExists(JobOf(p))
       THEN FailsJob(p) /\ UNCHANGED records
       ELSE Goes(p, "policy", CopyOf(p)) /\ records' = Recorded(JobOf(p))
  /\ Elsewhere /\ UNCHANGED <<mcpJob, function, sliceTarget, mcpFaults>>

\* The registry raises before or after the record is there.
RegisterFails(p) ==
  /\ AtStep(p, "register") /\ McpFault /\ FailsJob(p)
  /\ \/ UNCHANGED records
     \/ ~ RecordExists(JobOf(p)) /\ records' = Recorded(JobOf(p))
  /\ Elsewhere /\ UNCHANGED <<mcpJob, function, sliceTarget>>

\* The shared policy follows the record; READ grants never fail the job.
ProvisionPolicy(p) ==
  /\ AtStep(p, "policy")
  /\ Goes(p, "claim", [CopyOf(p) EXCEPT !.phase = "READY"])
  /\ Elsewhere /\ UNCHANGED <<mcpJob, function, sliceTarget, records, mcpFaults>>

PolicyFails(p) ==
  /\ AtStep(p, "policy") /\ McpFault /\ FailsJob(p)
  /\ Elsewhere /\ UNCHANGED <<mcpJob, function, sliceTarget, records>>

----------------------------------------------------------------------------
\* compensate_failure undoes a new deployment whose Lambda this process made.
Compensates(p) ==
  LET c == CopyOf(p) IN
  c.phase = "FAILED" /\ c.arn /\ ~ Redeploying /\ c.owner = p

\* The row becomes the copy, and every other poll of the job is behind.
Commits(p, pc) ==
  /\ mcpJob' = [mcpJob EXCEPT ![JobOf(p)] = CopyOf(p)]
  /\ mcpPoll' = [q \in McpProcs |->
       CASE q = p -> IF pc = "idle" THEN [pc |-> "idle"]
                                    ELSE [mcpPoll[q] EXCEPT !.pc = pc, !.k = 1]
         [] AtStep(q, "idle") -> mcpPoll[q]
         [] OTHER -> [mcpPoll[q] EXCEPT !.behind = @ \/ JobOf(q) = JobOf(p)]]

Leaves(p) == mcpPoll' = [mcpPoll EXCEPT ![p] = [pc |-> "idle"]]

\* Mutant of Loses: the executor that lost the claim cleans up all the same.
LosesUndoes(p) ==
  IF Compensates(p)
    THEN mcpPoll' = [mcpPoll EXCEPT ![p].pc = "verify", ![p].k = 1]
    ELSE Leaves(p)

\* The claim is lost: the winner's row is returned, nothing is compensated.
Loses(p) == Leaves(p)

\* Mutant of Claim: the row is put without its condition.
ClaimBlind(p) ==
  /\ AtStep(p, "claim") /\ Commits(p, IF Compensates(p) THEN "verify" ELSE "idle")
  /\ Elsewhere /\ UNCHANGED <<function, sliceTarget, records, mcpFaults>>

Claim(p) ==
  /\ AtStep(p, "claim")
  /\ \/ ~ mcpPoll[p].behind /\ Commits(p, IF Compensates(p) THEN "verify" ELSE "idle")
     \/ mcpPoll[p].behind /\ Loses(p) /\ UNCHANGED mcpJob
  /\ Elsewhere /\ UNCHANGED <<function, sliceTarget, records, mcpFaults>>

\* The write is done and its reply lost: the poll ends with the exception.
ClaimUnseen(p) ==
  /\ AtStep(p, "claim") /\ ~ mcpPoll[p].behind /\ McpFault
  /\ Commits(p, "idle")
  /\ Elsewhere /\ UNCHANGED <<function, sliceTarget, records>>

\* The marker must be this job's, or nothing is deleted.
VerifyOwner(p) ==
  /\ AtStep(p, "verify")
  /\ Goes(p, IF function.mark = JobOf(p) THEN "undo" ELSE "persist", CopyOf(p))
  /\ Elsewhere /\ UNCHANGED <<mcpJob, function, sliceTarget, records, mcpFaults>>

VerifyFails(p) ==
  /\ AtStep(p, "verify") /\ McpFault
  /\ Goes(p, "persist", CopyOf(p))
  /\ Elsewhere /\ UNCHANGED <<mcpJob, function, sliceTarget, records>>

Undone(p, state) ==
  LET k == mcpPoll[p].k IN
  mcpPoll' = [mcpPoll EXCEPT
    ![p].copy.slice[k] = IF @ = "created" THEN state ELSE @,
    ![p].k = k + 1,
    ![p].pc = IF k + 1 \in McpSlices THEN "undo" ELSE "persist"]

\* delete_target, by id: a Target the job did not create is not touched.
Removed(p) ==
  LET k == mcpPoll[p].k IN
  sliceTarget' = [sliceTarget EXCEPT ![k] =
    IF CopyOf(p).slice[k] = "created" /\ @ = JobOf(p) THEN "none" ELSE @]

DeleteTarget(p) ==
  /\ AtStep(p, "undo") /\ Removed(p) /\ Undone(p, "deleted")
  /\ Elsewhere /\ UNCHANGED <<mcpJob, function, records, mcpFaults>>

DeleteFails(p) ==
  /\ AtStep(p, "undo") /\ CopyOf(p).slice[mcpPoll[p].k] = "created" /\ McpFault
  /\ (Removed(p) \/ UNCHANGED sliceTarget)
  /\ Undone(p, "created")
  /\ Elsewhere /\ UNCHANGED <<mcpJob, function, records>>

PersistUndone(p) ==
  /\ AtStep(p, "persist")
  /\ IF mcpPoll[p].behind THEN Leaves(p) /\ UNCHANGED mcpJob ELSE Commits(p, "idle")
  /\ Elsewhere /\ UNCHANGED <<function, sliceTarget, records, mcpFaults>>

\* A read or write of the job store, or of the build, raises.
PollRaises(p) ==
  /\ \E pc \in {"loaded", "claim", "persist"} : AtStep(p, pc)
  /\ McpFault /\ Leaves(p)
  /\ Elsewhere /\ UNCHANGED <<mcpJob, function, sliceTarget, records>>

\* The process dies; its successor has a new owner id.
ProcessDies(p) ==
  LET orphaned(row) == [row EXCEPT !.owner = IF @ = p THEN "gone" ELSE @] IN
  /\ ~ AtStep(p, "idle") /\ McpFault
  /\ mcpJob' = [j \in McpJobs |-> orphaned(mcpJob[j])]
  /\ mcpPoll' = [q \in McpProcs |->
       CASE q = p -> [pc |-> "idle"]
         [] AtStep(q, "idle") -> mcpPoll[q]
         [] OTHER -> [mcpPoll[q] EXCEPT !.copy = orphaned(@)]]
  /\ Elsewhere /\ UNCHANGED <<function, sliceTarget, records>>

McpNext ==
  \E p \in McpProcs :
    \/ \E j \in McpJobs : StartPoll(p, j)
    \/ StartBuild(p) \/ StillWaits(p) \/ BuildFails(p)
    \/ CreateLambda(p) \/ ExamineLambda(p) \/ ConfigureLambda(p)
    \/ SettleLambda(p) \/ UpdateCode(p) \/ LambdaFails(p)
    \/ WireTarget(p) \/ WireFails(p)
    \/ CheckTargets(p) \/ TargetFails(p)
    \/ RegisterRecord(p) \/ RegisterFails(p)
    \/ ProvisionPolicy(p) \/ PolicyFails(p)
    \/ Claim(p) \/ ClaimUnseen(p)
    \/ VerifyOwner(p) \/ VerifyFails(p)
    \/ DeleteTarget(p) \/ DeleteFails(p) \/ PersistUndone(p)
    \/ PollRaises(p) \/ ProcessDies(p)

McpSpec == McpInit /\ [][McpNext]_mcpVars

----------------------------------------------------------------------------
\* Rows, the function, Targets and polls are those of known jobs.
McpTypeOK ==
  /\ mcpCase \in McpCases /\ version \in [McpJobs -> 2 .. 3]
  /\ mcpJob \in [McpJobs -> McpRow]
  /\ function \in [mark : McpJobs \cup {"none", "standing"},
                  code : McpJobs \cup {"none", "standing"}]
  /\ sliceTarget \in [McpSlices -> McpJobs \cup {"none", "standing"}]
  /\ records \in SUBSET McpJobs /\ mcpFaults \in 0 .. MaxMcpFaults
  /\ mcpPoll \in
       [McpProcs -> [pc : {"idle"}] \cup
          [pc : Steps \ {"idle"}, job : McpJobs, copy : McpRow,
           behind : BOOLEAN, fresh : BOOLEAN, k : 1 .. 3]]

\* What a deployment that ended READY stands on exists: its function, its
\* Targets and a record.  compensate_failure of a job that shares the function
\* and the slices' names, and the executors that lost a claim, leave it alone.
ReadyIsServed ==
  \A j \in McpJobs : mcpJob[j].phase = "READY" =>
    /\ mcpJob[j].arn /\ function.code # "none"
    /\ Stand(j, mcpJob[j])
    /\ IF Redeploying THEN records # {} ELSE j \in records

\* A Target is only ever removed on behalf of a job that is stored as FAILED
\* (jobs.py compensate_failure: after the claim, never before or without it).
UndoneAfterClaim ==
  [][\A s \in McpSlices :
       sliceTarget[s] # "none" /\ sliceTarget'[s] # sliceTarget[s]
         => sliceTarget[s] \in McpJobs /\ mcpJob[sliceTarget[s]].phase = "FAILED"]_mcpVars

\* Newer code gives way to older code only under the newer job's marker: the
\* conditional configuration update (aws_adapter.py 1106) closes every
\* other crossing of two updates than the one between it and the re-read.
OlderUnderNewerMark ==
  [][VersionOf(function'.code) < VersionOf(function.code)
       => VersionOf(function'.mark) > VersionOf(function'.code)]_mcpVars

\* The phases of an MCP job, each with the one that follows it.
McpAdvances ==
  {<<"QUEUED", "BUILDING">>, <<"BUILDING", "REGISTERING_TARGET">>,
   <<"REGISTERING_TARGET", "READY">>}

\* The row of a job, and whether the Targets it names exist.
McpLedger(j) == INSTANCE DeployLedger WITH
  Advances <- McpAdvances,
  phase    <- mcpJob[j].phase,
  intact   <- Stand(j, mcpJob[j])

\* What the ledger shows of an MCP job is what DeployLedger promises: phases in
\* order, final outcomes, and no Target that a job names is lost before the
\* job is stored as FAILED (jobs.py advance and compensate_failure).
McpLedgerSpec ==
  /\ \A j \in McpJobs : McpLedger(j)!Init
  /\ [][\A j \in McpJobs :
         [McpLedger(j)!Next]_<<mcpJob[j].phase, Stand(j, mcpJob[j])>>]_mcpVars
=============================================================================
