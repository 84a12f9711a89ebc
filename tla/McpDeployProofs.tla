-------------------------- MODULE McpDeployProofs --------------------------
(***************************************************************************)
(* Proofs about McpDeploy, for any jobs, processes and number of faults:   *)
(* what a READY deployment serves stays, Targets are removed for failures  *)
(* that are stored, and what is known of the function's marker.            *)
(***************************************************************************)
EXTENDS McpDeploy, TLAPS

-----------------------------------------------------------------------------
(* The inductive invariant.                                                *)

\* A poll that compensates, and one that still computes.
Late == {"verify", "undo", "persist"}
Working == {"loaded", "examined", "configured", "settled", "wire", "register", "policy"}

Busy(p) == mcpPoll[p].pc # "idle"

Recording(j) == IF Redeploying THEN records # {} ELSE j \in records

\* What a row or a copy claims is so.
RowFine(j, row) ==
  /\ row.phase \in {"REGISTERING_TARGET", "READY"} => row.arn
  /\ row.arn => function.code # "none"
  /\ row.phase = "READY" => Recording(j)
  /\ \A s \in McpSlices : row.slice[s] = "reused" => Redeploying

\* Only what failed may name Targets that are gone.
RowsStand ==
  \A j \in McpJobs :
    /\ RowFine(j, mcpJob[j])
    /\ mcpJob[j].phase # "FAILED" => Stand(j, mcpJob[j])

\* Whoever compensates does so for a failure that is stored.
LateFailed(p) ==
  mcpPoll[p].pc \in Late =>
    /\ mcpJob[JobOf(p)].phase = "FAILED" /\ CopyOf(p).phase = "FAILED"
    /\ ~ Redeploying

\* The copy of a poll that may still commit is one of an unfinished job.
MayCommit(p) == Busy(p) /\ mcpPoll[p].pc \notin Late /\ ~ mcpPoll[p].behind

CopyStands(p) ==
  MayCommit(p) =>
    ~ Finished(mcpJob[JobOf(p)].phase) /\ Stand(JobOf(p), CopyOf(p))

\* What each step of advance relies on.
StepFine(p) ==
  /\ mcpPoll[p].pc \in Working => ~ Finished(CopyOf(p).phase)
  /\ mcpPoll[p].pc \in {"register", "policy"} => CopyOf(p).phase = "REGISTERING_TARGET"
  /\ mcpPoll[p].pc = "policy" => Recording(JobOf(p))
  /\ mcpPoll[p].pc = "wire" => CopyOf(p).arn
  /\ mcpPoll[p].pc \in {"loaded", "examined", "configured", "settled", "wire", "verify", "undo"}
       => mcpPoll[p].k \in McpSlices

\* The function's marker while a poll updates it.
MarkerFine(p) ==
  /\ mcpPoll[p].pc = "examined" /\ mcpPoll[p].fresh =>
       VersionOf(function.mark) <= version[JobOf(p)]
  /\ mcpPoll[p].pc \in {"configured", "settled"} =>
       version[JobOf(p)] <= VersionOf(function.mark)

PollFine(p) ==
  Busy(p) =>
    /\ RowFine(JobOf(p), CopyOf(p)) /\ LateFailed(p) /\ CopyStands(p)
    /\ StepFine(p) /\ MarkerFine(p)

\* The marker is never behind the code.
MarkerLeads == VersionOf(function.code) <= VersionOf(function.mark)

McpInv ==
  /\ McpTypeOK /\ RowsStand /\ MarkerLeads
  /\ \A p \in McpProcs : PollFine(p)

-----------------------------------------------------------------------------
(* Polls and rows.                                                         *)

IdlePoll == [pc : {"idle"}]
BusyPoll ==
  [pc : Steps \ {"idle"}, job : McpJobs, copy : McpRow,
   behind : BOOLEAN, fresh : BOOLEAN, k : 1 .. 3]

\* Initially there is nothing to be wrong.
LEMMA InvInit == McpInit => McpInv
<1> SUFFICES ASSUME McpInit PROVE McpInv
  OBVIOUS
<1> USE McpDeployAssumption DEF McpDeployAssumption
<1>1. NewRow \in McpRow
  BY DEF NewRow, McpRow, McpPhases, SliceStates
<1>2. McpTypeOK
  BY <1>1 DEF McpInit, McpTypeOK, McpCases, Redeploying
<1>3. RowsStand
  BY DEF McpInit, RowsStand, RowFine, Stand, NewRow
<1>4. MarkerLeads /\ \A p \in McpProcs : PollFine(p)
  BY DEF McpInit, MarkerLeads, PollFine, Busy, VersionOf, Redeploying
<1> QED BY <1>2, <1>3, <1>4 DEF McpInv

\* A busy poll is a record with all its fields.
LEMMA BusyType ==
  ASSUME McpTypeOK, NEW p \in McpProcs, Busy(p)
  PROVE  mcpPoll[p] \in BusyPoll
BY DEF McpTypeOK, Busy, BusyPoll

\* A step of p that adds to what exists, and leaves the polls of others as they
\* are but for making stale what they read of the function.
LEMMA PrivateStep ==
  ASSUME McpInv, NEW p \in McpProcs, McpTypeOK', PollFine(p)',
         UNCHANGED <<mcpCase, version, mcpJob>>,
         function.code # "none" => function'.code # "none",
         VersionOf(function.mark) <= VersionOf(function.mark)',
         MarkerLeads',
         \A s \in McpSlices : sliceTarget'[s] = sliceTarget[s] \/ sliceTarget[s] = "none",
         \A j \in McpJobs : Recording(j) => Recording(j)',
         \A q \in McpProcs \ {p} :
           \/ mcpPoll'[q] = mcpPoll[q] /\ (AtStep(q, "idle") \/ UNCHANGED function)
           \/ Busy(q) /\ mcpPoll'[q] = [mcpPoll[q] EXCEPT !.fresh = FALSE]
  PROVE  McpInv'
<1> USE McpDeployAssumption DEF McpDeployAssumption
<1>1. ASSUME NEW j \in McpJobs, NEW row \in McpRow, RowFine(j, row)
      PROVE  RowFine(j, row)'
  BY <1>1 DEF RowFine, Redeploying
<1>2. ASSUME NEW j \in McpJobs, NEW row \in McpRow, Stand(j, row)
      PROVE  Stand(j, row)'
  BY <1>2 DEF Stand
<1>3. RowsStand'
  <2>1. \A j \in McpJobs : mcpJob[j] \in McpRow
    BY DEF McpInv, McpTypeOK
  <2>2. ASSUME NEW j \in McpJobs
        PROVE  RowFine(j, mcpJob[j])' /\ ((mcpJob[j].phase # "FAILED")' => Stand(j, mcpJob[j])')
    <3>1. RowFine(j, mcpJob[j]) /\ (mcpJob[j].phase # "FAILED" => Stand(j, mcpJob[j]))
      BY DEF McpInv, RowsStand
    <3>2. RowFine(j, mcpJob[j])'
      BY <3>1, <2>1 DEF RowFine, Redeploying
    <3>3. (mcpJob[j].phase # "FAILED")' => Stand(j, mcpJob[j])'
      BY <3>1, <2>1 DEF Stand
    <3> QED BY <3>2, <3>3
  <2> QED BY <2>2 DEF RowsStand
<1>4. ASSUME NEW q \in McpProcs, q # p
      PROVE  PollFine(q)'
  <2> SUFFICES ASSUME Busy(q)' PROVE PollFine(q)'
    BY DEF PollFine
  <2>1. /\ Busy(q) /\ mcpPoll[q] \in BusyPoll /\ PollFine(q)
        /\ mcpPoll'[q].pc = mcpPoll[q].pc /\ JobOf(q)' = JobOf(q) /\ CopyOf(q)' = CopyOf(q)
        /\ mcpPoll'[q].behind = mcpPoll[q].behind /\ mcpPoll'[q].k = mcpPoll[q].k
        /\ (mcpPoll'[q].fresh = mcpPoll[q].fresh /\ UNCHANGED function) \/ ~ mcpPoll'[q].fresh
    <3>1. CASE mcpPoll'[q] = mcpPoll[q] /\ (AtStep(q, "idle") \/ UNCHANGED function)
      <4>1. Busy(q) BY <3>1 DEF Busy
      <4> QED BY <3>1, <4>1, BusyType DEF McpInv, JobOf, CopyOf, AtStep, Busy
    <3>2. CASE Busy(q) /\ mcpPoll'[q] = [mcpPoll[q] EXCEPT !.fresh = FALSE]
      <4>1. mcpPoll[q] \in BusyPoll BY <3>2, BusyType DEF McpInv
      <4> QED BY <3>2, <4>1 DEF McpInv, JobOf, CopyOf, BusyPoll
    <3> QED BY <3>1, <3>2, <1>4
  <2>2. JobOf(q) \in McpJobs /\ CopyOf(q) \in McpRow
    BY <2>1 DEF JobOf, CopyOf, BusyPoll
  <2>3. RowFine(JobOf(q), CopyOf(q))'
    BY <2>1, <2>2 DEF PollFine, RowFine, Redeploying
  <2>4. LateFailed(q)'
    BY <2>1 DEF PollFine, LateFailed, Redeploying
  <2>5. CopyStands(q)'
    BY <2>1, <2>2 DEF PollFine, CopyStands, MayCommit, Busy, Stand
  <2>6. StepFine(q)'
    BY <2>1, <2>2 DEF PollFine, StepFine
  <2>7. MarkerFine(q)'
    <3>1. VersionOf(function.mark) \in Nat /\ VersionOf(function.mark)' \in Nat
          /\ version[JobOf(q)] \in Nat
      BY <2>2 DEF McpInv, McpTypeOK, VersionOf
    <3>2. ASSUME (mcpPoll[q].pc = "examined" /\ mcpPoll[q].fresh)'
          PROVE  (VersionOf(function.mark) <= version[JobOf(q)])'
      BY <3>2, <2>1 DEF PollFine, MarkerFine, VersionOf
    <3>3. ASSUME (mcpPoll[q].pc \in {"configured", "settled"})'
          PROVE  (version[JobOf(q)] <= VersionOf(function.mark))'
      BY <3>3, <2>1, <3>1 DEF PollFine, MarkerFine
    <3> QED BY <3>2, <3>3 DEF MarkerFine
  <2> QED BY <2>3, <2>4, <2>5, <2>6, <2>7 DEF PollFine
<1> QED BY <1>3, <1>4 DEF McpInv

\* A step of p that changes nothing but its own poll.
LEMMA OwnStep ==
  ASSUME McpInv, NEW p \in McpProcs, NEW r,
         r \in IdlePoll \/ r \in BusyPoll,
         mcpPoll' = [mcpPoll EXCEPT ![p] = r],
         UNCHANGED <<mcpCase, version, mcpJob, function, sliceTarget, records>>,
         mcpFaults' \in 0 .. MaxMcpFaults,
         PollFine(p)'
  PROVE  McpInv'
<1>1. McpTypeOK'
  BY DEF McpInv, McpTypeOK, IdlePoll, BusyPoll
<1>2. MarkerLeads'
  BY DEF McpInv, MarkerLeads, VersionOf
<1>3. VersionOf(function.mark) <= VersionOf(function.mark)'
  BY DEF McpInv, McpTypeOK, VersionOf
<1>4. \A j \in McpJobs : Recording(j) => Recording(j)'
  BY DEF Recording, Redeploying
<1>5. \A q \in McpProcs \ {p} : mcpPoll'[q] = mcpPoll[q]
  BY DEF McpInv, McpTypeOK
<1> QED BY <1>1, <1>2, <1>3, <1>4, <1>5, PrivateStep

\* A poll of p that still computes goes on to a step without remote calls of
\* the function or the Targets.
LEMMA GoesOn ==
  ASSUME McpInv, NEW p \in McpProcs, Busy(p), mcpPoll[p].pc \notin Late,
         NEW pc \in {"register", "policy", "claim"}, NEW c \in McpRow, Goes(p, pc, c),
         UNCHANGED <<mcpCase, version, mcpJob, function, sliceTarget, records>>,
         mcpFaults' \in 0 .. MaxMcpFaults,
         RowFine(JobOf(p), c),
         MayCommit(p) => Stand(JobOf(p), c),
         pc # "claim" => c.phase = "REGISTERING_TARGET",
         pc = "policy" => Recording(JobOf(p))
  PROVE  McpInv'
<1> DEFINE r == [mcpPoll[p] EXCEPT !.pc = pc, !.copy = c]
<1>1. mcpPoll[p] \in BusyPoll /\ PollFine(p)
  BY BusyType DEF McpInv
<1>2. r \in BusyPoll
  BY <1>1 DEF BusyPoll, Steps
<1>3. mcpPoll' = [mcpPoll EXCEPT ![p] = r] /\ mcpPoll'[p] = r
  BY <1>1 DEF Goes, McpInv, McpTypeOK
<1>4. /\ r.pc = pc /\ r.copy = c /\ r.job = JobOf(p) /\ r.behind = mcpPoll[p].behind
  BY <1>1 DEF BusyPoll, JobOf
<1>5. JobOf(p)' = JobOf(p) /\ CopyOf(p)' = c /\ mcpPoll'[p].pc = pc
      /\ mcpPoll'[p].behind = mcpPoll[p].behind
  BY <1>3, <1>4 DEF JobOf, CopyOf
<1> HIDE DEF r
<1>6. RowFine(JobOf(p), CopyOf(p))'
  BY <1>5 DEF RowFine, Recording, Redeploying
<1>7. CopyStands(p)'
  BY <1>1, <1>5 DEF PollFine, CopyStands, MayCommit, Busy, Stand
<1>8. LateFailed(p)' /\ StepFine(p)' /\ MarkerFine(p)'
  BY <1>5 DEF LateFailed, StepFine, MarkerFine, Late, Working, Finished, Recording, Redeploying
<1>9. PollFine(p)'
  BY <1>6, <1>7, <1>8 DEF PollFine
<1> QED BY <1>2, <1>3, <1>9, OwnStep

\* A poll fails its job.
LEMMA FailStep ==
  ASSUME McpInv, NEW p \in McpProcs, Busy(p), mcpPoll[p].pc \notin Late, FailsJob(p),
         UNCHANGED <<mcpCase, version, mcpJob, function, sliceTarget, records>>,
         mcpFaults' \in 0 .. MaxMcpFaults
  PROVE  McpInv'
<1> DEFINE c == [CopyOf(p) EXCEPT !.phase = "FAILED"]
<1>1. mcpPoll[p] \in BusyPoll /\ PollFine(p)
  BY BusyType DEF McpInv
<1>2. CopyOf(p) \in McpRow /\ RowFine(JobOf(p), CopyOf(p))
  BY <1>1 DEF BusyPoll, CopyOf, PollFine
<1>3. c \in McpRow /\ c.phase = "FAILED" /\ c.arn = CopyOf(p).arn /\ c.slice = CopyOf(p).slice
  BY <1>2 DEF McpRow, McpPhases
<1>4. Goes(p, "claim", c)
  BY DEF FailsJob
<1> HIDE DEF c
<1>5. RowFine(JobOf(p), c)
  BY <1>2, <1>3 DEF RowFine
<1>6. MayCommit(p) => Stand(JobOf(p), c)
  BY <1>1, <1>3 DEF PollFine, CopyStands, Stand
<1> QED BY <1>3, <1>4, <1>5, <1>6, GoesOn

\* The poll ends without writing.
LEMMA LeaveStep ==
  ASSUME McpInv, NEW p \in McpProcs, Leaves(p),
         UNCHANGED <<mcpCase, version, mcpJob, function, sliceTarget, records>>,
         mcpFaults' \in 0 .. MaxMcpFaults
  PROVE  McpInv'
<1>1. [pc |-> "idle"] \in IdlePoll
  BY DEF IdlePoll
<1>2. PollFine(p)'
  BY DEF Leaves, McpInv, McpTypeOK, PollFine, Busy
<1> QED BY <1>1, <1>2, OwnStep DEF Leaves

-----------------------------------------------------------------------------
(* The steps of advance.                                                   *)

\* The count of faults stays within its bound.
LEMMA FaultBound ==
  ASSUME McpTypeOK, McpFault \/ UNCHANGED mcpFaults
  PROVE  mcpFaults' \in 0 .. MaxMcpFaults
BY McpDeployAssumption DEF McpDeployAssumption, McpTypeOK, McpFault

\* poll loads a job: its copy is the row.
LEMMA StartSteps ==
  ASSUME McpInv, NEW p \in McpProcs, NEW j \in McpJobs, StartPoll(p, j)
  PROVE  McpInv'
<1> DEFINE r == [pc |-> "loaded", job |-> j, copy |-> mcpJob[j],
                 behind |-> FALSE, fresh |-> FALSE, k |-> 1]
<1>1. mcpJob[j] \in McpRow /\ RowFine(j, mcpJob[j])
      /\ (mcpJob[j].phase # "FAILED" => Stand(j, mcpJob[j]))
  BY DEF McpInv, McpTypeOK, RowsStand
<1>2. r \in BusyPoll
  BY <1>1 DEF BusyPoll, Steps
<1>3. mcpPoll' = [mcpPoll EXCEPT ![p] = r] /\ mcpPoll'[p] = r
  BY DEF StartPoll, McpInv, McpTypeOK
<1>4. UNCHANGED <<mcpCase, version, mcpJob, function, sliceTarget, records, mcpFaults>>
  BY DEF StartPoll, Elsewhere
<1>5. PollFine(p)'
  <2>1. /\ JobOf(p)' = j /\ CopyOf(p)' = mcpJob[j] /\ mcpPoll'[p].pc = "loaded"
        /\ ~ Finished(mcpJob[j].phase)
    BY <1>3 DEF JobOf, CopyOf, StartPoll
  <2>2. RowFine(JobOf(p), CopyOf(p))'
    BY <1>1, <1>4, <2>1 DEF RowFine, Recording, Redeploying
  <2>3. CopyStands(p)'
    BY <1>1, <1>4, <2>1 DEF CopyStands, Stand, Finished
  <2>4. LateFailed(p)' /\ StepFine(p)' /\ MarkerFine(p)'
    BY <1>3, <2>1 DEF LateFailed, StepFine, MarkerFine, Late, Finished, McpSlices
  <2> QED BY <2>2, <2>3, <2>4 DEF PollFine
<1>6. mcpFaults' \in 0 .. MaxMcpFaults
  BY <1>4, FaultBound DEF McpInv
<1> HIDE DEF r
<1> QED BY <1>2, <1>3, <1>4, <1>5, <1>6, OwnStep

\* The steps that call neither the function nor a Target for writing.
LEMMA ComputeSteps ==
  ASSUME McpInv, NEW p \in McpProcs,
         \/ StartBuild(p) \/ StillWaits(p) \/ BuildFails(p) \/ CheckTargets(p)
         \/ TargetFails(p) \/ ProvisionPolicy(p) \/ PolicyFails(p)
  PROVE  McpInv'
<1>1. Busy(p) /\ mcpPoll[p].pc \notin Late
  BY DEF StartBuild, StillWaits, BuildFails, CheckTargets, TargetFails, ProvisionPolicy,
         PolicyFails, InPhase, AtStep, Busy, Late
<1>2. mcpPoll[p] \in BusyPoll /\ PollFine(p)
  BY <1>1, BusyType DEF McpInv
<1>3. CopyOf(p) \in McpRow /\ RowFine(JobOf(p), CopyOf(p))
      /\ (MayCommit(p) => Stand(JobOf(p), CopyOf(p)))
  BY <1>1, <1>2 DEF BusyPoll, CopyOf, PollFine, CopyStands
<1>4. UNCHANGED <<mcpCase, version, mcpJob, function, sliceTarget, records>>
      /\ mcpFaults' \in 0 .. MaxMcpFaults
  BY FaultBound DEF McpInv, StartBuild, StillWaits, BuildFails, CheckTargets, TargetFails,
         ProvisionPolicy, PolicyFails, Elsewhere
<1>5. CASE StartBuild(p)
  <2> DEFINE c == [CopyOf(p) EXCEPT !.phase = "BUILDING"]
  <2>1. c \in McpRow /\ c.phase = "BUILDING" /\ c.arn = CopyOf(p).arn /\ c.slice = CopyOf(p).slice
    BY <1>3 DEF McpRow, McpPhases
  <2>2. Goes(p, "claim", c)
    BY <1>5 DEF StartBuild
  <2>3. CopyOf(p).phase = "QUEUED"
    BY <1>5 DEF StartBuild, InPhase
  <2> HIDE DEF c
  <2>4. RowFine(JobOf(p), c)
    BY <1>3, <2>1 DEF RowFine
  <2>5. MayCommit(p) => Stand(JobOf(p), c)
    BY <1>3, <2>1, <2>3 DEF Stand
  <2> QED BY <1>1, <1>4, <2>1, <2>2, <2>4, <2>5, GoesOn
<1>6. CASE StillWaits(p)
  BY <1>1, <1>3, <1>4, <1>6, GoesOn DEF StillWaits
<1>7. CASE BuildFails(p) \/ TargetFails(p) \/ PolicyFails(p)
  BY <1>1, <1>4, <1>7, FailStep DEF BuildFails, TargetFails, PolicyFails
<1>8. CASE CheckTargets(p)
  <2>1. CASE FailsJob(p)
    BY <1>1, <1>4, <2>1, FailStep
  <2>2. CASE Goes(p, "register", CopyOf(p))
    BY <1>1, <1>3, <1>4, <1>8, <2>2, GoesOn DEF CheckTargets, InPhase
  <2> QED BY <1>8, <2>1, <2>2 DEF CheckTargets
<1>9. CASE ProvisionPolicy(p)
  <2> DEFINE c == [CopyOf(p) EXCEPT !.phase = "READY"]
  <2>1. c \in McpRow /\ c.phase = "READY" /\ c.arn = CopyOf(p).arn /\ c.slice = CopyOf(p).slice
    BY <1>3 DEF McpRow, McpPhases
  <2>2. Goes(p, "claim", c)
    BY <1>9 DEF ProvisionPolicy
  <2>3. CopyOf(p).phase = "REGISTERING_TARGET" /\ Recording(JobOf(p))
    BY <1>1, <1>2, <1>9 DEF ProvisionPolicy, AtStep, PollFine, StepFine
  <2> HIDE DEF c
  <2>4. RowFine(JobOf(p), c)
    BY <1>3, <2>1, <2>3 DEF RowFine
  <2>5. MayCommit(p) => Stand(JobOf(p), c)
    BY <1>3, <2>1, <2>3 DEF Stand
  <2> QED BY <1>1, <1>4, <2>1, <2>2, <2>4, <2>5, GoesOn
<1> QED BY <1>5, <1>6, <1>7, <1>8, <1>9

-----------------------------------------------------------------------------
(* The Lambda function.                                                    *)

\* What a write of the function does to the polls.
LEMMA WroteShape ==
  ASSUME McpTypeOK, NEW p \in McpProcs, Busy(p),
         NEW pc \in {"configured", "wire", "claim"}, NEW c \in McpRow, Wrote(p, pc, c)
  PROVE  /\ mcpPoll'[p] \in BusyPoll
         /\ JobOf(p)' = JobOf(p) /\ CopyOf(p)' = c /\ mcpPoll'[p].pc = pc
         /\ mcpPoll'[p].behind = mcpPoll[p].behind /\ mcpPoll'[p].k = mcpPoll[p].k
         /\ mcpPoll' \in [McpProcs -> IdlePoll \cup BusyPoll]
         /\ \A q \in McpProcs \ {p} :
              \/ mcpPoll'[q] = mcpPoll[q] /\ AtStep(q, "idle")
              \/ Busy(q) /\ mcpPoll'[q] = [mcpPoll[q] EXCEPT !.fresh = FALSE]
<1>1. mcpPoll[p] \in BusyPoll
  BY BusyType
<1>2. mcpPoll'[p] = [mcpPoll[p] EXCEPT !.pc = pc, !.copy = c]
  BY DEF Wrote, Busy, AtStep
<1>3. mcpPoll'[p] \in BusyPoll
  BY <1>1, <1>2 DEF BusyPoll, Steps
<1>4. ASSUME NEW q \in McpProcs \ {p}
      PROVE  /\ \/ mcpPoll'[q] = mcpPoll[q] /\ AtStep(q, "idle")
                \/ Busy(q) /\ mcpPoll'[q] = [mcpPoll[q] EXCEPT !.fresh = FALSE]
             /\ mcpPoll'[q] \in IdlePoll \cup BusyPoll
  <2>1. CASE AtStep(q, "idle")
    <3>1. mcpPoll'[q] = mcpPoll[q]
      BY <2>1 DEF Wrote
    <3>2. mcpPoll[q] \in IdlePoll
      BY <2>1 DEF McpTypeOK, AtStep, IdlePoll
    <3> QED BY <2>1, <3>1, <3>2
  <2>2. CASE ~ AtStep(q, "idle")
    <3>1. Busy(q) /\ mcpPoll[q] \in BusyPoll
      BY <2>2, BusyType DEF AtStep, Busy
    <3>2. mcpPoll'[q] = [mcpPoll[q] EXCEPT !.fresh = FALSE]
      BY <2>2 DEF Wrote
    <3> QED BY <3>1, <3>2 DEF BusyPoll
  <2> QED BY <2>1, <2>2
<1>5. mcpPoll' \in [McpProcs -> IdlePoll \cup BusyPoll]
  BY <1>3, <1>4 DEF Wrote
<1>6. JobOf(p)' = JobOf(p) /\ CopyOf(p)' = c /\ mcpPoll'[p].pc = pc
      /\ mcpPoll'[p].behind = mcpPoll[p].behind /\ mcpPoll'[p].k = mcpPoll[p].k
  BY <1>1, <1>2 DEF BusyPoll, JobOf, CopyOf
<1> QED BY <1>3, <1>4, <1>5, <1>6

\* A write of the function by a poll that was entitled to it.
LEMMA WriteStep ==
  ASSUME McpInv, NEW p \in McpProcs, Busy(p), mcpPoll[p].pc \notin Late,
         NEW pc \in {"configured", "wire", "claim"}, NEW c \in McpRow, Wrote(p, pc, c),
         UNCHANGED <<mcpCase, version, mcpJob, sliceTarget, records>>,
         mcpFaults' \in 0 .. MaxMcpFaults,
         NEW mark \in McpJobs \cup {"none", "standing"},
         NEW code \in McpJobs \cup {"none", "standing"},
         function' = [mark |-> mark, code |-> code],
         function.code # "none" => code # "none",
         VersionOf(function.mark) <= VersionOf(mark),
         VersionOf(code) <= VersionOf(mark),
         c.slice = CopyOf(p).slice,
         CopyOf(p).arn => c.arn,
         c.arn => code # "none",
         c.phase = CopyOf(p).phase \/ (c.phase = "FAILED" /\ pc = "claim"),
         pc # "claim" => mcpPoll[p].pc \in {"loaded", "examined", "settled"},
         pc = "wire" => c.arn,
         pc = "configured" => version[JobOf(p)] <= VersionOf(mark)
  PROVE  McpInv'
<1>1. mcpPoll[p] \in BusyPoll /\ PollFine(p) /\ McpTypeOK
  BY BusyType DEF McpInv
<1>2. /\ mcpPoll'[p] \in BusyPoll
      /\ JobOf(p)' = JobOf(p) /\ CopyOf(p)' = c /\ mcpPoll'[p].pc = pc
      /\ mcpPoll'[p].behind = mcpPoll[p].behind /\ mcpPoll'[p].k = mcpPoll[p].k
      /\ mcpPoll' \in [McpProcs -> IdlePoll \cup BusyPoll]
      /\ \A q \in McpProcs \ {p} :
              \/ mcpPoll'[q] = mcpPoll[q] /\ AtStep(q, "idle")
              \/ Busy(q) /\ mcpPoll'[q] = [mcpPoll[q] EXCEPT !.fresh = FALSE]
  BY <1>1, WroteShape
<1>3. McpTypeOK'
  BY <1>1, <1>2 DEF McpTypeOK, IdlePoll, BusyPoll
<1>4. /\ function'.mark = mark /\ function'.code = code
      /\ VersionOf(mark)' = VersionOf(mark) /\ VersionOf(code)' = VersionOf(code)
      /\ \A j \in McpJobs : Recording(j)' = Recording(j)
  BY DEF VersionOf, Recording, Redeploying
<1>5. MarkerLeads' /\ VersionOf(function.mark) <= VersionOf(function.mark)'
  BY <1>4 DEF MarkerLeads, VersionOf
<1>6. RowFine(JobOf(p), CopyOf(p))'
  BY <1>1, <1>2, <1>4 DEF PollFine, RowFine, Recording, Redeploying
<1>7. CopyStands(p)'
  BY <1>1, <1>2 DEF PollFine, CopyStands, MayCommit, Busy, Stand, StepFine, Working,
     BusyPoll, Steps, Late, Finished
<1>8. StepFine(p)'
  BY <1>1, <1>2 DEF PollFine, StepFine, Working
<1>9. LateFailed(p)' /\ MarkerFine(p)'
  BY <1>1, <1>2, <1>4 DEF LateFailed, Late, MarkerFine, VersionOf
<1>10. PollFine(p)'
  BY <1>6, <1>7, <1>8, <1>9 DEF PollFine
<1> QED BY <1>2, <1>3, <1>4, <1>5, <1>10, PrivateStep

\* What is known of a poll that is about to touch the function.
LEMMA Entitled ==
  ASSUME McpInv, NEW p \in McpProcs, Busy(p)
  PROVE  /\ mcpPoll[p] \in BusyPoll /\ PollFine(p)
         /\ JobOf(p) \in McpJobs /\ JobOf(p) # "none"
         /\ CopyOf(p) \in McpRow /\ RowFine(JobOf(p), CopyOf(p))
         /\ version[JobOf(p)] \in 2 .. 3 /\ VersionOf(JobOf(p)) = version[JobOf(p)]
         /\ function = [mark |-> function.mark, code |-> function.code]
         /\ function.mark \in McpJobs \cup {"none", "standing"}
         /\ function.code \in McpJobs \cup {"none", "standing"}
         /\ VersionOf(function.mark) \in Nat /\ VersionOf(function.code) \in Nat
         /\ VersionOf(function.code) <= VersionOf(function.mark)
         /\ function.mark = "none" => VersionOf(function.mark) = 1
<1>1. mcpPoll[p] \in BusyPoll /\ PollFine(p) /\ McpTypeOK /\ MarkerLeads
  BY BusyType DEF McpInv
<1>2. JobOf(p) \in McpJobs /\ CopyOf(p) \in McpRow /\ RowFine(JobOf(p), CopyOf(p))
  BY <1>1 DEF BusyPoll, JobOf, CopyOf, PollFine
<1>3. /\ function = [mark |-> function.mark, code |-> function.code]
      /\ function.mark \in McpJobs \cup {"none", "standing"}
      /\ function.code \in McpJobs \cup {"none", "standing"}
  BY <1>1 DEF McpTypeOK
<1>4. VersionOf(function.mark) \in Nat /\ VersionOf(function.code) \in Nat
      /\ version[JobOf(p)] \in 2 .. 3
  BY <1>1, <1>2, <1>3 DEF McpTypeOK, VersionOf
<1>5. JobOf(p) # "none" /\ VersionOf(JobOf(p)) = version[JobOf(p)]
      /\ (function.mark = "none" => VersionOf(function.mark) = 1)
  BY <1>2, McpDeployAssumption DEF McpDeployAssumption, VersionOf
<1> QED BY <1>1, <1>2, <1>3, <1>4, <1>5 DEF MarkerLeads

\* A poll that leaves its copy alone and reads the function.
LEMMA ReadStep ==
  ASSUME McpInv, NEW p \in McpProcs, Busy(p), mcpPoll[p].pc \in {"loaded", "configured"},
         NEW pc \in {"examined", "settled"},
         mcpPoll' = [mcpPoll EXCEPT ![p].pc = pc, ![p].fresh = TRUE],
         UNCHANGED <<mcpCase, version, mcpJob, function, sliceTarget, records, mcpFaults>>,
         pc = "examined" => VersionOf(function.mark) <= version[JobOf(p)],
         pc = "settled" => mcpPoll[p].pc = "configured"
  PROVE  McpInv'
<1> DEFINE r == [mcpPoll[p] EXCEPT !.pc = pc, !.fresh = TRUE]
<1>1. mcpPoll[p] \in BusyPoll /\ PollFine(p) /\ CopyOf(p) \in McpRow
  BY Entitled
<1>2. r \in BusyPoll
  BY <1>1 DEF BusyPoll, Steps
<1>3. mcpPoll' = [mcpPoll EXCEPT ![p] = r] /\ mcpPoll'[p] = r
  BY <1>1 DEF McpInv, McpTypeOK
<1>4. r.pc = pc /\ r.copy = CopyOf(p) /\ r.job = JobOf(p) /\ r.behind = mcpPoll[p].behind
      /\ r.k = mcpPoll[p].k
  BY <1>1 DEF BusyPoll, JobOf, CopyOf
<1>5. JobOf(p)' = JobOf(p) /\ CopyOf(p)' = CopyOf(p) /\ mcpPoll'[p].pc = pc
      /\ mcpPoll'[p].behind = mcpPoll[p].behind /\ mcpPoll'[p].k = mcpPoll[p].k
  BY <1>3, <1>4 DEF JobOf, CopyOf
<1> HIDE DEF r
<1>6. RowFine(JobOf(p), CopyOf(p))'
  BY <1>1, <1>5 DEF PollFine, RowFine, Recording, Redeploying
<1>7. CopyStands(p)'
  BY <1>1, <1>5 DEF PollFine, CopyStands, MayCommit, Busy, Stand, Late
<1>8. StepFine(p)' /\ LateFailed(p)'
  BY <1>1, <1>5 DEF PollFine, StepFine, Working, LateFailed, Late
<1>9. MarkerFine(p)'
  BY <1>1, <1>5 DEF PollFine, MarkerFine, VersionOf
<1>10. PollFine(p)'
  BY <1>6, <1>7, <1>8, <1>9 DEF PollFine
<1>11. mcpFaults' \in 0 .. MaxMcpFaults
  BY FaultBound DEF McpInv
<1> QED BY <1>2, <1>3, <1>10, <1>11, OwnStep

\* deploy_lambda: the examination of the function and its conditional writes.
LEMMA FunctionSteps ==
  ASSUME McpInv, NEW p \in McpProcs,
         \/ CreateLambda(p) \/ ExamineLambda(p) \/ ConfigureLambda(p)
         \/ SettleLambda(p) \/ UpdateCode(p)
  PROVE  McpInv'
<1>1. Busy(p) /\ mcpPoll[p].pc \notin Late
  BY DEF CreateLambda, ExamineLambda, ConfigureLambda, SettleLambda, UpdateCode,
         InPhase, AtStep, Busy, Late
<1>2. /\ mcpPoll[p] \in BusyPoll /\ PollFine(p)
      /\ JobOf(p) \in McpJobs /\ JobOf(p) # "none"
      /\ CopyOf(p) \in McpRow /\ RowFine(JobOf(p), CopyOf(p))
      /\ version[JobOf(p)] \in 2 .. 3 /\ VersionOf(JobOf(p)) = version[JobOf(p)]
      /\ function = [mark |-> function.mark, code |-> function.code]
      /\ function.mark \in McpJobs \cup {"none", "standing"}
      /\ function.code \in McpJobs \cup {"none", "standing"}
      /\ VersionOf(function.mark) \in Nat /\ VersionOf(function.code) \in Nat
      /\ VersionOf(function.code) <= VersionOf(function.mark)
      /\ function.mark = "none" => VersionOf(function.mark) = 1
  BY <1>1, Entitled
<1>3. mcpFaults' \in 0 .. MaxMcpFaults /\ UNCHANGED <<mcpCase, version, mcpJob, sliceTarget, records>>
  BY FaultBound DEF McpInv, CreateLambda, ExamineLambda, ConfigureLambda, SettleLambda, UpdateCode,
     Elsewhere
<1>4. CASE CreateLambda(p)
  <2> DEFINE c == [CopyOf(p) EXCEPT !.arn = TRUE, !.owner = p]
  <2>1. c \in McpRow /\ c.arn /\ c.phase = CopyOf(p).phase /\ c.slice = CopyOf(p).slice
    BY <1>2 DEF McpRow
  <2>2. Wrote(p, "wire", c) /\ function' = [mark |-> JobOf(p), code |-> JobOf(p)]
        /\ mcpPoll[p].pc = "loaded" /\ function.mark = "none"
    BY <1>4 DEF CreateLambda, InPhase, AtStep
  <2> HIDE DEF c
  <2>3. VersionOf(function.mark) <= VersionOf(JobOf(p)) /\ VersionOf(JobOf(p)) <= VersionOf(JobOf(p))
    BY <1>2, <2>2
  <2> QED BY <1>1, <1>2, <1>3, <2>1, <2>2, <2>3, WriteStep
<1>5. CASE ExamineLambda(p)
  <2>1. UNCHANGED <<function, mcpFaults>>
    BY <1>5 DEF ExamineLambda
  <2>2. CASE Allowed(p)
    <3>1. VersionOf(function.mark) <= version[JobOf(p)]
      BY <2>2 DEF Allowed
    <3>2. mcpPoll' = [mcpPoll EXCEPT ![p].pc = "examined", ![p].fresh = TRUE]
          /\ mcpPoll[p].pc = "loaded"
      BY <1>5, <2>2 DEF ExamineLambda, InPhase, AtStep
    <3> QED BY <1>1, <1>3, <2>1, <3>1, <3>2, ReadStep
  <2>3. CASE ~ Allowed(p)
    <3>1. FailsJob(p)
      BY <1>5, <2>3 DEF ExamineLambda
    <3> QED BY <1>1, <1>3, <2>1, <3>1, FailStep
  <2> QED BY <2>2, <2>3
<1>6. CASE ConfigureLambda(p)
  <2>1. CASE Unchanged(p)
    <3>1. function' = [mark |-> JobOf(p), code |-> function.code]
          /\ Wrote(p, "configured", CopyOf(p)) /\ mcpPoll[p].pc = "examined"
      BY <1>2, <1>6, <2>1 DEF ConfigureLambda, AtStep
    <3>2. VersionOf(function.mark) <= VersionOf(JobOf(p))
      BY <1>1, <1>2, <2>1, <3>1 DEF PollFine, MarkerFine, Unchanged
    <3>3. VersionOf(function.code) <= VersionOf(JobOf(p)) /\ version[JobOf(p)] <= VersionOf(JobOf(p))
      BY <1>2, <3>2
    <3>4. CopyOf(p).arn => function.code # "none"
      BY <1>2 DEF RowFine
    <3> QED BY <1>1, <1>2, <1>3, <3>1, <3>2, <3>3, <3>4, WriteStep
  <2>2. CASE ~ Unchanged(p)
    <3>1. FailsJob(p) /\ UNCHANGED function
      BY <1>6, <2>2 DEF ConfigureLambda
    <3> QED BY <1>1, <1>3, <3>1, FailStep
  <2> QED BY <2>1, <2>2
<1>7. CASE SettleLambda(p)
  <2>1. mcpPoll' = [mcpPoll EXCEPT ![p].pc = "settled", ![p].fresh = TRUE]
        /\ mcpPoll[p].pc = "configured" /\ UNCHANGED <<function, mcpFaults>>
    BY <1>7 DEF SettleLambda, AtStep
  <2> QED BY <1>1, <1>3, <2>1, ReadStep
<1>8. CASE UpdateCode(p)
  <2>1. CASE Unchanged(p)
    <3> DEFINE c == [CopyOf(p) EXCEPT !.arn = TRUE]
    <3>1. c \in McpRow /\ c.arn /\ c.phase = CopyOf(p).phase /\ c.slice = CopyOf(p).slice
      BY <1>2 DEF McpRow
    <3>2. function' = [mark |-> function.mark, code |-> JobOf(p)]
          /\ Wrote(p, "wire", c) /\ mcpPoll[p].pc = "settled"
      BY <1>2, <1>8, <2>1 DEF UpdateCode, AtStep
    <3> HIDE DEF c
    <3>3. VersionOf(JobOf(p)) <= VersionOf(function.mark)
          /\ VersionOf(function.mark) <= VersionOf(function.mark)
      BY <1>1, <1>2, <3>2 DEF PollFine, MarkerFine
    <3> QED BY <1>1, <1>2, <1>3, <3>1, <3>2, <3>3, WriteStep
  <2>2. CASE ~ Unchanged(p)
    <3>1. FailsJob(p) /\ UNCHANGED function
      BY <1>8, <2>2 DEF UpdateCode
    <3> QED BY <1>1, <1>3, <3>1, FailStep
  <2> QED BY <2>1, <2>2
<1> QED BY <1>4, <1>5, <1>6, <1>7, <1>8

\* A Lambda call that raises, its effect done or not.
LEMMA LambdaFailsStep ==
  ASSUME McpInv, NEW p \in McpProcs, LambdaFails(p)
  PROVE  McpInv'
<1> DEFINE c == [CopyOf(p) EXCEPT !.phase = "FAILED"]
<1>1. Busy(p) /\ mcpPoll[p].pc \notin Late
  BY DEF LambdaFails, InPhase, AtStep, Busy, Late
<1>2. /\ mcpPoll[p] \in BusyPoll /\ PollFine(p)
      /\ JobOf(p) \in McpJobs /\ JobOf(p) # "none"
      /\ CopyOf(p) \in McpRow /\ RowFine(JobOf(p), CopyOf(p))
      /\ version[JobOf(p)] \in 2 .. 3 /\ VersionOf(JobOf(p)) = version[JobOf(p)]
      /\ function = [mark |-> function.mark, code |-> function.code]
      /\ function.mark \in McpJobs \cup {"none", "standing"}
      /\ function.code \in McpJobs \cup {"none", "standing"}
      /\ VersionOf(function.mark) \in Nat /\ VersionOf(function.code) \in Nat
      /\ VersionOf(function.code) <= VersionOf(function.mark)
      /\ function.mark = "none" => VersionOf(function.mark) = 1
  BY <1>1, Entitled
<1>3. mcpFaults' \in 0 .. MaxMcpFaults /\ UNCHANGED <<mcpCase, version, mcpJob, sliceTarget, records>>
  BY FaultBound DEF McpInv, LambdaFails, Elsewhere
<1>4. c \in McpRow /\ c.arn = CopyOf(p).arn /\ c.phase = "FAILED" /\ c.slice = CopyOf(p).slice
  BY <1>2 DEF McpRow, McpPhases
<1>5. c.arn => function.code # "none"
  BY <1>2, <1>4 DEF RowFine
<1> HIDE DEF c
<1>6. CASE FailsJob(p) /\ UNCHANGED function
  BY <1>1, <1>3, <1>6, FailStep
<1>7. CASE /\ InPhase(p, "BUILDING") /\ function.mark = "none"
           /\ function' = [mark |-> JobOf(p), code |-> JobOf(p)] /\ Wrote(p, "claim", c)
  <2>1. VersionOf(function.mark) <= VersionOf(JobOf(p)) /\ VersionOf(JobOf(p)) <= VersionOf(JobOf(p))
    BY <1>2, <1>7
  <2> QED BY <1>1, <1>2, <1>3, <1>4, <1>5, <1>7, <2>1, WriteStep
<1>8. CASE /\ AtStep(p, "examined") /\ Unchanged(p)
           /\ function' = [function EXCEPT !.mark = JobOf(p)] /\ Wrote(p, "claim", c)
  <2>1. function' = [mark |-> JobOf(p), code |-> function.code]
    BY <1>2, <1>8
  <2>2. VersionOf(function.mark) <= VersionOf(JobOf(p))
    BY <1>1, <1>2, <1>8 DEF PollFine, MarkerFine, Unchanged, AtStep
  <2>3. VersionOf(function.code) <= VersionOf(JobOf(p))
    BY <1>2, <2>2
  <2> QED BY <1>1, <1>2, <1>3, <1>4, <1>5, <1>8, <2>1, <2>2, <2>3, WriteStep
<1>9. CASE /\ AtStep(p, "settled") /\ Unchanged(p)
           /\ function' = [function EXCEPT !.code = JobOf(p)] /\ Wrote(p, "claim", c)
  <2>1. function' = [mark |-> function.mark, code |-> JobOf(p)]
    BY <1>2, <1>9
  <2>2. VersionOf(JobOf(p)) <= VersionOf(function.mark)
        /\ VersionOf(function.mark) <= VersionOf(function.mark)
    BY <1>1, <1>2, <1>9 DEF PollFine, MarkerFine, AtStep
  <2> QED BY <1>1, <1>2, <1>3, <1>4, <1>5, <1>9, <2>1, <2>2, WriteStep
<1> QED BY <1>6, <1>7, <1>8, <1>9 DEF LambdaFails, c

-----------------------------------------------------------------------------
(* Targets and records.                                                    *)

\* A step of p that may add a Target or a record, and leaves the function alone.
LEMMA AddStep ==
  ASSUME McpInv, NEW p \in McpProcs, NEW r \in BusyPoll,
         mcpPoll' = [mcpPoll EXCEPT ![p] = r],
         UNCHANGED <<mcpCase, version, mcpJob, function>>,
         mcpFaults' \in 0 .. MaxMcpFaults,
         sliceTarget' \in [McpSlices -> McpJobs \cup {"none", "standing"}],
         \A s \in McpSlices : sliceTarget'[s] = sliceTarget[s] \/ sliceTarget[s] = "none",
         records' \in SUBSET McpJobs,
         \A j \in McpJobs : Recording(j) => Recording(j)',
         PollFine(p)'
  PROVE  McpInv'
<1>1. McpTypeOK'
  BY DEF McpInv, McpTypeOK, BusyPoll
<1>2. MarkerLeads'
  BY DEF McpInv, MarkerLeads, VersionOf
<1>3. VersionOf(function.mark) <= VersionOf(function.mark)'
  BY DEF McpInv, McpTypeOK, VersionOf
<1>4. \A q \in McpProcs \ {p} : mcpPoll'[q] = mcpPoll[q]
  BY DEF McpInv, McpTypeOK
<1> QED BY <1>1, <1>2, <1>3, <1>4, PrivateStep

\* A slice that is settled says what is so.
LEMMA SliceStep ==
  ASSUME McpInv, NEW p \in McpProcs, AtStep(p, "wire"),
         NEW state \in {"failed", "created", "reused"},
         SliceDone(p, state),
         UNCHANGED <<mcpCase, version, mcpJob, function, records>>,
         mcpFaults' \in 0 .. MaxMcpFaults,
         Stands(JobOf(p), mcpPoll[p].k) \/ UNCHANGED sliceTarget,
         state = "created" => sliceTarget'[mcpPoll[p].k] = JobOf(p),
         state = "reused" => Redeploying /\ sliceTarget'[mcpPoll[p].k] # "none"
  PROVE  McpInv'
<1> DEFINE j == JobOf(p)
           k == mcpPoll[p].k
           c == [CopyOf(p) EXCEPT !.slice[k] = state]
           failed == \E s \in McpSlices : c.slice[s] = "failed"
           d == [c EXCEPT !.phase = IF failed THEN "FAILED" ELSE "REGISTERING_TARGET"]
<1>1. Busy(p) /\ mcpPoll[p].pc = "wire"
  BY DEF AtStep, Busy
<1>2. /\ mcpPoll[p] \in BusyPoll /\ PollFine(p) /\ j \in McpJobs
      /\ CopyOf(p) \in McpRow /\ RowFine(j, CopyOf(p)) /\ McpTypeOK
  BY <1>1, Entitled DEF McpInv
<1>3. /\ k \in McpSlices /\ CopyOf(p).arn /\ ~ Finished(CopyOf(p).phase)
      /\ (~ mcpPoll[p].behind => ~ Finished(mcpJob[j].phase) /\ Stand(j, CopyOf(p)))
  BY <1>1, <1>2 DEF PollFine, StepFine, CopyStands, MayCommit, Late, Working, Finished
<1>4. /\ c \in McpRow /\ c.arn /\ c.phase = CopyOf(p).phase
      /\ c.slice[k] = state /\ \A s \in McpSlices \ {k} : c.slice[s] = CopyOf(p).slice[s]
  BY <1>2, <1>3 DEF McpRow, SliceStates
<1>5. /\ d \in McpRow /\ d.arn /\ d.phase \in {"FAILED", "REGISTERING_TARGET"}
      /\ d.slice = c.slice
  BY <1>4 DEF McpRow, McpPhases
<1>6. /\ sliceTarget' \in [McpSlices -> McpJobs \cup {"none", "standing"}]
      /\ \A s \in McpSlices : sliceTarget'[s] = sliceTarget[s] \/ sliceTarget[s] = "none"
  BY <1>2, <1>3 DEF McpTypeOK, Stands
<1> HIDE DEF c
<1>7. \A s \in McpSlices :
        /\ c.slice[s] = "reused" => Redeploying
        /\ ~ mcpPoll[p].behind => /\ c.slice[s] = "created" => sliceTarget'[s] = j
                                  /\ c.slice[s] = "reused" => sliceTarget'[s] # "none"
  <2> SUFFICES ASSUME NEW s \in McpSlices
               PROVE  /\ c.slice[s] = "reused" => Redeploying
                      /\ ~ mcpPoll[p].behind => /\ c.slice[s] = "created" => sliceTarget'[s] = j
                                                /\ c.slice[s] = "reused" => sliceTarget'[s] # "none"
    OBVIOUS
  <2>1. CASE s = k
    BY <1>4, <2>1
  <2>2. CASE s # k
    <3>1. c.slice[s] = CopyOf(p).slice[s]
      BY <1>4, <2>2
    <3>2. j # "none"
      BY <1>1, Entitled
    <3> QED BY <1>2, <1>3, <1>6, <3>1, <3>2 DEF RowFine, Stand
  <2> QED BY <2>1, <2>2
<1>8. function.code # "none"
  BY <1>2, <1>3 DEF RowFine
<1>9. CASE k + 1 \in McpSlices
  <2> DEFINE r == [mcpPoll[p] EXCEPT !.copy = c, !.k = k + 1]
  <2>1. mcpPoll' = [mcpPoll EXCEPT ![p] = r] /\ mcpPoll'[p] = r
    BY <1>2, <1>9 DEF SliceDone, McpTypeOK, c
  <2>2. k + 1 \in 1 .. 3
    BY <1>3 DEF McpSlices
  <2>3. r \in BusyPoll /\ r.pc = "wire" /\ r.copy = c /\ r.job = j
        /\ r.behind = mcpPoll[p].behind /\ r.k = k + 1
    BY <1>1, <1>2, <1>4, <2>2 DEF BusyPoll, JobOf
  <2>4. JobOf(p)' = j /\ CopyOf(p)' = c /\ mcpPoll'[p].pc = "wire"
        /\ mcpPoll'[p].behind = mcpPoll[p].behind /\ mcpPoll'[p].k = k + 1
    BY <2>1, <2>3 DEF JobOf, CopyOf
  <2> HIDE DEF r, d, failed
  <2>5. RowFine(JobOf(p), CopyOf(p))'
    BY <1>3, <1>4, <1>7, <1>8, <2>4 DEF RowFine, Redeploying, Finished
  <2>6. CopyStands(p)'
    BY <1>3, <1>7, <2>4 DEF CopyStands, MayCommit, Stand
  <2>7. LateFailed(p)' /\ StepFine(p)' /\ MarkerFine(p)'
    BY <1>3, <1>4, <1>9, <2>4 DEF LateFailed, Late, StepFine, MarkerFine
  <2>8. PollFine(p)'
    BY <2>5, <2>6, <2>7 DEF PollFine
  <2>9. \A i \in McpJobs : Recording(i) => Recording(i)'
    BY DEF Recording, Redeploying
  <2>10. records' \in SUBSET McpJobs
    BY <1>2 DEF McpTypeOK
  <2> QED BY <1>6, <2>1, <2>3, <2>8, <2>9, <2>10, AddStep
<1>10. CASE k + 1 \notin McpSlices
  <2> DEFINE r == [mcpPoll[p] EXCEPT !.pc = "claim", !.copy = d]
  <2>1. mcpPoll' = [mcpPoll EXCEPT ![p] = r] /\ mcpPoll'[p] = r
    BY <1>2, <1>10 DEF SliceDone, Goes, McpTypeOK, c
  <2>2. r \in BusyPoll /\ r.pc = "claim" /\ r.copy = d /\ r.job = j
        /\ r.behind = mcpPoll[p].behind
    BY <1>1, <1>2, <1>3, <1>5 DEF BusyPoll, Steps, JobOf
  <2>3. JobOf(p)' = j /\ CopyOf(p)' = d /\ mcpPoll'[p].pc = "claim"
        /\ mcpPoll'[p].behind = mcpPoll[p].behind
    BY <2>1, <2>2 DEF JobOf, CopyOf
  <2> HIDE DEF r, d
  <2>4. RowFine(JobOf(p), CopyOf(p))'
    BY <1>3, <1>5, <1>7, <1>8, <2>3 DEF RowFine, Redeploying
  <2>5. CopyStands(p)'
    BY <1>3, <1>5, <1>7, <2>3 DEF CopyStands, MayCommit, Stand
  <2>6. LateFailed(p)' /\ StepFine(p)' /\ MarkerFine(p)'
    BY <2>3 DEF LateFailed, Late, StepFine, MarkerFine, Working
  <2>7. PollFine(p)'
    BY <2>4, <2>5, <2>6 DEF PollFine
  <2>8. \A i \in McpJobs : Recording(i) => Recording(i)'
    BY DEF Recording, Redeploying
  <2>9. records' \in SUBSET McpJobs
    BY <1>2 DEF McpTypeOK
  <2> QED BY <1>6, <2>1, <2>2, <2>7, <2>8, <2>9, AddStep
<1> QED BY <1>9, <1>10

\* Each slice finds, creates or misses its Target.
LEMMA WireSteps ==
  ASSUME McpInv, NEW p \in McpProcs, WireTarget(p) \/ WireFails(p)
  PROVE  McpInv'
<1> DEFINE j == JobOf(p)
           k == mcpPoll[p].k
<1>1. AtStep(p, "wire") /\ Busy(p)
  BY DEF WireTarget, WireFails, AtStep, Busy
<1>2. mcpPoll[p] \in BusyPoll /\ PollFine(p) /\ j \in McpJobs /\ j # "none"
  BY <1>1, Entitled
<1>3. k \in McpSlices
  BY <1>1, <1>2 DEF PollFine, StepFine, AtStep
<1>4. mcpFaults' \in 0 .. MaxMcpFaults /\ UNCHANGED <<mcpCase, version, mcpJob, function, records>>
  BY FaultBound DEF McpInv, WireTarget, WireFails, Elsewhere
<1>5. CASE WireTarget(p)
  <2>1. Stands(j, k) /\ SliceDone(p, Wired(j, k))
    BY <1>5 DEF WireTarget
  <2>2. sliceTarget'[k] = IF sliceTarget[k] = "none" THEN j ELSE sliceTarget[k]
    BY <1>3, <2>1 DEF Stands, McpInv, McpTypeOK
  <2>3. CASE sliceTarget[k] # "none" /\ Redeploying
    <3>1. Wired(j, k) = "reused" \/ (Wired(j, k) = "created" /\ sliceTarget[k] = j)
      BY <1>2, <2>3 DEF Wired
    <3> QED BY <1>1, <1>4, <2>1, <2>2, <2>3, <3>1, SliceStep
  <2>4. CASE ~ (sliceTarget[k] # "none" /\ Redeploying) /\ sliceTarget[k] \in {"none", j}
    <3>1. Wired(j, k) = "created"
      BY <2>4 DEF Wired
    <3> QED BY <1>1, <1>4, <2>1, <2>2, <2>4, <3>1, SliceStep
  <2>5. CASE ~ (sliceTarget[k] # "none" /\ Redeploying) /\ sliceTarget[k] \notin {"none", j}
    <3>1. Wired(j, k) = "failed"
      BY <2>5 DEF Wired
    <3> QED BY <1>1, <1>4, <2>1, <3>1, SliceStep
  <2> QED BY <2>3, <2>4, <2>5
<1>6. CASE WireFails(p)
  <2>1. (Stands(j, k) \/ UNCHANGED sliceTarget) /\ SliceDone(p, "failed")
    BY <1>6 DEF WireFails
  <2> QED BY <1>1, <1>4, <2>1, SliceStep
<1> QED BY <1>5, <1>6

\* A poll that registered goes on, or fails its job before or after the record is there.
LEMMA RecordStep ==
  ASSUME McpInv, NEW p \in McpProcs, AtStep(p, "register"),
         NEW pc \in {"policy", "claim"}, NEW c \in McpRow, Goes(p, pc, c),
         UNCHANGED <<mcpCase, version, mcpJob, function, sliceTarget>>,
         mcpFaults' \in 0 .. MaxMcpFaults,
         records' = records \/ records' = Recorded(JobOf(p)),
         c.arn = CopyOf(p).arn, c.slice = CopyOf(p).slice,
         pc = "policy" => c.phase = CopyOf(p).phase /\ records' = Recorded(JobOf(p)),
         pc = "claim" => c.phase = "FAILED"
  PROVE  McpInv'
<1> DEFINE r == [mcpPoll[p] EXCEPT !.pc = pc, !.copy = c]
<1>1. Busy(p) /\ mcpPoll[p].pc = "register"
  BY DEF AtStep, Busy
<1>2. /\ mcpPoll[p] \in BusyPoll /\ PollFine(p) /\ JobOf(p) \in McpJobs
      /\ CopyOf(p) \in McpRow /\ RowFine(JobOf(p), CopyOf(p)) /\ McpTypeOK
  BY <1>1, Entitled DEF McpInv
<1>3. CopyOf(p).phase = "REGISTERING_TARGET"
  BY <1>1, <1>2 DEF PollFine, StepFine
<1>4. r \in BusyPoll /\ r.pc = pc /\ r.copy = c /\ r.job = JobOf(p) /\ r.behind = mcpPoll[p].behind
  BY <1>2 DEF BusyPoll, Steps, JobOf
<1>5. mcpPoll' = [mcpPoll EXCEPT ![p] = r] /\ mcpPoll'[p] = r
  BY <1>2 DEF Goes, McpTypeOK
<1>6. JobOf(p)' = JobOf(p) /\ CopyOf(p)' = c /\ mcpPoll'[p].pc = pc
      /\ mcpPoll'[p].behind = mcpPoll[p].behind
  BY <1>4, <1>5 DEF JobOf, CopyOf
<1> HIDE DEF r
<1>7. records' \in SUBSET McpJobs
  BY <1>2 DEF McpTypeOK, Recorded
<1>8. \A j \in McpJobs : Recording(j) => Recording(j)'
  BY DEF Recording, Recorded, Redeploying
<1>9. pc = "policy" => Recording(JobOf(p))'
  BY <1>2, <1>6 DEF Recording, Recorded, Redeploying
<1>10. RowFine(JobOf(p), CopyOf(p))'
  BY <1>2, <1>3, <1>6 DEF RowFine, Redeploying
<1>11. CopyStands(p)'
  BY <1>1, <1>2, <1>3, <1>6 DEF PollFine, CopyStands, MayCommit, Busy, Late, Stand
<1>12. LateFailed(p)' /\ StepFine(p)' /\ MarkerFine(p)'
  BY <1>3, <1>6, <1>9 DEF LateFailed, StepFine, MarkerFine, Late, Working, Finished
<1>13. PollFine(p)'
  BY <1>10, <1>11, <1>12 DEF PollFine
<1>14. sliceTarget' \in [McpSlices -> McpJobs \cup {"none", "standing"}]
  BY <1>2 DEF McpTypeOK
<1> QED BY <1>4, <1>5, <1>7, <1>8, <1>13, <1>14, AddStep

\* The record is written, refused, or the registry raises.
LEMMA RegisterSteps ==
  ASSUME McpInv, NEW p \in McpProcs, RegisterRecord(p) \/ RegisterFails(p)
  PROVE  McpInv'
<1> DEFINE c == [CopyOf(p) EXCEPT !.phase = "FAILED"]
<1>1. AtStep(p, "register") /\ Busy(p) /\ mcpPoll[p].pc \notin Late
  BY DEF RegisterRecord, RegisterFails, AtStep, Busy, Late
<1>2. CopyOf(p) \in McpRow
  BY <1>1, Entitled
<1>3. mcpFaults' \in 0 .. MaxMcpFaults
      /\ UNCHANGED <<mcpCase, version, mcpJob, function, sliceTarget>>
  BY FaultBound DEF McpInv, RegisterRecord, RegisterFails, Elsewhere
<1>4. c \in McpRow /\ c.phase = "FAILED" /\ c.arn = CopyOf(p).arn /\ c.slice = CopyOf(p).slice
  BY <1>2 DEF McpRow, McpPhases
<1>5. ASSUME FailsJob(p), records' = records \/ records' = Recorded(JobOf(p))
      PROVE  McpInv'
  <2>1. Goes(p, "claim", c)
    BY <1>5 DEF FailsJob
  <2> HIDE DEF c
  <2> QED BY <1>1, <1>3, <1>4, <1>5, <2>1, RecordStep
<1>6. CASE Goes(p, "policy", CopyOf(p)) /\ records' = Recorded(JobOf(p))
  BY <1>1, <1>2, <1>3, <1>6, RecordStep
<1> QED BY <1>5, <1>6 DEF RegisterRecord, RegisterFails

-----------------------------------------------------------------------------
(* Commits.                                                                *)

\* What a commit of p does to the poll of another.
LEMMA CommitOthers ==
  ASSUME McpTypeOK, NEW p \in McpProcs, NEW pc \in {"idle", "verify"}, Commits(p, pc),
         NEW q \in McpProcs \ {p}
  PROVE  /\ mcpPoll'[q] \in IdlePoll \cup BusyPoll
         /\ \/ AtStep(q, "idle") /\ mcpPoll'[q] = mcpPoll[q]
            \/ /\ Busy(q) /\ JobOf(q)' = JobOf(q) /\ CopyOf(q)' = CopyOf(q)
               /\ mcpPoll'[q].pc = mcpPoll[q].pc /\ mcpPoll'[q].k = mcpPoll[q].k
               /\ mcpPoll'[q].fresh = mcpPoll[q].fresh
               /\ mcpPoll'[q].behind = (mcpPoll[q].behind \/ JobOf(q) = JobOf(p))
<1>1. CASE AtStep(q, "idle")
  <2>1. mcpPoll'[q] = mcpPoll[q]
    BY <1>1 DEF Commits
  <2>2. mcpPoll[q] \in IdlePoll
    BY <1>1 DEF McpTypeOK, AtStep, IdlePoll
  <2> QED BY <1>1, <2>1, <2>2
<1>2. CASE ~ AtStep(q, "idle")
  <2> DEFINE b == mcpPoll[q].behind \/ JobOf(q) = JobOf(p)
  <2>1. Busy(q) /\ mcpPoll[q] \in BusyPoll
    BY <1>2, BusyType DEF AtStep, Busy
  <2>2. mcpPoll'[q] = [mcpPoll[q] EXCEPT !.behind = b]
    BY <1>2 DEF Commits
  <2>3. b \in BOOLEAN
    BY <2>1 DEF BusyPoll
  <2> HIDE DEF b
  <2>4. /\ mcpPoll'[q] \in BusyPoll
        /\ mcpPoll'[q].job = mcpPoll[q].job /\ mcpPoll'[q].copy = mcpPoll[q].copy
        /\ mcpPoll'[q].pc = mcpPoll[q].pc /\ mcpPoll'[q].k = mcpPoll[q].k
        /\ mcpPoll'[q].fresh = mcpPoll[q].fresh /\ mcpPoll'[q].behind = b
    BY <2>1, <2>2, <2>3 DEF BusyPoll
  <2> QED BY <2>1, <2>4 DEF JobOf, CopyOf, b
<1> QED BY <1>1, <1>2

\* What a commit does to the polls.
LEMMA CommitShape ==
  ASSUME McpTypeOK, NEW p \in McpProcs, Busy(p), NEW pc \in {"idle", "verify"}, Commits(p, pc)
  PROVE  /\ mcpPoll' \in [McpProcs -> IdlePoll \cup BusyPoll]
         /\ mcpPoll'[p].pc = pc
         /\ pc = "verify" => /\ JobOf(p)' = JobOf(p) /\ CopyOf(p)' = CopyOf(p)
                             /\ mcpPoll'[p].k = 1
         /\ \A q \in McpProcs \ {p} :
              \/ AtStep(q, "idle") /\ mcpPoll'[q] = mcpPoll[q]
              \/ /\ Busy(q) /\ JobOf(q)' = JobOf(q) /\ CopyOf(q)' = CopyOf(q)
                 /\ mcpPoll'[q].pc = mcpPoll[q].pc /\ mcpPoll'[q].k = mcpPoll[q].k
                 /\ mcpPoll'[q].fresh = mcpPoll[q].fresh
                 /\ mcpPoll'[q].behind = (mcpPoll[q].behind \/ JobOf(q) = JobOf(p))
<1>1. mcpPoll[p] \in BusyPoll
  BY BusyType
<1>2. ASSUME pc = "idle" PROVE mcpPoll'[p] \in IdlePoll /\ mcpPoll'[p].pc = pc
  <2>1. mcpPoll'[p] = [pc |-> "idle"]
    BY <1>2 DEF Commits, Busy, AtStep
  <2> QED BY <1>2, <2>1 DEF IdlePoll
<1>3. ASSUME pc = "verify"
      PROVE  /\ mcpPoll'[p] \in BusyPoll /\ mcpPoll'[p].pc = pc /\ mcpPoll'[p].k = 1
             /\ JobOf(p)' = JobOf(p) /\ CopyOf(p)' = CopyOf(p)
  <2>1. mcpPoll'[p] = [mcpPoll[p] EXCEPT !.pc = "verify", !.k = 1]
    BY <1>3 DEF Commits, Busy, AtStep
  <2>2. 1 \in 1 .. 3 /\ "verify" \in Steps \ {"idle"}
    BY DEF Steps
  <2>3. mcpPoll'[p] \in BusyPoll
    BY <1>1, <2>1, <2>2 DEF BusyPoll
  <2>4. /\ mcpPoll'[p].pc = "verify" /\ mcpPoll'[p].k = 1
        /\ mcpPoll'[p].job = mcpPoll[p].job /\ mcpPoll'[p].copy = mcpPoll[p].copy
    BY <1>1, <2>1 DEF BusyPoll
  <2>5. JobOf(p)' = JobOf(p) /\ CopyOf(p)' = CopyOf(p)
    BY <2>4 DEF JobOf, CopyOf
  <2> QED BY <1>3, <2>3, <2>4, <2>5
<1>4. mcpPoll'[p] \in IdlePoll \cup BusyPoll
  BY <1>2, <1>3
<1>5. mcpPoll' \in [McpProcs -> IdlePoll \cup BusyPoll]
  <2>1. \A q \in McpProcs : mcpPoll'[q] \in IdlePoll \cup BusyPoll
    BY <1>4, CommitOthers
  <2> QED BY <2>1 DEF Commits
<1> QED BY <1>2, <1>3, <1>5, CommitOthers

\* A commit of a poll that is not behind: the row is what its copy says.  A
\* poll that compensates a job shows that nobody can commit another outcome.
LEMMA CommitStep ==
  ASSUME McpInv, NEW p \in McpProcs, mcpPoll[p].pc \in {"claim", "persist"},
         ~ mcpPoll[p].behind, NEW pc \in {"idle", "verify"}, Commits(p, pc),
         pc = "verify" => Compensates(p),
         UNCHANGED <<mcpCase, version, function, sliceTarget, records>>,
         mcpFaults' \in 0 .. MaxMcpFaults
  PROVE  McpInv'
<1>1. Busy(p)
  BY DEF Busy
<1>2. /\ mcpPoll[p] \in BusyPoll /\ PollFine(p) /\ JobOf(p) \in McpJobs
      /\ CopyOf(p) \in McpRow /\ RowFine(JobOf(p), CopyOf(p)) /\ McpTypeOK
  BY <1>1, Entitled DEF McpInv
<1>3. /\ mcpPoll' \in [McpProcs -> IdlePoll \cup BusyPoll]
      /\ mcpPoll'[p].pc = pc
      /\ pc = "verify" => /\ JobOf(p)' = JobOf(p) /\ CopyOf(p)' = CopyOf(p)
                          /\ mcpPoll'[p].k = 1
      /\ \A q \in McpProcs \ {p} :
              \/ AtStep(q, "idle") /\ mcpPoll'[q] = mcpPoll[q]
              \/ /\ Busy(q) /\ JobOf(q)' = JobOf(q) /\ CopyOf(q)' = CopyOf(q)
                 /\ mcpPoll'[q].pc = mcpPoll[q].pc /\ mcpPoll'[q].k = mcpPoll[q].k
                 /\ mcpPoll'[q].fresh = mcpPoll[q].fresh
                 /\ mcpPoll'[q].behind = (mcpPoll[q].behind \/ JobOf(q) = JobOf(p))
  BY <1>1, <1>2, CommitShape
<1>4. /\ mcpJob' \in [McpJobs -> McpRow] /\ mcpJob'[JobOf(p)] = CopyOf(p)
      /\ \A j \in McpJobs \ {JobOf(p)} : mcpJob'[j] = mcpJob[j]
  BY <1>2 DEF Commits, McpTypeOK
<1>5. McpTypeOK'
  BY <1>2, <1>3, <1>4 DEF McpTypeOK, IdlePoll, BusyPoll
<1>6. MarkerLeads'
  BY DEF McpInv, MarkerLeads, VersionOf
<1>7. \A j \in McpJobs, row \in McpRow : /\ RowFine(j, row) => RowFine(j, row)'
                                         /\ Stand(j, row) => Stand(j, row)'
  BY DEF RowFine, Stand, Recording, Redeploying
<1>8. RowsStand'
  <2> SUFFICES ASSUME NEW j \in McpJobs
               PROVE  /\ RowFine(j, mcpJob'[j])
                      /\ mcpJob'[j].phase # "FAILED" => Stand(j, mcpJob'[j])
    BY DEF RowsStand, RowFine, Stand, Recording, Redeploying
  <2>1. CASE j = JobOf(p)
    <3>1. CopyOf(p).phase # "FAILED" => Stand(j, CopyOf(p))
      BY <1>1, <1>2, <2>1 DEF PollFine, LateFailed, CopyStands, MayCommit, Late
    <3> QED BY <1>2, <1>4, <2>1, <3>1
  <2>2. CASE j # JobOf(p)
    BY <1>4, <2>2 DEF McpInv, RowsStand
  <2> QED BY <2>1, <2>2
<1>9. PollFine(p)'
  <2>1. CASE pc = "idle"
    BY <1>3, <2>1 DEF PollFine, Busy
  <2>2. CASE pc = "verify"
    <3>1. CopyOf(p).phase = "FAILED" /\ ~ Redeploying
      BY <2>2 DEF Compensates
    <3>2. /\ JobOf(p)' = JobOf(p) /\ CopyOf(p)' = CopyOf(p) /\ mcpPoll'[p].k = 1
          /\ mcpPoll'[p].pc = "verify"
      BY <1>3, <2>2
    <3>3. RowFine(JobOf(p), CopyOf(p))'
      BY <1>2, <3>2 DEF RowFine, Recording, Redeploying
    <3>4. LateFailed(p)'
      BY <1>4, <3>1, <3>2 DEF LateFailed, Redeploying
    <3>5. CopyStands(p)' /\ StepFine(p)' /\ MarkerFine(p)'
      BY <3>2 DEF CopyStands, MayCommit, StepFine, MarkerFine, Late, Working, McpSlices
    <3> QED BY <3>3, <3>4, <3>5 DEF PollFine
  <2> QED BY <2>1, <2>2
<1>10. ASSUME NEW q \in McpProcs \ {p}
       PROVE  PollFine(q)'
  <2> SUFFICES ASSUME Busy(q)' PROVE PollFine(q)'
    BY DEF PollFine
  <2>1. /\ Busy(q) /\ JobOf(q)' = JobOf(q) /\ CopyOf(q)' = CopyOf(q)
        /\ mcpPoll'[q].pc = mcpPoll[q].pc /\ mcpPoll'[q].k = mcpPoll[q].k
        /\ mcpPoll'[q].fresh = mcpPoll[q].fresh
        /\ mcpPoll'[q].behind = (mcpPoll[q].behind \/ JobOf(q) = JobOf(p))
    BY <1>3 DEF AtStep, Busy
  <2>2. PollFine(q) /\ JobOf(q) \in McpJobs /\ CopyOf(q) \in McpRow
    BY <2>1, Entitled
  <2>3. RowFine(JobOf(q), CopyOf(q))'
    BY <2>1, <2>2 DEF PollFine, RowFine, Recording, Redeploying
  <2>4. LateFailed(q)'
    <3>1. CASE mcpPoll[q].pc \notin Late
      BY <2>1, <3>1 DEF LateFailed, Late
    <3>2. CASE mcpPoll[q].pc \in Late /\ JobOf(q) # JobOf(p)
      BY <1>4, <2>1, <2>2, <3>2 DEF PollFine, LateFailed, Redeploying
    <3>3. CASE mcpPoll[q].pc \in Late /\ JobOf(q) = JobOf(p)
      <4>1. mcpJob[JobOf(p)].phase = "FAILED" /\ CopyOf(q).phase = "FAILED" /\ ~ Redeploying
        BY <2>1, <2>2, <3>3 DEF PollFine, LateFailed
      <4>2. mcpPoll[p].pc = "persist"
        BY <1>1, <1>2, <4>1 DEF PollFine, CopyStands, MayCommit, Late, Finished
      <4>3. CopyOf(p).phase = "FAILED"
        BY <1>1, <1>2, <4>2 DEF PollFine, LateFailed, Late
      <4> QED BY <1>4, <2>1, <3>3, <4>1, <4>3 DEF LateFailed, Redeploying
    <3> QED BY <3>1, <3>2, <3>3
  <2>5. CopyStands(q)'
    <3>1. CASE JobOf(q) = JobOf(p)
      BY <2>1, <3>1 DEF CopyStands, MayCommit
    <3>2. CASE JobOf(q) # JobOf(p)
      BY <1>4, <2>1, <2>2, <3>2 DEF PollFine, CopyStands, MayCommit, Busy, Stand
    <3> QED BY <3>1, <3>2
  <2>6. StepFine(q)'
    BY <2>1, <2>2 DEF PollFine, StepFine, Recording, Redeploying
  <2>7. MarkerFine(q)'
    BY <2>1, <2>2 DEF PollFine, MarkerFine, VersionOf
  <2> QED BY <2>3, <2>4, <2>5, <2>6, <2>7 DEF PollFine
<1> QED BY <1>5, <1>6, <1>8, <1>9, <1>10 DEF McpInv

\* The claim and the write after compensation, won or lost.
LEMMA CommitSteps ==
  ASSUME McpInv, NEW p \in McpProcs,
         Claim(p) \/ ClaimUnseen(p) \/ PersistUndone(p) \/ PollRaises(p)
  PROVE  McpInv'
<1>1. mcpFaults' \in 0 .. MaxMcpFaults
      /\ UNCHANGED <<mcpCase, version, function, sliceTarget, records>>
  BY FaultBound DEF McpInv, Claim, ClaimUnseen, PersistUndone, PollRaises, Elsewhere
<1>2. CASE Leaves(p) /\ UNCHANGED mcpJob
  BY <1>1, <1>2, LeaveStep
<1>3. CASE /\ mcpPoll[p].pc \in {"claim", "persist"} /\ ~ mcpPoll[p].behind
           /\ Commits(p, "idle") \/ (Commits(p, "verify") /\ Compensates(p))
  BY <1>1, <1>3, CommitStep
<1> QED BY <1>2, <1>3 DEF Claim, ClaimUnseen, PersistUndone, PollRaises, Loses, AtStep

-----------------------------------------------------------------------------
(* Compensation.                                                           *)

\* A step of a poll that compensates: it may remove a Target of its own job,
\* and nothing else that anyone relies on.
LEMMA UndoStep ==
  ASSUME McpInv, NEW p \in McpProcs, mcpPoll[p].pc \in {"verify", "undo"},
         NEW r \in BusyPoll, mcpPoll' = [mcpPoll EXCEPT ![p] = r],
         r.job = JobOf(p), r.pc \in {"undo", "persist"},
         r.pc = "undo" => r.k \in McpSlices,
         r.copy.phase = CopyOf(p).phase, r.copy.arn = CopyOf(p).arn,
         \A s \in McpSlices : r.copy.slice[s] = "reused" => CopyOf(p).slice[s] = "reused",
         UNCHANGED <<mcpCase, version, mcpJob, function, records>>,
         mcpFaults' \in 0 .. MaxMcpFaults,
         sliceTarget' \in [McpSlices -> McpJobs \cup {"none", "standing"}],
         \A s \in McpSlices :
           sliceTarget'[s] = sliceTarget[s] \/ sliceTarget[s] = JobOf(p)
  PROVE  McpInv'
<1>1. Busy(p)
  BY DEF Busy
<1>2. /\ mcpPoll[p] \in BusyPoll /\ PollFine(p) /\ JobOf(p) \in McpJobs
      /\ CopyOf(p) \in McpRow /\ RowFine(JobOf(p), CopyOf(p)) /\ McpTypeOK
  BY <1>1, Entitled DEF McpInv
<1>3. mcpJob[JobOf(p)].phase = "FAILED" /\ CopyOf(p).phase = "FAILED" /\ ~ Redeploying
  BY <1>1, <1>2 DEF PollFine, LateFailed, Late
<1>4. McpTypeOK'
  BY <1>2 DEF McpTypeOK, BusyPoll
<1>5. MarkerLeads'
  BY DEF McpInv, MarkerLeads, VersionOf
<1>6. ASSUME NEW j \in McpJobs, j # JobOf(p), NEW row \in McpRow, RowFine(j, row), Stand(j, row)
      PROVE  Stand(j, row)'
  BY <1>3, <1>6 DEF RowFine, Stand
<1>7. RowsStand'
  <2> SUFFICES ASSUME NEW j \in McpJobs
               PROVE  RowFine(j, mcpJob[j])' /\ ((mcpJob[j].phase # "FAILED")' => Stand(j, mcpJob[j])')
    BY DEF RowsStand
  <2>1. mcpJob[j] \in McpRow /\ RowFine(j, mcpJob[j])
        /\ (mcpJob[j].phase # "FAILED" => Stand(j, mcpJob[j]))
    BY <1>2 DEF McpInv, RowsStand, McpTypeOK
  <2>2. RowFine(j, mcpJob[j])'
    BY <2>1 DEF RowFine, Recording, Redeploying
  <2>3. (mcpJob[j].phase # "FAILED")' => Stand(j, mcpJob[j])'
    BY <1>3, <2>1 DEF RowFine, Stand
  <2> QED BY <2>2, <2>3
<1>8. PollFine(p)'
  <2>1. JobOf(p)' = JobOf(p) /\ CopyOf(p)' = r.copy /\ mcpPoll'[p] = r
    BY <1>2 DEF McpTypeOK, JobOf, CopyOf
  <2>2. RowFine(JobOf(p), CopyOf(p))'
    BY <1>2, <1>3, <2>1 DEF RowFine, Recording, Redeploying
  <2>3. LateFailed(p)' /\ CopyStands(p)'
    BY <1>3, <2>1 DEF LateFailed, CopyStands, MayCommit, Late, Redeploying
  <2>4. StepFine(p)' /\ MarkerFine(p)'
    BY <2>1 DEF StepFine, MarkerFine, Working
  <2> QED BY <2>2, <2>3, <2>4 DEF PollFine
<1>9. ASSUME NEW q \in McpProcs \ {p}
      PROVE  PollFine(q)'
  <2> SUFFICES ASSUME Busy(q)' PROVE PollFine(q)'
    BY DEF PollFine
  <2>1. mcpPoll'[q] = mcpPoll[q] /\ Busy(q)
    BY <1>2 DEF McpTypeOK, Busy
  <2>2. /\ mcpPoll[q] \in BusyPoll /\ PollFine(q) /\ JobOf(q) \in McpJobs
        /\ CopyOf(q) \in McpRow /\ RowFine(JobOf(q), CopyOf(q))
    BY <2>1, Entitled
  <2>3. JobOf(q)' = JobOf(q) /\ CopyOf(q)' = CopyOf(q)
    BY <2>1 DEF JobOf, CopyOf
  <2>4. RowFine(JobOf(q), CopyOf(q))'
    BY <2>2, <2>3 DEF RowFine, Recording, Redeploying
  <2>5. LateFailed(q)' /\ StepFine(q)' /\ MarkerFine(q)'
    BY <2>1, <2>2, <2>3 DEF PollFine, LateFailed, StepFine, MarkerFine, Recording, Redeploying, VersionOf
  <2>6. CopyStands(q)'
    <3>1. CASE JobOf(q) = JobOf(p)
      BY <1>3, <2>1, <2>2, <2>3, <3>1 DEF PollFine, CopyStands, MayCommit, Busy, Finished
    <3>2. CASE JobOf(q) # JobOf(p)
      BY <1>3, <2>1, <2>2, <2>3, <3>2 DEF PollFine, CopyStands, MayCommit, Busy, RowFine, Stand
    <3> QED BY <3>1, <3>2
  <2> QED BY <2>4, <2>5, <2>6 DEF PollFine
<1> QED BY <1>4, <1>5, <1>7, <1>8, <1>9 DEF McpInv

\* compensate_failure looks at the marker before it deletes.
LEMMA VerifySteps ==
  ASSUME McpInv, NEW p \in McpProcs, VerifyOwner(p) \/ VerifyFails(p)
  PROVE  McpInv'
<1>1. mcpPoll[p].pc = "verify" /\ Busy(p)
  BY DEF VerifyOwner, VerifyFails, AtStep, Busy
<1>2. mcpPoll[p] \in BusyPoll /\ PollFine(p) /\ McpTypeOK
  BY <1>1, Entitled DEF McpInv
<1>3. mcpPoll[p].k \in McpSlices
  BY <1>1, <1>2 DEF PollFine, StepFine
<1>4. PICK pc \in {"undo", "persist"} : Goes(p, pc, CopyOf(p))
  BY DEF VerifyOwner, VerifyFails
<1> DEFINE r == [mcpPoll[p] EXCEPT !.pc = pc, !.copy = CopyOf(p)]
<1>5. mcpPoll' = [mcpPoll EXCEPT ![p] = r]
  BY <1>2, <1>4 DEF Goes, McpTypeOK
<1>6. /\ r \in BusyPoll /\ r.pc = pc /\ r.job = JobOf(p) /\ r.copy = CopyOf(p)
      /\ r.k = mcpPoll[p].k
  BY <1>2 DEF BusyPoll, Steps, JobOf, CopyOf
<1>7. /\ UNCHANGED <<mcpCase, version, mcpJob, function, sliceTarget, records>>
      /\ mcpFaults' \in 0 .. MaxMcpFaults
      /\ sliceTarget' \in [McpSlices -> McpJobs \cup {"none", "standing"}]
  BY <1>2, FaultBound DEF VerifyOwner, VerifyFails, Elsewhere, McpTypeOK
<1> HIDE DEF r
<1> QED BY <1>1, <1>3, <1>5, <1>6, <1>7, UndoStep

\* compensate_failure deletes the Targets its copy created.
LEMMA DeleteSteps ==
  ASSUME McpInv, NEW p \in McpProcs, DeleteTarget(p) \/ DeleteFails(p)
  PROVE  McpInv'
<1> DEFINE k == mcpPoll[p].k
<1>1. mcpPoll[p].pc = "undo" /\ Busy(p)
  BY DEF DeleteTarget, DeleteFails, AtStep, Busy
<1>2. /\ mcpPoll[p] \in BusyPoll /\ PollFine(p) /\ JobOf(p) \in McpJobs
      /\ CopyOf(p) \in McpRow /\ McpTypeOK
  BY <1>1, Entitled DEF McpInv
<1>3. k \in McpSlices
  BY <1>1, <1>2 DEF PollFine, StepFine
<1>4. PICK state \in {"deleted", "created"} : Undone(p, state)
  BY DEF DeleteTarget, DeleteFails
<1> DEFINE c == [CopyOf(p) EXCEPT !.slice[k] = IF @ = "created" THEN state ELSE @]
           pc == IF k + 1 \in McpSlices THEN "undo" ELSE "persist"
           r == [mcpPoll[p] EXCEPT !.copy = c, !.k = k + 1, !.pc = pc]
<1>5. mcpPoll' = [mcpPoll EXCEPT ![p] = r]
  BY <1>2, <1>4 DEF Undone, CopyOf, McpTypeOK, BusyPoll
<1>6. /\ c \in McpRow /\ c.phase = CopyOf(p).phase /\ c.arn = CopyOf(p).arn
      /\ \A s \in McpSlices : c.slice[s] = "reused" => CopyOf(p).slice[s] = "reused"
  BY <1>2, <1>3 DEF McpRow, SliceStates
<1> HIDE DEF c
<1>7. k + 1 \in 1 .. 3 /\ pc \in {"undo", "persist"} /\ (pc = "undo" => k + 1 \in McpSlices)
  BY <1>3 DEF McpSlices
<1> HIDE DEF pc
<1>8. r \in BusyPoll /\ r.pc = pc /\ r.job = JobOf(p) /\ r.copy = c /\ r.k = k + 1
  BY <1>2, <1>6, <1>7 DEF BusyPoll, Steps, JobOf
<1> HIDE DEF r
<1>9. /\ UNCHANGED <<mcpCase, version, mcpJob, function, records>>
      /\ mcpFaults' \in 0 .. MaxMcpFaults
  BY <1>2, FaultBound DEF DeleteTarget, DeleteFails, Elsewhere
<1>10. /\ sliceTarget' \in [McpSlices -> McpJobs \cup {"none", "standing"}]
       /\ \A s \in McpSlices : sliceTarget'[s] = sliceTarget[s] \/ sliceTarget[s] = JobOf(p)
  <2>1. Removed(p) \/ UNCHANGED sliceTarget
    BY DEF DeleteTarget, DeleteFails
  <2> QED BY <1>2, <1>3, <2>1 DEF Removed, McpTypeOK
<1> QED BY <1>1, <1>5, <1>6, <1>7, <1>8, <1>9, <1>10, UndoStep

\* A process that dies leaves rows and copies as they are, but for the owner.
LEMMA DieStep ==
  ASSUME McpInv, NEW p \in McpProcs, ProcessDies(p)
  PROVE  McpInv'
<1> DEFINE orphaned(row) == [row EXCEPT !.owner = IF @ = p THEN "gone" ELSE @]
<1>1. McpTypeOK
  BY DEF McpInv
<1>2. ASSUME NEW row \in McpRow
      PROVE  /\ orphaned(row) \in McpRow /\ orphaned(row).phase = row.phase
             /\ orphaned(row).arn = row.arn /\ orphaned(row).slice = row.slice
  BY DEF McpRow
<1>3. /\ UNCHANGED <<mcpCase, version, function, sliceTarget, records>>
      /\ mcpFaults' \in 0 .. MaxMcpFaults
  BY <1>1, FaultBound DEF ProcessDies, Elsewhere
<1>4. \A j \in McpJobs : mcpJob[j] \in McpRow /\ mcpJob'[j] = orphaned(mcpJob[j])
  BY <1>1 DEF ProcessDies, McpTypeOK
<1>5. mcpJob' \in [McpJobs -> McpRow]
  BY <1>2, <1>4 DEF ProcessDies
<1>6. \A j \in McpJobs : /\ mcpJob'[j].phase = mcpJob[j].phase /\ mcpJob'[j].arn = mcpJob[j].arn
                         /\ mcpJob'[j].slice = mcpJob[j].slice
  BY <1>2, <1>4
<1>7. mcpPoll'[p] = [pc |-> "idle"]
  BY DEF ProcessDies, AtStep
<1>8. ASSUME NEW q \in McpProcs \ {p}
      PROVE  /\ mcpPoll'[q] \in IdlePoll \cup BusyPoll
             /\ \/ AtStep(q, "idle") /\ mcpPoll'[q] = mcpPoll[q]
                \/ /\ Busy(q) /\ JobOf(q)' = JobOf(q)
                   /\ CopyOf(q)'.phase = CopyOf(q).phase /\ CopyOf(q)'.arn = CopyOf(q).arn
                   /\ CopyOf(q)'.slice = CopyOf(q).slice
                   /\ mcpPoll'[q].pc = mcpPoll[q].pc /\ mcpPoll'[q].k = mcpPoll[q].k
                   /\ mcpPoll'[q].fresh = mcpPoll[q].fresh
                   /\ mcpPoll'[q].behind = mcpPoll[q].behind
  <2>1. CASE AtStep(q, "idle")
    <3>1. mcpPoll'[q] = mcpPoll[q]
      BY <2>1 DEF ProcessDies
    <3>2. mcpPoll[q] \in IdlePoll
      BY <1>1, <2>1 DEF McpTypeOK, AtStep, IdlePoll
    <3> QED BY <2>1, <3>1, <3>2
  <2>2. CASE ~ AtStep(q, "idle")
    <3> DEFINE c == orphaned(mcpPoll[q].copy)
    <3>1. Busy(q) /\ mcpPoll[q] \in BusyPoll
      BY <1>1, <2>2, BusyType DEF AtStep, Busy
    <3>2. mcpPoll'[q] = [mcpPoll[q] EXCEPT !.copy = c]
      BY <2>2 DEF ProcessDies
    <3>3. /\ c \in McpRow /\ c.phase = mcpPoll[q].copy.phase /\ c.arn = mcpPoll[q].copy.arn
          /\ c.slice = mcpPoll[q].copy.slice
      BY <1>2, <3>1 DEF BusyPoll
    <3> HIDE DEF c
    <3>4. /\ mcpPoll'[q] \in BusyPoll /\ mcpPoll'[q].copy = c
          /\ mcpPoll'[q].job = mcpPoll[q].job /\ mcpPoll'[q].pc = mcpPoll[q].pc
          /\ mcpPoll'[q].k = mcpPoll[q].k /\ mcpPoll'[q].fresh = mcpPoll[q].fresh
          /\ mcpPoll'[q].behind = mcpPoll[q].behind
      BY <3>1, <3>2, <3>3 DEF BusyPoll
    <3> QED BY <3>1, <3>3, <3>4 DEF JobOf, CopyOf
  <2> QED BY <2>1, <2>2
<1>9. mcpPoll' \in [McpProcs -> IdlePoll \cup BusyPoll]
  <2>1. \A q \in McpProcs : mcpPoll'[q] \in IdlePoll \cup BusyPoll
    BY <1>7, <1>8 DEF IdlePoll
  <2> QED BY <2>1 DEF ProcessDies
<1>10. McpTypeOK'
  BY <1>1, <1>3, <1>5, <1>9 DEF McpTypeOK, IdlePoll, BusyPoll
<1>11. MarkerLeads'
  BY <1>3 DEF McpInv, MarkerLeads, VersionOf
<1>12. RowsStand'
  BY <1>3, <1>6 DEF McpInv, RowsStand, RowFine, Stand, Recording, Redeploying
<1>13. PollFine(p)'
  BY <1>7 DEF PollFine, Busy
<1>14. ASSUME NEW q \in McpProcs \ {p}
       PROVE  PollFine(q)'
  <2> SUFFICES ASSUME Busy(q)' PROVE PollFine(q)'
    BY DEF PollFine
  <2>1. /\ Busy(q) /\ JobOf(q)' = JobOf(q)
        /\ CopyOf(q)'.phase = CopyOf(q).phase /\ CopyOf(q)'.arn = CopyOf(q).arn
        /\ CopyOf(q)'.slice = CopyOf(q).slice
        /\ mcpPoll'[q].pc = mcpPoll[q].pc /\ mcpPoll'[q].k = mcpPoll[q].k
        /\ mcpPoll'[q].fresh = mcpPoll[q].fresh /\ mcpPoll'[q].behind = mcpPoll[q].behind
    BY <1>8 DEF AtStep, Busy
  <2>2. PollFine(q) /\ JobOf(q) \in McpJobs
    BY <2>1, Entitled
  <2>3. RowFine(JobOf(q), CopyOf(q))'
    BY <1>3, <2>1, <2>2 DEF PollFine, RowFine, Recording, Redeploying
  <2>4. LateFailed(q)'
    BY <1>3, <1>6, <2>1, <2>2 DEF PollFine, LateFailed, Redeploying
  <2>5. CopyStands(q)'
    BY <1>3, <1>6, <2>1, <2>2 DEF PollFine, CopyStands, MayCommit, Busy, Stand
  <2>6. StepFine(q)'
    BY <1>3, <2>1, <2>2 DEF PollFine, StepFine, Recording, Redeploying
  <2>7. MarkerFine(q)'
    BY <1>3, <2>1, <2>2 DEF PollFine, MarkerFine, VersionOf
  <2> QED BY <2>3, <2>4, <2>5, <2>6, <2>7 DEF PollFine
<1> QED BY <1>10, <1>11, <1>12, <1>13, <1>14 DEF McpInv

-----------------------------------------------------------------------------
(* The theorems.                                                           *)

\* Every step of advance, of a commit and of a compensation keeps the invariant.
LEMMA InvStep == McpInv /\ [McpNext]_mcpVars => McpInv'
<1> SUFFICES ASSUME McpInv, [McpNext]_mcpVars PROVE McpInv'
  OBVIOUS
<1>1. CASE UNCHANGED mcpVars
  <2>1. McpTypeOK'
    BY <1>1 DEF McpInv, McpTypeOK, mcpVars
  <2>2. /\ mcpCase' = mcpCase /\ version' = version /\ mcpJob' = mcpJob
        /\ function' = function /\ sliceTarget' = sliceTarget /\ records' = records
        /\ mcpPoll' = mcpPoll
    BY <1>1 DEF mcpVars
  <2>3. ASSUME NEW j \in McpJobs, NEW row PROVE Stand(j, row)' = Stand(j, row)
    BY <2>2 DEF Stand
  <2>4. ASSUME NEW j \in McpJobs, NEW row, RowFine(j, row) PROVE RowFine(j, row)'
    BY <2>2, <2>4 DEF RowFine, Recording, Redeploying
  <2>5. RowsStand'
    BY <2>2, <2>3, <2>4 DEF McpInv, RowsStand
  <2>6. MarkerLeads'
    BY <2>2 DEF McpInv, MarkerLeads, VersionOf
  <2>7. ASSUME NEW p \in McpProcs PROVE PollFine(p)'
    <3>1. PollFine(p)
      BY DEF McpInv
    <3>2. Busy(p)' => Busy(p)
      BY <2>2 DEF Busy
    <3>3. Busy(p) => RowFine(JobOf(p), CopyOf(p))'
      BY <2>2, <3>1 DEF PollFine, RowFine, Recording, Redeploying, JobOf, CopyOf
    <3>4. LateFailed(p) => LateFailed(p)'
      BY <2>2 DEF LateFailed, Redeploying, JobOf, CopyOf
    <3>5. CopyStands(p) => CopyStands(p)'
      BY <2>2 DEF CopyStands, MayCommit, Busy, Stand, JobOf, CopyOf
    <3>6. StepFine(p) => StepFine(p)'
      <4>1. CopyOf(p)' = CopyOf(p) /\ JobOf(p)' = JobOf(p)
        BY <2>2 DEF CopyOf, JobOf
      <4>2. Recording(JobOf(p)) => Recording(JobOf(p))'
        BY <2>2, <4>1 DEF Recording, Redeploying
      <4>3. QED
        BY <2>2, <4>1, <4>2 DEF StepFine
    <3>7. MarkerFine(p) => MarkerFine(p)'
      BY <2>2 DEF MarkerFine, JobOf, VersionOf
    <3>8. QED
      BY <3>1, <3>2, <3>3, <3>4, <3>5, <3>6, <3>7 DEF PollFine
  <2>8. QED
    BY <2>1, <2>5, <2>6, <2>7 DEF McpInv
<1>2. CASE McpNext
  <2>1. PICK p \in McpProcs :
          \/ \E j \in McpJobs : StartPoll(p, j)
          \/ StartBuild(p) \/ StillWaits(p) \/ BuildFails(p)
          \/ CreateLambda(p) \/ ExamineLambda(p) \/ ConfigureLambda(p)
          \/ SettleLambda(p) \/ UpdateCode(p) \/ LambdaFails(p)
          \/ WireTarget(p) \/ WireFails(p)
          \/ CheckTargets(p) \/ TargetFails(p)
          \/ RegisterRecord(p) \/ RegisterFails(p)
          \/ ProvisionPolicy(p) \/ PolicyFails(p)
          \/ Claim(p) \/ ClaimUnseen(p)
          \/ VerifyOwner(p) \/ VerifyFails(p)
          \/ DeleteTarget(p) \/ DeleteFails(p) \/ PersistUndone(p)
          \/ PollRaises(p) \/ ProcessDies(p)
    BY <1>2 DEF McpNext
  <2> QED BY <2>1, StartSteps, ComputeSteps, FunctionSteps, LambdaFailsStep, WireSteps,
       RegisterSteps, CommitSteps, VerifySteps, DeleteSteps, DieStep
<1> QED BY <1>1, <1>2

\* Of the polls of one MCP server name (deploy/jobs.py poll): whoever may still
\* commit an outcome works on an unfinished job whose Targets stand, whoever
\* compensates does so for a stored failure, and the function's marker is
\* never older than its code.
THEOREM DeployInvariant == McpSpec => []McpInv
BY InvInit, InvStep, PTL DEF McpSpec

\* What a deployment that ended READY stands on exists (jobs.py advance and
\* compensate_failure): neither a rival that fails nor an executor that lost
\* its claim takes it away.
THEOREM ReadyStaysServed == McpSpec => []ReadyIsServed
<1>1. McpInv => ReadyIsServed
  BY DEF McpInv, RowsStand, RowFine, Recording, ReadyIsServed
<1> QED BY <1>1, DeployInvariant, PTL

\* Who touches which Targets.
LEMMA RemovesOwn ==
  ASSUME McpInv, NEW p \in McpProcs, Busy(p), NEW s \in McpSlices,
         \/ Stands(JobOf(p), mcpPoll[p].k)
         \/ Removed(p) /\ mcpPoll[p].pc = "undo"
         \/ UNCHANGED sliceTarget,
         sliceTarget[s] # "none", sliceTarget'[s] # sliceTarget[s]
  PROVE  sliceTarget[s] \in McpJobs /\ mcpJob[sliceTarget[s]].phase = "FAILED"
<1>1. sliceTarget \in [McpSlices -> McpJobs \cup {"none", "standing"}]
  BY DEF McpInv, McpTypeOK
<1>2. Removed(p) /\ mcpPoll[p].pc = "undo"
  BY <1>1 DEF Stands
<1>3. sliceTarget[s] = JobOf(p)
  BY <1>1, <1>2 DEF Removed
<1>4. PollFine(p) /\ JobOf(p) \in McpJobs
  BY Entitled
<1> QED BY <1>2, <1>3, <1>4 DEF PollFine, LateFailed, Late

\* A Target is removed only on behalf of a job that is stored as FAILED: the
\* claim comes before compensate_failure, in every interleaving of the polls.
THEOREM UndoneLate == McpSpec => UndoneAfterClaim
<1> DEFINE A == \A s \in McpSlices :
       sliceTarget[s] # "none" /\ sliceTarget'[s] # sliceTarget[s]
         => sliceTarget[s] \in McpJobs /\ mcpJob[sliceTarget[s]].phase = "FAILED"
<1>1. McpInv /\ [McpNext]_mcpVars => A
  <2> SUFFICES ASSUME McpInv, McpNext, NEW s \in McpSlices,
                      sliceTarget[s] # "none", sliceTarget'[s] # sliceTarget[s]
               PROVE  sliceTarget[s] \in McpJobs /\ mcpJob[sliceTarget[s]].phase = "FAILED"
    BY DEF mcpVars
  <2>1. PICK p \in McpProcs : WireTarget(p) \/ WireFails(p) \/ DeleteTarget(p) \/ DeleteFails(p)
    BY DEF McpNext, StartPoll, StartBuild, StillWaits, BuildFails, CreateLambda, ExamineLambda,
       ConfigureLambda, SettleLambda, UpdateCode, LambdaFails, CheckTargets, TargetFails,
       RegisterRecord, RegisterFails, ProvisionPolicy, PolicyFails, Claim, ClaimUnseen,
       VerifyOwner, VerifyFails, PersistUndone, PollRaises, ProcessDies
  <2>2. /\ Busy(p)
        /\ \/ Stands(JobOf(p), mcpPoll[p].k)
           \/ Removed(p) /\ mcpPoll[p].pc = "undo"
           \/ UNCHANGED sliceTarget
    BY <2>1 DEF WireTarget, WireFails, DeleteTarget, DeleteFails, AtStep, Busy
  <2> QED BY <2>2, RemovesOwn
<1>2. McpInv /\ [McpNext]_mcpVars => [A]_mcpVars
  BY <1>1
<1> QED BY <1>2, DeployInvariant, PTL DEF McpSpec, UndoneAfterClaim

\* The marker never goes back to an older version.
LEMMA MarkGrows ==
  ASSUME McpInv, McpNext
  PROVE  VersionOf(function.mark) <= VersionOf(function'.mark)
<1>1. function.mark \in McpJobs \cup {"none", "standing"} /\ VersionOf(function.mark) \in Nat
  BY DEF McpInv, McpTypeOK, VersionOf
<1>2. CASE function'.mark = function.mark
  BY <1>1, <1>2
<1>3. ASSUME NEW p \in McpProcs, Busy(p), function'.mark = JobOf(p),
             \/ function.mark = "none"
             \/ mcpPoll[p].pc = "examined" /\ mcpPoll[p].fresh
      PROVE  VersionOf(function.mark) <= VersionOf(function'.mark)
  <2>1. /\ PollFine(p) /\ VersionOf(JobOf(p)) = version[JobOf(p)] /\ version[JobOf(p)] \in 2 .. 3
        /\ function.mark = "none" => VersionOf(function.mark) = 1
    BY <1>3, Entitled
  <2>2. VersionOf(function.mark) <= version[JobOf(p)]
    BY <1>1, <1>3, <2>1 DEF PollFine, MarkerFine
  <2> QED BY <1>3, <2>1, <2>2
<1>4. CASE function'.mark # function.mark
  <2>1. PICK p \in McpProcs :
          CreateLambda(p) \/ ConfigureLambda(p) \/ UpdateCode(p) \/ LambdaFails(p)
    BY <1>4 DEF McpNext, StartPoll, StartBuild, StillWaits, BuildFails, ExamineLambda,
       SettleLambda, CheckTargets, TargetFails, WireTarget, WireFails, DeleteTarget, DeleteFails,
       RegisterRecord, RegisterFails, ProvisionPolicy, PolicyFails, Claim, ClaimUnseen,
       VerifyOwner, VerifyFails, PersistUndone, PollRaises, ProcessDies
  <2>2. function = [mark |-> function.mark, code |-> function.code]
    BY DEF McpInv, McpTypeOK
  <2>3. /\ Busy(p) /\ function'.mark = JobOf(p)
        /\ \/ function.mark = "none"
           \/ mcpPoll[p].pc = "examined" /\ mcpPoll[p].fresh
    BY <1>4, <2>1, <2>2 DEF CreateLambda, ConfigureLambda, UpdateCode, LambdaFails, InPhase,
       AtStep, Busy, Unchanged
  <2> QED BY <1>3, <2>3
<1> QED BY <1>2, <1>4

\* Newer code gives way to older code only under the marker of a newer job:
\* the configuration update at the revision read with the marker
\* (aws_adapter.py) closes every other crossing of two updates.
THEOREM OlderOnlyUnderNewer == McpSpec => OlderUnderNewerMark
<1> DEFINE A == VersionOf(function'.code) < VersionOf(function.code)
                  => VersionOf(function'.mark) > VersionOf(function'.code)
<1>1. McpInv /\ [McpNext]_mcpVars => [A]_mcpVars
  <2> SUFFICES ASSUME McpInv, McpNext PROVE A
    OBVIOUS
  <2>1. /\ VersionOf(function.code) \in Nat /\ VersionOf(function.mark) \in Nat
        /\ VersionOf(function'.code) \in Nat /\ VersionOf(function'.mark) \in Nat
    <3>1. McpTypeOK /\ McpTypeOK'
      BY InvStep DEF McpInv
    <3> QED BY <3>1 DEF McpTypeOK, VersionOf
  <2>2. VersionOf(function.code) <= VersionOf(function.mark)
    BY DEF McpInv, MarkerLeads
  <2> QED BY <2>1, <2>2, MarkGrows
<1> QED BY <1>1, DeployInvariant, PTL DEF McpSpec, OlderUnderNewerMark

-----------------------------------------------------------------------------
(* What the ledger promises.                                               *)

\* The copy of a poll is in the phase of its row while the poll computes, and
\* in the same, the next or a failed one when it claims.
Follows(p) ==
  /\ mcpPoll[p].pc \in {"examined", "configured", "settled", "wire"}
       => CopyOf(p).phase = "BUILDING"
  /\ ~ mcpPoll[p].behind =>
       /\ mcpPoll[p].pc \in Working => CopyOf(p).phase = mcpJob[JobOf(p)].phase
       /\ mcpPoll[p].pc = "claim" =>
            \/ CopyOf(p).phase \in {mcpJob[JobOf(p)].phase, "FAILED"}
            \/ <<mcpJob[JobOf(p)].phase, CopyOf(p).phase>> \in McpAdvances

CopiesFollow == \A p \in McpProcs : Busy(p) => Follows(p)

\* The poll of q is as it was, but for what it read of the function.
Untouched(q) ==
  \/ mcpPoll'[q] = mcpPoll[q]
  \/ Busy(q) /\ mcpPoll'[q] = [mcpPoll[q] EXCEPT !.fresh = FALSE]

\* While no row changes, an untouched poll still follows its row.
LEMMA UntouchedFollows ==
  ASSUME McpInv, CopiesFollow, UNCHANGED mcpJob, NEW q \in McpProcs, Untouched(q), Busy(q)'
  PROVE  Follows(q)'
<1>1. Busy(q) /\ mcpPoll[q] \in BusyPoll
  <2>1. Busy(q) BY DEF Untouched, Busy
  <2> QED BY <2>1, BusyType DEF McpInv
<1>2. /\ mcpPoll'[q].pc = mcpPoll[q].pc /\ mcpPoll'[q].behind = mcpPoll[q].behind
      /\ mcpPoll'[q].job = mcpPoll[q].job /\ mcpPoll'[q].copy = mcpPoll[q].copy
  BY <1>1 DEF Untouched, BusyPoll
<1>3. Follows(q)
  BY <1>1 DEF CopiesFollow
<1> QED BY <1>2, <1>3 DEF Follows, JobOf, CopyOf

\* A step of p that writes no row: it computes on in the phase of its copy,
\* claims a next one, or compensates.
LEMMA FollowStep ==
  ASSUME McpInv, CopiesFollow, NEW p \in McpProcs, Busy(p), NEW r \in BusyPoll,
         mcpPoll'[p] = r, r.job = JobOf(p), r.behind = mcpPoll[p].behind,
         UNCHANGED mcpJob,
         \A q \in McpProcs \ {p} : Untouched(q),
         r.pc \in {"examined", "configured", "settled", "wire"} => r.copy.phase = "BUILDING",
         \/ r.pc \in Late
         \/ /\ r.pc \in Working /\ mcpPoll[p].pc \in Working
            /\ r.copy.phase = CopyOf(p).phase
         \/ /\ r.pc = "claim" /\ mcpPoll[p].pc \in Working
            /\ \/ r.copy.phase \in {CopyOf(p).phase, "FAILED"}
               \/ <<CopyOf(p).phase, r.copy.phase>> \in McpAdvances
  PROVE  CopiesFollow'
<1>1. JobOf(p)' = r.job /\ CopyOf(p)' = r.copy
  BY DEF JobOf, CopyOf
<1>2. Follows(p)
  BY DEF CopiesFollow
<1>3. Follows(p)'
  BY <1>1, <1>2 DEF Follows, Late, Working
<1> QED BY <1>3, UntouchedFollows DEF CopiesFollow

\* Goes, and what goes with it, touches no other poll.
LEMMA GoesFollows ==
  ASSUME McpInv, CopiesFollow, NEW p \in McpProcs, Busy(p),
         NEW pc \in {"register", "policy", "claim", "undo", "persist"},
         NEW c \in McpRow, Goes(p, pc, c), UNCHANGED mcpJob,
         \/ pc \in Late
         \/ /\ pc \in {"register", "policy"} /\ mcpPoll[p].pc \in Working
            /\ c.phase = CopyOf(p).phase
         \/ /\ pc = "claim" /\ mcpPoll[p].pc \in Working
            /\ \/ c.phase \in {CopyOf(p).phase, "FAILED"}
               \/ <<CopyOf(p).phase, c.phase>> \in McpAdvances
  PROVE  CopiesFollow'
<1> DEFINE r == [mcpPoll[p] EXCEPT !.pc = pc, !.copy = c]
<1>1. mcpPoll[p] \in BusyPoll /\ McpTypeOK
  BY BusyType DEF McpInv
<1>2. /\ r \in BusyPoll /\ r.job = JobOf(p) /\ r.behind = mcpPoll[p].behind
      /\ r.pc = pc /\ r.copy = c
  BY <1>1 DEF BusyPoll, Steps, JobOf
<1>3. mcpPoll'[p] = r /\ \A q \in McpProcs \ {p} : Untouched(q)
  BY <1>1 DEF Goes, McpTypeOK, Untouched
<1> HIDE DEF r
<1> QED BY <1>2, <1>3, FollowStep DEF Working

\* A poll that fails its job claims a failure.
LEMMA FailFollows ==
  ASSUME McpInv, CopiesFollow, NEW p \in McpProcs, mcpPoll[p].pc \in Working,
         FailsJob(p), UNCHANGED mcpJob
  PROVE  CopiesFollow'
<1> DEFINE c == [CopyOf(p) EXCEPT !.phase = "FAILED"]
<1>1. Busy(p) /\ CopyOf(p) \in McpRow
  <2>1. Busy(p) BY DEF Busy, Working
  <2> QED BY <2>1, Entitled
<1>2. c \in McpRow /\ c.phase = "FAILED"
  BY <1>1 DEF McpRow, McpPhases
<1>3. Goes(p, "claim", c)
  BY DEF FailsJob
<1> HIDE DEF c
<1> QED BY <1>1, <1>2, <1>3, GoesFollows

\* A poll that leaves follows nothing any more.
LEMMA LeaveFollows ==
  ASSUME McpInv, CopiesFollow, NEW p \in McpProcs, Leaves(p), UNCHANGED mcpJob
  PROVE  CopiesFollow'
<1>1. ~ Busy(p)' /\ \A q \in McpProcs \ {p} : Untouched(q)
  BY DEF Leaves, McpInv, McpTypeOK, Busy, Untouched
<1> QED BY <1>1, UntouchedFollows DEF CopiesFollow

\* The steps of advance that call neither the function nor a Target for writing,
\* and those of a compensation.
LEMMA ComputeFollows ==
  ASSUME McpInv, CopiesFollow, NEW p \in McpProcs,
         \/ StartBuild(p) \/ StillWaits(p) \/ BuildFails(p) \/ CheckTargets(p)
         \/ TargetFails(p) \/ RegisterRecord(p) \/ RegisterFails(p)
         \/ ProvisionPolicy(p) \/ PolicyFails(p) \/ VerifyOwner(p) \/ VerifyFails(p)
  PROVE  CopiesFollow'
<1>1. Busy(p) /\ UNCHANGED mcpJob
  BY DEF StartBuild, StillWaits, BuildFails, CheckTargets, TargetFails, RegisterRecord,
     RegisterFails, ProvisionPolicy, PolicyFails, VerifyOwner, VerifyFails, InPhase, AtStep, Busy
<1>2. CopyOf(p) \in McpRow /\ PollFine(p)
  BY <1>1, Entitled
<1>3. CASE FailsJob(p)
  <2>1. mcpPoll[p].pc \in Working \/ VerifyOwner(p) \/ VerifyFails(p)
    BY DEF StartBuild, StillWaits, BuildFails, CheckTargets, TargetFails, RegisterRecord,
       RegisterFails, ProvisionPolicy, PolicyFails, InPhase, AtStep, Working
  <2>2. CASE mcpPoll[p].pc \in Working
    BY <1>1, <1>3, <2>2, FailFollows
  <2>3. CASE VerifyOwner(p) \/ VerifyFails(p)
    <3>1. PICK pc \in {"undo", "persist"} : Goes(p, pc, CopyOf(p))
      BY <2>3 DEF VerifyOwner, VerifyFails
    <3> QED BY <1>1, <1>2, <3>1, GoesFollows DEF Late
  <2> QED BY <2>1, <2>2, <2>3
<1>4. CASE StartBuild(p)
  <2> DEFINE c == [CopyOf(p) EXCEPT !.phase = "BUILDING"]
  <2>1. c \in McpRow /\ c.phase = "BUILDING"
    BY <1>2 DEF McpRow, McpPhases
  <2>2. Goes(p, "claim", c) /\ CopyOf(p).phase = "QUEUED" /\ mcpPoll[p].pc \in Working
    BY <1>4 DEF StartBuild, InPhase, AtStep, Working
  <2> HIDE DEF c
  <2>3. <<CopyOf(p).phase, c.phase>> \in McpAdvances
    BY <2>1, <2>2 DEF McpAdvances
  <2> QED BY <1>1, <2>1, <2>2, <2>3, GoesFollows
<1>5. CASE StillWaits(p)
  <2>1. Goes(p, "claim", CopyOf(p)) /\ mcpPoll[p].pc \in Working
    BY <1>5 DEF StillWaits, InPhase, AtStep, Working
  <2> QED BY <1>1, <1>2, <2>1, GoesFollows
<1>6. CASE ProvisionPolicy(p)
  <2> DEFINE c == [CopyOf(p) EXCEPT !.phase = "READY"]
  <2>1. c \in McpRow /\ c.phase = "READY"
    BY <1>2 DEF McpRow, McpPhases
  <2>2. Goes(p, "claim", c) /\ mcpPoll[p].pc = "policy"
    BY <1>6 DEF ProvisionPolicy, AtStep
  <2>3. CopyOf(p).phase = "REGISTERING_TARGET"
    BY <1>1, <1>2, <2>2 DEF PollFine, StepFine
  <2> HIDE DEF c
  <2>4. <<CopyOf(p).phase, c.phase>> \in McpAdvances
    BY <2>1, <2>3 DEF McpAdvances
  <2> QED BY <1>1, <2>1, <2>2, <2>4, GoesFollows DEF Working
<1>7. CASE Goes(p, "register", CopyOf(p)) /\ CheckTargets(p)
  BY <1>1, <1>2, <1>7, GoesFollows DEF CheckTargets, InPhase, AtStep, Working
<1>8. CASE Goes(p, "policy", CopyOf(p)) /\ RegisterRecord(p)
  BY <1>1, <1>2, <1>8, GoesFollows DEF RegisterRecord, AtStep, Working
<1>9. CASE VerifyOwner(p) \/ VerifyFails(p)
  <2>1. PICK pc \in {"undo", "persist"} : Goes(p, pc, CopyOf(p))
    BY <1>9 DEF VerifyOwner, VerifyFails
  <2> QED BY <1>1, <1>2, <2>1, GoesFollows DEF Late
<1> QED BY <1>3, <1>4, <1>5, <1>6, <1>7, <1>8, <1>9
     DEF BuildFails, CheckTargets, TargetFails, RegisterRecord, RegisterFails, PolicyFails

\* A write of the function moves its poll on within its phase, or fails its job.
LEMMA WroteFollows ==
  ASSUME McpInv, CopiesFollow, NEW p \in McpProcs, mcpPoll[p].pc \in Working,
         NEW pc \in {"configured", "wire", "claim"}, NEW c \in McpRow, Wrote(p, pc, c),
         UNCHANGED mcpJob,
         pc = "claim" => c.phase = "FAILED",
         pc # "claim" => c.phase = CopyOf(p).phase /\ CopyOf(p).phase = "BUILDING"
  PROVE  CopiesFollow'
<1>1. Busy(p) /\ McpTypeOK
  BY DEF Busy, Working, McpInv
<1>2. /\ mcpPoll'[p] \in BusyPoll
      /\ JobOf(p)' = JobOf(p) /\ CopyOf(p)' = c /\ mcpPoll'[p].pc = pc
      /\ mcpPoll'[p].behind = mcpPoll[p].behind
      /\ \A q \in McpProcs \ {p} : Untouched(q)
  BY <1>1, WroteShape DEF Untouched
<1>3. mcpPoll'[p].job = JobOf(p) /\ mcpPoll'[p].copy = c
  BY <1>2 DEF JobOf, CopyOf
<1> QED BY <1>1, <1>2, <1>3, FollowStep DEF Working

\* A read of the function only moves its poll on.
LEMMA ReadFollows ==
  ASSUME McpInv, CopiesFollow, NEW p \in McpProcs, mcpPoll[p].pc \in Working,
         NEW pc \in {"examined", "settled"},
         mcpPoll' = [mcpPoll EXCEPT ![p].pc = pc, ![p].fresh = TRUE],
         UNCHANGED mcpJob, CopyOf(p).phase = "BUILDING"
  PROVE  CopiesFollow'
<1> DEFINE r == [mcpPoll[p] EXCEPT !.pc = pc, !.fresh = TRUE]
<1>1. Busy(p) /\ McpTypeOK /\ mcpPoll[p] \in BusyPoll
  BY BusyType DEF Busy, Working, McpInv
<1>2. /\ r \in BusyPoll /\ r.pc = pc /\ r.copy = CopyOf(p) /\ r.job = JobOf(p)
      /\ r.behind = mcpPoll[p].behind
  BY <1>1 DEF BusyPoll, Steps, JobOf, CopyOf
<1>3. mcpPoll'[p] = r /\ \A q \in McpProcs \ {p} : Untouched(q)
  BY <1>1 DEF McpTypeOK, Untouched
<1> HIDE DEF r
<1> QED BY <1>1, <1>2, <1>3, FollowStep DEF Working

\* The steps on the function.
LEMMA FunctionFollows ==
  ASSUME McpInv, CopiesFollow, NEW p \in McpProcs,
         \/ CreateLambda(p) \/ ExamineLambda(p) \/ ConfigureLambda(p)
         \/ SettleLambda(p) \/ UpdateCode(p) \/ LambdaFails(p)
  PROVE  CopiesFollow'
<1>1. mcpPoll[p].pc \in Working /\ Busy(p) /\ UNCHANGED mcpJob
  BY DEF CreateLambda, ExamineLambda, ConfigureLambda, SettleLambda, UpdateCode, LambdaFails,
     InPhase, AtStep, Busy, Working
<1>2. CopyOf(p) \in McpRow /\ Follows(p)
  BY <1>1, Entitled DEF CopiesFollow
<1>3. CopyOf(p).phase = "BUILDING"
  BY <1>2 DEF CreateLambda, ExamineLambda, ConfigureLambda, SettleLambda, UpdateCode,
     LambdaFails, InPhase, AtStep, Follows
<1>4. CASE FailsJob(p)
  BY <1>1, <1>4, FailFollows
<1>5. ASSUME NEW c \in McpRow, Wrote(p, "claim", c), c.phase = "FAILED"
      PROVE  CopiesFollow'
  BY <1>1, <1>5, WroteFollows
<1>6. ASSUME NEW c \in McpRow, c.phase = CopyOf(p).phase,
             Wrote(p, "wire", c) \/ Wrote(p, "configured", c)
      PROVE  CopiesFollow'
  BY <1>1, <1>3, <1>6, WroteFollows
<1>7. [CopyOf(p) EXCEPT !.phase = "FAILED"] \in McpRow
      /\ [CopyOf(p) EXCEPT !.phase = "FAILED"].phase = "FAILED"
  BY <1>2 DEF McpRow, McpPhases
<1>8. [CopyOf(p) EXCEPT !.arn = TRUE, !.owner = p] \in McpRow
      /\ [CopyOf(p) EXCEPT !.arn = TRUE, !.owner = p].phase = CopyOf(p).phase
  BY <1>2 DEF McpRow
<1>9. [CopyOf(p) EXCEPT !.arn = TRUE] \in McpRow
      /\ [CopyOf(p) EXCEPT !.arn = TRUE].phase = CopyOf(p).phase
  BY <1>2 DEF McpRow
<1>10. CASE CreateLambda(p)
  <2>1. Wrote(p, "wire", [CopyOf(p) EXCEPT !.arn = TRUE, !.owner = p])
    BY <1>10 DEF CreateLambda
  <2> QED BY <1>6, <1>8, <2>1
<1>11. CASE ExamineLambda(p)
  <2>1. CASE mcpPoll' = [mcpPoll EXCEPT ![p].pc = "examined", ![p].fresh = TRUE]
    BY <1>1, <1>3, <2>1, ReadFollows
  <2> QED BY <1>4, <1>11, <2>1 DEF ExamineLambda
<1>12. CASE SettleLambda(p)
  BY <1>1, <1>3, <1>12, ReadFollows DEF SettleLambda
<1>13. CASE ConfigureLambda(p)
  <2>1. Wrote(p, "configured", CopyOf(p)) \/ FailsJob(p)
    BY <1>13 DEF ConfigureLambda
  <2> QED BY <1>2, <1>4, <1>6, <2>1
<1>14. CASE UpdateCode(p)
  <2>1. Wrote(p, "wire", [CopyOf(p) EXCEPT !.arn = TRUE]) \/ FailsJob(p)
    BY <1>14 DEF UpdateCode
  <2> QED BY <1>4, <1>6, <1>9, <2>1
<1>15. CASE LambdaFails(p)
  <2>1. FailsJob(p) \/ Wrote(p, "claim", [CopyOf(p) EXCEPT !.phase = "FAILED"])
    BY <1>15 DEF LambdaFails
  <2> QED BY <1>4, <1>5, <1>7, <2>1
<1> QED BY <1>10, <1>11, <1>12, <1>13, <1>14, <1>15

\* A slice is settled: the poll stays where it is, or the last one decides.
LEMMA WireFollows ==
  ASSUME McpInv, CopiesFollow, NEW p \in McpProcs, WireTarget(p) \/ WireFails(p)
  PROVE  CopiesFollow'
<1> DEFINE k == mcpPoll[p].k
<1>1. mcpPoll[p].pc = "wire" /\ Busy(p) /\ UNCHANGED mcpJob /\ McpTypeOK
  BY DEF WireTarget, WireFails, AtStep, Busy, McpInv
<1>2. mcpPoll[p] \in BusyPoll /\ PollFine(p) /\ JobOf(p) \in McpJobs /\ CopyOf(p) \in McpRow
  BY <1>1, Entitled
<1>3. k \in McpSlices /\ CopyOf(p).phase = "BUILDING"
  BY <1>1, <1>2 DEF PollFine, StepFine, CopiesFollow, Follows
<1>4. PICK state \in SliceStates : SliceDone(p, state)
  <2>1. Wired(JobOf(p), k) \in SliceStates /\ "failed" \in SliceStates
    BY DEF Wired, SliceStates
  <2> QED BY <2>1 DEF WireTarget, WireFails
<1> DEFINE c == [CopyOf(p) EXCEPT !.slice[k] = state]
           failed == \E s \in McpSlices : c.slice[s] = "failed"
           d == [c EXCEPT !.phase = IF failed THEN "FAILED" ELSE "REGISTERING_TARGET"]
<1>5. c \in McpRow /\ c.phase = "BUILDING"
  BY <1>2, <1>3 DEF McpRow
<1>6. CASE k + 1 \in McpSlices
  <2> DEFINE r == [mcpPoll[p] EXCEPT !.copy = c, !.k = k + 1]
  <2>1. mcpPoll'[p] = r /\ \A q \in McpProcs \ {p} : Untouched(q)
    BY <1>1, <1>4, <1>6 DEF SliceDone, McpTypeOK, Untouched
  <2>2. k + 1 \in 1 .. 3
    BY <1>6 DEF McpSlices
  <2> HIDE DEF c
  <2>3. r \in BusyPoll /\ r.pc = "wire" /\ r.copy = c /\ r.job = JobOf(p)
        /\ r.behind = mcpPoll[p].behind
    BY <1>1, <1>2, <1>5, <2>2 DEF BusyPoll, JobOf
  <2> HIDE DEF r
  <2> QED BY <1>1, <1>3, <1>5, <2>1, <2>3, FollowStep DEF Working
<1>7. CASE k + 1 \notin McpSlices
  <2>1. Goes(p, "claim", d)
    BY <1>4, <1>7 DEF SliceDone
  <2> HIDE DEF failed, c
  <2>2. d \in McpRow /\ d.phase \in {"FAILED", "REGISTERING_TARGET"}
    BY <1>5 DEF McpRow, McpPhases
  <2> HIDE DEF d
  <2>3. d.phase = "FAILED" \/ <<CopyOf(p).phase, d.phase>> \in McpAdvances
    BY <1>3, <2>2 DEF McpAdvances
  <2> QED BY <1>1, <2>1, <2>2, <2>3, GoesFollows DEF Working
<1> QED BY <1>6, <1>7

\* A poll that compensates goes on compensating.
LEMMA DeleteFollows ==
  ASSUME McpInv, CopiesFollow, NEW p \in McpProcs, DeleteTarget(p) \/ DeleteFails(p)
  PROVE  CopiesFollow'
<1> DEFINE k == mcpPoll[p].k
<1>1. mcpPoll[p].pc = "undo" /\ Busy(p) /\ UNCHANGED mcpJob /\ McpTypeOK
  BY DEF DeleteTarget, DeleteFails, AtStep, Busy, McpInv
<1>2. mcpPoll[p] \in BusyPoll /\ PollFine(p) /\ CopyOf(p) \in McpRow
  BY <1>1, Entitled
<1>3. k \in McpSlices
  BY <1>1, <1>2 DEF PollFine, StepFine
<1>4. PICK state \in {"deleted", "created"} : Undone(p, state)
  BY DEF DeleteTarget, DeleteFails
<1> DEFINE c == [CopyOf(p) EXCEPT !.slice[k] = IF @ = "created" THEN state ELSE @]
           pc == IF k + 1 \in McpSlices THEN "undo" ELSE "persist"
           r == [mcpPoll[p] EXCEPT !.copy = c, !.k = k + 1, !.pc = pc]
<1>5. mcpPoll' = [mcpPoll EXCEPT ![p] = r]
  BY <1>1, <1>2, <1>4 DEF Undone, CopyOf, McpTypeOK, BusyPoll
<1>6. c \in McpRow
  BY <1>2, <1>3 DEF McpRow, SliceStates
<1> HIDE DEF c
<1>7. k + 1 \in 1 .. 3 /\ pc \in {"undo", "persist"}
  BY <1>3 DEF McpSlices
<1> HIDE DEF pc
<1>8. r \in BusyPoll /\ r.pc = pc /\ r.job = JobOf(p) /\ r.behind = mcpPoll[p].behind
  BY <1>2, <1>6, <1>7 DEF BusyPoll, Steps, JobOf
<1> HIDE DEF r
<1>9. mcpPoll'[p] = r /\ \A q \in McpProcs \ {p} : Untouched(q)
  BY <1>1, <1>5 DEF McpTypeOK, Untouched
<1> QED BY <1>1, <1>7, <1>8, <1>9, FollowStep DEF Late

\* A poll that starts has the row for its copy.
LEMMA StartFollows ==
  ASSUME McpInv, CopiesFollow, NEW p \in McpProcs, NEW j \in McpJobs, StartPoll(p, j)
  PROVE  CopiesFollow'
<1>1. /\ mcpPoll'[p] = [pc |-> "loaded", job |-> j, copy |-> mcpJob[j],
                        behind |-> FALSE, fresh |-> FALSE, k |-> 1]
      /\ \A q \in McpProcs \ {p} : Untouched(q)
      /\ UNCHANGED mcpJob
  BY DEF StartPoll, McpInv, McpTypeOK, Untouched
<1>2. JobOf(p)' = j /\ CopyOf(p)' = mcpJob[j] /\ mcpPoll'[p].pc = "loaded"
  BY <1>1 DEF JobOf, CopyOf
<1>3. Follows(p)'
  BY <1>1, <1>2 DEF Follows
<1> QED BY <1>1, <1>3, UntouchedFollows DEF CopiesFollow

\* After a commit the other polls of the job are behind, and the poll that
\* committed computes no more.
LEMMA CommitFollows ==
  ASSUME McpInv, CopiesFollow, NEW p \in McpProcs, Busy(p), NEW pc \in {"idle", "verify"},
         Commits(p, pc)
  PROVE  CopiesFollow'
<1>1. McpTypeOK /\ JobOf(p) \in McpJobs
  BY Entitled DEF McpInv
<1>2. /\ mcpPoll'[p].pc = pc
      /\ \A q \in McpProcs \ {p} :
              \/ AtStep(q, "idle") /\ mcpPoll'[q] = mcpPoll[q]
              \/ /\ Busy(q) /\ JobOf(q)' = JobOf(q) /\ CopyOf(q)' = CopyOf(q)
                 /\ mcpPoll'[q].pc = mcpPoll[q].pc /\ mcpPoll'[q].k = mcpPoll[q].k
                 /\ mcpPoll'[q].fresh = mcpPoll[q].fresh
                 /\ mcpPoll'[q].behind = (mcpPoll[q].behind \/ JobOf(q) = JobOf(p))
  BY <1>1, CommitShape
<1>3. \A j \in McpJobs \ {JobOf(p)} : mcpJob'[j] = mcpJob[j]
  BY <1>1 DEF Commits, McpTypeOK
<1>4. Follows(p)'
  BY <1>2 DEF Follows, Working
<1>5. ASSUME NEW q \in McpProcs \ {p}, Busy(q)'
      PROVE  Follows(q)'
  <2>1. /\ Busy(q) /\ JobOf(q)' = JobOf(q) /\ CopyOf(q)' = CopyOf(q)
        /\ mcpPoll'[q].pc = mcpPoll[q].pc
        /\ mcpPoll'[q].behind = (mcpPoll[q].behind \/ JobOf(q) = JobOf(p))
    BY <1>2, <1>5 DEF AtStep, Busy
  <2>2. Follows(q) /\ JobOf(q) \in McpJobs
    BY <2>1, Entitled DEF CopiesFollow
  <2> QED BY <1>3, <2>1, <2>2 DEF Follows
<1> QED BY <1>4, <1>5 DEF CopiesFollow

\* What Claim, ClaimUnseen, PersistUndone and PollRaises do to the rows: nothing, or a
\* commit of a poll that is not behind.
LEMMA Claims ==
  ASSUME NEW p \in McpProcs,
         Claim(p) \/ ClaimUnseen(p) \/ PersistUndone(p) \/ PollRaises(p)
  PROVE  /\ UNCHANGED sliceTarget
         /\ \/ Leaves(p) /\ UNCHANGED mcpJob
            \/ /\ Busy(p) /\ mcpPoll[p].pc \in {"claim", "persist"} /\ ~ mcpPoll[p].behind
               /\ \E pc \in {"idle", "verify"} : Commits(p, pc)
<1>1. CASE Claim(p)
  <2>1. CASE Compensates(p)
    BY <1>1, <2>1 DEF Claim, Loses, AtStep, Busy
  <2>2. CASE ~ Compensates(p)
    BY <1>1, <2>2 DEF Claim, Loses, AtStep, Busy
  <2> QED BY <2>1, <2>2
<1>2. CASE ClaimUnseen(p) \/ PersistUndone(p) \/ PollRaises(p)
  BY <1>2 DEF ClaimUnseen, PersistUndone, PollRaises, AtStep, Busy
<1> QED BY <1>1, <1>2

\* A death takes one poll away and only touches who owns a row or a copy.
LEMMA DieFollows ==
  ASSUME McpInv, CopiesFollow, NEW p \in McpProcs, ProcessDies(p)
  PROVE  /\ CopiesFollow'
         /\ \A j \in McpJobs : /\ mcpJob'[j].phase = mcpJob[j].phase
                               /\ mcpJob'[j].slice = mcpJob[j].slice
<1> DEFINE orphaned(row) == [row EXCEPT !.owner = IF @ = p THEN "gone" ELSE @]
<1>1. ASSUME NEW row \in McpRow
      PROVE  orphaned(row).phase = row.phase /\ orphaned(row).slice = row.slice
  BY DEF McpRow
<1>2. \A j \in McpJobs : mcpJob[j] \in McpRow /\ mcpJob'[j] = orphaned(mcpJob[j])
  BY DEF McpInv, McpTypeOK, ProcessDies
<1>3. \A j \in McpJobs : mcpJob'[j].phase = mcpJob[j].phase /\ mcpJob'[j].slice = mcpJob[j].slice
  BY <1>1, <1>2
<1>4. ~ Busy(p)'
  BY DEF ProcessDies, Busy
<1>5. ASSUME NEW q \in McpProcs \ {p}, Busy(q)'
      PROVE  Follows(q)'
  <2> DEFINE c == orphaned(mcpPoll[q].copy)
  <2>1. Busy(q)
    BY <1>5 DEF ProcessDies, AtStep, Busy
  <2>2. mcpPoll[q] \in BusyPoll /\ JobOf(q) \in McpJobs
    BY <2>1, Entitled
  <2>3. mcpPoll'[q] = [mcpPoll[q] EXCEPT !.copy = c]
    BY <2>1 DEF ProcessDies, AtStep, Busy
  <2>4. c.phase = mcpPoll[q].copy.phase
    BY <1>1, <2>2 DEF BusyPoll
  <2> HIDE DEF c
  <2>5. /\ mcpPoll'[q].copy = c /\ mcpPoll'[q].job = mcpPoll[q].job
        /\ mcpPoll'[q].pc = mcpPoll[q].pc /\ mcpPoll'[q].behind = mcpPoll[q].behind
    BY <2>2, <2>3 DEF BusyPoll
  <2>6. Follows(q)
    BY <2>1 DEF CopiesFollow
  <2> QED BY <1>3, <2>2, <2>4, <2>5, <2>6 DEF Follows, JobOf, CopyOf
<1> QED BY <1>3, <1>4, <1>5 DEF CopiesFollow

\* Every step keeps the copies behind their rows.
LEMMA FollowsKept == McpInv /\ CopiesFollow /\ [McpNext]_mcpVars => CopiesFollow'
<1> SUFFICES ASSUME McpInv, CopiesFollow, [McpNext]_mcpVars PROVE CopiesFollow'
  OBVIOUS
<1>1. CASE UNCHANGED mcpVars
  BY <1>1 DEF mcpVars, CopiesFollow, Follows, Busy, JobOf, CopyOf
<1>2. CASE McpNext
  <2>1. PICK p \in McpProcs :
          \/ \E j \in McpJobs : StartPoll(p, j)
          \/ StartBuild(p) \/ StillWaits(p) \/ BuildFails(p)
          \/ CreateLambda(p) \/ ExamineLambda(p) \/ ConfigureLambda(p)
          \/ SettleLambda(p) \/ UpdateCode(p) \/ LambdaFails(p)
          \/ WireTarget(p) \/ WireFails(p)
          \/ CheckTargets(p) \/ TargetFails(p)
          \/ RegisterRecord(p) \/ RegisterFails(p)
          \/ ProvisionPolicy(p) \/ PolicyFails(p)
          \/ Claim(p) \/ ClaimUnseen(p)
          \/ VerifyOwner(p) \/ VerifyFails(p)
          \/ DeleteTarget(p) \/ DeleteFails(p) \/ PersistUndone(p)
          \/ PollRaises(p) \/ ProcessDies(p)
    BY <1>2 DEF McpNext
  <2>2. CASE Claim(p) \/ ClaimUnseen(p) \/ PersistUndone(p) \/ PollRaises(p)
    BY <2>2, Claims, CommitFollows, LeaveFollows
  <2> QED BY <2>1, <2>2, StartFollows, ComputeFollows, FunctionFollows, WireFollows,
       DeleteFollows, DieFollows
<1> QED BY <1>1, <1>2

\* What a step does to a row: its phase and Targets stay, or a poll that is
\* not behind puts its copy there and touches no Target.
LEMMA RowSteps ==
  ASSUME McpInv, CopiesFollow, McpNext, NEW j \in McpJobs
  PROVE  \/ mcpJob'[j].phase = mcpJob[j].phase /\ mcpJob'[j].slice = mcpJob[j].slice
         \/ \E p \in McpProcs :
              /\ Busy(p) /\ JobOf(p) = j /\ ~ mcpPoll[p].behind
              /\ mcpPoll[p].pc \in {"claim", "persist"}
              /\ mcpJob'[j] = CopyOf(p) /\ UNCHANGED sliceTarget
<1>1. CASE UNCHANGED mcpJob
  BY <1>1
<1>2. CASE \E p \in McpProcs : Claim(p) \/ ClaimUnseen(p) \/ PersistUndone(p) \/ PollRaises(p)
  <2>1. PICK p \in McpProcs : Claim(p) \/ ClaimUnseen(p) \/ PersistUndone(p) \/ PollRaises(p)
    BY <1>2
  <2>2. CASE UNCHANGED mcpJob
    BY <2>2
  <2>3. CASE ~ UNCHANGED mcpJob
    <3>1. /\ UNCHANGED sliceTarget
          /\ Busy(p) /\ mcpPoll[p].pc \in {"claim", "persist"} /\ ~ mcpPoll[p].behind
          /\ \E pc \in {"idle", "verify"} : Commits(p, pc)
      BY <2>1, <2>3, Claims
    <3>2. mcpJob' = [mcpJob EXCEPT ![JobOf(p)] = CopyOf(p)] /\ mcpJob \in [McpJobs -> McpRow]
      BY <3>1 DEF Commits, McpInv, McpTypeOK
    <3>3. CASE JobOf(p) = j
      <4>1. mcpJob'[j] = CopyOf(p)
        BY <3>2, <3>3
      <4> QED BY <3>1, <3>3, <4>1
    <3>4. CASE JobOf(p) # j
      <4>1. mcpJob'[j] = mcpJob[j]
        BY <3>2, <3>4
      <4> QED BY <4>1
    <3> QED BY <3>3, <3>4
  <2> QED BY <2>2, <2>3
<1>3. CASE \E p \in McpProcs : ProcessDies(p)
  BY <1>3, DieFollows
<1> QED BY <1>1, <1>2, <1>3
     DEF McpNext, StartPoll, StartBuild, StillWaits, BuildFails, CreateLambda, ExamineLambda,
         ConfigureLambda, SettleLambda, UpdateCode, LambdaFails, WireTarget, WireFails,
         CheckTargets, TargetFails, RegisterRecord, RegisterFails, ProvisionPolicy, PolicyFails,
         VerifyOwner, VerifyFails, DeleteTarget, DeleteFails

\* A step of the program is a step of the ledger of each job, or none of it.
LEMMA LedgerStep ==
  ASSUME McpInv, CopiesFollow, McpNext, McpInv', NEW j \in McpJobs
  PROVE  McpLedger(j)!Next \/ UNCHANGED <<mcpJob[j].phase, Stand(j, mcpJob[j])>>
<1>1. /\ mcpJob[j].phase # "FAILED" => Stand(j, mcpJob[j])
      /\ mcpJob'[j].phase # "FAILED" => Stand(j, mcpJob[j])'
  BY DEF McpInv, RowsStand
<1>2. Stand(j, mcpJob[j]) \in BOOLEAN /\ Stand(j, mcpJob[j])' \in BOOLEAN
  BY DEF Stand
<1>3. CASE mcpJob'[j].phase = mcpJob[j].phase
  <2>1. CASE mcpJob[j].phase = "FAILED"
    BY <1>2, <1>3, <2>1 DEF McpLedger!Next, McpLedger!Compensate
  <2>2. CASE mcpJob[j].phase # "FAILED"
    BY <1>1, <1>2, <1>3, <2>2
  <2> QED BY <2>1, <2>2
<1>4. CASE mcpJob'[j].phase # mcpJob[j].phase
  <2>1. PICK p \in McpProcs :
          /\ Busy(p) /\ JobOf(p) = j /\ ~ mcpPoll[p].behind
          /\ mcpPoll[p].pc \in {"claim", "persist"}
          /\ mcpJob'[j] = CopyOf(p) /\ UNCHANGED sliceTarget
    BY <1>4, RowSteps
  <2>2. PollFine(p) /\ Follows(p)
    BY <2>1, Entitled DEF CopiesFollow
  <2>3. mcpPoll[p].pc = "claim"
    BY <1>4, <2>1, <2>2 DEF PollFine, LateFailed, Late
  <2>4. ~ Finished(mcpJob[j].phase) /\ Stand(j, CopyOf(p))
    BY <2>1, <2>2, <2>3 DEF PollFine, CopyStands, MayCommit, Late
  <2>5. mcpJob'[j].phase = "FAILED" \/ <<mcpJob[j].phase, mcpJob'[j].phase>> \in McpAdvances
    BY <1>4, <2>1, <2>2, <2>3 DEF Follows
  <2>6. Stand(j, mcpJob[j])' = TRUE
    BY <2>1, <2>4 DEF Stand
  <2> QED BY <2>4, <2>5, <2>6 DEF McpLedger!Next, McpLedger!Advance, McpLedger!Fail, Finished
<1> QED BY <1>3, <1>4

\* What the ledger shows of an MCP job is what DeployLedger promises (jobs.py
\* advance and compensate_failure under poll's conditional write): phases in
\* order, final outcomes, and no Target a job names is lost before the job is
\* stored as FAILED.
THEOREM McpLedgerKeepsPromise == McpSpec => McpLedgerSpec
<1> DEFINE I == \A j \in McpJobs : McpLedger(j)!Init
           A == \A j \in McpJobs :
                  [McpLedger(j)!Next]_<<mcpJob[j].phase, Stand(j, mcpJob[j])>>
<1>1. McpInit => I
  BY DEF McpInit, NewRow, Stand, McpLedger!Init
<1>2. McpInit => CopiesFollow
  BY DEF McpInit, CopiesFollow, Busy
<1>3. McpInv /\ McpInv' /\ CopiesFollow /\ [McpNext]_mcpVars => [A]_mcpVars
  BY LedgerStep
<1> QED
  BY <1>1, <1>2, <1>3, DeployInvariant, FollowsKept, PTL DEF McpSpec, McpLedgerSpec
=============================================================================
