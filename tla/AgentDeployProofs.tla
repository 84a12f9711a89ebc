------------------------- MODULE AgentDeployProofs -------------------------
(***************************************************************************)
(* Proofs about AgentDeploy, for any number of executors, any resource     *)
(* kinds and any bounds.                                                   *)
(***************************************************************************)
EXTENDS AgentDeploy, TLAPS

-----------------------------------------------------------------------------
(* What the operators on a job return. *)

\* Changing the phase of a job keeps the rest of it.
LEMMA MovedJob ==
  ASSUME NEW j \in Job, NEW p \in Phases
  PROVE  /\ Moved(j, p) \in Job
         /\ Moved(j, p).phase = p
         /\ Moved(j, p).rev = j.rev
         /\ Moved(j, p).id = j.id
         /\ Moved(j, p).owner = j.owner
BY DEF Moved, Job

\* Recording an id touches that id only.
LEMMA TookJob ==
  ASSUME NEW j \in Job, NEW k \in Kinds, NEW n \in Nat
  PROVE  /\ Took(j, k, n) \in Job
         /\ Took(j, k, n).phase = j.phase
         /\ Took(j, k, n).rev = j.rev
         /\ Took(j, k, n).id = [j.id EXCEPT ![k] = n]
         /\ Took(j, k, n).owner = j.owner
BY DEF Took, Job

\* Claiming touches that id and its owner only.
LEMMA ClaimedJob ==
  ASSUME NEW j \in Job, NEW k \in Kinds, NEW n \in Nat, NEW e \in Executors
  PROVE  /\ Claimed(j, k, n, e) \in Job
         /\ Claimed(j, k, n, e).phase = j.phase
         /\ Claimed(j, k, n, e).rev = j.rev
         /\ Claimed(j, k, n, e).id = [j.id EXCEPT ![k] = n]
         /\ Claimed(j, k, n, e).owner = [j.owner EXCEPT ![k] = e]
BY DEF Claimed, Job, Owners

\* A stored job is the private copy with the next revision.
LEMMA BumpedJob ==
  ASSUME NEW j \in Job
  PROVE  /\ Bumped(j) \in Job
         /\ Bumped(j).phase = j.phase
         /\ Bumped(j).rev = j.rev + 1
         /\ Bumped(j).id = j.id
         /\ Bumped(j).owner = j.owner
BY DEF Bumped, Job

\* Forgetting what was deleted clears ids and owners and adds none.
LEMMA ForgetJob ==
  ASSUME NEW j \in Job, NEW S
  PROVE  /\ Forget(j, S) \in Job
         /\ Forget(j, S).phase = j.phase
         /\ Forget(j, S).rev = j.rev
         /\ \A k \in Kinds : Forget(j, S).owner[k] \in {j.owner[k], None}
BY DEF Forget, Job, Owners

\* The identity is claimed when it was created, and only then.
LEMMA WithIdentityJob ==
  ASSUME NEW j \in Job, NEW e \in Executors, TypeOK
  PROVE  /\ WithIdentity(j, e) \in Job
         /\ WithIdentity(j, e).phase = j.phase
         /\ WithIdentity(j, e).rev = j.rev
         /\ \A k \in Kinds : k # "identity" =>
              /\ WithIdentity(j, e).id[k] = j.id[k]
              /\ WithIdentity(j, e).owner[k] = j.owner[k]
         /\ WithIdentity(j, e).id["identity"] =
              IF live["identity"] = 0 THEN made["identity"] + 1
                                      ELSE live["identity"]
         /\ WithIdentity(j, e).owner["identity"] =
              IF live["identity"] = 0 THEN e ELSE j.owner["identity"]
<1>1. "identity" \in Kinds BY DEF Kinds
<1>2. live["identity"] \in Nat /\ made["identity"] \in Nat BY <1>1 DEF TypeOK
<1>3. (NewIdentity # {}) <=> live["identity"] = 0 BY DEF NewIdentity
<1>4. CASE live["identity"] = 0
  <2>1. WithIdentity(j, e) = Claimed(j, "identity", made["identity"] + 1, e)
    BY <1>3, <1>4 DEF WithIdentity
  <2>2. j.id \in [Kinds -> Nat] /\ j.owner \in [Kinds -> Owners] BY DEF Job
  <2>3. made["identity"] + 1 \in Nat BY <1>2
  <2> DEFINE w == WithIdentity(j, e)
  <2>4. /\ w \in Job /\ w.phase = j.phase /\ w.rev = j.rev
        /\ w.id = [j.id EXCEPT !["identity"] = made["identity"] + 1]
        /\ w.owner = [j.owner EXCEPT !["identity"] = e]
    BY <1>1, <2>1, <2>3, ClaimedJob
  <2> HIDE DEF w
  <2>5. w.id["identity"] = made["identity"] + 1 /\ w.owner["identity"] = e
    BY <1>1, <2>2, <2>4
  <2>6. \A k \in Kinds : k # "identity" => w.id[k] = j.id[k] /\ w.owner[k] = j.owner[k]
    BY <2>2, <2>4
  <2> QED BY <1>4, <2>4, <2>5, <2>6 DEF w
<1>5. CASE live["identity"] # 0
  <2>1. WithIdentity(j, e) = Took(j, "identity", live["identity"])
    BY <1>3, <1>5 DEF WithIdentity
  <2>2. j.id \in [Kinds -> Nat] /\ j.owner \in [Kinds -> Owners] BY DEF Job
  <2> DEFINE w == WithIdentity(j, e)
  <2>4. /\ w \in Job /\ w.phase = j.phase /\ w.rev = j.rev
        /\ w.id = [j.id EXCEPT !["identity"] = live["identity"]]
        /\ w.owner = j.owner
    BY <1>1, <1>2, <2>1, TookJob
  <2> HIDE DEF w
  <2>5. w.id["identity"] = live["identity"] /\ w.owner["identity"] = j.owner["identity"]
    BY <1>1, <2>2, <2>4
  <2>6. \A k \in Kinds : k # "identity" => w.id[k] = j.id[k] /\ w.owner[k] = j.owner[k]
    BY <2>2, <2>4
  <2> QED BY <1>5, <2>4, <2>5, <2>6 DEF w
<1> QED BY <1>4, <1>5

\* Ownership of the grants is the only thing a returning register() changes.
LEMMA OwningJob ==
  ASSUME NEW j \in Job, NEW e \in Executors
  PROVE  /\ Owning(j, e) \in Job
         /\ Owning(j, e).phase = j.phase
         /\ Owning(j, e).rev = j.rev
         /\ Owning(j, e).id = j.id
         /\ \A k \in Kinds : k # "grants" => Owning(j, e).owner[k] = j.owner[k]
         /\ Owning(j, e).owner["grants"] \in {j.owner["grants"], e}
<1>1. "grants" \in Kinds BY DEF Kinds
<1> QED BY <1>1 DEF Owning, Job, Owners

-----------------------------------------------------------------------------
(* The inductive invariant.                                                *)
(*                                                                         *)
(* Mid-step an executor holds a copy that is either stale (its revision is *)
(* behind) or read from the phase that is still stored; the executor whose *)
(* write ended the job is the only one past "commit".                      *)

WinPCs == {"log"} \cup UndoPCs

\* A stale copy can never pass the conditional write again.
Behind(e) ==
  pc[e] \in StepPCs =>
    /\ read[e] \notin Terminal
    /\ loc[e].rev <= store.rev
    /\ loc[e].rev = store.rev => store.phase = read[e]
    /\ pc[e] # "commit" => loc[e].phase = read[e]
ReadersBehind == \A e \in Executors : Behind(e)

\* The executor past its terminal write holds the stored outcome, alone.
Winner(e) ==
  pc[e] \in WinPCs =>
    /\ store.phase \in Terminal
    /\ loc[e].phase = store.phase
    /\ pc[e] \in UndoPCs => store.phase = "FAILED"
OneWinner ==
  /\ \A e \in Executors : Winner(e)
  /\ \A e, f \in Executors : pc[e] \in WinPCs /\ pc[f] \in WinPCs => e = f

\* The log is empty until the winner writes it.
LogBehind ==
  /\ OneOutcomeLogged
  /\ (store.phase \notin Terminal \/ \E e \in Executors : pc[e] = "log")
       => log["READY"] = 0 /\ log["FAILED"] = 0

\* What the previous deployment left is in place and owned by nobody.
Clean(e) == /\ \A k \in Kept : loc[e].owner[k] = None
            /\ pc[e] = "memory" => "memory" \notin Kept
Standing == /\ \A k \in Kept : live[k] = 1 /\ store.owner[k] = None
            /\ \A e \in Executors : Clean(e)

\* Until the job fails, the stored job and every running copy name what exists.
Named(e)   == pc[e] \in StepPCs => Names(loc[e])
NamesExist == store.phase # "FAILED" =>
                Names(store) /\ \A e \in Executors : Named(e)

IInv == /\ TypeOK /\ ReadersBehind /\ OneWinner /\ LogBehind
        /\ Standing /\ NamesExist

-----------------------------------------------------------------------------
(* Every step has one of nine shapes. *)

\* The variables that no shape below constrains further keep their types.
EnvOK == /\ live \in [Kinds -> Nat] /\ made \in [Kinds -> Nat]
         /\ serving \in {"old", "new"}
         /\ alive \subseteq Executors
         /\ waits \in Nat /\ faults \in Nat

\* A private step of the handler: resources may be created, none deleted.
Private(e, q, j) ==
  /\ q \in StepPCs /\ j \in Job
  /\ pc[e] \in StepPCs \ {"commit"}
  /\ pc' = [pc EXCEPT ![e] = q] /\ loc' = [loc EXCEPT ![e] = j]
  /\ store' = store /\ read' = read /\ log' = log
  /\ j.rev = loc[e].rev
  /\ q # "commit" => j.phase = loc[e].phase
  /\ q = "memory" => live["memory"] = 0
  /\ \A k \in Kinds : live[k] # 0 => live'[k] = live[k]
  /\ \A k \in Kinds : j.id[k] \in {0, loc[e].id[k], live'[k]}
  /\ \A k \in Kept : j.owner[k] = loc[e].owner[k]

\* A stored checkpoint in the middle of the handler.
Checkpointed(e, q, j) ==
  /\ q \in StepPCs \ {"memory"} /\ j \in Job
  /\ pc[e] \in StepPCs \ {"commit"}
  /\ Current(e) /\ store' = Bumped(loc[e])
  /\ pc' = [pc EXCEPT ![e] = q] /\ loc' = [loc EXCEPT ![e] = j]
  /\ read' = read /\ log' = log /\ live' = live
  /\ j.rev = loc[e].rev + 1 /\ j.id = loc[e].id /\ j.owner = loc[e].owner
  /\ q # "commit" => j.phase = loc[e].phase

\* poll() returns without writing.
Left(e) ==
  /\ pc' = [pc EXCEPT ![e] = "idle"] /\ loc' = [loc EXCEPT ![e] = Admitted]
  /\ read' = [read EXCEPT ![e] = "QUEUED"]
  /\ store' = store /\ log' = log /\ live' = live

\* poll() begins.
Entered(e) ==
  /\ store.phase \notin Terminal
  /\ pc' = [pc EXCEPT ![e] = "step"] /\ loc' = [loc EXCEPT ![e] = store]
  /\ read' = [read EXCEPT ![e] = store.phase]
  /\ store' = store /\ log' = log /\ live' = live

\* The conditional write succeeds and poll() returns.
Stored(e) ==
  /\ pc[e] = "commit" /\ Current(e) /\ store' = Bumped(loc[e])
  /\ pc' = [pc EXCEPT ![e] = "idle"] /\ loc' = [loc EXCEPT ![e] = Admitted]
  /\ read' = [read EXCEPT ![e] = "QUEUED"]
  /\ log' = log /\ live' = live

\* The conditional write succeeds and ends the job.
Won(e) ==
  /\ pc[e] = "commit" /\ Current(e) /\ loc[e].phase \in Terminal
  /\ store' = Bumped(loc[e])
  /\ pc' = [pc EXCEPT ![e] = "log"]
  /\ loc' = [loc EXCEPT ![e] = Bumped(loc[e])]
  /\ read' = read /\ log' = log /\ live' = live

\* The winner writes the log, and goes on to compensate or returns.
Told(e, q, j, r) ==
  /\ pc[e] = "log"
  /\ \/ log' = log
     \/ log' = [log EXCEPT ![loc[e].phase] = @ + 1]
  /\ \/ q = "idle" /\ j = Admitted /\ r = "QUEUED"
     \/ q = "undo" /\ j = loc[e] /\ r = read[e] /\ loc[e].phase = "FAILED"
  /\ pc' = [pc EXCEPT ![e] = q] /\ loc' = [loc EXCEPT ![e] = j]
  /\ read' = [read EXCEPT ![e] = r]
  /\ store' = store /\ live' = live

\* The winner deletes what it owns.
Compensated(e, q, j) ==
  /\ pc[e] \in UndoPCs /\ q \in UndoPCs /\ j \in Job
  /\ pc' = [pc EXCEPT ![e] = q] /\ loc' = [loc EXCEPT ![e] = j]
  /\ store' = store /\ read' = read /\ log' = log
  /\ j.phase = loc[e].phase
  /\ \A k \in Kept : live'[k] = live[k] /\ j.owner[k] = None

\* The winner records what it deleted.
Recorded(e) ==
  /\ pc[e] = "persist"
  /\ \/ store' = store
     \/ store.rev = loc[e].rev /\ store' = Bumped(loc[e])
  /\ pc' = [pc EXCEPT ![e] = "idle"] /\ loc' = [loc EXCEPT ![e] = Admitted]
  /\ read' = [read EXCEPT ![e] = "QUEUED"]
  /\ log' = log /\ live' = live

Shape(e) ==
  /\ EnvOK'
  /\ \/ \E q \in PCs, j \in Job : Private(e, q, j)
     \/ \E q \in PCs, j \in Job : Checkpointed(e, q, j)
     \/ Left(e) \/ Entered(e) \/ Stored(e) \/ Won(e)
     \/ \E q \in PCs, j \in Job, r \in Phases : Told(e, q, j, r)
     \/ \E q \in PCs, j \in Job : Compensated(e, q, j)
     \/ Recorded(e)

-----------------------------------------------------------------------------
(* Each action has its shape. *)

\* The resource kinds, and which of them a redeploy finds in place.
LEMMA KindFacts ==
  /\ {"memory", "role", "runtime", "identity", "record", "grants"} \subseteq Kinds
  /\ Builtins \subseteq Kinds
  /\ Kept \subseteq Kinds \ {"grants"}
  /\ Redeploy => "runtime" \in Kept
  /\ ~Redeploy => Kept = {}
BY ConfigAssumption DEF Kinds, Kept

\* A private copy is a job.
LEMMA LocFacts ==
  ASSUME TypeOK, NEW e \in Executors
  PROVE  /\ loc[e] \in Job
         /\ loc[e].id \in [Kinds -> Nat]
         /\ loc[e].owner \in [Kinds -> Owners]
         /\ loc[e].phase \in Phases /\ loc[e].rev \in Nat
BY DEF TypeOK, Job

\* The job create_job stores is a job, and owns nothing it did not make.
LEMMA AdmittedFacts ==
  /\ Admitted \in Job
  /\ Admitted.phase = "QUEUED"
  /\ \A k \in Kept : Admitted.owner[k] = None
<1>1. Admitted \in Job
  BY ExecutorsAssumption DEF Admitted, Job, Phases, Owners
<1> QED BY <1>1, KindFacts DEF Admitted

\* Creating resources that are absent disturbs none that is there.
LEMMA CreateFacts ==
  ASSUME TypeOK, NEW S, Create(S), \A k \in S \cap Kinds : live[k] = 0
  PROVE  /\ live' \in [Kinds -> Nat] /\ made' \in [Kinds -> Nat]
         /\ \A k \in Kinds : live[k] # 0 => live'[k] = live[k]
         /\ \A k \in S \cap Kinds : live'[k] = made[k] + 1
BY DEF Create, TypeOK

\* What the steps of the handler do that touch no remote resource.
Quiet(e, q, j) ==
  /\ pc[e] \in StepPCs \ {"commit"}
  /\ Go(e, q, j) /\ UNCHANGED <<store, live, made, serving, faults>>
  /\ waits' \in Nat
  /\ j.rev = loc[e].rev /\ j.id = loc[e].id
  /\ \A k \in Kinds : k # "grants" => j.owner[k] = loc[e].owner[k]
  /\ j.owner["grants"] \in {loc[e].owner["grants"], e}
  /\ q # "commit" => j.phase = loc[e].phase
  /\ j.phase \in {"QUEUED", "BUILDING"} => j.phase = loc[e].phase

\* They go on with the same ids, and at most own the grants from now on.
LEMMA QuietMove ==
  ASSUME IInv, NEW e \in Executors,
         Stay(e) \/ StepFails(e) \/ RoleReady(e) \/ ToolsPending(e)
         \/ RuntimeUp(e) \/ RequestTools(e) \/ PolicyOutcome(e)
         \/ PolicyPending(e) \/ MemoryPending(e) \/ Finalize(e)
  PROVE  \E q \in {"commit", "tools", "asked"}, j \in Job : Quiet(e, q, j)
<1> DEFINE i == loc[e]
<1>1. i \in Job /\ i.id \in [Kinds -> Nat] /\ i.owner \in [Kinds -> Owners]
      /\ i.rev \in Nat /\ i.phase \in Phases /\ "grants" \in Kinds
  BY LocFacts, KindFacts DEF IInv
<1>a. waits' \in Nat /\ UNCHANGED <<store, live, made, serving, faults>>
  BY DEF IInv, TypeOK, Stay, StepFails, RoleReady, ToolsPending, RuntimeUp,
         RequestTools, PolicyOutcome, PolicyPending, MemoryPending, Finalize,
         Wait, remote, budget
<1>b. pc[e] \in StepPCs \ {"commit"}
  BY DEF Stay, StepFails, RoleReady, ToolsPending, RuntimeUp, RequestTools,
         PolicyOutcome, PolicyPending, MemoryPending, Finalize, Stepping, At,
         StepPCs
<1>2. ASSUME NEW q \in {"commit", "tools", "asked"}, NEW j \in Job, Go(e, q, j),
             j.rev = i.rev, j.id = i.id,
             \A k \in Kinds : k # "grants" => j.owner[k] = i.owner[k],
             j.owner["grants"] \in {i.owner["grants"], e},
             q # "commit" => j.phase = i.phase,
             j.phase \in {"QUEUED", "BUILDING"} => j.phase = i.phase
      PROVE  \E q_1 \in {"commit", "tools", "asked"}, j_1 \in Job : Quiet(e, q_1, j_1)
  BY <1>2, <1>a, <1>b DEF Quiet
<1>3. CASE Stay(e)
  BY <1>1, <1>2, <1>3 DEF Stay
<1>4. CASE StepFails(e)
  <2>1. Moved(i, "FAILED") \in Job /\ Moved(i, "FAILED").rev = i.rev
        /\ Moved(i, "FAILED").phase = "FAILED"
        /\ Moved(i, "FAILED").id = i.id /\ Moved(i, "FAILED").owner = i.owner
    BY <1>1, MovedJob DEF Phases
  <2> QED BY <1>2, <1>4, <2>1 DEF StepFails, Fail
<1>5. CASE RoleReady(e)
  BY <1>1, <1>2, <1>5 DEF RoleReady
<1>6. CASE RuntimeUp(e)
  <2>1. Moved(i, "PROVISIONING") \in Job /\ Moved(i, "PROVISIONING").rev = i.rev
        /\ Moved(i, "PROVISIONING").phase = "PROVISIONING"
        /\ Moved(i, "PROVISIONING").id = i.id
        /\ Moved(i, "PROVISIONING").owner = i.owner
    BY <1>1, MovedJob DEF Phases
  <2> QED BY <1>2, <1>6, <2>1 DEF RuntimeUp
<1>7. CASE RequestTools(e)
  <2> DEFINE j == [i EXCEPT !.asked = TRUE]
  <2>1. j \in Job /\ j.rev = i.rev /\ j.id = i.id /\ j.owner = i.owner
        /\ j.phase = i.phase
    BY <1>1 DEF Job
  <2> QED BY <1>2, <1>7, <2>1 DEF RequestTools
<1>8. CASE PolicyOutcome(e)
  <2>1. PICK p \in {"VERIFYING", "FAILED"} :
          Go(e, "commit", Moved(Owning(i, e), p))
    BY <1>8 DEF PolicyOutcome
  <2> DEFINE j == Moved(Owning(i, e), p)
  <2>2. j \in Job /\ j.rev = i.rev /\ j.id = i.id
        /\ j.owner = Owning(i, e).owner /\ j.phase = p
    BY <1>1, OwningJob, MovedJob DEF Phases
  <2>3. /\ \A k \in Kinds : k # "grants" => j.owner[k] = i.owner[k]
        /\ j.owner["grants"] \in {i.owner["grants"], e}
    BY <1>1, <2>2, OwningJob
  <2> QED BY <1>2, <2>1, <2>2, <2>3
<1>9. CASE Finalize(e)
  <2>1. Moved(i, "READY") \in Job /\ Moved(i, "READY").rev = i.rev
        /\ Moved(i, "READY").phase = "READY"
        /\ Moved(i, "READY").id = i.id /\ Moved(i, "READY").owner = i.owner
    BY <1>1, MovedJob DEF Phases
  <2> QED BY <1>2, <1>9, <2>1 DEF Finalize
<1>10. CASE ToolsPending(e)
  <2> DEFINE t == [i EXCEPT !.tools = @ + 1]
             m == Moved(t, "FAILED")
             j == IF t.tools >= ToolsCap THEN m ELSE t
  <2>1. t \in Job /\ t.rev = i.rev /\ t.id = i.id /\ t.owner = i.owner
        /\ t.phase = i.phase
    BY <1>1 DEF Job
  <2>a. m \in Job /\ m.rev = t.rev /\ m.id = t.id /\ m.owner = t.owner
        /\ m.phase = "FAILED"
    <3> HIDE DEF t
    <3> QED BY <2>1, MovedJob DEF Phases
  <2>2. j \in Job /\ j.rev = i.rev /\ j.id = i.id /\ j.owner = i.owner
        /\ j.phase \in {i.phase, "FAILED"}
    <3> HIDE DEF t, m
    <3> QED BY <2>1, <2>a
  <2>3. Go(e, "commit", j) BY <1>10 DEF ToolsPending
  <2> HIDE DEF j
  <2> QED BY <1>2, <2>2, <2>3
<1>11. CASE PolicyPending(e)
  <2> DEFINE t == [Owning(i, e) EXCEPT !.policy = @ + 1]
             m == Moved(t, "FAILED")
             j == IF t.policy >= PolicyCap THEN m ELSE t
  <2>0. Owning(i, e) \in Job BY <1>1, OwningJob
  <2>1. t \in Job /\ t.rev = i.rev /\ t.id = i.id /\ t.owner = Owning(i, e).owner
        /\ t.phase = i.phase
    BY <1>1, <2>0, OwningJob DEF Job
  <2>a. m \in Job /\ m.rev = t.rev /\ m.id = t.id /\ m.owner = t.owner
        /\ m.phase = "FAILED"
    <3> HIDE DEF t
    <3> QED BY <2>1, MovedJob DEF Phases
  <2>2. j \in Job /\ j.rev = i.rev /\ j.id = i.id
        /\ j.owner = Owning(i, e).owner /\ j.phase \in {i.phase, "FAILED"}
    <3> HIDE DEF t, m
    <3> QED BY <2>1, <2>a
  <2>3. Go(e, "commit", j) BY <1>11 DEF PolicyPending
  <2>4. /\ \A k \in Kinds : k # "grants" => j.owner[k] = i.owner[k]
        /\ j.owner["grants"] \in {i.owner["grants"], e}
    BY <1>1, <2>2, OwningJob
  <2> HIDE DEF j
  <2> QED BY <1>2, <2>2, <2>3, <2>4
<1>12. CASE MemoryPending(e)
  <2> DEFINE t == [i EXCEPT !.mem = @ + 1]
             m == Moved(t, "FAILED")
             j == IF t.mem >= MemoryCap THEN m ELSE t
  <2>1. t \in Job /\ t.rev = i.rev /\ t.id = i.id /\ t.owner = i.owner
        /\ t.phase = i.phase
    BY <1>1 DEF Job
  <2>a. m \in Job /\ m.rev = t.rev /\ m.id = t.id /\ m.owner = t.owner
        /\ m.phase = "FAILED"
    <3> HIDE DEF t
    <3> QED BY <2>1, MovedJob DEF Phases
  <2>2. j \in Job /\ j.rev = i.rev /\ j.id = i.id /\ j.owner = i.owner
        /\ j.phase \in {i.phase, "FAILED"}
    <3> HIDE DEF t, m
    <3> QED BY <2>1, <2>a
  <2>3. Go(e, "commit", j) BY <1>12 DEF MemoryPending
  <2> HIDE DEF j
  <2> QED BY <1>2, <2>2, <2>3
<1> QED BY <1>3, <1>4, <1>5, <1>6, <1>7, <1>8, <1>9, <1>10, <1>11, <1>12

\* So they are private steps.
LEMMA QuietShape ==
  ASSUME IInv, NEW e \in Executors,
         Stay(e) \/ StepFails(e) \/ RoleReady(e) \/ ToolsPending(e)
         \/ RuntimeUp(e) \/ RequestTools(e) \/ PolicyOutcome(e)
         \/ PolicyPending(e) \/ MemoryPending(e) \/ Finalize(e)
  PROVE  Shape(e)
<1>1. PICK q \in {"commit", "tools", "asked"}, j \in Job : Quiet(e, q, j)
  BY QuietMove
<1>2. loc[e].id \in [Kinds -> Nat] BY LocFacts DEF IInv
<1>3. EnvOK' BY <1>1 DEF IInv, TypeOK, EnvOK, Go, Quiet
<1>4. Private(e, q, j)
  BY <1>1, <1>2, KindFacts DEF Private, Go, StepPCs, Quiet
<1> QED BY <1>3, <1>4 DEF Shape, PCs, StepPCs

\* What has to be shown of an action to make it a private step.
LEMMA PrivateIntro ==
  ASSUME IInv, NEW e \in Executors, NEW q \in StepPCs, NEW j \in Job,
         pc[e] \in StepPCs \ {"commit"}, Go(e, q, j), store' = store,
         live' \in [Kinds -> Nat], made' \in [Kinds -> Nat],
         serving' \in {"old", "new"}, waits' \in Nat, faults' \in Nat,
         j.rev = loc[e].rev, q # "commit" => j.phase = loc[e].phase,
         q = "memory" => live["memory"] = 0,
         \A k \in Kinds : live[k] # 0 => live'[k] = live[k],
         \A k \in Kinds : j.id[k] \in {0, loc[e].id[k], live'[k]},
         \A k \in Kept : j.owner[k] = loc[e].owner[k]
  PROVE  Shape(e)
<1>1. EnvOK' BY DEF IInv, TypeOK, EnvOK, Go
<1>2. Private(e, q, j) BY DEF Private, Go
<1> QED BY <1>1, <1>2 DEF Shape, PCs

\* QUEUED starts the build and at most finds the memory in place.
LEMMA StartBuildShape ==
  ASSUME IInv, NEW e \in Executors, StartBuild(e)
  PROVE  Shape(e)
<1> DEFINE i == loc[e]
<1>1. i \in Job /\ i.id \in [Kinds -> Nat] /\ i.owner \in [Kinds -> Owners]
  BY LocFacts DEF IInv
<1>2. /\ pc[e] \in StepPCs \ {"commit"} /\ store' = store
      /\ live' = live /\ live' \in [Kinds -> Nat] /\ made' \in [Kinds -> Nat]
      /\ serving' \in {"old", "new"} /\ waits' \in Nat /\ faults' \in Nat
  BY DEF IInv, TypeOK, StartBuild, Stepping, At, StepPCs, remote, budget
<1>3. "memory" \in Kinds /\ live["memory"] \in Nat
  BY KindFacts DEF IInv, TypeOK
<1>4. CASE ~Managed
  <2> DEFINE j == Moved(i, "BUILDING")
  <2>1. Go(e, "commit", j) BY <1>4 DEF StartBuild
  <2>2. j \in Job /\ j.rev = i.rev /\ j.id = i.id /\ j.owner = i.owner
    BY <1>1, MovedJob DEF Phases
  <2> HIDE DEF j
  <2> QED BY <1>1, <1>2, <2>1, <2>2, PrivateIntro DEF StepPCs
<1>5. CASE Managed /\ live["memory"] = 0
  <2>1. Go(e, "memory", i) BY <1>5 DEF StartBuild
  <2> QED BY <1>1, <1>2, <1>5, <2>1, PrivateIntro DEF StepPCs
<1>6. CASE Managed /\ live["memory"] # 0
  <2> DEFINE t == Took(i, "memory", live["memory"])
             j == Moved(t, "BUILDING")
  <2>1. Go(e, "commit", j) BY <1>6 DEF StartBuild
  <2>2. t \in Job /\ t.rev = i.rev /\ t.owner = i.owner
        /\ t.id = [i.id EXCEPT !["memory"] = live["memory"]]
    BY <1>1, <1>3, TookJob
  <2> HIDE DEF t
  <2>3. j \in Job /\ j.rev = i.rev /\ j.id = t.id /\ j.owner = i.owner
    BY <2>2, MovedJob DEF Phases
  <2> HIDE DEF j
  <2>4. \A k \in Kinds : j.id[k] \in {0, i.id[k], live'[k]}
    BY <1>1, <1>2, <2>2, <2>3
  <2> QED BY <1>2, <2>1, <2>3, <2>4, PrivateIntro DEF StepPCs
<1> QED BY <1>4, <1>5, <1>6

\* The memory that was absent is created, or the replay's one is taken.
LEMMA CreateMemoryShape ==
  ASSUME IInv, NEW e \in Executors, CreateMemory(e)
  PROVE  Shape(e)
<1> DEFINE i == loc[e]
           n == IF live["memory"] = 0 THEN made["memory"] + 1
                                      ELSE live["memory"]
           t == Claimed(i, "memory", n, e)
           j == Moved(t, "BUILDING")
<1>1. i \in Job /\ i.id \in [Kinds -> Nat] /\ i.owner \in [Kinds -> Owners]
  BY LocFacts DEF IInv
<1>2. /\ pc[e] \in StepPCs \ {"commit"} /\ store' = store /\ pc[e] = "memory"
      /\ serving' \in {"old", "new"} /\ waits' \in Nat /\ faults' \in Nat
  BY DEF IInv, TypeOK, CreateMemory, At, StepPCs, budget
<1>3. "memory" \in Kinds /\ live["memory"] \in Nat /\ made["memory"] \in Nat
  BY KindFacts DEF IInv, TypeOK
<1>4. Go(e, "commit", j) BY DEF CreateMemory
<1>5. "memory" \notin Kept BY <1>2 DEF IInv, Standing, Clean
<1>6. /\ live' \in [Kinds -> Nat] /\ made' \in [Kinds -> Nat]
      /\ \A k \in Kinds : live[k] # 0 => live'[k] = live[k]
      /\ live'["memory"] = n
  <2>1. CASE live["memory"] = 0
    <3>1. Create({"memory"}) BY <2>1 DEF CreateMemory
    <3> QED BY <1>3, <2>1, <3>1, CreateFacts DEF IInv
  <2>2. CASE live["memory"] # 0
    BY <2>2 DEF CreateMemory, IInv, TypeOK
  <2> QED BY <2>1, <2>2
<1>7. n \in Nat BY <1>3
<1> HIDE DEF n
<1>8. t \in Job /\ t.rev = i.rev /\ t.phase = i.phase
      /\ t.id = [i.id EXCEPT !["memory"] = n]
      /\ t.owner = [i.owner EXCEPT !["memory"] = e]
  <2> HIDE DEF i
  <2>1. i \in Job /\ "memory" \in Kinds BY <1>1, <1>3
  <2> QED BY <2>1, <1>7, ClaimedJob
<1> HIDE DEF t
<1>9. j \in Job /\ j.rev = i.rev /\ j.id = t.id /\ j.owner = t.owner
  BY <1>8, MovedJob DEF Phases
<1> HIDE DEF j
<1>10. \A k \in Kinds : j.id[k] \in {0, i.id[k], live'[k]}
  BY <1>1, <1>6, <1>8, <1>9
<1>11. \A k \in Kept : j.owner[k] = i.owner[k]
  BY <1>1, <1>5, <1>8, <1>9
<1> QED BY <1>2, <1>4, <1>6, <1>9, <1>10, <1>11, PrivateIntro DEF StepPCs

\* The role is created and claimed only when it is absent.
LEMMA EnsureRoleShape ==
  ASSUME IInv, NEW e \in Executors, EnsureRole(e)
  PROVE  Shape(e)
<1> DEFINE i == loc[e]
<1>1. i \in Job /\ i.id \in [Kinds -> Nat] /\ i.owner \in [Kinds -> Owners]
  BY LocFacts DEF IInv
<1>2. /\ pc[e] \in StepPCs \ {"commit"} /\ store' = store
      /\ serving' \in {"old", "new"} /\ waits' \in Nat /\ faults' \in Nat
  BY DEF IInv, TypeOK, EnsureRole, Stepping, At, StepPCs, budget
<1>3. "role" \in Kinds /\ live["role"] \in Nat /\ made["role"] \in Nat
  BY KindFacts DEF IInv, TypeOK
<1>4. CASE live["role"] = 0
  <2> DEFINE n == made["role"] + 1
             j == Claimed(i, "role", n, e)
  <2>1. Go(e, "roleMade", j) BY <1>4 DEF EnsureRole
  <2>2. Create({"role"}) BY <1>4 DEF EnsureRole
  <2>3. /\ live' \in [Kinds -> Nat] /\ made' \in [Kinds -> Nat]
        /\ \A k \in Kinds : live[k] # 0 => live'[k] = live[k]
        /\ live'["role"] = n
    BY <1>3, <1>4, <2>2, CreateFacts DEF IInv
  <2>4. n \in Nat BY <1>3
  <2> HIDE DEF n
  <2>5. j \in Job /\ j.rev = i.rev /\ j.phase = i.phase
        /\ j.id = [i.id EXCEPT !["role"] = n]
        /\ j.owner = [i.owner EXCEPT !["role"] = e]
    BY <1>1, <1>3, <2>4, ClaimedJob
  <2> HIDE DEF j
  <2>6. \A k \in Kinds : j.id[k] \in {0, i.id[k], live'[k]}
    BY <1>1, <2>3, <2>5
  <2>7. "role" \notin Kept BY <1>4 DEF IInv, Standing, Clean
  <2>8. \A k \in Kept : j.owner[k] = i.owner[k] BY <1>1, <2>5, <2>7
  <2> QED BY <1>2, <2>1, <2>3, <2>5, <2>6, <2>8, PrivateIntro DEF StepPCs
<1>5. CASE live["role"] # 0
  <2> DEFINE j == Took(i, "role", live["role"])
  <2>1. Go(e, "tools", j) BY <1>5 DEF EnsureRole
  <2>2. /\ live' = live /\ live' \in [Kinds -> Nat]
        /\ made' \in [Kinds -> Nat]
    BY <1>5 DEF EnsureRole, IInv, TypeOK
  <2>3. j \in Job /\ j.rev = i.rev /\ j.phase = i.phase /\ j.owner = i.owner
        /\ j.id = [i.id EXCEPT !["role"] = live["role"]]
    BY <1>1, <1>3, TookJob
  <2> HIDE DEF j
  <2>4. \A k \in Kinds : j.id[k] \in {0, i.id[k], live'[k]}
    BY <1>1, <2>2, <2>3
  <2> QED BY <1>2, <2>1, <2>2, <2>3, <2>4, PrivateIntro DEF StepPCs
<1> QED BY <1>4, <1>5

\* Tools are claimed exactly when this step created them.
LEMMA EnsureToolsShape ==
  ASSUME IInv, NEW e \in Executors, EnsureTools(e)
  PROVE  Shape(e)
<1> DEFINE i == loc[e]
<1>1. i \in Job /\ i.id \in [Kinds -> Nat] /\ i.owner \in [Kinds -> Owners]
  BY LocFacts DEF IInv
<1>2. /\ pc[e] \in StepPCs \ {"commit"} /\ store' = store
      /\ serving' \in {"old", "new"} /\ waits' \in Nat /\ faults' \in Nat
  BY DEF IInv, TypeOK, EnsureTools, At, StepPCs, budget
<1>3. PICK S \in SUBSET MissingTools(e) :
        LET new == {k \in S : live[k] = 0} IN
        /\ Create(new)
        /\ Go(e, "commit",
              [i EXCEPT
                 !.phase = IF S = MissingTools(e) THEN @ ELSE "FAILED",
                 !.id    = [k \in Kinds |-> IF k \in new THEN made[k] + 1
                              ELSE IF k \in S THEN live[k] ELSE @[k]],
                 !.owner = [k \in Kinds |-> IF k \in new THEN e ELSE @[k]]])
  BY DEF EnsureTools
<1> DEFINE new == {k \in S : live[k] = 0}
           ph  == IF S = MissingTools(e) THEN i.phase ELSE "FAILED"
           ids == [k \in Kinds |-> IF k \in new THEN made[k] + 1
                     ELSE IF k \in S THEN live[k] ELSE i.id[k]]
           own == [k \in Kinds |-> IF k \in new THEN e ELSE i.owner[k]]
           j   == [i EXCEPT !.phase = ph, !.id = ids, !.owner = own]
<1>4. Create(new) /\ Go(e, "commit", j) BY <1>3
<1>5. live \in [Kinds -> Nat] /\ made \in [Kinds -> Nat] /\ S \subseteq Kinds
  BY KindFacts DEF IInv, TypeOK, MissingTools
<1>6. /\ live' \in [Kinds -> Nat] /\ made' \in [Kinds -> Nat]
      /\ \A k \in Kinds : live[k] # 0 => live'[k] = live[k]
      /\ \A k \in new : live'[k] = made[k] + 1
  <2>1. \A k \in new \cap Kinds : live[k] = 0 OBVIOUS
  <2>2. new \cap Kinds = new BY <1>5
  <2> HIDE DEF new
  <2> QED BY <1>4, <2>1, <2>2, CreateFacts DEF IInv
<1>7. ids \in [Kinds -> Nat] BY <1>1, <1>5
<1>8. own \in [Kinds -> Owners] BY <1>1 DEF Owners
<1>9. ph \in Phases BY <1>1 DEF Job, Phases
<1>10. \A k \in Kinds : ids[k] \in {0, i.id[k], live'[k]}
  BY <1>1, <1>5, <1>6
<1>11. \A k \in Kept : own[k] = i.owner[k]
  <2>1. \A k \in Kept : live[k] = 1 /\ k \in Kinds
    BY KindFacts DEF IInv, Standing, Clean
  <2> QED BY <2>1
<1> HIDE DEF ids, own, ph, new
<1>12. j \in Job /\ j.rev = i.rev /\ j.id = ids /\ j.owner = own
  BY <1>1, <1>7, <1>8, <1>9 DEF Job
<1> HIDE DEF j
<1>13. "commit" \in StepPCs BY DEF StepPCs
<1>14. \A k \in Kinds : j.id[k] \in {0, i.id[k], live'[k]} BY <1>10, <1>12
<1>15. \A k \in Kept : j.owner[k] = i.owner[k] BY <1>11, <1>12
<1> QED BY <1>2, <1>4, <1>6, <1>12, <1>13, <1>14, <1>15, PrivateIntro

\* The second look at the memory changes nothing the job names.
LEMMA ToolsReadyShape ==
  ASSUME IInv, NEW e \in Executors, ToolsReady(e)
  PROVE  Shape(e)
<1> DEFINE i == loc[e]
           f == Moved(i, "FAILED")
<1>1. i \in Job /\ i.id \in [Kinds -> Nat] /\ i.owner \in [Kinds -> Owners]
  BY LocFacts DEF IInv
<1>2. /\ pc[e] \in StepPCs \ {"commit"} /\ store' = store
      /\ serving' \in {"old", "new"} /\ waits' \in Nat /\ faults' \in Nat
  BY DEF IInv, TypeOK, ToolsReady, At, StepPCs, budget
<1>3. f \in Job /\ f.rev = i.rev /\ f.id = i.id /\ f.owner = i.owner
  BY <1>1, MovedJob DEF Phases
<1>4. CASE Managed /\ live["memory"] = 0
  <2>1. Create({"memory"}) /\ Go(e, "commit", f)
    BY <1>4 DEF ToolsReady, Fail
  <2>2. /\ live' \in [Kinds -> Nat] /\ made' \in [Kinds -> Nat]
        /\ \A k \in Kinds : live[k] # 0 => live'[k] = live[k]
    BY <1>4, <2>1, CreateFacts DEF IInv
  <2> HIDE DEF f
  <2>3. \A k \in Kinds : f.id[k] \in {0, i.id[k], live'[k]} BY <1>3
  <2> QED BY <1>2, <1>3, <2>1, <2>2, <2>3, PrivateIntro DEF StepPCs
<1>5. CASE ~(Managed /\ live["memory"] = 0)
  <2>1. /\ live' = live /\ made' = made
        /\ Go(e, "commit", f) \/ Go(e, "runtime", i)
    BY <1>5 DEF ToolsReady, Fail
  <2>2. live' \in [Kinds -> Nat] /\ made' \in [Kinds -> Nat]
    BY <2>1 DEF IInv, TypeOK
  <2> HIDE DEF f
  <2>3. CASE Go(e, "commit", f)
    BY <1>2, <1>3, <2>1, <2>2, <2>3, PrivateIntro DEF StepPCs
  <2>4. CASE Go(e, "runtime", i)
    BY <1>1, <1>2, <2>1, <2>2, <2>4, PrivateIntro DEF StepPCs
  <2> QED BY <2>1, <2>3, <2>4
<1> QED BY <1>4, <1>5

\* Creating the identity when it is absent, and recording it on the job.
LEMMA IdentityStep ==
  ASSUME IInv, NEW e \in Executors, NEW S \in SUBSET {"runtime"},
         \A k \in S : live[k] = 0, Create(NewIdentity \cup S)
  PROVE  LET i == loc[e]
             w == WithIdentity(i, e)
         IN /\ w \in Job /\ w.rev = i.rev /\ w.phase = i.phase
            /\ live' \in [Kinds -> Nat] /\ made' \in [Kinds -> Nat]
            /\ \A k \in Kinds : live[k] # 0 => live'[k] = live[k]
            /\ \A k \in S : live'[k] = made[k] + 1
            /\ \A k \in Kinds : w.id[k] \in {0, i.id[k], live'[k]}
            /\ \A k \in Kept : w.owner[k] = i.owner[k]
<1> DEFINE i == loc[e]
           w == WithIdentity(i, e)
<1>1. i \in Job BY LocFacts DEF IInv
<1>2. /\ w \in Job /\ w.rev = i.rev /\ w.phase = i.phase
      /\ \A k \in Kinds : k # "identity" =>
           w.id[k] = i.id[k] /\ w.owner[k] = i.owner[k]
      /\ w.id["identity"] = IF live["identity"] = 0 THEN made["identity"] + 1
                                                    ELSE live["identity"]
      /\ live["identity"] # 0 =>
           w.owner["identity"] = i.owner["identity"]
  BY <1>1, WithIdentityJob DEF IInv
<1> HIDE DEF w
<1>3. "identity" \in Kinds /\ "runtime" \in Kinds BY KindFacts
<1> DEFINE T == NewIdentity \cup S
<1>4. /\ T \cap Kinds = T
      /\ \A k \in T : live[k] = 0
      /\ live["identity"] = 0 <=> "identity" \in T
  BY <1>3 DEF NewIdentity
<1>5. Create(T) OBVIOUS
<1>6. S \subseteq T OBVIOUS
<1> HIDE DEF T
<1>7. /\ live' \in [Kinds -> Nat] /\ made' \in [Kinds -> Nat]
      /\ \A k \in Kinds : live[k] # 0 => live'[k] = live[k]
      /\ \A k \in T : live'[k] = made[k] + 1
  BY <1>4, <1>5, CreateFacts DEF IInv
<1>8. \A k \in Kinds : w.id[k] \in {0, i.id[k], live'[k]}
  BY <1>2, <1>3, <1>4, <1>7
<1>9. \A k \in Kept : live[k] = 1 /\ k \in Kinds
  BY KindFacts DEF IInv, Standing, Clean
<1>10. \A k \in Kept : w.owner[k] = i.owner[k]
  BY <1>2, <1>9
<1> QED BY <1>2, <1>6, <1>7, <1>8, <1>10 DEF w

\* A redeploy names the runtime that is in place.
LEMMA UpdateRuntimeShape ==
  ASSUME IInv, NEW e \in Executors, UpdateRuntime(e)
  PROVE  Shape(e)
<1> DEFINE i == loc[e]
           w == WithIdentity(i, e)
           t == Took(w, "runtime", 1)
           j == Moved(t, "DEPLOYING")
<1>0. Create(NewIdentity \cup {}) BY DEF UpdateRuntime
<1>1. Go(e, "commit", j) BY DEF UpdateRuntime
<1>2. /\ w \in Job /\ w.rev = i.rev
      /\ live' \in [Kinds -> Nat] /\ made' \in [Kinds -> Nat]
      /\ \A k \in Kinds : live[k] # 0 => live'[k] = live[k]
      /\ \A k \in Kinds : w.id[k] \in {0, i.id[k], live'[k]}
      /\ \A k \in Kept : w.owner[k] = i.owner[k]
  <2>1. {} \in SUBSET {"runtime"} /\ \A k \in {} : live[k] = 0 OBVIOUS
  <2> HIDE DEF w
  <2> QED BY <1>0, <2>1, IdentityStep DEF w
<1>3. /\ pc[e] \in StepPCs \ {"commit"} /\ store' = store
      /\ serving' \in {"old", "new"} /\ waits' \in Nat /\ faults' \in Nat
  BY DEF IInv, TypeOK, UpdateRuntime, At, StepPCs, budget
<1>4. live["runtime"] = 1 /\ "runtime" \in Kinds
  BY KindFacts DEF IInv, Standing, Clean, UpdateRuntime
<1>5. w.id \in [Kinds -> Nat] BY <1>2 DEF Job
<1> HIDE DEF w
<1>6. t \in Job /\ t.rev = w.rev /\ t.phase = w.phase
      /\ t.id = [w.id EXCEPT !["runtime"] = 1] /\ t.owner = w.owner
  BY <1>2, <1>4, TookJob
<1> HIDE DEF t
<1>7. j \in Job /\ j.rev = t.rev /\ j.id = t.id /\ j.owner = t.owner
  BY <1>6, MovedJob DEF Phases
<1> HIDE DEF j
<1>8. \A k \in Kinds : j.id[k] \in {0, i.id[k], live'[k]}
  BY <1>2, <1>4, <1>5, <1>6, <1>7
<1>9. \A k \in Kept : j.owner[k] = i.owner[k] BY <1>2, <1>6, <1>7
<1>10. j \in Job /\ j.rev = i.rev BY <1>2, <1>6, <1>7
<1>11. "commit" \in StepPCs BY DEF StepPCs
<1> QED BY <1>1, <1>2, <1>3, <1>8, <1>9, <1>10, <1>11, PrivateIntro

\* A new agent claims the runtime it created, and only names one it found.
LEMMA CreateRuntimeShape ==
  ASSUME IInv, NEW e \in Executors, CreateRuntime(e)
  PROVE  Shape(e)
<1> DEFINE i == loc[e]
           w == WithIdentity(i, e)
<1>1. Kept = {} BY KindFacts DEF CreateRuntime
<1>2. /\ pc[e] \in StepPCs \ {"commit"} /\ store' = store
      /\ serving' \in {"old", "new"} /\ waits' \in Nat /\ faults' \in Nat
  BY DEF IInv, TypeOK, CreateRuntime, At, StepPCs, budget
<1>3. "runtime" \in Kinds /\ live["runtime"] \in Nat /\ made["runtime"] \in Nat
  BY KindFacts DEF IInv, TypeOK
<1>4. CASE live["runtime"] = 0
  <2> DEFINE n == made["runtime"] + 1
             t == Claimed(w, "runtime", n, e)
             j == Moved(t, "DEPLOYING")
  <2>0. Create(NewIdentity \cup {"runtime"}) BY <1>4 DEF CreateRuntime
  <2>1. Go(e, "commit", j) BY <1>4 DEF CreateRuntime
  <2>2. /\ w \in Job /\ w.rev = i.rev
        /\ live' \in [Kinds -> Nat] /\ made' \in [Kinds -> Nat]
        /\ \A k \in Kinds : live[k] # 0 => live'[k] = live[k]
        /\ live'["runtime"] = n
        /\ \A k \in Kinds : w.id[k] \in {0, i.id[k], live'[k]}
    <3>1. /\ {"runtime"} \in SUBSET {"runtime"}
          /\ \A k \in {"runtime"} : live[k] = 0
      BY <1>4
    <3> QED BY <2>0, <3>1, IdentityStep
  <2>3. w.id \in [Kinds -> Nat] BY <2>2 DEF Job
  <2>4. n \in Nat BY <1>3
  <2> HIDE DEF w, n
  <2>5. t \in Job /\ t.rev = w.rev /\ t.phase = w.phase
        /\ t.id = [w.id EXCEPT !["runtime"] = n]
        /\ t.owner = [w.owner EXCEPT !["runtime"] = e]
    BY <1>3, <2>2, <2>4, ClaimedJob
  <2> HIDE DEF t
  <2>6. j \in Job /\ j.rev = t.rev /\ j.id = t.id
    BY <2>5, MovedJob DEF Phases
  <2> HIDE DEF j
  <2>7. \A k \in Kinds : j.id[k] \in {0, i.id[k], live'[k]}
    BY <2>2, <2>3, <2>5, <2>6
  <2>8. j \in Job /\ j.rev = i.rev BY <2>2, <2>5, <2>6
  <2>9. \A k \in Kept : j.owner[k] = i.owner[k] BY <1>1
  <2> QED BY <1>2, <2>1, <2>2, <2>7, <2>8, <2>9, PrivateIntro DEF StepPCs
<1>5. CASE live["runtime"] # 0
  <2> DEFINE n == live["runtime"]
             t == Took(w, "runtime", n)
             j == Moved(t, "DEPLOYING")
  <2>0. Create(NewIdentity \cup {}) BY <1>5 DEF CreateRuntime
  <2>1. Go(e, "commit", j) BY <1>5 DEF CreateRuntime
  <2>2. /\ w \in Job /\ w.rev = i.rev
        /\ live' \in [Kinds -> Nat] /\ made' \in [Kinds -> Nat]
        /\ \A k \in Kinds : live[k] # 0 => live'[k] = live[k]
        /\ \A k \in Kinds : w.id[k] \in {0, i.id[k], live'[k]}
    <3>1. {} \in SUBSET {"runtime"} /\ \A k \in {} : live[k] = 0
      OBVIOUS
    <3> QED BY <2>0, <3>1, IdentityStep
  <2>3. w.id \in [Kinds -> Nat] BY <2>2 DEF Job
  <2>4. n \in Nat /\ live'["runtime"] = n BY <1>3, <1>5, <2>2
  <2> HIDE DEF w, n
  <2>5. t \in Job /\ t.rev = w.rev /\ t.phase = w.phase
        /\ t.id = [w.id EXCEPT !["runtime"] = n] /\ t.owner = w.owner
    BY <1>3, <2>2, <2>4, TookJob
  <2> HIDE DEF t
  <2>6. j \in Job /\ j.rev = t.rev /\ j.id = t.id
    BY <2>5, MovedJob DEF Phases
  <2> HIDE DEF j
  <2>7. \A k \in Kinds : j.id[k] \in {0, i.id[k], live'[k]}
    BY <2>2, <2>3, <2>4, <2>5, <2>6
  <2>8. j \in Job /\ j.rev = i.rev BY <2>2, <2>5, <2>6
  <2>9. \A k \in Kept : j.owner[k] = i.owner[k] BY <1>1
  <2> QED BY <1>2, <2>1, <2>2, <2>7, <2>8, <2>9, PrivateIntro DEF StepPCs
<1> QED BY <1>4, <1>5

\* A refused runtime still records the identity that was made for it.
LEMMA RuntimeRefusedShape ==
  ASSUME IInv, NEW e \in Executors, RuntimeRefused(e)
  PROVE  Shape(e)
<1> DEFINE i == loc[e]
           w == WithIdentity(i, e)
           f == Moved(w, "FAILED")
<1>0. Create(NewIdentity \cup {}) BY DEF RuntimeRefused
<1>1. Go(e, "commit", w) \/ Go(e, "commit", f) BY DEF RuntimeRefused
<1>2. /\ w \in Job /\ w.rev = i.rev
      /\ live' \in [Kinds -> Nat] /\ made' \in [Kinds -> Nat]
      /\ \A k \in Kinds : live[k] # 0 => live'[k] = live[k]
      /\ \A k \in Kinds : w.id[k] \in {0, i.id[k], live'[k]}
      /\ \A k \in Kept : w.owner[k] = i.owner[k]
  <2>1. {} \in SUBSET {"runtime"} /\ \A k \in {} : live[k] = 0 OBVIOUS
  <2> HIDE DEF w
  <2> QED BY <1>0, <2>1, IdentityStep DEF w
<1>3. /\ pc[e] \in StepPCs \ {"commit"} /\ store' = store
      /\ serving' \in {"old", "new"} /\ waits' \in Nat /\ faults' \in Nat
  BY DEF IInv, TypeOK, RuntimeRefused, At, StepPCs, budget, Wait
<1> HIDE DEF w
<1>4. f \in Job /\ f.rev = w.rev /\ f.id = w.id /\ f.owner = w.owner
  BY <1>2, MovedJob DEF Phases
<1> HIDE DEF f
<1>5. CASE Go(e, "commit", w)
  BY <1>2, <1>3, <1>5, PrivateIntro DEF StepPCs
<1>6. CASE Go(e, "commit", f)
  <2>1. f \in Job /\ f.rev = i.rev BY <1>2, <1>4
  <2>2. \A k \in Kinds : f.id[k] \in {0, i.id[k], live'[k]} BY <1>2, <1>4
  <2>3. \A k \in Kept : f.owner[k] = i.owner[k] BY <1>2, <1>4
  <2>4. "commit" \in StepPCs BY DEF StepPCs
  <2> QED BY <1>2, <1>3, <1>6, <2>1, <2>2, <2>3, <2>4, PrivateIntro
<1> QED BY <1>1, <1>5, <1>6

\* Grants are created when absent; the job names none that is not there.
LEMMA GrantShape ==
  ASSUME IInv, NEW e \in Executors, Grant(e)
  PROVE  Shape(e)
<1> DEFINE i == loc[e]
<1>1. i \in Job /\ i.id \in [Kinds -> Nat] /\ i.owner \in [Kinds -> Owners]
  BY LocFacts DEF IInv
<1>2. /\ pc[e] \in StepPCs \ {"commit"} /\ store' = store
      /\ serving' \in {"old", "new"} /\ waits' \in Nat /\ faults' \in Nat
  BY DEF IInv, TypeOK, Grant, At, StepPCs, budget
<1>3. "grants" \in Kinds /\ live["grants"] \in Nat /\ made["grants"] \in Nat
  BY KindFacts DEF IInv, TypeOK
<1>4. CASE live["grants"] = 0 /\ Create({"grants"})
  <2> DEFINE n == made["grants"] + 1
             j == Took(i, "grants", n)
             f == Moved(i, "FAILED")
  <2>1. /\ live' \in [Kinds -> Nat] /\ made' \in [Kinds -> Nat]
        /\ \A k \in Kinds : live[k] # 0 => live'[k] = live[k]
        /\ live'["grants"] = n
    BY <1>3, <1>4, CreateFacts DEF IInv
  <2>2. n \in Nat BY <1>3
  <2>3. CASE Go(e, "granted", j)
    <3> HIDE DEF n
    <3>1. j \in Job /\ j.rev = i.rev /\ j.phase = i.phase /\ j.owner = i.owner
          /\ j.id = [i.id EXCEPT !["grants"] = n]
      BY <1>1, <1>3, <2>2, TookJob
    <3> HIDE DEF j
    <3>2. \A k \in Kinds : j.id[k] \in {0, i.id[k], live'[k]}
      BY <1>1, <2>1, <3>1
    <3> QED BY <1>2, <2>1, <2>3, <3>1, <3>2, PrivateIntro DEF StepPCs
  <2>4. CASE Go(e, "commit", f)
    <3>1. f \in Job /\ f.rev = i.rev /\ f.id = i.id /\ f.owner = i.owner
      BY <1>1, MovedJob DEF Phases
    <3> HIDE DEF f
    <3>2. \A k \in Kinds : f.id[k] \in {0, i.id[k], live'[k]} BY <3>1
    <3> QED BY <1>2, <2>1, <2>4, <3>1, <3>2, PrivateIntro DEF StepPCs
  <2>5. CASE Go(e, "granted", i)
    BY <1>1, <1>2, <2>1, <2>5, PrivateIntro DEF StepPCs
  <2> QED BY <1>3, <1>4, <2>3, <2>4, <2>5 DEF Grant, Create, Fail
<1>5. CASE live' = live /\ made' = made
  <2>1. live' \in [Kinds -> Nat] /\ made' \in [Kinds -> Nat]
    BY <1>5 DEF IInv, TypeOK
  <2>2. CASE Go(e, "granted", i)
    BY <1>1, <1>2, <1>5, <2>1, <2>2, PrivateIntro DEF StepPCs
  <2>3. ASSUME NEW n \in {i.id["grants"], live["grants"]},
               Go(e, "granted", Took(i, "grants", n))
        PROVE  Shape(e)
    <3> DEFINE j == Took(i, "grants", n)
    <3>1. n \in Nat BY <1>1, <1>3
    <3>2. j \in Job /\ j.rev = i.rev /\ j.phase = i.phase /\ j.owner = i.owner
          /\ j.id = [i.id EXCEPT !["grants"] = n]
      BY <1>1, <1>3, <3>1, TookJob
    <3>3. Go(e, "granted", j) BY <2>3
    <3> HIDE DEF j
    <3>4. \A k \in Kinds : j.id[k] \in {0, i.id[k], live'[k]}
      BY <1>1, <1>5, <2>3, <3>2
    <3> QED BY <1>2, <1>5, <2>1, <3>2, <3>3, <3>4, PrivateIntro DEF StepPCs
  <2>4. \/ Go(e, "granted", i)
        \/ \E n \in {i.id["grants"], live["grants"]} :
             Go(e, "granted", Took(i, "grants", n))
    BY <1>3, <1>5 DEF Grant, Create, IInv, TypeOK
  <2> QED BY <2>2, <2>3, <2>4
<1> QED BY <1>4, <1>5 DEF Grant

\* The role's checkpoint is stored, or the step fails and stores nothing.
LEMMA CheckpointRoleShape ==
  ASSUME IInv, NEW e \in Executors, CheckpointRole(e)
  PROVE  Shape(e)
<1> DEFINE i == loc[e]
           b == Bumped(i)
           f == Moved(i, "FAILED")
<1>1. i \in Job BY LocFacts DEF IInv
<1>2. /\ pc[e] \in StepPCs \ {"commit"}
      /\ live' = live /\ live' \in [Kinds -> Nat] /\ made' \in [Kinds -> Nat]
      /\ serving' \in {"old", "new"} /\ waits' \in Nat /\ faults' \in Nat
  BY DEF IInv, TypeOK, CheckpointRole, At, StepPCs, remote, budget, Fault
<1>3. CASE store' = store /\ Go(e, "commit", f)
  <2>1. f \in Job /\ f.rev = i.rev /\ f.id = i.id /\ f.owner = i.owner
    BY <1>1, MovedJob DEF Phases
  <2>2. Go(e, "commit", f) BY <1>3
  <2> HIDE DEF f
  <2> QED BY <1>2, <1>3, <2>1, <2>2, PrivateIntro DEF StepPCs
<1>4. ASSUME NEW p \in {"BUILDING", "FAILED"}, Current(e), store' = b,
             Go(e, "commit", Moved(b, p))
      PROVE  Shape(e)
  <2> DEFINE j == Moved(b, p)
  <2>1. b \in Job /\ b.rev = i.rev + 1 /\ b.id = i.id /\ b.owner = i.owner
    BY <1>1, BumpedJob
  <2> HIDE DEF b
  <2>2. j \in Job /\ j.rev = b.rev /\ j.id = b.id /\ j.owner = b.owner
    BY <2>1, MovedJob DEF Phases
  <2>3. Go(e, "commit", j) BY <1>4
  <2> HIDE DEF j
  <2>4. EnvOK' BY <1>2, <2>3 DEF IInv, TypeOK, EnvOK, Go
  <2>5. Checkpointed(e, "commit", j)
    BY <1>2, <1>4, <2>1, <2>2, <2>3 DEF Checkpointed, Go, StepPCs, b
  <2> QED BY <2>2, <2>4, <2>5 DEF Shape, PCs, StepPCs
<1>5. \/ store' = store /\ Go(e, "commit", f)
      \/ \E p \in {"BUILDING", "FAILED"} :
           Current(e) /\ store' = b /\ Go(e, "commit", Moved(b, p))
  BY DEF CheckpointRole, Fail
<1> QED BY <1>3, <1>4, <1>5

\* A provisioning checkpoint is stored, or poll() returns.
LEMMA CheckpointShape ==
  ASSUME IInv, NEW e \in Executors,
         CheckpointRecord(e) \/ CheckpointGrants(e) \/ CheckpointRequest(e)
  PROVE  Shape(e)
<1> DEFINE i == loc[e]
           b == Bumped(i)
<1>1. i \in Job BY LocFacts DEF IInv
<1>2. b \in Job /\ b.rev = i.rev + 1 /\ b.phase = i.phase /\ b.id = i.id
      /\ b.owner = i.owner
  BY <1>1, BumpedJob
<1>3. /\ pc[e] \in StepPCs \ {"commit"}
      /\ waits' \in Nat /\ faults' \in Nat
  BY DEF IInv, TypeOK, CheckpointRecord, CheckpointGrants, CheckpointRequest,
         Stepping, At, StepPCs, budget, Wait
<1>4. PICK q \in {"register", "request", "outcome"} : CheckpointAt(e, q)
  BY DEF CheckpointRecord, CheckpointGrants, CheckpointRequest
<1>5. /\ live' = live /\ live' \in [Kinds -> Nat] /\ made' \in [Kinds -> Nat]
      /\ serving' \in {"old", "new"}
  BY <1>4 DEF IInv, TypeOK, CheckpointAt, remote
<1>6. CASE Current(e)
  <2>1. store' = b /\ Go(e, q, b) BY <1>4, <1>6 DEF CheckpointAt
  <2>2. EnvOK' BY <1>3, <1>5, <2>1 DEF IInv, TypeOK, EnvOK, Go
  <2>3. Checkpointed(e, q, b)
    <3>1. store' = Bumped(loc[e]) BY <2>1
    <3> HIDE DEF b
    <3> QED BY <1>2, <1>3, <1>5, <1>6, <2>1, <3>1 DEF Checkpointed, Go, StepPCs
  <2> HIDE DEF b
  <2> QED BY <1>2, <2>2, <2>3 DEF Shape, PCs, StepPCs
<1>7. CASE ~Current(e)
  <2>1. store' = store /\ log' = log /\ alive' = alive /\ Return(e)
    BY <1>4, <1>7 DEF CheckpointAt
  <2>2. EnvOK' BY <1>3, <1>5, <2>1 DEF IInv, TypeOK, EnvOK
  <2>3. Left(e) BY <1>5, <2>1 DEF Left, Return
  <2> QED BY <2>2, <2>3 DEF Shape
<1> QED BY <1>6, <1>7

\* poll() begins only on a job that still runs.
LEMMA LoadShape ==
  ASSUME IInv, NEW e \in Executors, Load(e)
  PROVE  Shape(e)
<1>1. EnvOK' BY DEF IInv, TypeOK, EnvOK, Load, remote, budget
<1>2. Entered(e) BY DEF Load, Entered, remote
<1> QED BY <1>1, <1>2 DEF Shape

\* The conditional write stores the copy, ends the job, or is refused.
LEMMA CommitShape ==
  ASSUME IInv, NEW e \in Executors, Commit(e) \/ CommitUnacknowledged(e)
  PROVE  Shape(e)
<1>1. EnvOK' /\ live' = live /\ log' = log
  BY DEF IInv, TypeOK, EnvOK, Commit, CommitUnacknowledged, Go, Return,
         remote, budget, Fault
<1>2. pc[e] = "commit" BY DEF Commit, CommitUnacknowledged, At
<1>3. CASE Commit(e) /\ Current(e) /\ loc[e].phase \in Terminal
  <2>1. Won(e) BY <1>1, <1>2, <1>3 DEF Commit, Won, Go
  <2> QED BY <1>1, <2>1 DEF Shape
<1>4. CASE Commit(e) /\ Current(e) /\ loc[e].phase \notin Terminal
  <2>1. Stored(e) BY <1>1, <1>2, <1>4 DEF Commit, Stored, Return
  <2> QED BY <1>1, <2>1 DEF Shape
<1>5. CASE Commit(e) /\ ~Current(e)
  <2>1. Left(e) BY <1>1, <1>5 DEF Commit, Left, Return
  <2> QED BY <1>1, <2>1 DEF Shape
<1>6. CASE CommitUnacknowledged(e)
  <2>1. Stored(e) BY <1>1, <1>2, <1>6 DEF CommitUnacknowledged, Stored, Return
  <2> QED BY <1>1, <2>1 DEF Shape
<1> QED BY <1>3, <1>4, <1>5, <1>6

\* The winner writes the log once and then compensates or returns.
LEMMA WriteLogShape ==
  ASSUME IInv, NEW e \in Executors, WriteLog(e)
  PROVE  Shape(e)
<1>1. EnvOK' /\ live' = live /\ store' = store
  BY DEF IInv, TypeOK, EnvOK, WriteLog, Go, Return, remote, budget
<1>2. pc[e] = "log" BY DEF WriteLog, At
<1>3. read \in [Executors -> Phases] /\ loc \in [Executors -> Job]
  BY DEF IInv, TypeOK
<1>4. \/ log' = log
      \/ log' = [log EXCEPT ![loc[e].phase] = @ + 1]
  BY DEF WriteLog
<1>5. CASE loc[e].phase = "FAILED" /\ Attempts(loc[e], e)
  <2>1. /\ pc' = [pc EXCEPT ![e] = "undo"] /\ loc' = loc /\ read' = read
    BY <1>5 DEF WriteLog
  <2>2. /\ loc' = [loc EXCEPT ![e] = loc[e]]
        /\ read' = [read EXCEPT ![e] = read[e]]
    BY <1>3, <2>1
  <2>3. Told(e, "undo", loc[e], read[e])
    BY <1>1, <1>2, <1>4, <1>5, <2>1, <2>2 DEF Told
  <2> QED BY <1>1, <1>3, <2>3 DEF Shape, PCs, UndoPCs
<1>6. CASE ~(loc[e].phase = "FAILED" /\ Attempts(loc[e], e))
  <2>1. Return(e) BY <1>6 DEF WriteLog
  <2>2. Told(e, "idle", Admitted, "QUEUED")
    BY <1>1, <1>2, <1>4, <2>1 DEF Told, Return
  <2> QED BY <1>1, <2>2, AdmittedFacts DEF Shape, PCs, Phases
<1> QED BY <1>5, <1>6

\* What a deletion leaves alone.
LEMMA UndoFacts ==
  ASSUME IInv, NEW e \in Executors, NEW D, NEW q \in UndoPCs,
         pc[e] \in UndoPCs, Delete(D, loc[e]), D \cap Kept = {},
         NEW j \in Job, j.phase = loc[e].phase,
         \A k \in Kinds : j.owner[k] \in {loc[e].owner[k], None},
         Go(e, q, j), waits' \in Nat, faults' \in Nat,
         UNCHANGED <<store, made, serving>>
  PROVE  Shape(e)
<1>1. live' \in [Kinds -> Nat] /\ \A k \in Kept : live'[k] = live[k]
  BY KindFacts DEF Delete, IInv, TypeOK
<1>2. EnvOK' BY <1>1 DEF IInv, TypeOK, EnvOK, Go
<1>3. \A k \in Kept : j.owner[k] = None
  BY KindFacts DEF IInv, Standing, Clean
<1>4. Compensated(e, q, j)
  BY <1>1, <1>3 DEF Compensated, Go
<1> QED BY <1>2, <1>4 DEF Shape, PCs

\* Compensation only ever touches what this executor owns, and nobody owns
\* what the previous deployment left.
LEMMA OwnedNotKept ==
  ASSUME IInv, NEW e \in Executors
  PROVE  /\ OwnedEarly(loc[e], e) \cap Kept = {}
         /\ OwnedLate(loc[e], e) \cap Kept = {}
         /\ OwnsRuntime(loc[e], e) => "runtime" \notin Kept
<1>1. \A k \in Kept : loc[e].owner[k] # e
  BY ExecutorsAssumption DEF IInv, Standing, Clean
<1> QED BY <1>1 DEF OwnedEarly, OwnedLate, OwnsRuntime

\* Tools, memory, identity and role: only owned ones are deleted.
LEMMA UndoShape ==
  ASSUME IInv, NEW e \in Executors, UndoEarly(e) \/ UndoIdentity(e)
  PROVE  Shape(e)
<1>1. PICK S \in {OwnedEarly(loc[e], e), OwnedLate(loc[e], e)}, q \in UndoPCs :
        Undo(e, S, q)
  BY DEF UndoEarly, UndoIdentity, UndoPCs
<1>2. PICK D \in SUBSET S :
        /\ Delete(D, loc[e])
        /\ Go(e, q, Forget(loc[e], D))
        /\ IF D = S THEN UNCHANGED budget ELSE Fault
        /\ UNCHANGED <<store, made, serving>>
  BY <1>1 DEF Undo
<1>3. loc[e] \in Job /\ pc[e] \in UndoPCs
  BY LocFacts DEF IInv, UndoEarly, UndoIdentity, At, UndoPCs
<1>4. waits' \in Nat /\ faults' \in Nat
  BY <1>2 DEF IInv, TypeOK, Fault, budget
<1> DEFINE j == Forget(loc[e], D)
<1>5. j \in Job /\ j.phase = loc[e].phase
      /\ \A k \in Kinds : j.owner[k] \in {loc[e].owner[k], None}
  BY <1>3, ForgetJob
<1>6. D \cap Kept = {} BY <1>1, OwnedNotKept
<1> HIDE DEF j
<1>7. Go(e, q, j) /\ Delete(D, loc[e]) /\ UNCHANGED <<store, made, serving>>
  BY <1>2 DEF j
<1> QED BY <1>3, <1>4, <1>5, <1>6, <1>7, UndoFacts

\* Only a new agent's record is deleted, with its grants.
LEMMA UndoRecordShape ==
  ASSUME IInv, NEW e \in Executors, UndoRecord(e)
  PROVE  Shape(e)
<1>1. PICK D \in SUBSET {"grants", "record"} :
        /\ "record" \in D => ~Redeploy
        /\ Delete(D, loc[e])
        /\ Go(e, "undoRuntime", Forget(loc[e], D \cap {"record"}))
        /\ UNCHANGED budget \/ Fault
        /\ UNCHANGED <<store, made, serving>>
  BY DEF UndoRecord
<1>2. loc[e] \in Job /\ pc[e] \in UndoPCs
  BY LocFacts DEF IInv, UndoRecord, At, UndoPCs
<1>3. waits' \in Nat /\ faults' \in Nat
  BY <1>1 DEF IInv, TypeOK, Fault, budget
<1> DEFINE j == Forget(loc[e], D \cap {"record"})
<1>4. j \in Job /\ j.phase = loc[e].phase
      /\ \A k \in Kinds : j.owner[k] \in {loc[e].owner[k], None}
  BY <1>2, ForgetJob
<1>5. D \cap Kept = {} BY <1>1, KindFacts
<1> HIDE DEF j
<1>6. Go(e, "undoRuntime", j) /\ Delete(D, loc[e])
      /\ UNCHANGED <<store, made, serving>>
  BY <1>1 DEF j
<1> QED BY <1>2, <1>3, <1>4, <1>5, <1>6, UndoFacts DEF UndoPCs

\* Only an owned runtime is deleted.
LEMMA UndoRuntimeShape ==
  ASSUME IInv, NEW e \in Executors, UndoRuntime(e)
  PROVE  Shape(e)
<1>1. loc[e] \in Job /\ pc[e] \in UndoPCs
  BY LocFacts DEF IInv, UndoRuntime, At, UndoPCs
<1>2. waits' \in Nat /\ faults' \in Nat /\ UNCHANGED <<store, made, serving>>
  BY DEF IInv, TypeOK, Fault, budget, UndoRuntime
<1>3. PICK q \in {"undoIdentity", "persist"} : Go(e, q, loc[e])
  BY DEF UndoRuntime
<1>4. CASE OwnsRuntime(loc[e], e) /\ Delete({"runtime"}, loc[e])
  <2>1. {"runtime"} \cap Kept = {} BY <1>4, OwnedNotKept
  <2> QED BY <1>1, <1>2, <1>3, <1>4, <2>1, UndoFacts DEF UndoPCs
<1>5. CASE live' = live
  <2>1. Delete({}, loc[e])
    BY <1>5 DEF Delete, IInv, TypeOK
  <2>2. {} \cap Kept = {} OBVIOUS
  <2> QED BY <1>1, <1>2, <1>3, <2>1, <2>2, UndoFacts DEF UndoPCs
<1> QED BY <1>4, <1>5 DEF UndoRuntime

\* Leaving poll(), by return, exception or crash, deletes nothing.
LEMMA LeaveShape ==
  ASSUME IInv, NEW e \in Executors, Persist(e) \/ Abort(e) \/ Crash(e)
  PROVE  Shape(e)
<1>1. EnvOK' /\ live' = live /\ log' = log /\ Return(e)
  BY DEF IInv, TypeOK, EnvOK, Persist, Abort, Crash, remote, budget, Fault
<1>2. CASE Persist(e)
  <2>1. Recorded(e) BY <1>1, <1>2 DEF Persist, Recorded, Return, At
  <2> QED BY <1>1, <2>1 DEF Shape
<1>3. CASE Abort(e) \/ Crash(e)
  <2>1. Left(e) BY <1>1, <1>3 DEF Abort, Crash, Left, Return
  <2> QED BY <1>1, <2>1 DEF Shape
<1> QED BY <1>2, <1>3

\* Every step of an executor, and its crash, has one of the nine shapes.
LEMMA StepShape ==
  ASSUME IInv, NEW e \in Executors, Step(e) \/ Crash(e)
  PROVE  Shape(e)
BY QuietShape, StartBuildShape, CreateMemoryShape, EnsureRoleShape,
   CheckpointRoleShape, EnsureToolsShape, ToolsReadyShape, UpdateRuntimeShape,
   CreateRuntimeShape, RuntimeRefusedShape, GrantShape, CheckpointShape,
   LoadShape, CommitShape, WriteLogShape, UndoShape, UndoRecordShape,
   UndoRuntimeShape, LeaveShape
   DEF Step

-----------------------------------------------------------------------------
(* Each shape preserves the invariant. *)

\* The types, whatever the shape.
LEMMA TypeStep ==
  ASSUME IInv, NEW e \in Executors, Shape(e)
  PROVE  TypeOK'
<1>1. EnvOK' BY DEF Shape
<1> SUFFICES /\ store' \in Job /\ log' \in [Terminal -> Nat]
             /\ pc' \in [Executors -> PCs] /\ read' \in [Executors -> Phases]
             /\ loc' \in [Executors -> Job]
  BY <1>1 DEF TypeOK, EnvOK
<1>2. /\ store \in Job /\ log \in [Terminal -> Nat]
      /\ pc \in [Executors -> PCs] /\ read \in [Executors -> Phases]
      /\ loc \in [Executors -> Job] /\ loc[e] \in Job
  BY DEF IInv, TypeOK
<1>3. Bumped(loc[e]) \in Job BY <1>2, BumpedJob
<1>4. Admitted \in Job BY AdmittedFacts
<1>5. "QUEUED" \in Phases /\ "idle" \in PCs /\ "log" \in PCs
      /\ "step" \in PCs /\ StepPCs \subseteq PCs /\ UndoPCs \subseteq PCs
  BY DEF Phases, PCs, StepPCs
<1>6. store.phase \in Phases BY <1>2 DEF Job
<1>7. ASSUME NEW q \in PCs, NEW j \in Job, Private(e, q, j)
      PROVE  /\ store' \in Job /\ log' \in [Terminal -> Nat]
             /\ pc' \in [Executors -> PCs] /\ read' \in [Executors -> Phases]
             /\ loc' \in [Executors -> Job]
  BY <1>2, <1>7 DEF Private
<1>8. ASSUME NEW q \in PCs, NEW j \in Job, Checkpointed(e, q, j)
      PROVE  /\ store' \in Job /\ log' \in [Terminal -> Nat]
             /\ pc' \in [Executors -> PCs] /\ read' \in [Executors -> Phases]
             /\ loc' \in [Executors -> Job]
  BY <1>2, <1>3, <1>8 DEF Checkpointed
<1>9. CASE Left(e) BY <1>2, <1>4, <1>5, <1>9 DEF Left
<1>10. CASE Entered(e) BY <1>2, <1>5, <1>6, <1>10 DEF Entered
<1>11. CASE Stored(e) BY <1>2, <1>3, <1>4, <1>5, <1>11 DEF Stored
<1>12. CASE Won(e) BY <1>2, <1>3, <1>5, <1>12 DEF Won
<1>13. ASSUME NEW q \in PCs, NEW j \in Job, NEW r \in Phases, Told(e, q, j, r)
       PROVE  /\ store' \in Job /\ log' \in [Terminal -> Nat]
              /\ pc' \in [Executors -> PCs] /\ read' \in [Executors -> Phases]
              /\ loc' \in [Executors -> Job]
  BY <1>2, <1>13 DEF Told
<1>14. ASSUME NEW q \in PCs, NEW j \in Job, Compensated(e, q, j)
       PROVE  /\ store' \in Job /\ log' \in [Terminal -> Nat]
              /\ pc' \in [Executors -> PCs] /\ read' \in [Executors -> Phases]
              /\ loc' \in [Executors -> Job]
  BY <1>2, <1>14 DEF Compensated
<1>15. CASE Recorded(e) BY <1>2, <1>3, <1>4, <1>5, <1>15 DEF Recorded
<1> QED
  BY <1>7, <1>8, <1>9, <1>10, <1>11, <1>12, <1>13, <1>14, <1>15 DEF Shape

\* What the conditional write needs and gives: the writer's copy is as new as
\* the store, and the job was still running.
LEMMA CurrentFacts ==
  ASSUME IInv, NEW e \in Executors, Current(e), pc[e] \in StepPCs
  PROVE  /\ store.phase \notin Terminal
         /\ store.phase = read[e] /\ store.rev = loc[e].rev
         /\ Bumped(loc[e]) \in Job
         /\ Bumped(loc[e]).phase = loc[e].phase
         /\ Bumped(loc[e]).rev = store.rev + 1
         /\ Bumped(loc[e]).id = loc[e].id
         /\ Bumped(loc[e]).owner = loc[e].owner
<1>1. loc[e] \in Job BY LocFacts DEF IInv
<1> QED BY <1>1, BumpedJob DEF Current, IInv, ReadersBehind, Behind

\* A step of the handler is not past the terminal write, nor is a rest.
LEMMA PCFacts ==
  /\ \A p \in StepPCs : p \notin WinPCs /\ p \notin UndoPCs
  /\ \A p \in UndoPCs : p \in WinPCs /\ p # "log" /\ p # "memory"
  /\ "idle" \notin StepPCs /\ "idle" \notin WinPCs /\ "idle" \notin UndoPCs
  /\ "log" \in WinPCs /\ "log" \notin UndoPCs /\ "log" \notin StepPCs
  /\ "step" \in StepPCs /\ "commit" \in StepPCs /\ "memory" \in StepPCs
  /\ "undo" \in UndoPCs /\ "persist" \in UndoPCs
  /\ "idle" # "memory" /\ "log" # "memory" /\ "step" # "memory"
  /\ "idle" # "log" /\ "step" # "commit"
BY DEF StepPCs, WinPCs, UndoPCs

\* Only executor e moves.
Moves(e, q, j, r) ==
  /\ pc'[e] = q /\ loc'[e] = j /\ read'[e] = r
  /\ \A f \in Executors : f # e =>
       pc'[f] = pc[f] /\ loc'[f] = loc[f] /\ read'[f] = read[f]

\* An update at e moves e and nobody else.
LEMMA MovesFacts ==
  ASSUME TypeOK, NEW e \in Executors, NEW q, NEW j, NEW r,
         pc' = [pc EXCEPT ![e] = q], loc' = [loc EXCEPT ![e] = j],
         read' = [read EXCEPT ![e] = r] \/ (read' = read /\ r = read[e])
  PROVE  Moves(e, q, j, r)
<1>1. pc'[e] = q /\ \A f \in Executors : f # e => pc'[f] = pc[f]
  BY DEF TypeOK
<1>2. loc'[e] = j /\ \A f \in Executors : f # e => loc'[f] = loc[f]
  BY DEF TypeOK
<1>3. read'[e] = r /\ \A f \in Executors : f # e => read'[f] = read[f]
  BY DEF TypeOK
<1> QED BY <1>1, <1>2, <1>3 DEF Moves

\* The executors that do not move stay behind the store and own no leftover.
LEMMA OthersBehind ==
  ASSUME IInv, NEW e \in Executors, NEW q, NEW j, NEW r, Moves(e, q, j, r),
         store' = store \/ store'.rev = store.rev + 1
  PROVE  \A f \in Executors : f # e => Behind(f)' /\ Clean(f)'
<1> SUFFICES ASSUME NEW f \in Executors, f # e
             PROVE  Behind(f)' /\ Clean(f)'
  OBVIOUS
<1>1. pc'[f] = pc[f] /\ loc'[f] = loc[f] /\ read'[f] = read[f]
  BY DEF Moves
<1>2. Behind(f) /\ Clean(f) BY DEF IInv, ReadersBehind, Standing
<1>3. loc[f].rev \in Nat /\ store.rev \in Nat
  BY LocFacts DEF IInv, TypeOK, Job
<1>4. Clean(f)' BY <1>1, <1>2 DEF Clean
<1>5. CASE store' = store BY <1>1, <1>2, <1>4, <1>5 DEF Behind
<1>6. CASE store'.rev = store.rev + 1
  <2>1. pc[f] \in StepPCs => loc[f].rev < store'.rev
    BY <1>2, <1>3, <1>6 DEF Behind
  <2>2. pc[f] \in StepPCs => loc[f].rev <= store'.rev /\ loc[f].rev # store'.rev
    BY <1>3, <1>6, <2>1
  <2> QED BY <1>1, <1>2, <1>4, <2>2 DEF Behind
<1> QED BY <1>5, <1>6

\* What exists goes on existing, so the others still name what exists.
LEMMA OthersNamed ==
  ASSUME IInv, NEW e \in Executors, NEW q, NEW j, NEW r, Moves(e, q, j, r),
         store.phase # "FAILED",
         \A k \in Kinds : live[k] # 0 => live'[k] = live[k]
  PROVE  \A f \in Executors : f # e => Named(f)'
<1> SUFFICES ASSUME NEW f \in Executors, f # e, pc'[f] \in StepPCs
             PROVE  Names(loc[f])'
  BY DEF Named
<1>1. pc[f] \in StepPCs /\ loc'[f] = loc[f] BY DEF Moves
<1>2. Names(loc[f]) BY <1>1 DEF IInv, NamesExist, Named
<1> QED BY <1>1, <1>2 DEF Names

\* The conjuncts of the invariant beside the types.
Guarded == ReadersBehind /\ OneWinner /\ LogBehind /\ Standing /\ NamesExist

\* While nobody has ended the job, nobody is past the terminal write.
LEMMA NoWinner ==
  ASSUME IInv, store.phase \notin Terminal
  PROVE  /\ \A f \in Executors : pc[f] \notin WinPCs
         /\ log["READY"] = 0 /\ log["FAILED"] = 0
BY DEF IInv, OneWinner, Winner, LogBehind

\* An empty log breaks no promise.
LEMMA EmptyLog ==
  ASSUME log'["READY"] = 0, log'["FAILED"] = 0
  PROVE  LogBehind'
BY DEF LogBehind, OneOutcomeLogged, Terminal

\* A private step keeps the invariant: nothing is deleted or stored.
LEMMA PrivateStep ==
  ASSUME IInv, NEW e \in Executors, NEW q \in PCs, NEW j \in Job,
         Private(e, q, j)
  PROVE  Guarded'
<1> USE PCFacts
<1>1. Moves(e, q, j, read[e]) BY MovesFacts DEF IInv, Private
<1>2. /\ store' = store /\ log' = log /\ pc[e] \in StepPCs /\ pc[e] # "commit"
      /\ q \in StepPCs /\ j.rev = loc[e].rev
      /\ q # "commit" => j.phase = loc[e].phase
  BY DEF Private
<1>3. pc'[e] = q /\ loc'[e] = j /\ read'[e] = read[e] BY <1>1 DEF Moves
<1>4. ReadersBehind'
  <2>1. Behind(e) BY DEF IInv, ReadersBehind
  <2>2. Behind(e)' BY <1>2, <1>3, <2>1 DEF Behind
  <2> QED BY <1>1, <1>2, <2>2, OthersBehind DEF ReadersBehind
<1>5. OneWinner'
  <2>1. \A f \in Executors : pc'[f] \in WinPCs =>
          pc'[f] = pc[f] /\ loc'[f] = loc[f]
    BY <1>1, <1>2, <1>3 DEF Moves
  <2> QED BY <1>2, <2>1 DEF IInv, OneWinner, Winner
<1>6. LogBehind'
  <2>1. \A f \in Executors : pc'[f] = "log" => pc[f] = "log"
    BY <1>1, <1>2, <1>3 DEF Moves
  <2> QED BY <1>2, <2>1 DEF IInv, LogBehind, OneOutcomeLogged
<1>7. Standing'
  <2>1. \A k \in Kept : live'[k] = 1
    BY KindFacts DEF IInv, Standing, Private
  <2>2. "memory" \in Kept => live["memory"] = 1 BY DEF IInv, Standing
  <2>3. Clean(e)' BY <1>3, <2>2 DEF IInv, Standing, Clean, Private
  <2> QED BY <1>1, <1>2, <2>1, <2>3, OthersBehind DEF IInv, Standing
<1>8. NamesExist'
  <2> SUFFICES ASSUME store.phase # "FAILED"
               PROVE  Names(store)' /\ \A f \in Executors : Named(f)'
    BY <1>2 DEF NamesExist
  <2>1. \A k \in Kinds : live[k] # 0 => live'[k] = live[k] BY DEF Private
  <2>2. Names(store)'
    <3>1. Names(store) BY DEF IInv, NamesExist
    <3> QED BY <1>2, <2>1, <3>1 DEF Names
  <2>3. Named(e)'
    <3>1. Names(loc[e]) BY <1>2 DEF IInv, NamesExist, Named
    <3>2. \A k \in Kinds : j.id[k] \in {0, loc[e].id[k], live'[k]}
      BY DEF Private
    <3> QED BY <1>3, <2>1, <3>1, <3>2 DEF Names, Named
  <2> QED BY <1>1, <2>1, <2>2, <2>3, OthersNamed
<1> QED BY <1>4, <1>5, <1>6, <1>7, <1>8 DEF Guarded

\* A stored checkpoint keeps it: the other copies are stale from then on.
LEMMA CheckpointedStep ==
  ASSUME IInv, NEW e \in Executors, NEW q \in PCs, NEW j \in Job,
         Checkpointed(e, q, j)
  PROVE  Guarded'
<1> USE PCFacts
<1>1. Moves(e, q, j, read[e]) BY MovesFacts DEF IInv, Checkpointed
<1>2. /\ log' = log /\ live' = live /\ pc[e] \in StepPCs /\ pc[e] # "commit"
      /\ q \in StepPCs /\ q # "memory" /\ j.rev = loc[e].rev + 1
      /\ j.id = loc[e].id /\ j.owner = loc[e].owner
      /\ q # "commit" => j.phase = loc[e].phase
  BY DEF Checkpointed
<1>3. pc'[e] = q /\ loc'[e] = j /\ read'[e] = read[e] BY <1>1 DEF Moves
<1>4. /\ store.phase \notin Terminal /\ store.rev = loc[e].rev
      /\ store'.phase = loc[e].phase /\ store'.rev = store.rev + 1
      /\ store'.id = loc[e].id /\ store'.owner = loc[e].owner
  BY <1>2, CurrentFacts DEF Checkpointed
<1>5. loc[e].phase = read[e] /\ read[e] \notin Terminal
  BY <1>2 DEF IInv, ReadersBehind, Behind
<1>6. store.rev \in Nat BY DEF IInv, TypeOK, Job
<1>7. ReadersBehind'
  <2>1. Behind(e)' BY <1>2, <1>3, <1>4, <1>5, <1>6 DEF Behind
  <2> QED BY <1>1, <1>4, <2>1, OthersBehind DEF ReadersBehind
<1>8. \A f \in Executors : pc'[f] \notin WinPCs
  BY <1>1, <1>2, <1>3, <1>4, NoWinner DEF Moves
<1>9. OneWinner' BY <1>8 DEF OneWinner, Winner
<1>10. LogBehind' BY <1>2, <1>4, NoWinner, EmptyLog
<1>11. Standing'
  <2>1. Clean(e)' BY <1>2, <1>3 DEF IInv, Standing, Clean
  <2>2. \A k \in Kept : loc[e].owner[k] = None BY DEF IInv, Standing, Clean
  <2> QED BY <1>1, <1>2, <1>4, <2>1, <2>2, OthersBehind DEF IInv, Standing
<1>12. NamesExist'
  <2>1. store.phase # "FAILED" BY <1>4 DEF Terminal
  <2>2. Names(loc[e]) BY <1>2, <2>1 DEF IInv, NamesExist, Named
  <2>3. Names(store)' BY <1>2, <1>4, <2>2 DEF Names
  <2>4. Named(e)' BY <1>2, <1>3, <2>2 DEF Names, Named
  <2> QED BY <1>1, <1>2, <2>1, <2>3, <2>4, OthersNamed DEF NamesExist
<1> QED BY <1>7, <1>9, <1>10, <1>11, <1>12 DEF Guarded

\* A poll that returns without writing keeps it.
LEMMA LeftStep ==
  ASSUME IInv, NEW e \in Executors, Left(e)
  PROVE  Guarded'
<1> USE PCFacts
<1>1. Moves(e, "idle", Admitted, "QUEUED") BY MovesFacts DEF IInv, Left
<1>2. store' = store /\ log' = log /\ live' = live BY DEF Left
<1>3. pc'[e] = "idle" /\ loc'[e] = Admitted BY <1>1 DEF Moves
<1>4. ReadersBehind'
  BY <1>1, <1>2, <1>3, OthersBehind DEF ReadersBehind, Behind
<1>5. \A f \in Executors : pc'[f] \in WinPCs =>
          pc'[f] = pc[f] /\ loc'[f] = loc[f]
  BY <1>1, <1>3 DEF Moves
<1>6. OneWinner' BY <1>2, <1>5 DEF IInv, OneWinner, Winner
<1>7. LogBehind' BY <1>2, <1>5 DEF IInv, LogBehind, OneOutcomeLogged
<1>8. Standing'
  <2>1. Clean(e)' BY <1>3, AdmittedFacts DEF Clean
  <2> QED BY <1>1, <1>2, <2>1, OthersBehind DEF IInv, Standing
<1>9. NamesExist'
  <2>1. Named(e)' BY <1>3 DEF Named
  <2>2. Names(store) => Names(store)' BY <1>2 DEF Names
  <2> QED BY <1>1, <1>2, <2>1, <2>2, OthersNamed DEF IInv, NamesExist
<1> QED BY <1>4, <1>6, <1>7, <1>8, <1>9 DEF Guarded

\* A poll that begins copies a job that names what exists.
LEMMA EnteredStep ==
  ASSUME IInv, NEW e \in Executors, Entered(e)
  PROVE  Guarded'
<1> USE PCFacts
<1>1. Moves(e, "step", store, store.phase) BY MovesFacts DEF IInv, Entered
<1>2. /\ store' = store /\ log' = log /\ live' = live
      /\ store.phase \notin Terminal
  BY DEF Entered
<1>3. pc'[e] = "step" /\ loc'[e] = store /\ read'[e] = store.phase
  BY <1>1 DEF Moves
<1>4. ReadersBehind'
  <2>1. store.rev <= store.rev BY DEF IInv, TypeOK, Job
  <2>2. Behind(e)' BY <1>2, <1>3, <2>1 DEF Behind
  <2> QED BY <1>1, <1>2, <2>2, OthersBehind DEF ReadersBehind
<1>5. \A f \in Executors : pc'[f] \notin WinPCs
  BY <1>1, <1>2, <1>3, NoWinner DEF Moves
<1>6. OneWinner' BY <1>5 DEF OneWinner, Winner
<1>7. LogBehind' BY <1>2, NoWinner, EmptyLog
<1>8. Standing'
  <2>1. Clean(e)' BY <1>3 DEF IInv, Standing, Clean
  <2> QED BY <1>1, <1>2, <2>1, OthersBehind DEF IInv, Standing
<1>9. NamesExist'
  <2>1. store.phase # "FAILED" BY <1>2 DEF Terminal
  <2>2. Names(store) BY <2>1 DEF IInv, NamesExist
  <2>3. Names(store)' /\ Named(e)' BY <1>2, <1>3, <2>2 DEF Names, Named
  <2> QED BY <1>1, <1>2, <2>1, <2>3, OthersNamed DEF NamesExist
<1> QED BY <1>4, <1>6, <1>7, <1>8, <1>9 DEF Guarded

\* A successful write keeps it: what the copy names exists.
LEMMA StoredStep ==
  ASSUME IInv, NEW e \in Executors, Stored(e)
  PROVE  Guarded'
<1> USE PCFacts
<1>1. Moves(e, "idle", Admitted, "QUEUED") BY MovesFacts DEF IInv, Stored
<1>2. pc[e] \in StepPCs /\ log' = log /\ live' = live BY DEF Stored
<1>3. pc'[e] = "idle" /\ loc'[e] = Admitted BY <1>1 DEF Moves
<1>4. /\ store.phase \notin Terminal /\ store'.rev = store.rev + 1
      /\ store'.id = loc[e].id /\ store'.owner = loc[e].owner
  BY <1>2, CurrentFacts DEF Stored
<1>5. ReadersBehind'
  BY <1>1, <1>3, <1>4, OthersBehind DEF ReadersBehind, Behind
<1>6. \A f \in Executors : pc'[f] \notin WinPCs
  BY <1>1, <1>3, <1>4, NoWinner DEF Moves
<1>7. OneWinner' BY <1>6 DEF OneWinner, Winner
<1>8. LogBehind' BY <1>2, <1>4, NoWinner, EmptyLog
<1>9. Standing'
  <2>1. Clean(e)' BY <1>3, AdmittedFacts DEF Clean
  <2>2. \A k \in Kept : loc[e].owner[k] = None BY DEF IInv, Standing, Clean
  <2> QED BY <1>1, <1>2, <1>4, <2>1, <2>2, OthersBehind DEF IInv, Standing
<1>10. NamesExist'
  <2>1. store.phase # "FAILED" BY <1>4 DEF Terminal
  <2>2. Names(loc[e]) BY <1>2, <2>1 DEF IInv, NamesExist, Named
  <2>3. Names(store)' BY <1>2, <1>4, <2>2 DEF Names
  <2>4. Named(e)' BY <1>3 DEF Named
  <2> QED BY <1>1, <1>2, <2>1, <2>3, <2>4, OthersNamed DEF NamesExist
<1> QED BY <1>5, <1>7, <1>8, <1>9, <1>10 DEF Guarded

\* The terminal write makes its writer the only winner.
LEMMA WonStep ==
  ASSUME IInv, NEW e \in Executors, Won(e)
  PROVE  Guarded'
<1> USE PCFacts
<1> DEFINE b == Bumped(loc[e])
<1>1. Moves(e, "log", b, read[e]) BY MovesFacts DEF IInv, Won
<1>2. /\ pc[e] \in StepPCs /\ log' = log /\ live' = live
      /\ loc[e].phase \in Terminal
  BY DEF Won
<1>3. pc'[e] = "log" /\ loc'[e] = b BY <1>1 DEF Moves
<1>4. /\ store.phase \notin Terminal /\ store' = b
      /\ b.rev = store.rev + 1 /\ b.phase = loc[e].phase
      /\ b.id = loc[e].id /\ b.owner = loc[e].owner
  BY <1>2, CurrentFacts DEF Won
<1> HIDE DEF b
<1>5. store'.rev = store.rev + 1 /\ store'.phase \in Terminal
  BY <1>2, <1>4
<1>6. ReadersBehind'
  BY <1>1, <1>3, <1>5, OthersBehind DEF ReadersBehind, Behind
<1>7. \A f \in Executors : f # e => pc'[f] \notin WinPCs
  BY <1>1, <1>4, NoWinner DEF Moves
<1>8. OneWinner'
  <2>1. Winner(e)' BY <1>3, <1>4, <1>5 DEF Winner
  <2> QED BY <1>7, <2>1 DEF OneWinner, Winner
<1>9. LogBehind' BY <1>2, <1>4, NoWinner, EmptyLog
<1>10. Standing'
  <2>1. \A k \in Kept : loc[e].owner[k] = None BY DEF IInv, Standing, Clean
  <2>2. Clean(e)' BY <1>3, <1>4, <2>1 DEF Clean
  <2> QED BY <1>1, <1>2, <1>4, <1>5, <2>1, <2>2, OthersBehind
          DEF IInv, Standing
<1>11. NamesExist'
  <2>1. store.phase # "FAILED" BY <1>4 DEF Terminal
  <2>2. Names(loc[e]) BY <1>2, <2>1 DEF IInv, NamesExist, Named
  <2>3. Names(store)' BY <1>2, <1>4, <2>2 DEF Names
  <2>4. Named(e)' BY <1>3 DEF Named
  <2> QED BY <1>1, <1>2, <2>1, <2>3, <2>4, OthersNamed DEF NamesExist
<1> QED BY <1>6, <1>8, <1>9, <1>10, <1>11 DEF Guarded

\* The winner's log entry is the first and says what is stored.
LEMMA ToldStep ==
  ASSUME IInv, NEW e \in Executors, NEW q \in PCs, NEW j \in Job,
         NEW r \in Phases, Told(e, q, j, r)
  PROVE  Guarded'
<1> USE PCFacts
<1>1. Moves(e, q, j, r) BY MovesFacts DEF IInv, Told
<1>2. /\ pc[e] = "log" /\ store' = store /\ live' = live
      /\ q \notin StepPCs /\ q # "log" /\ q # "memory"
      /\ q \in WinPCs => j = loc[e] /\ loc[e].phase = "FAILED"
  BY DEF Told
<1>3. pc'[e] = q /\ loc'[e] = j BY <1>1 DEF Moves
<1>4. store.phase \in Terminal /\ loc[e].phase = store.phase
  BY <1>2 DEF IInv, OneWinner, Winner
<1>5. ReadersBehind'
  BY <1>1, <1>2, <1>3, OthersBehind DEF ReadersBehind, Behind
<1>6. \A f \in Executors : f # e => pc'[f] \notin WinPCs
  BY <1>1, <1>2 DEF IInv, OneWinner, Moves
<1>7. OneWinner'
  <2>1. Winner(e)' BY <1>2, <1>3, <1>4 DEF Winner
  <2> QED BY <1>6, <2>1 DEF OneWinner, Winner
<1>8. LogBehind'
  <2>1. log["READY"] = 0 /\ log["FAILED"] = 0
    BY <1>2 DEF IInv, LogBehind
  <2>2. \A f \in Executors : pc'[f] # "log" BY <1>2, <1>3, <1>6
  <2>3. CASE log' = log BY <2>1, <2>3, EmptyLog
  <2>4. CASE log' = [log EXCEPT ![loc[e].phase] = @ + 1]
    <3>1. log \in [Terminal -> Nat] BY DEF IInv, TypeOK
    <3>2. CASE store.phase = "READY"
      <4>1. log'["READY"] = 1 /\ log'["FAILED"] = 0
        BY <1>4, <2>1, <2>4, <3>1, <3>2 DEF Terminal
      <4>2. OneOutcomeLogged'
        BY <1>2, <3>2, <4>1 DEF OneOutcomeLogged, Terminal
      <4> QED BY <1>2, <1>4, <2>2, <4>2 DEF LogBehind
    <3>3. CASE store.phase = "FAILED"
      <4>1. log'["READY"] = 0 /\ log'["FAILED"] = 1
        BY <1>4, <2>1, <2>4, <3>1, <3>3 DEF Terminal
      <4>2. OneOutcomeLogged'
        BY <1>2, <3>3, <4>1 DEF OneOutcomeLogged, Terminal
      <4> QED BY <1>2, <1>4, <2>2, <4>2 DEF LogBehind
    <3> QED BY <1>4, <3>2, <3>3 DEF Terminal
  <2> QED BY <2>3, <2>4 DEF Told
<1>9. Standing'
  <2>1. \A k \in Kept : loc[e].owner[k] = None BY DEF IInv, Standing, Clean
  <2>2. \A k \in Kept : j.owner[k] = None BY <2>1, AdmittedFacts DEF Told
  <2>3. Clean(e)' BY <1>2, <1>3, <2>2 DEF Clean
  <2> QED BY <1>1, <1>2, <2>3, OthersBehind DEF IInv, Standing
<1>10. NamesExist'
  <2>1. Named(e)' BY <1>2, <1>3 DEF Named
  <2>2. Names(store) => Names(store)' BY <1>2 DEF Names
  <2> QED BY <1>1, <1>2, <2>1, <2>2, OthersNamed DEF IInv, NamesExist
<1> QED BY <1>5, <1>7, <1>8, <1>9, <1>10 DEF Guarded

\* Compensation runs on a failed job and spares what was inherited.
LEMMA CompensatedStep ==
  ASSUME IInv, NEW e \in Executors, NEW q \in PCs, NEW j \in Job,
         Compensated(e, q, j)
  PROVE  Guarded'
<1> USE PCFacts
<1>1. Moves(e, q, j, read[e]) BY MovesFacts DEF IInv, Compensated
<1>2. /\ pc[e] \in UndoPCs /\ q \in UndoPCs /\ q \notin StepPCs
      /\ store' = store /\ log' = log /\ j.phase = loc[e].phase
  BY DEF Compensated
<1>3. pc'[e] = q /\ loc'[e] = j BY <1>1 DEF Moves
<1>4. store.phase = "FAILED" /\ loc[e].phase = "FAILED"
  BY <1>2 DEF IInv, OneWinner, Winner
<1>5. ReadersBehind'
  BY <1>1, <1>2, <1>3, OthersBehind DEF ReadersBehind, Behind
<1>6. \A f \in Executors : f # e => pc'[f] \notin WinPCs
  BY <1>1, <1>2 DEF IInv, OneWinner, Moves
<1>7. OneWinner'
  <2>1. Winner(e)' BY <1>2, <1>3, <1>4 DEF Winner, Terminal
  <2> QED BY <1>6, <2>1 DEF OneWinner, Winner
<1>8. LogBehind'
  <2>1. \A f \in Executors : pc'[f] = "log" => pc[f] = "log"
    BY <1>1, <1>2, <1>3 DEF Moves
  <2> QED BY <1>2, <2>1 DEF IInv, LogBehind, OneOutcomeLogged
<1>9. Standing'
  <2>1. \A k \in Kept : live'[k] = 1 /\ j.owner[k] = None
    BY DEF Compensated, IInv, Standing
  <2>2. Clean(e)' BY <1>2, <1>3, <2>1 DEF Clean
  <2> QED BY <1>1, <1>2, <2>1, <2>2, OthersBehind DEF IInv, Standing
<1>10. NamesExist' BY <1>2, <1>4 DEF NamesExist
<1> QED BY <1>5, <1>7, <1>8, <1>9, <1>10 DEF Guarded

\* Recording the compensation leaves the job failed.
LEMMA RecordedStep ==
  ASSUME IInv, NEW e \in Executors, Recorded(e)
  PROVE  Guarded'
<1> USE PCFacts
<1>1. Moves(e, "idle", Admitted, "QUEUED") BY MovesFacts DEF IInv, Recorded
<1>2. pc[e] \in UndoPCs /\ log' = log /\ live' = live BY DEF Recorded
<1>3. pc'[e] = "idle" /\ loc'[e] = Admitted BY <1>1 DEF Moves
<1>4. store.phase = "FAILED" /\ loc[e].phase = "FAILED"
  BY <1>2 DEF IInv, OneWinner, Winner
<1>5. loc[e] \in Job BY LocFacts DEF IInv
<1>6. \/ store' = store
      \/ /\ store'.phase = "FAILED" /\ store'.rev = store.rev + 1
         /\ store'.owner = loc[e].owner
  BY <1>4, <1>5, BumpedJob DEF Recorded
<1>7. store'.phase = "FAILED" BY <1>4, <1>6
<1>8. ReadersBehind'
  BY <1>1, <1>3, <1>6, OthersBehind DEF ReadersBehind, Behind
<1>9. OneWinner'
  <2>1. \A f \in Executors : pc'[f] \notin WinPCs
    BY <1>1, <1>2, <1>3 DEF IInv, OneWinner, Moves
  <2> QED BY <2>1 DEF OneWinner, Winner
<1>10. LogBehind'
  <2>1. \A f \in Executors : pc'[f] = "log" => pc[f] = "log"
    BY <1>1, <1>3 DEF Moves
  <2> QED BY <1>2, <1>4, <1>7, <2>1 DEF IInv, LogBehind, OneOutcomeLogged
<1>11. Standing'
  <2>1. \A k \in Kept : loc[e].owner[k] = None BY DEF IInv, Standing, Clean
  <2>2. Clean(e)' BY <1>3, AdmittedFacts DEF Clean
  <2>3. \A k \in Kept : store'.owner[k] = None
    BY <1>6, <2>1 DEF IInv, Standing
  <2> QED BY <1>1, <1>2, <1>6, <2>2, <2>3, OthersBehind DEF IInv, Standing
<1>12. NamesExist' BY <1>7 DEF NamesExist
<1> QED BY <1>8, <1>9, <1>10, <1>11, <1>12 DEF Guarded

\* One shape, one preservation lemma.
LEMMA ShapeStep ==
  ASSUME IInv, NEW e \in Executors, Shape(e)
  PROVE  IInv'
<1>1. TypeOK' BY TypeStep
<1>2. Guarded'
  BY PrivateStep, CheckpointedStep, LeftStep, EnteredStep, StoredStep, WonStep,
     ToldStep, CompensatedStep, RecordedStep DEF Shape
<1> QED BY <1>1, <1>2 DEF IInv, Guarded

\* The invariant holds of the job create_job stores, before any poll.
LEMMA InitInv == Init => IInv
<1> SUFFICES ASSUME Init PROVE IInv
  OBVIOUS
<1> USE PCFacts, AdmittedFacts
<1>1. live \in [Kinds -> Nat] /\ \A k \in Kept : live[k] = 1
  BY KindFacts DEF Init
<1>2. TypeOK
  BY <1>1 DEF Init, TypeOK, PCs, Phases
<1>3. \A e \in Executors : pc[e] = "idle" /\ loc[e] = Admitted
  BY DEF Init
<1>4. ReadersBehind BY <1>3 DEF ReadersBehind, Behind
<1>5. OneWinner BY <1>3 DEF OneWinner, Winner
<1>6. LogBehind
  <2>1. log["READY"] = 0 /\ log["FAILED"] = 0 BY DEF Init, Terminal
  <2> QED BY <2>1 DEF LogBehind, OneOutcomeLogged, Terminal
<1>7. Standing BY <1>1, <1>3 DEF Standing, Clean, Init
<1>8. NamesExist
  <2>1. Names(store)
    <3>1. store = Admitted /\ store.id = Admitted.id BY DEF Init
    <3>2. ASSUME NEW k \in Kinds, Admitted.id[k] # 0
          PROVE  live[k] = Admitted.id[k]
      <4>1. /\ k = "record" \/ (Redeploy /\ k \in Inherited)
            /\ Admitted.id[k] = 1
        BY <3>2 DEF Admitted
      <4>2. k \in Kept \cup {"record"} BY <4>1 DEF Kept
      <4> QED BY <4>1, <4>2 DEF Init
    <3> QED BY <3>1, <3>2 DEF Names
  <2> QED BY <1>3, <2>1 DEF NamesExist, Named
<1> QED BY <1>2, <1>4, <1>5, <1>6, <1>7, <1>8 DEF IInv

\* Every step of the specification, a stutter included, preserves it.
LEMMA NextInv == IInv /\ [Next]_vars => IInv'
<1> SUFFICES ASSUME IInv, [Next]_vars PROVE IInv'
  OBVIOUS
<1>1. CASE Next
  <2>1. PICK e \in Executors : Step(e) \/ Crash(e) BY <1>1 DEF Next
  <2> QED BY <2>1, StepShape, ShapeStep
<1>2. CASE UNCHANGED vars
  <2> USE <1>2 DEF vars
  <2>1. TypeOK' BY DEF IInv, TypeOK
  <2>2. ReadersBehind' BY DEF IInv, ReadersBehind, Behind
  <2>3. OneWinner' BY DEF IInv, OneWinner, Winner
  <2>4. LogBehind' BY DEF IInv, LogBehind, OneOutcomeLogged
  <2>5. Standing' BY DEF IInv, Standing, Clean
  <2>6. NamesExist'
    <3>1. Names(store)' <=> Names(store) BY DEF Names
    <3>2. \A f \in Executors : Named(f)' <=> Named(f) BY DEF Named, Names
    <3> QED BY <3>1, <3>2 DEF IInv, NamesExist
  <2> QED BY <2>1, <2>2, <2>3, <2>4, <2>5, <2>6 DEF IInv
<1> QED BY <1>1, <1>2

\* The strengthened invariant holds in every reachable state.
THEOREM Invariant == Spec => []IInv
<1>1. Init => IInv BY InitInv
<1>2. IInv /\ [Next]_vars => IInv' BY NextInv
<1> QED BY <1>1, <1>2, PTL DEF Spec

-----------------------------------------------------------------------------
(* What it gives. *)

\* The stored job, every private copy and every remote resource keep their
\* types through every step, checkpoint, failure and crash of poll().
THEOREM TypeCorrect == Spec => []TypeOK
<1>1. IInv => TypeOK BY DEF IInv
<1> QED BY <1>1, Invariant, PTL

\* However many processes poll a job, at most one of them is compensating it,
\* and only a job that is stored as FAILED: compensation runs behind the
\* conditional write of poll().
THEOREM OneCompensates == Spec => []SingleCompensator
<1>1. IInv => SingleCompensator
  BY PCFacts DEF IInv, OneWinner, Winner, SingleCompensator
<1> QED BY <1>1, Invariant, PTL

\* No process, late or stale, takes away a resource that a job which has not
\* failed names in the store.
THEOREM SurvivorsKept == Spec => []SurvivorsIntact
<1>1. IInv => SurvivorsIntact BY DEF IInv, NamesExist, SurvivorsIntact
<1> QED BY <1>1, Invariant, PTL

\* A redeploy never deletes what the previous deployment left: ownership is
\* recorded for what a step created, and only owned resources are deleted.
THEOREM StandingNeverDeleted == Spec => []StandingKept
<1>1. IInv => StandingKept BY DEF IInv, Standing, StandingKept
<1> QED BY <1>1, Invariant, PTL

\* The request log is told one outcome at most, and it is the stored one.
THEOREM LogTellsStoredOutcome == Spec => []OneOutcomeLogged
<1>1. IInv => OneOutcomeLogged BY DEF IInv, LogBehind
<1> QED BY <1>1, Invariant, PTL

-----------------------------------------------------------------------------
(* The ledger moves one phase at a time.                                   *)
(*                                                                         *)
(* IInv says that a copy which passes the conditional write was read from  *)
(* the stored phase; what is missing is that a handler only ever goes from *)
(* the phase it read to the next one, or fails.                            *)

\* Where a handler is tells the phase it read, and what it may write.
FollowsAt(q, p, r) ==
  /\ q = "memory" => r = "QUEUED"
  /\ q \in {"roleMade", "tools", "runtime"} => r = "BUILDING"
  /\ q \in {"register", "granted", "request", "asked", "outcome"}
       => r = "PROVISIONING"
  /\ q = "commit" => p \in {r, "FAILED"} \/ <<r, p>> \in AgentAdvances
Following == \A e \in Executors : FollowsAt(pc[e], loc[e].phase, read[e])

\* A handler that goes on keeps to its phase if it does so itself.
LEMMA GoFollows ==
  ASSUME TypeOK, Following, NEW e \in Executors, NEW q, NEW j, Go(e, q, j),
         FollowsAt(q, j.phase, read[e])
  PROVE  Following'
<1>1. Moves(e, q, j, read[e]) BY MovesFacts DEF Go
<1> SUFFICES ASSUME NEW f \in Executors
             PROVE  FollowsAt(pc'[f], loc'[f].phase, read'[f])
  BY DEF Following
<1>2. CASE f = e BY <1>1, <1>2 DEF Moves
<1>3. CASE f # e BY <1>1, <1>3 DEF Moves, Following
<1> QED BY <1>2, <1>3

\* A handler that returns has no phase to keep to.
LEMMA ReturnFollows ==
  ASSUME TypeOK, Following, NEW e \in Executors, Return(e)
  PROVE  Following'
<1>1. Moves(e, "idle", Admitted, "QUEUED") BY MovesFacts DEF Return
<1> SUFFICES ASSUME NEW f \in Executors
             PROVE  FollowsAt(pc'[f], loc'[f].phase, read'[f])
  BY DEF Following
<1>2. CASE f = e BY <1>1, <1>2 DEF Moves, FollowsAt
<1>3. CASE f # e BY <1>1, <1>3 DEF Moves, Following
<1> QED BY <1>2, <1>3

\* In the middle of a step the copy still has the phase that was read.
LEMMA MidStep ==
  ASSUME IInv, NEW e \in Executors, pc[e] \in StepPCs, pc[e] # "commit"
  PROVE  loc[e].phase = read[e] /\ loc[e] \in Job /\ loc[e].phase \in Phases
         /\ read[e] \notin Terminal
BY LocFacts DEF IInv, ReadersBehind, Behind

\* The steps that touch no remote resource keep to their phase.
LEMMA QuietFollows ==
  ASSUME IInv, Following, NEW e \in Executors,
         Stay(e) \/ StepFails(e) \/ RoleReady(e) \/ ToolsPending(e)
         \/ RuntimeUp(e) \/ RequestTools(e) \/ PolicyOutcome(e)
         \/ PolicyPending(e) \/ MemoryPending(e) \/ Finalize(e)
  PROVE  Following'
<1> DEFINE i == loc[e]
<1>0. TypeOK /\ FollowsAt(pc[e], i.phase, read[e]) BY DEF IInv, Following
<1>1. pc[e] \in StepPCs /\ pc[e] # "commit"
  BY DEF Stay, StepFails, RoleReady, ToolsPending, RuntimeUp, RequestTools,
         PolicyOutcome, PolicyPending, MemoryPending, Finalize, Stepping, At,
         StepPCs
<1>2. i.phase = read[e] /\ i \in Job /\ i.phase \in Phases BY <1>1, MidStep
<1>3. Moved(i, "FAILED").phase = "FAILED" BY <1>2, MovedJob DEF Phases
<1>4. CASE Stay(e)
  BY <1>0, <1>2, <1>4, GoFollows DEF Stay, FollowsAt
<1>5. CASE StepFails(e)
  BY <1>0, <1>3, <1>5, GoFollows DEF StepFails, Fail, FollowsAt
<1>6. CASE RoleReady(e)
  BY <1>0, <1>2, <1>6, GoFollows DEF RoleReady, Stepping, FollowsAt
<1>7. CASE RuntimeUp(e)
  <2>1. Moved(i, "PROVISIONING").phase = "PROVISIONING"
    BY <1>2, MovedJob DEF Phases
  <2>2. i.phase = "DEPLOYING" BY <1>7 DEF RuntimeUp, Stepping
  <2> QED BY <1>0, <1>2, <1>7, <2>1, <2>2, GoFollows
          DEF RuntimeUp, FollowsAt, AgentAdvances
<1>8. CASE RequestTools(e)
  <2>1. read[e] = "PROVISIONING"
    BY <1>0, <1>8 DEF RequestTools, At, FollowsAt
  <2> QED BY <1>0, <1>8, <2>1, GoFollows DEF RequestTools, FollowsAt
<1>9. CASE PolicyOutcome(e)
  <2>1. PICK p \in {"VERIFYING", "FAILED"} :
          Go(e, "commit", Moved(Owning(i, e), p))
    BY <1>9 DEF PolicyOutcome
  <2>2. Moved(Owning(i, e), p).phase = p
    BY <1>2, OwningJob, MovedJob DEF Phases
  <2>3. read[e] = "PROVISIONING"
    BY <1>0, <1>9 DEF PolicyOutcome, At, FollowsAt
  <2>4. FollowsAt("commit", p, read[e])
    BY <2>1, <2>3 DEF FollowsAt, AgentAdvances
  <2> QED BY <1>0, <2>1, <2>2, <2>4, GoFollows
<1>10. CASE Finalize(e)
  <2>1. Moved(i, "READY").phase = "READY" BY <1>2, MovedJob DEF Phases
  <2>2. i.phase = "VERIFYING" BY <1>10 DEF Finalize, Stepping
  <2> QED BY <1>0, <1>2, <1>10, <2>1, <2>2, GoFollows
          DEF Finalize, FollowsAt, AgentAdvances
<1>11. ASSUME NEW t \in Job, t.phase = i.phase, NEW b \in BOOLEAN,
              Go(e, "commit", IF b THEN Moved(t, "FAILED") ELSE t)
       PROVE  Following'
  <2> DEFINE j == IF b THEN Moved(t, "FAILED") ELSE t
  <2>1. j.phase \in {read[e], "FAILED"} BY <1>2, <1>11, MovedJob DEF Phases
  <2>2. Go(e, "commit", j) BY <1>11
  <2> HIDE DEF j
  <2> QED BY <1>0, <2>1, <2>2, GoFollows DEF FollowsAt
<1>12. CASE ToolsPending(e)
  <2> DEFINE t == [i EXCEPT !.tools = @ + 1]
  <2>1. t \in Job /\ t.phase = i.phase BY <1>2 DEF Job
  <2>2. Go(e, "commit", IF t.tools >= ToolsCap THEN Moved(t, "FAILED") ELSE t)
    BY <1>12 DEF ToolsPending
  <2> QED BY <1>11, <2>1, <2>2
<1>13. CASE PolicyPending(e)
  <2> DEFINE t == [Owning(i, e) EXCEPT !.policy = @ + 1]
  <2>0. Owning(i, e) \in Job /\ Owning(i, e).phase = i.phase
    BY <1>2, OwningJob
  <2>1. t \in Job /\ t.phase = i.phase BY <2>0 DEF Job
  <2>2. Go(e, "commit", IF t.policy >= PolicyCap THEN Moved(t, "FAILED") ELSE t)
    BY <1>13 DEF PolicyPending
  <2> QED BY <1>11, <2>1, <2>2
<1>14. CASE MemoryPending(e)
  <2> DEFINE t == [i EXCEPT !.mem = @ + 1]
  <2>1. t \in Job /\ t.phase = i.phase BY <1>2 DEF Job
  <2>2. Go(e, "commit", IF t.mem >= MemoryCap THEN Moved(t, "FAILED") ELSE t)
    BY <1>14 DEF MemoryPending
  <2> QED BY <1>11, <2>1, <2>2
<1> QED BY <1>4, <1>5, <1>6, <1>7, <1>8, <1>9, <1>10, <1>12, <1>13, <1>14

\* The steps that create resources keep to their phase.
LEMMA CreatingFollows ==
  ASSUME IInv, Following, NEW e \in Executors,
         StartBuild(e) \/ CreateMemory(e) \/ EnsureRole(e) \/ EnsureTools(e)
         \/ ToolsReady(e) \/ UpdateRuntime(e) \/ CreateRuntime(e)
         \/ RuntimeRefused(e) \/ Grant(e)
  PROVE  Following'
<1> DEFINE i == loc[e]
<1>0. TypeOK /\ FollowsAt(pc[e], i.phase, read[e]) BY DEF IInv, Following
<1>1. pc[e] \in StepPCs /\ pc[e] # "commit"
  BY DEF StartBuild, CreateMemory, EnsureRole, EnsureTools, ToolsReady,
         UpdateRuntime, CreateRuntime, RuntimeRefused, Grant, Stepping, At,
         StepPCs
<1>2. i.phase = read[e] /\ i \in Job /\ i.phase \in Phases BY <1>1, MidStep
<1>3. /\ live \in [Kinds -> Nat] /\ made \in [Kinds -> Nat]
      /\ {"memory", "role", "runtime", "identity", "grants"} \subseteq Kinds
  BY <1>0, KindFacts DEF TypeOK
<1>4. ASSUME NEW t \in Job, NEW p \in Phases
      PROVE  Moved(t, p).phase = p
  BY MovedJob
<1>5. ASSUME Fail(e) PROVE Following'
  BY <1>0, <1>2, <1>4, <1>5, GoFollows DEF Fail, FollowsAt, Phases
<1>6. CASE StartBuild(e)
  <2>1. i.phase = "QUEUED" BY <1>6 DEF StartBuild, Stepping
  <2>2. Took(i, "memory", live["memory"]) \in Job BY <1>2, <1>3, TookJob
  <2>3. /\ Moved(i, "BUILDING").phase = "BUILDING"
        /\ Moved(Took(i, "memory", live["memory"]), "BUILDING").phase = "BUILDING"
    BY <1>2, <1>4, <2>2 DEF Phases
  <2>4. FollowsAt("commit", "BUILDING", read[e]) /\ FollowsAt("memory", i.phase, read[e])
    BY <1>2, <2>1 DEF FollowsAt, AgentAdvances
  <2> QED BY <1>0, <1>6, <2>3, <2>4, GoFollows DEF StartBuild
<1>7. CASE CreateMemory(e)
  <2>1. read[e] = "QUEUED" BY <1>0, <1>7 DEF CreateMemory, At, FollowsAt
  <2>2. PICK n \in Nat :
          Go(e, "commit", Moved(Claimed(i, "memory", n, e), "BUILDING"))
    BY <1>3, <1>7 DEF CreateMemory
  <2>3. Claimed(i, "memory", n, e) \in Job BY <1>2, <1>3, ClaimedJob
  <2>4. Moved(Claimed(i, "memory", n, e), "BUILDING").phase = "BUILDING"
    BY <1>4, <2>3 DEF Phases
  <2>5. FollowsAt("commit", "BUILDING", read[e])
    BY <2>1 DEF FollowsAt, AgentAdvances
  <2> QED BY <1>0, <2>2, <2>4, <2>5, GoFollows
<1>8. CASE EnsureRole(e)
  <2>1. i.phase = "BUILDING" BY <1>8 DEF EnsureRole, Stepping
  <2>2. \A p : FollowsAt("roleMade", p, read[e]) /\ FollowsAt("tools", p, read[e])
    BY <1>2, <2>1 DEF FollowsAt
  <2> QED BY <1>0, <1>8, <2>2, GoFollows DEF EnsureRole, FollowsAt
<1>9. CASE EnsureTools(e)
  <2>1. PICK S \in SUBSET MissingTools(e) :
          LET new == {k \in S : live[k] = 0} IN
          Go(e, "commit",
             [i EXCEPT
                !.phase = IF S = MissingTools(e) THEN @ ELSE "FAILED",
                !.id    = [k \in Kinds |-> IF k \in new THEN made[k] + 1
                             ELSE IF k \in S THEN live[k] ELSE @[k]],
                !.owner = [k \in Kinds |-> IF k \in new THEN e ELSE @[k]]])
    BY <1>9 DEF EnsureTools
  <2> DEFINE new == {k \in S : live[k] = 0}
             j == [i EXCEPT
                !.phase = IF S = MissingTools(e) THEN @ ELSE "FAILED",
                !.id    = [k \in Kinds |-> IF k \in new THEN made[k] + 1
                             ELSE IF k \in S THEN live[k] ELSE @[k]],
                !.owner = [k \in Kinds |-> IF k \in new THEN e ELSE @[k]]]
  <2>2. j.phase \in {i.phase, "FAILED"} BY <1>2 DEF Job
  <2>3. Go(e, "commit", j) BY <2>1
  <2> HIDE DEF j
  <2> QED BY <1>0, <1>2, <2>2, <2>3, GoFollows DEF FollowsAt
<1>10. CASE ToolsReady(e)
  <2>1. read[e] = "BUILDING" BY <1>0, <1>10 DEF ToolsReady, At, FollowsAt
  <2>2. FollowsAt("runtime", i.phase, read[e]) BY <2>1 DEF FollowsAt
  <2> QED BY <1>0, <1>5, <1>10, <2>2, GoFollows DEF ToolsReady
<1>11. CASE UpdateRuntime(e) \/ CreateRuntime(e)
  <2>1. read[e] = "BUILDING"
    BY <1>0, <1>11 DEF UpdateRuntime, CreateRuntime, At, FollowsAt
  <2>2. WithIdentity(i, e) \in Job BY <1>0, <1>2, WithIdentityJob
  <2>3. PICK j \in Job : Go(e, "commit", Moved(j, "DEPLOYING"))
    <3> DEFINE w == WithIdentity(i, e)
    <3>1. ASSUME NEW n \in Nat
          PROVE  Took(w, "runtime", n) \in Job /\ Claimed(w, "runtime", n, e) \in Job
      BY <1>3, <2>2, TookJob, ClaimedJob
    <3>2. live["runtime"] \in Nat /\ made["runtime"] + 1 \in Nat /\ 1 \in Nat
      BY <1>3
    <3> HIDE DEF w
    <3> QED BY <1>11, <3>1, <3>2 DEF UpdateRuntime, CreateRuntime, w
  <2>4. Moved(j, "DEPLOYING").phase = "DEPLOYING" BY <1>4 DEF Phases
  <2>5. FollowsAt("commit", "DEPLOYING", read[e])
    BY <2>1 DEF FollowsAt, AgentAdvances
  <2> QED BY <1>0, <2>3, <2>4, <2>5, GoFollows
<1>12. CASE RuntimeRefused(e)
  <2>1. WithIdentity(i, e) \in Job /\ WithIdentity(i, e).phase = i.phase
    BY <1>0, <1>2, WithIdentityJob
  <2>2. Moved(WithIdentity(i, e), "FAILED").phase = "FAILED"
    BY <1>4, <2>1 DEF Phases
  <2> QED BY <1>0, <1>2, <1>12, <2>1, <2>2, GoFollows
          DEF RuntimeRefused, FollowsAt
<1>13. CASE Grant(e)
  <2>1. read[e] = "PROVISIONING" BY <1>0, <1>13 DEF Grant, At, FollowsAt
  <2>2. PICK j : Go(e, "granted", j) \/ Fail(e) BY <1>13 DEF Grant
  <2>3. FollowsAt("granted", j.phase, read[e]) BY <2>1 DEF FollowsAt
  <2> QED BY <1>0, <1>5, <2>2, <2>3, GoFollows
<1> QED BY <1>6, <1>7, <1>8, <1>9, <1>10, <1>11, <1>12, <1>13

\* Checkpoints, the conditional write and what comes after it keep to the phase.
LEMMA WritingFollows ==
  ASSUME IInv, Following, NEW e \in Executors,
         Load(e) \/ CheckpointRole(e) \/ CheckpointRecord(e)
         \/ CheckpointGrants(e) \/ CheckpointRequest(e) \/ Commit(e)
         \/ CommitUnacknowledged(e) \/ WriteLog(e) \/ UndoEarly(e)
         \/ UndoRecord(e) \/ UndoRuntime(e) \/ UndoIdentity(e) \/ Persist(e)
         \/ Abort(e) \/ Crash(e)
  PROVE  Following'
<1> DEFINE i == loc[e]
<1>0. TypeOK /\ FollowsAt(pc[e], i.phase, read[e]) /\ i \in Job
  BY LocFacts DEF IInv, Following
<1>1. \A p, r : /\ FollowsAt("step", p, r) /\ FollowsAt("log", p, r)
                /\ \A q \in UndoPCs : FollowsAt(q, p, r)
  BY DEF FollowsAt, UndoPCs
<1>2. CASE Load(e)
  <2>1. Moves(e, "step", store, store.phase)
    BY <1>0, <1>2, MovesFacts DEF Load
  <2> SUFFICES ASSUME NEW f \in Executors
               PROVE  FollowsAt(pc'[f], loc'[f].phase, read'[f])
    BY DEF Following
  <2>2. CASE f = e BY <1>1, <2>1, <2>2 DEF Moves
  <2>3. CASE f # e BY <2>1, <2>3 DEF Moves, Following
  <2> QED BY <2>2, <2>3
<1>3. CASE CheckpointRole(e)
  <2>1. read[e] = "BUILDING" BY <1>0, <1>3 DEF CheckpointRole, At, FollowsAt
  <2>2. Bumped(i) \in Job BY <1>0, BumpedJob
  <2>3. \A p \in {"BUILDING", "FAILED"} :
          /\ Moved(Bumped(i), p).phase = p /\ Moved(i, p).phase = p
          /\ FollowsAt("commit", p, read[e])
    BY <1>0, <2>1, <2>2, MovedJob DEF FollowsAt, Phases
  <2>4. \E j : Go(e, "commit", j) /\ j.phase \in {"BUILDING", "FAILED"}
    BY <1>3, <2>3 DEF CheckpointRole, Fail
  <2> QED BY <1>0, <2>3, <2>4, GoFollows
<1>4. ASSUME NEW q \in {"register", "request", "outcome"}, CheckpointAt(e, q),
             read[e] = "PROVISIONING"
      PROVE  Following'
  <2>1. \A p : FollowsAt(q, p, read[e]) BY <1>4 DEF FollowsAt
  <2> QED BY <1>0, <1>4, <2>1, GoFollows, ReturnFollows DEF CheckpointAt
<1>5. CASE CheckpointRecord(e)
  <2>1. i.phase = read[e]
    BY <1>5, MidStep DEF CheckpointRecord, Stepping, At, StepPCs
  <2> QED BY <1>4, <1>5, <2>1 DEF CheckpointRecord, Stepping
<1>6. CASE CheckpointGrants(e)
  BY <1>0, <1>4, <1>6 DEF CheckpointGrants, At, FollowsAt
<1>7. CASE CheckpointRequest(e)
  BY <1>0, <1>4, <1>7 DEF CheckpointRequest, At, FollowsAt
<1>8. CASE Commit(e)
  BY <1>0, <1>1, <1>8, GoFollows, ReturnFollows DEF Commit
<1>9. CASE CommitUnacknowledged(e) \/ Persist(e) \/ Abort(e) \/ Crash(e)
  BY <1>0, <1>9, ReturnFollows DEF CommitUnacknowledged, Persist, Abort, Crash
<1>10. CASE WriteLog(e)
  <2>1. CASE Return(e) BY <1>0, <2>1, ReturnFollows
  <2>2. CASE pc' = [pc EXCEPT ![e] = "undo"] /\ loc' = loc /\ read' = read
    <3>1. loc' = [loc EXCEPT ![e] = i] BY <1>0, <2>2 DEF TypeOK
    <3>2. Moves(e, "undo", i, read[e]) BY <1>0, <2>2, <3>1, MovesFacts
    <3>3. FollowsAt("undo", i.phase, read[e]) BY <1>1 DEF UndoPCs
    <3> SUFFICES ASSUME NEW f \in Executors
                 PROVE  FollowsAt(pc'[f], loc'[f].phase, read'[f])
      BY DEF Following
    <3>4. CASE f = e BY <3>2, <3>3, <3>4 DEF Moves
    <3>5. CASE f # e BY <3>2, <3>5 DEF Moves, Following
    <3> QED BY <3>4, <3>5
  <2> QED BY <1>10, <2>1, <2>2 DEF WriteLog
<1>11. CASE UndoEarly(e) \/ UndoRecord(e) \/ UndoRuntime(e) \/ UndoIdentity(e)
  <2>1. PICK q \in UndoPCs : \E j : Go(e, q, j)
    BY <1>11 DEF UndoEarly, UndoRecord, UndoRuntime, UndoIdentity, Undo, UndoPCs
  <2>2. PICK j : Go(e, q, j) BY <2>1
  <2> QED BY <1>0, <1>1, <2>2, GoFollows
<1> QED BY <1>2, <1>3, <1>5, <1>6, <1>7, <1>8, <1>9, <1>10, <1>11

\* Every step of the specification keeps to the phases.
LEMMA FollowsStep == IInv /\ Following /\ [Next]_vars => Following'
<1> SUFFICES ASSUME IInv, Following, [Next]_vars PROVE Following'
  OBVIOUS
<1>1. CASE Next
  <2>1. PICK e \in Executors : Step(e) \/ Crash(e) BY <1>1 DEF Next
  <2> QED BY <2>1, QuietFollows, CreatingFollows, WritingFollows DEF Step
<1>2. CASE UNCHANGED vars BY <1>2 DEF vars, Following
<1> QED BY <1>1, <1>2

\* Before any poll there is no phase to keep to.
LEMMA FollowsInit == Init => Following
BY DEF Init, Following, FollowsAt

\* A step that leaves the stored phase alone is a compensation of a failed job,
\* or it changes nothing a reader sees.
LEMMA SamePhaseStep ==
  ASSUME IInv, IInv', store'.phase = store.phase
  PROVE  Ledger!Compensate \/ UNCHANGED <<store.phase, Names(store)>>
<1>1. CASE store.phase = "FAILED" BY <1>1 DEF Ledger!Compensate, Names
<1>2. CASE store.phase # "FAILED"
  <2>1. Names(store) /\ Names(store)' BY <1>2 DEF IInv, NamesExist
  <2> QED BY <2>1 DEF Names
<1> QED BY <1>1, <1>2

\* The conditional write moves the stored phase as the ledger's specification
\* says, and names what exists.
LEMMA WriteStep ==
  ASSUME IInv, IInv', Following, NEW e \in Executors, pc[e] = "commit",
         Current(e), store' = Bumped(loc[e]), live' = live
  PROVE  Ledger!Next \/ UNCHANGED <<store.phase, Names(store)>>
<1>1. /\ store.phase \notin Terminal /\ store.phase = read[e]
      /\ store'.phase = loc[e].phase /\ store'.id = loc[e].id
  BY CurrentFacts DEF StepPCs
<1>2. CASE store'.phase = store.phase BY <1>2, SamePhaseStep DEF Ledger!Next
<1>3. CASE store'.phase # store.phase
  <2>1. Names(loc[e]) BY <1>1 DEF IInv, NamesExist, Named, StepPCs, Terminal
  <2>2. Names(store)' = TRUE BY <1>1, <2>1 DEF Names
  <2>3. store'.phase = "FAILED" \/ <<store.phase, store'.phase>> \in AgentAdvances
    BY <1>1, <1>3 DEF Following, FollowsAt
  <2> QED BY <1>1, <2>2, <2>3
          DEF Ledger!Next, Ledger!Advance, Ledger!Fail, Terminal
<1> QED BY <1>2, <1>3

\* Every step of a poll is a step of the ledger's specification, or invisible.
LEMMA ShapeRefines ==
  ASSUME IInv, IInv', Following, NEW e \in Executors, Shape(e)
  PROVE  Ledger!Next \/ UNCHANGED <<store.phase, Names(store)>>
<1>1. ASSUME store'.phase = store.phase
      PROVE  Ledger!Next \/ UNCHANGED <<store.phase, Names(store)>>
  BY <1>1, SamePhaseStep DEF Ledger!Next
<1>2. loc[e] \in Job BY LocFacts DEF IInv
<1>3. ASSUME NEW q \in PCs, NEW j \in Job, Private(e, q, j) \/ Compensated(e, q, j)
      PROVE  store'.phase = store.phase
  BY <1>3 DEF Private, Compensated
<1>4. ASSUME NEW q \in PCs, NEW j \in Job, Checkpointed(e, q, j)
      PROVE  store'.phase = store.phase
  BY <1>4, CurrentFacts, MidStep DEF Checkpointed
<1>5. CASE Left(e) \/ Entered(e) BY <1>1, <1>5 DEF Left, Entered
<1>6. CASE Stored(e) \/ Won(e) BY <1>6, WriteStep DEF Stored, Won
<1>7. ASSUME NEW q \in PCs, NEW j \in Job, NEW r \in Phases, Told(e, q, j, r)
      PROVE  store'.phase = store.phase
  BY <1>7 DEF Told
<1>8. CASE Recorded(e)
  <2>1. loc[e].phase = store.phase
    BY <1>8, PCFacts DEF Recorded, IInv, OneWinner, Winner
  <2> QED BY <1>1, <1>2, <1>8, <2>1, BumpedJob DEF Recorded
<1> QED BY <1>1, <1>3, <1>4, <1>5, <1>6, <1>7, <1>8 DEF Shape

\* What the ledger shows its readers is what DeployLedger promises: a job moves
\* one phase at a time or fails, READY and FAILED are final, and nothing the
\* ledger names is missing before the job has failed.
THEOREM LedgerKeepsPromise == Spec => LedgerSpec
<1>1. Init => Ledger!Init
  <2> SUFFICES ASSUME Init PROVE Ledger!Init
    OBVIOUS
  <2>1. Names(store) BY InitInv, AdmittedFacts DEF Init, IInv, NamesExist
  <2>2. Names(store) = TRUE BY <2>1 DEF Names
  <2> QED BY <2>2, AdmittedFacts DEF Init, Ledger!Init
<1>2. IInv /\ IInv' /\ Following /\ [Next]_vars
        => [Ledger!Next]_<<store.phase, Names(store)>>
  <2> SUFFICES ASSUME IInv, IInv', Following, [Next]_vars
               PROVE  Ledger!Next \/ UNCHANGED <<store.phase, Names(store)>>
    OBVIOUS
  <2>1. CASE Next
    <3>1. PICK e \in Executors : Step(e) \/ Crash(e) BY <2>1 DEF Next
    <3> QED BY <3>1, StepShape, ShapeRefines
  <2>2. CASE UNCHANGED vars BY <2>2 DEF vars, Names
  <2> QED BY <2>1, <2>2
<1>3. Spec => []Following
  BY Invariant, FollowsInit, FollowsStep, PTL DEF Spec
<1> QED BY <1>1, <1>2, <1>3, Invariant, PTL DEF Spec, LedgerSpec, Ledger!Spec

-----------------------------------------------------------------------------
(* The runtime goes before what it runs under.                             *)
(*                                                                         *)
(* UndoRuntime deletes the runtime its copy names and then the role and    *)
(* the identity; in between other processes may still create a runtime.    *)
(* It is a new instance: numbers only grow, and the job's is an old one.   *)

\* No job names an instance of the runtime that was not made yet.
Numbered == /\ live["runtime"] <= made["runtime"]
            /\ store.id["runtime"] <= made["runtime"]
            /\ \A e \in Executors : loc[e].id["runtime"] <= made["runtime"]

\* The runtime the job names is gone, or there never was one.
Gone == store.id["runtime"] = 0 \/ live["runtime"] # store.id["runtime"]

\* The winner knows the stored runtime, and goes on to the identity only
\* when it is gone.
RuntimeFirst ==
  \A e \in Executors :
    /\ pc[e] \in WinPCs => loc[e].id["runtime"] = store.id["runtime"]
    /\ pc[e] = "undoIdentity" => Gone

RuntimeInv == Numbered /\ RuntimeFirst

\* A runtime stays, is created with a new number, or is deleted.
RuntimeMoves ==
  \/ live'["runtime"] = live["runtime"] /\ made'["runtime"] = made["runtime"]
  \/ /\ live["runtime"] = 0
     /\ made'["runtime"] = made["runtime"] + 1
     /\ live'["runtime"] = made["runtime"] + 1
  \/ live'["runtime"] = 0 /\ made'["runtime"] = made["runtime"]

\* What a step of e does to the runtime and what runs under it.
RuntimeStep(e) ==
  /\ RuntimeMoves
  /\ pc[e] \in UndoPCs /\ pc'[e] \in UndoPCs =>
       loc'[e].id["runtime"] = loc[e].id["runtime"]
  /\ pc'[e] = "undoIdentity" =>
       loc[e].id["runtime"] = 0 \/ live'["runtime"] # loc[e].id["runtime"]
  /\ \A k \in {"role", "identity"} :
       live[k] # 0 /\ live'[k] = 0 => pc[e] = "undoIdentity"

\* A step that neither creates nor deletes, and does not compensate.
LEMMA PlainRuntime ==
  ASSUME TypeOK, NEW e \in Executors, live' = live, made' = made,
         pc[e] \notin UndoPCs, pc'[e] # "undoIdentity"
  PROVE  RuntimeStep(e)
<1>1. live["runtime"] \in Nat /\ made["runtime"] \in Nat BY KindFacts DEF TypeOK
<1> QED BY <1>1 DEF RuntimeStep, RuntimeMoves

\* A step that only creates what is absent.
LEMMA CreatingRuntime ==
  ASSUME TypeOK, NEW e \in Executors, NEW S, Create(S),
         \A k \in S \cap Kinds : live[k] = 0,
         pc[e] \notin UndoPCs, pc'[e] # "undoIdentity"
  PROVE  RuntimeStep(e)
<1>1. /\ {"runtime", "role", "identity"} \subseteq Kinds
      /\ live \in [Kinds -> Nat] /\ made \in [Kinds -> Nat]
  BY KindFacts DEF TypeOK
<1>2. RuntimeMoves BY <1>1 DEF Create, RuntimeMoves
<1>3. \A k \in {"role", "identity"} : live[k] # 0 => live'[k] = live[k]
  BY <1>1 DEF Create
<1> QED BY <1>2, <1>3 DEF RuntimeStep

\* Where a handler that goes on or returns is afterwards.
LEMMA WhereTo ==
  ASSUME TypeOK, NEW e \in Executors
  PROVE  /\ \A q, j : Go(e, q, j) => pc'[e] = q /\ loc'[e] = j
         /\ Return(e) => pc'[e] = "idle"
BY DEF TypeOK, Go, Return

\* The steps that leave the remote resources alone.
LEMMA QuietRuntime ==
  ASSUME IInv, NEW e \in Executors,
         Load(e) \/ Stay(e) \/ StepFails(e) \/ StartBuild(e)
         \/ CheckpointRole(e) \/ RoleReady(e) \/ ToolsPending(e) \/ RuntimeUp(e)
         \/ CheckpointRecord(e) \/ CheckpointGrants(e) \/ RequestTools(e)
         \/ CheckpointRequest(e) \/ PolicyOutcome(e) \/ PolicyPending(e)
         \/ MemoryPending(e) \/ Finalize(e) \/ Commit(e)
         \/ CommitUnacknowledged(e) \/ WriteLog(e)
  PROVE  RuntimeStep(e)
<1>1. TypeOK BY DEF IInv
<1>2. live' = live /\ made' = made
  BY DEF Load, Stay, StepFails, StartBuild, CheckpointRole, RoleReady,
         ToolsPending, RuntimeUp, CheckpointRecord, CheckpointGrants,
         RequestTools, CheckpointRequest, CheckpointAt, PolicyOutcome,
         PolicyPending, MemoryPending, Finalize, Commit, CommitUnacknowledged,
         WriteLog, remote
<1>3. pc[e] \notin UndoPCs
  BY DEF Load, Stay, StepFails, StartBuild, CheckpointRole, RoleReady,
         ToolsPending, RuntimeUp, CheckpointRecord, CheckpointGrants,
         RequestTools, CheckpointRequest, PolicyOutcome, PolicyPending,
         MemoryPending, Finalize, Commit, CommitUnacknowledged, WriteLog,
         Stepping, At, UndoPCs
<1>4. \/ \E j : Go(e, "commit", j) \/ Go(e, "memory", j) \/ Go(e, "tools", j)
                \/ Go(e, "register", j) \/ Go(e, "request", j)
                \/ Go(e, "outcome", j) \/ Go(e, "asked", j) \/ Go(e, "log", j)
      \/ Return(e)
      \/ pc' = [pc EXCEPT ![e] = "undo"] \/ pc' = [pc EXCEPT ![e] = "step"]
  BY DEF Load, Stay, StepFails, Fail, StartBuild, CheckpointRole, RoleReady,
         ToolsPending, RuntimeUp, CheckpointRecord, CheckpointGrants,
         RequestTools, CheckpointRequest, CheckpointAt, PolicyOutcome,
         PolicyPending, MemoryPending, Finalize, Commit, CommitUnacknowledged,
         WriteLog
<1>5. pc'[e] # "undoIdentity" BY <1>1, <1>4, WhereTo DEF TypeOK
<1> QED BY <1>1, <1>2, <1>3, <1>5, PlainRuntime

\* The steps that create resources.
LEMMA CreateRuntimeStep ==
  ASSUME IInv, NEW e \in Executors,
         CreateMemory(e) \/ EnsureRole(e) \/ EnsureTools(e) \/ ToolsReady(e)
         \/ UpdateRuntime(e) \/ CreateRuntime(e) \/ RuntimeRefused(e) \/ Grant(e)
  PROVE  RuntimeStep(e)
<1>1. TypeOK BY DEF IInv
<1>2. pc[e] \notin UndoPCs
  BY DEF CreateMemory, EnsureRole, EnsureTools, ToolsReady, UpdateRuntime,
         CreateRuntime, RuntimeRefused, Grant, Stepping, At, UndoPCs
<1>3. \E j : Go(e, "commit", j) \/ Go(e, "roleMade", j) \/ Go(e, "tools", j)
             \/ Go(e, "runtime", j) \/ Go(e, "granted", j)
  BY DEF CreateMemory, EnsureRole, EnsureTools, ToolsReady, UpdateRuntime,
         CreateRuntime, RuntimeRefused, Grant, Fail
<1>4. pc'[e] # "undoIdentity" BY <1>1, <1>3, WhereTo
<1>5. \/ live' = live /\ made' = made
      \/ \E S : Create(S) /\ \A k \in S \cap Kinds : live[k] = 0
  <2>1. CASE CreateMemory(e) BY <2>1 DEF CreateMemory
  <2>2. CASE EnsureRole(e) BY <2>2 DEF EnsureRole
  <2>3. CASE EnsureTools(e)
    <3>1. PICK S \in SUBSET MissingTools(e) : Create({k \in S : live[k] = 0})
      BY <2>3 DEF EnsureTools
    <3>2. \A k \in {k \in S : live[k] = 0} : live[k] = 0 OBVIOUS
    <3> QED BY <3>1, <3>2
  <2>4. CASE ToolsReady(e) BY <2>4 DEF ToolsReady
  <2>5. CASE UpdateRuntime(e) BY <2>5 DEF UpdateRuntime, NewIdentity
  <2>6. CASE CreateRuntime(e)
    <3>1. \A k \in NewIdentity : live[k] = 0 BY DEF NewIdentity
    <3> QED BY <2>6, <3>1 DEF CreateRuntime
  <2>7. CASE RuntimeRefused(e) BY <2>7 DEF RuntimeRefused, NewIdentity
  <2>8. CASE Grant(e) BY <2>8 DEF Grant
  <2> QED BY <2>1, <2>2, <2>3, <2>4, <2>5, <2>6, <2>7, <2>8
<1>6. CASE live' = live /\ made' = made
  BY <1>1, <1>2, <1>4, <1>6, PlainRuntime
<1>7. CASE \E S : Create(S) /\ \A k \in S \cap Kinds : live[k] = 0
  BY <1>1, <1>2, <1>4, <1>7, CreatingRuntime
<1> QED BY <1>5, <1>6, <1>7

\* Forgetting what is not the runtime keeps its number.
LEMMA ForgetRuntime ==
  ASSUME NEW j \in Job, NEW S, "runtime" \notin S
  PROVE  Forget(j, S).id["runtime"] = j.id["runtime"]
BY KindFacts DEF Forget, Job

\* The steps that give up, and the compensation.
LEMMA UndoRuntimeStep ==
  ASSUME IInv, NEW e \in Executors,
         UndoEarly(e) \/ UndoRecord(e) \/ UndoRuntime(e) \/ UndoIdentity(e)
         \/ Persist(e) \/ Abort(e) \/ Crash(e)
  PROVE  RuntimeStep(e)
<1> DEFINE i == loc[e]
<1>1. TypeOK /\ i \in Job /\ i.id \in [Kinds -> Nat] BY LocFacts DEF IInv
<1>2. /\ {"runtime", "role", "identity", "memory", "grants", "record"} \subseteq Kinds
      /\ {"runtime", "role", "identity"} \cap Builtins = {}
      /\ live \in [Kinds -> Nat] /\ made \in [Kinds -> Nat]
      /\ i.id["runtime"] \in Nat
  BY <1>1, KindFacts, ConfigAssumption DEF TypeOK
<1>3. CASE Persist(e) \/ Abort(e) \/ Crash(e)
  <2>1. Return(e) /\ live' = live /\ made' = made
    BY <1>3 DEF Persist, Abort, Crash, remote
  <2>2. pc'[e] = "idle" BY <1>1, <2>1, WhereTo
  <2> QED BY <1>2, <2>1, <2>2 DEF RuntimeStep, RuntimeMoves, UndoPCs
<1>4. ASSUME NEW D, D \cap {"runtime", "role", "identity"} = {}, Delete(D, i)
      PROVE  \A k \in {"runtime", "role", "identity"} : live'[k] = live[k]
  BY <1>2, <1>4 DEF Delete
<1>5. CASE UndoEarly(e)
  <2>1. PICK D \in SUBSET OwnedEarly(i, e) :
          Delete(D, i) /\ Go(e, "undoRecord", Forget(i, D)) /\ made' = made
    BY <1>5 DEF UndoEarly, Undo
  <2>2. D \cap {"runtime", "role", "identity"} = {}
    BY <1>2, <2>1 DEF OwnedEarly
  <2>3. pc'[e] = "undoRecord" /\ loc'[e] = Forget(i, D) BY <1>1, <2>1, WhereTo
  <2>4. loc'[e].id["runtime"] = i.id["runtime"]
    BY <1>1, <2>2, <2>3, ForgetRuntime
  <2>5. \A k \in {"runtime", "role", "identity"} : live'[k] = live[k]
    BY <1>4, <2>1, <2>2
  <2> QED BY <2>1, <2>3, <2>4, <2>5 DEF RuntimeStep, RuntimeMoves
<1>6. CASE UndoRecord(e)
  <2>1. PICK D \in SUBSET {"grants", "record"} :
          /\ Delete(D, i) /\ made' = made
          /\ Go(e, "undoRuntime", Forget(i, D \cap {"record"}))
    BY <1>6 DEF UndoRecord
  <2>2. D \cap {"runtime", "role", "identity"} = {} BY <2>1
  <2>3. pc'[e] = "undoRuntime" /\ loc'[e] = Forget(i, D \cap {"record"})
    BY <1>1, <2>1, WhereTo
  <2>4. loc'[e].id["runtime"] = i.id["runtime"]
    BY <1>1, <2>2, <2>3, ForgetRuntime
  <2>5. \A k \in {"runtime", "role", "identity"} : live'[k] = live[k]
    BY <1>4, <2>1, <2>2
  <2> QED BY <2>1, <2>3, <2>4, <2>5 DEF RuntimeStep, RuntimeMoves
<1>7. CASE UndoRuntime(e)
  <2>1. made' = made /\ pc[e] = "undoRuntime" BY <1>7 DEF UndoRuntime, At
  <2>2. \E q \in {"undoIdentity", "persist"} : Go(e, q, i)
    BY <1>7 DEF UndoRuntime
  <2>3. loc'[e] = i /\ pc'[e] \in {"undoIdentity", "persist"}
    BY <1>1, <2>2, WhereTo
  <2>4. CASE live' = live
    <3>1. pc'[e] = "undoIdentity" =>
            \/ i.id["runtime"] = 0
            \/ OwnsRuntime(i, e) /\ Delete({"runtime"}, i)
      BY <1>1, <1>7, WhereTo DEF UndoRuntime
    <3>2. Delete({"runtime"}, i) /\ i.id["runtime"] # 0 =>
            live'["runtime"] # i.id["runtime"]
      BY <1>2 DEF Delete
    <3> QED BY <1>2, <2>1, <2>3, <2>4, <3>1, <3>2 DEF RuntimeStep, RuntimeMoves
  <2>5. CASE OwnsRuntime(i, e) /\ Delete({"runtime"}, i)
    <3>1. /\ i.id["runtime"] # 0
          /\ live'["runtime"] # i.id["runtime"]
          /\ live'["runtime"] = 0 \/ live'["runtime"] = live["runtime"]
          /\ \A k \in {"role", "identity"} : live'[k] = live[k]
      BY <1>2, <2>5 DEF Delete, OwnsRuntime
    <3> QED BY <2>1, <2>3, <3>1 DEF RuntimeStep, RuntimeMoves
  <2> QED BY <1>7, <2>4, <2>5 DEF UndoRuntime
<1>8. CASE UndoIdentity(e)
  <2>1. PICK D \in SUBSET OwnedLate(i, e) :
          Delete(D, i) /\ Go(e, "persist", Forget(i, D)) /\ made' = made
    BY <1>8 DEF UndoIdentity, Undo
  <2>2. "runtime" \notin D BY <2>1 DEF OwnedLate
  <2>3. pc'[e] = "persist" /\ loc'[e] = Forget(i, D) BY <1>1, <2>1, WhereTo
  <2>4. loc'[e].id["runtime"] = i.id["runtime"]
    BY <1>1, <2>2, <2>3, ForgetRuntime
  <2>5. live'["runtime"] = live["runtime"] BY <1>2, <2>1, <2>2 DEF Delete
  <2>6. pc[e] = "undoIdentity" BY <1>8 DEF UndoIdentity, At
  <2> QED BY <2>1, <2>3, <2>4, <2>5, <2>6 DEF RuntimeStep, RuntimeMoves
<1> QED BY <1>3, <1>5, <1>6, <1>7, <1>8

\* Every step moves the runtime in one of these ways.
LEMMA EveryRuntimeStep ==
  ASSUME IInv, NEW e \in Executors, Step(e) \/ Crash(e)
  PROVE  RuntimeStep(e)
BY QuietRuntime, CreateRuntimeStep, UndoRuntimeStep DEF Step

\* A job that is changed by a step names runtimes that were made before it, or
\* the one there is now.
LEMMA NumbersGrow ==
  ASSUME IInv, IInv', Numbered, NEW e \in Executors, Shape(e), RuntimeStep(e)
  PROVE  Numbered'
<1>1. /\ TypeOK /\ TypeOK' /\ "runtime" \in Kinds
      /\ loc[e] \in Job /\ loc[e].id["runtime"] \in Nat
      /\ loc[e].id["runtime"] <= made["runtime"]
  BY LocFacts, KindFacts DEF IInv, Numbered
<1>2. /\ live["runtime"] \in Nat /\ made["runtime"] \in Nat
      /\ live'["runtime"] \in Nat /\ made'["runtime"] \in Nat
      /\ store.id["runtime"] \in Nat
      /\ \A f \in Executors : loc[f].id["runtime"] \in Nat
  BY <1>1 DEF TypeOK, Job
<1>3. live'["runtime"] <= made'["runtime"] /\ made["runtime"] <= made'["runtime"]
  BY <1>2 DEF Numbered, RuntimeStep, RuntimeMoves
<1>4. Admitted.id["runtime"] = 0
  BY <1>1, ConfigAssumption DEF Admitted
<1>5. Bumped(loc[e]).id = loc[e].id BY <1>1, BumpedJob
<1> SUFFICES ASSUME NEW q, NEW j, NEW r, Moves(e, q, j, r),
                    store'.id["runtime"] \in {store.id["runtime"], loc[e].id["runtime"]},
                    j.id["runtime"] \in {0, store.id["runtime"],
                                        loc[e].id["runtime"], live'["runtime"]}
             PROVE  Numbered'
  <2>1. ASSUME NEW q \in PCs, NEW j \in Job,
               Private(e, q, j) \/ Checkpointed(e, q, j)
        PROVE  Numbered'
    <3>1. Moves(e, q, j, read[e])
      BY <1>1, <2>1, MovesFacts DEF Private, Checkpointed
    <3>2. j.id["runtime"] \in {0, loc[e].id["runtime"], live'["runtime"]}
      BY <1>1, <2>1 DEF Private, Checkpointed
    <3> QED BY <1>5, <2>1, <3>1, <3>2 DEF Private, Checkpointed
  <2>2. ASSUME NEW q \in PCs, NEW j \in Job, Compensated(e, q, j)
        PROVE  Numbered'
    <3>1. Moves(e, q, j, read[e]) BY <1>1, <2>2, MovesFacts DEF Compensated
    <3>2. pc'[e] = q /\ loc'[e] = j BY <3>1 DEF Moves
    <3>3. j.id["runtime"] = loc[e].id["runtime"]
      BY <2>2, <3>2 DEF Compensated, RuntimeStep
    <3> QED BY <2>2, <3>1, <3>3 DEF Compensated
  <2>3. CASE Left(e) \/ Stored(e) \/ Recorded(e)
    <3>1. Moves(e, "idle", Admitted, "QUEUED")
      BY <1>1, <2>3, MovesFacts DEF Left, Stored, Recorded
    <3> QED BY <1>4, <1>5, <2>3, <3>1 DEF Left, Stored, Recorded
  <2>4. CASE Entered(e)
    <3>1. Moves(e, "step", store, store.phase)
      BY <1>1, <2>4, MovesFacts DEF Entered
    <3> QED BY <2>4, <3>1 DEF Entered
  <2>5. CASE Won(e)
    <3>1. Moves(e, "log", Bumped(loc[e]), read[e])
      BY <1>1, <2>5, MovesFacts DEF Won
    <3> QED BY <1>5, <2>5, <3>1 DEF Won
  <2>6. ASSUME NEW q \in PCs, NEW j \in Job, NEW r \in Phases, Told(e, q, j, r)
        PROVE  Numbered'
    <3>1. Moves(e, q, j, r) BY <1>1, <2>6, MovesFacts DEF Told
    <3> QED BY <1>4, <2>6, <3>1 DEF Told
  <2> QED BY <2>1, <2>2, <2>3, <2>4, <2>5, <2>6 DEF Shape
<1>6. store'.id["runtime"] <= made'["runtime"] BY <1>1, <1>2, <1>3 DEF Numbered
<1>7. ASSUME NEW f \in Executors
      PROVE  loc'[f].id["runtime"] <= made'["runtime"]
  <2>1. CASE f = e BY <1>1, <1>2, <1>3, <2>1 DEF Numbered, Moves
  <2>2. CASE f # e BY <1>2, <1>3, <2>2 DEF Numbered, Moves
  <2> QED BY <2>1, <2>2
<1> QED BY <1>3, <1>6, <1>7 DEF Numbered

\* A runtime that is gone does not come back: what is created is another one.
LEMMA GoneStays ==
  ASSUME IInv, Numbered, NEW e \in Executors, RuntimeStep(e), Gone,
         store'.id["runtime"] = store.id["runtime"]
  PROVE  Gone'
<1>1. "runtime" \in Kinds BY KindFacts
<1>2. live["runtime"] \in Nat /\ made["runtime"] \in Nat
      /\ store.id["runtime"] \in Nat
  BY <1>1 DEF IInv, TypeOK, Job
<1> QED BY <1>2 DEF Gone, RuntimeStep, RuntimeMoves, Numbered


\* While there is a winner, nobody else writes the job.
LEMMA OnlyWinnerWrites ==
  ASSUME IInv, NEW e \in Executors, Shape(e),
         NEW f \in Executors, f # e, pc[f] \in WinPCs
  PROVE  store' = store /\ pc'[f] = pc[f] /\ loc'[f] = loc[f]
<1>1. TypeOK /\ store.phase \in Terminal BY DEF IInv, OneWinner, Winner
<1>2. ~(pc[e] \in StepPCs /\ Current(e)) BY <1>1, CurrentFacts
<1>3. pc[e] # "persist" BY PCFacts DEF IInv, OneWinner
<1>4. store' = store
  BY <1>2, <1>3, PCFacts DEF Shape, Private, Checkpointed, Left, Entered, Stored,
     Won, Told, Compensated, Recorded
<1>5. \E q, j : pc' = [pc EXCEPT ![e] = q] /\ loc' = [loc EXCEPT ![e] = j]
  BY DEF Shape, Private, Checkpointed, Left, Entered, Stored, Won, Told,
         Compensated, Recorded
<1> QED BY <1>1, <1>4, <1>5 DEF TypeOK

\* The winner itself deletes the runtime before it goes on to the identity.
LEMMA WinnerFirst ==
  ASSUME IInv, RuntimeInv, NEW e \in Executors, Shape(e), RuntimeStep(e)
  PROVE  /\ pc'[e] \in WinPCs => loc'[e].id["runtime"] = store'.id["runtime"]
         /\ pc'[e] = "undoIdentity" => Gone'
<1>1. TypeOK /\ loc[e] \in Job BY LocFacts DEF IInv
<1>2. /\ pc[e] \in WinPCs => loc[e].id["runtime"] = store.id["runtime"]
      /\ pc[e] = "undoIdentity" => Gone
  BY DEF RuntimeInv, RuntimeFirst
<1>3. "undoIdentity" \in UndoPCs BY DEF UndoPCs
<1>4. ASSUME NEW q \in PCs, NEW j \in Job,
             Private(e, q, j) \/ Checkpointed(e, q, j)
      PROVE  pc'[e] \notin WinPCs
  BY <1>1, <1>4, PCFacts DEF Private, Checkpointed, TypeOK
<1>5. CASE Left(e) \/ Entered(e) \/ Stored(e) \/ Recorded(e)
  <2>1. pc'[e] \in {"idle", "step"}
    BY <1>1, <1>5 DEF Left, Entered, Stored, Recorded, TypeOK
  <2> QED BY <2>1, PCFacts
<1>6. CASE Won(e)
  <2>1. pc'[e] = "log" /\ loc'[e] = store' BY <1>1, <1>6 DEF Won, TypeOK
  <2> QED BY <2>1
<1>7. ASSUME NEW q \in PCs, NEW j \in Job, NEW r \in Phases, Told(e, q, j, r)
      PROVE  /\ pc'[e] \in WinPCs => loc'[e].id["runtime"] = store'.id["runtime"]
             /\ pc'[e] # "undoIdentity"
  <2>1. pc'[e] = q /\ loc'[e] = j /\ store' = store
    BY <1>1, <1>7 DEF Told, TypeOK
  <2> QED BY <1>2, <1>7, <2>1, PCFacts DEF Told
<1>8. ASSUME NEW q \in PCs, NEW j \in Job, Compensated(e, q, j)
      PROVE  /\ loc'[e].id["runtime"] = store'.id["runtime"]
             /\ pc'[e] = "undoIdentity" => Gone'
  <2>1. pc'[e] = q /\ store' = store /\ pc[e] \in UndoPCs /\ q \in UndoPCs
    BY <1>1, <1>8 DEF Compensated, TypeOK
  <2>2. loc'[e].id["runtime"] = loc[e].id["runtime"]
    BY <2>1 DEF RuntimeStep
  <2>3. loc[e].id["runtime"] = store.id["runtime"] BY <1>2, <2>1, PCFacts
  <2> QED BY <2>1, <2>2, <2>3 DEF RuntimeStep, Gone
<1> QED BY <1>3, <1>4, <1>5, <1>6, <1>7, <1>8, PCFacts DEF Shape

\* The order of runtime and identity is kept by every step.
LEMMA RuntimeInvStep == IInv /\ IInv' /\ RuntimeInv /\ [Next]_vars => RuntimeInv'
<1> SUFFICES ASSUME IInv, IInv', RuntimeInv, [Next]_vars PROVE RuntimeInv'
  OBVIOUS
<1>1. CASE Next
  <2>1. PICK e \in Executors : Step(e) \/ Crash(e) BY <1>1 DEF Next
  <2>2. Shape(e) /\ RuntimeStep(e) BY <2>1, StepShape, EveryRuntimeStep
  <2>3. Numbered' BY <2>2, NumbersGrow DEF RuntimeInv
  <2>4. ASSUME NEW f \in Executors, f # e
        PROVE  /\ pc'[f] \in WinPCs => loc'[f].id["runtime"] = store'.id["runtime"]
               /\ pc'[f] = "undoIdentity" => Gone'
    <3>1. CASE pc[f] \in WinPCs
      <4>1. store' = store /\ pc'[f] = pc[f] /\ loc'[f] = loc[f]
        BY <2>2, <2>4, <3>1, OnlyWinnerWrites
      <4>2. Gone => Gone' BY <2>2, <4>1, GoneStays DEF RuntimeInv
      <4> QED BY <3>1, <4>1, <4>2 DEF RuntimeInv, RuntimeFirst
    <3>2. CASE pc[f] \notin WinPCs
      <4>1. pc'[f] = pc[f]
        <5>1. \E q : pc' = [pc EXCEPT ![e] = q]
          BY <2>2 DEF Shape, Private, Checkpointed, Left, Entered, Stored, Won,
                      Told, Compensated, Recorded
        <5> QED BY <2>4, <5>1 DEF IInv, TypeOK
      <4> QED BY <3>2, <4>1, PCFacts DEF UndoPCs, WinPCs
    <3> QED BY <3>1, <3>2
  <2>5. RuntimeFirst' BY <2>2, <2>4, WinnerFirst DEF RuntimeFirst
  <2> QED BY <2>3, <2>5 DEF RuntimeInv
<1>2. CASE UNCHANGED vars
  BY <1>2 DEF vars, RuntimeInv, Numbered, RuntimeFirst, Gone
<1> QED BY <1>1, <1>2

\* Before any poll the only runtime is the one a redeploy inherits.
LEMMA RuntimeInvInit == Init => RuntimeInv
<1> SUFFICES ASSUME Init PROVE RuntimeInv
  OBVIOUS
<1>1. /\ "runtime" \in Kinds /\ live \in [Kinds -> Nat] /\ made = live
  BY KindFacts DEF Init
<1>2. Admitted.id["runtime"] = 0 BY <1>1, ConfigAssumption DEF Admitted
<1>3. store = Admitted /\ \A e \in Executors : loc[e] = Admitted /\ pc[e] = "idle"
  BY DEF Init
<1>4. Numbered BY <1>1, <1>2, <1>3 DEF Numbered
<1>5. RuntimeFirst BY <1>3, PCFacts DEF RuntimeFirst
<1> QED BY <1>4, <1>5 DEF RuntimeInv

\* compensate_failure deletes the role and the identity an agent runs under only
\* when the runtime the job names is gone, whatever other executors create or
\* fail to delete meanwhile.
THEOREM RoleStaysUnderRuntime == Spec => RoleOutlivesRuntime
<1>1. IInv /\ RuntimeInv /\ [Next]_vars =>
        [\A k \in {"role", "identity"} :
           live[k] # 0 /\ live'[k] = 0 =>
             \/ store.id["runtime"] = 0
             \/ live["runtime"] # store.id["runtime"]]_vars
  <2> SUFFICES ASSUME IInv, RuntimeInv, Next, NEW k \in {"role", "identity"},
                      live[k] # 0, live'[k] = 0
               PROVE  Gone
    BY DEF Gone
  <2>1. PICK e \in Executors : Step(e) \/ Crash(e) BY DEF Next
  <2>2. pc[e] = "undoIdentity" BY <2>1, EveryRuntimeStep DEF RuntimeStep
  <2> QED BY <2>2 DEF RuntimeInv, RuntimeFirst
<1>2. Spec => []RuntimeInv
  BY Invariant, RuntimeInvInit, RuntimeInvStep, PTL DEF Spec
<1> QED BY <1>1, <1>2, Invariant, PTL DEF Spec, RoleOutlivesRuntime

-----------------------------------------------------------------------------
(* A new agent that one process deploys without a fault.                   *)
(*                                                                         *)
(* CleanSlate is about the end of the compensation; the invariant says of  *)
(* every state before it that whatever exists is named and owned by the    *)
(* copy in hand, which is therefore what the compensation finds.           *)

SoloSetting == Executors = {Admitter} /\ ~Redeploy

\* The copy in hand: the handler's, or the stored job between two polls.
InHand == IF pc[Admitter] = "idle" THEN store ELSE loc[Admitter]

\* Job c owns what exists when the remote resources are L.  The grants are
\* owned from the admission on; the record was made before it.
Owns(c, L) ==
  /\ \A k \in Kinds \ {"record", "grants"} :
       L[k] # 0 => c.id[k] = L[k] /\ c.owner[k] = Admitter
  /\ c.owner["grants"] = Admitter
  /\ L["record"] # 0 => L["record"] = 1 /\ c.id["record"] = 1
  /\ c.id["runtime"] # 0 => c.owner["runtime"] = Admitter
  /\ c.phase \in {"QUEUED", "BUILDING"} => L["runtime"] = 0
  /\ Managed /\ c.phase = "BUILDING" => L["memory"] # 0

\* What the compensation has deleted when it is at q.
SweptAt(q) ==
  (IF q \in {"undoRecord", "undoRuntime", "undoIdentity", "persist"}
     THEN Builtins \cup {"memory"} ELSE {})
  \cup (IF q \in {"undoRuntime", "undoIdentity", "persist"}
          THEN {"grants", "record"} ELSE {})
  \cup (IF q \in {"undoIdentity", "persist"} THEN {"runtime"} ELSE {})
  \cup (IF q = "persist" THEN {"identity", "role"} ELSE {})

\* With p = pc, j = loc and s = store of the one process:
SoloState(p, j, s, r, L) ==
  /\ p = "idle" => Owns(s, L)
  /\ p # "idle" => Owns(j, L)
  /\ p \in StepPCs => s.rev = j.rev /\ s.phase = r
  /\ p = "log" => s = j
  /\ p \in UndoPCs => s.rev = j.rev
  /\ p \in StepPCs \cup {"log", "undo", "undoRecord"} => j.id["record"] = 1
  /\ p = "idle" /\ s.phase # "FAILED" => s.id["record"] = 1
  /\ p = "idle" /\ s.phase = "FAILED" => \A k \in Kinds : L[k] = 0
  /\ \A k \in SweptAt(p) : L[k] = 0

SoloInv == faults = 0 =>
  SoloState(pc[Admitter], loc[Admitter], store, read[Admitter], live)


\* The state after a step, from its parts.
LEMMA SoloIntro ==
  ASSUME NEW p, NEW j, NEW s, NEW r, SoloState(p, j, s, r, live'),
         pc'[Admitter] = p, loc'[Admitter] = j, store' = s, read'[Admitter] = r
  PROVE  SoloInv'
BY DEF SoloInv, SoloState, Owns, SweptAt

\* Nothing has been deleted before the compensation.
LEMMA SweptFacts ==
  /\ \A q \in StepPCs \cup {"idle", "log", "undo"} : SweptAt(q) = {}
  /\ SweptAt("undoRecord") = Builtins \cup {"memory"}
  /\ SweptAt("undoRuntime") = Builtins \cup {"memory", "grants", "record"}
  /\ SweptAt("undoIdentity") = Builtins \cup {"memory", "grants", "record", "runtime"}
  /\ SweptAt("persist") = Kinds
<1>1. \A q \in StepPCs \cup {"idle", "log", "undo"} :
        q \notin {"undoRecord", "undoRuntime", "undoIdentity", "persist"}
  BY DEF StepPCs
<1>2. \A q \in StepPCs \cup {"idle", "log", "undo"} : SweptAt(q) = {}
  BY <1>1 DEF SweptAt
<1>3. SweptAt("undoRecord") = Builtins \cup {"memory"} BY DEF SweptAt
<1>4. SweptAt("undoRuntime") = Builtins \cup {"memory", "grants", "record"}
  BY DEF SweptAt
<1>5. SweptAt("undoIdentity") = Builtins \cup {"memory", "grants", "record", "runtime"}
  BY DEF SweptAt
<1>6. SweptAt("persist") = Kinds BY DEF SweptAt, Kinds
<1> QED BY <1>2, <1>3, <1>4, <1>5, <1>6

\* The handler goes on with a copy that owns what exists then.
LEMMA SoloGo ==
  ASSUME IInv, SoloInv, faults = 0, NEW q \in StepPCs, NEW j \in Job,
         pc[Admitter] \in StepPCs, Go(Admitter, q, j), store' = store,
         j.rev = loc[Admitter].rev, j.id["record"] = 1, Owns(j, live')
  PROVE  SoloInv'
<1>1. Admitter \in Executors /\ TypeOK BY ExecutorsAssumption DEF IInv
<1>2. pc'[Admitter] = q /\ loc'[Admitter] = j /\ read' = read
  BY <1>1, WhereTo DEF Go
<1>3. store.rev = loc[Admitter].rev /\ store.phase = read[Admitter]
  BY DEF SoloInv, SoloState
<1>4. SoloState(q, j, store, read[Admitter], live')
  BY <1>3, SweptFacts, PCFacts DEF SoloState
<1> QED BY <1>2, <1>4, SoloIntro

\* What the one process has in hand in the middle of a step.
LEMMA SoloCopy ==
  ASSUME IInv, SoloInv, faults = 0, pc[Admitter] # "idle"
  PROVE  LET i == loc[Admitter] IN
         /\ i \in Job /\ i.id \in [Kinds -> Nat] /\ i.owner \in [Kinds -> Owners]
         /\ Owns(i, live)
         /\ pc[Admitter] \in StepPCs =>
              /\ i.id["record"] = 1
              /\ store.rev = i.rev /\ store.phase = read[Admitter]
              /\ Current(Admitter)
<1>1. Admitter \in Executors BY ExecutorsAssumption
<1> QED BY <1>1, LocFacts DEF IInv, SoloInv, SoloState, Current

\* Ownership does not depend on more of a job than this.
LEMMA OwnsSame ==
  ASSUME NEW i \in Job, NEW j \in Job, NEW L, Owns(i, L), j.id = i.id,
         \A k \in Kinds : k # "grants" => j.owner[k] = i.owner[k],
         j.owner["grants"] \in {i.owner["grants"], Admitter},
         \/ j.phase = i.phase
         \/ j.phase \notin {"QUEUED", "BUILDING"}
         \/ L["runtime"] = 0 /\ (Managed => L["memory"] # 0)
  PROVE  Owns(j, L)
BY KindFacts DEF Owns

\* The steps that touch no remote resource.
LEMMA SoloQuiet ==
  ASSUME IInv, SoloInv, faults = 0, SoloSetting, NEW e \in Executors,
         Stay(e) \/ StepFails(e) \/ RoleReady(e) \/ ToolsPending(e)
         \/ RuntimeUp(e) \/ RequestTools(e) \/ PolicyOutcome(e)
         \/ PolicyPending(e) \/ MemoryPending(e) \/ Finalize(e)
  PROVE  SoloInv'
<1>1. e = Admitter BY DEF SoloSetting
<1>2. PICK q \in {"commit", "tools", "asked"}, j \in Job : Quiet(Admitter, q, j)
  BY <1>1, QuietMove
<1> DEFINE i == loc[Admitter]
<1>3. pc[Admitter] \in StepPCs /\ pc[Admitter] # "idle" /\ q \in StepPCs
  BY <1>2, PCFacts DEF Quiet, StepPCs
<1>4. i \in Job /\ Owns(i, live) /\ i.id["record"] = 1 BY <1>3, SoloCopy
<1>5. \/ j.phase = i.phase \/ j.phase \notin {"QUEUED", "BUILDING"}
  BY <1>2 DEF Quiet
<1>6. Owns(j, live) BY <1>2, <1>4, <1>5, OwnsSame DEF Quiet
<1> QED BY <1>2, <1>3, <1>4, <1>6, SoloGo DEF Quiet

\* Ownership after the creation of the kinds in S, all of them absent before.
LEMMA OwnsCreated ==
  ASSUME TypeOK, NEW i \in Job, NEW j \in Job, Owns(i, live),
         NEW S \in SUBSET (Kinds \ {"record"}), Create(S),
         \A k \in S : live[k] = 0,
         \A k \in S \ {"grants"} : j.id[k] = made[k] + 1 /\ j.owner[k] = Admitter,
         \A k \in Kinds : k \notin S \cup {"grants"} =>
           /\ live[k] # 0 => j.id[k] \in {i.id[k], live[k]}
           /\ j.owner[k] = i.owner[k],
         j.id["record"] = i.id["record"],
         "runtime" \notin S => j.id["runtime"] = i.id["runtime"],
         j.owner["grants"] = i.owner["grants"],
         j.phase \in {"QUEUED", "BUILDING"} =>
           "runtime" \notin S /\ i.phase \in {"QUEUED", "BUILDING"},
         Managed /\ j.phase = "BUILDING" => "memory" \in S \/ i.phase = "BUILDING"
  PROVE  Owns(j, live')
<1>1. /\ live \in [Kinds -> Nat] /\ made \in [Kinds -> Nat]
      /\ {"memory", "runtime", "grants", "record"} \subseteq Kinds
  BY KindFacts DEF TypeOK
<1>2. /\ \A k \in Kinds : k \in S => live'[k] = made[k] + 1 /\ live'[k] # 0
      /\ \A k \in Kinds : k \notin S => live'[k] = live[k]
  BY <1>1 DEF Create
<1>3. ASSUME NEW k \in Kinds \ {"record", "grants"}, live'[k] # 0
      PROVE  j.id[k] = live'[k] /\ j.owner[k] = Admitter
  <2>1. CASE k \in S BY <1>2, <1>3, <2>1
  <2>2. CASE k \notin S BY <1>2, <1>3, <2>2 DEF Owns
  <2> QED BY <2>1, <2>2
<1>4. j.owner["grants"] = Admitter BY DEF Owns
<1>5. live'["record"] # 0 => live'["record"] = 1 /\ j.id["record"] = 1
  BY <1>1, <1>2 DEF Owns
<1>6. j.id["runtime"] # 0 => j.owner["runtime"] = Admitter
  <2>1. CASE "runtime" \in S BY <1>1, <2>1
  <2>2. CASE "runtime" \notin S BY <1>1, <2>2 DEF Owns
  <2> QED BY <2>1, <2>2
<1>7. j.phase \in {"QUEUED", "BUILDING"} => live'["runtime"] = 0
  BY <1>1, <1>2 DEF Owns
<1>8. Managed /\ j.phase = "BUILDING" => live'["memory"] # 0
  BY <1>1, <1>2 DEF Owns
<1> QED BY <1>3, <1>4, <1>5, <1>6, <1>7, <1>8 DEF Owns

\* QUEUED: a memory that is in place is the job's own.
LEMMA SoloStart ==
  ASSUME IInv, SoloInv, faults = 0, StartBuild(Admitter)
  PROVE  SoloInv'
<1> DEFINE i == loc[Admitter]
<1>1. /\ pc[Admitter] \in StepPCs /\ pc[Admitter] # "idle"
      /\ i.phase = "QUEUED" /\ store' = store /\ live' = live
  BY DEF StartBuild, Stepping, At, StepPCs, remote
<1>2. /\ i \in Job /\ i.id \in [Kinds -> Nat] /\ Owns(i, live)
      /\ i.id["record"] = 1
  BY <1>1, SoloCopy
<1>3. /\ {"memory", "record", "runtime"} \subseteq Kinds /\ live["memory"] \in Nat
      /\ live["runtime"] = 0
  BY <1>1, <1>2, KindFacts DEF IInv, TypeOK, Owns
<1>4. CASE ~Managed
  <2> DEFINE j == Moved(i, "BUILDING")
  <2>1. j \in Job /\ j.rev = i.rev /\ j.id = i.id /\ j.owner = i.owner
    BY <1>2, MovedJob DEF Phases
  <2>2. Go(Admitter, "commit", j) BY <1>4 DEF StartBuild
  <2> HIDE DEF j
  <2>3. Owns(j, live) BY <1>2, <1>3, <1>4, <2>1, OwnsSame
  <2> QED BY <1>1, <1>2, <2>1, <2>2, <2>3, SoloGo DEF StepPCs
<1>5. CASE Managed /\ live["memory"] = 0
  <2>1. Go(Admitter, "memory", i) BY <1>5 DEF StartBuild
  <2> QED BY <1>1, <1>2, <2>1, SoloGo DEF StepPCs
<1>6. CASE Managed /\ live["memory"] # 0
  <2> DEFINE t == Took(i, "memory", live["memory"])
             j == Moved(t, "BUILDING")
  <2>1. Go(Admitter, "commit", j) BY <1>6 DEF StartBuild
  <2>2. t \in Job /\ t.rev = i.rev /\ t.owner = i.owner
        /\ t.id = [i.id EXCEPT !["memory"] = live["memory"]]
    BY <1>2, <1>3, TookJob
  <2>3. i.id["memory"] = live["memory"] BY <1>3, <1>6, <1>2 DEF Owns
  <2>4. t.id = i.id BY <1>2, <2>2, <2>3
  <2> HIDE DEF t
  <2>5. j \in Job /\ j.rev = i.rev /\ j.id = i.id /\ j.owner = i.owner
    BY <2>2, <2>4, MovedJob DEF Phases
  <2> HIDE DEF j
  <2>6. Owns(j, live) BY <1>2, <1>3, <1>6, <2>5, OwnsSame
  <2> QED BY <1>1, <1>2, <2>1, <2>5, <2>6, SoloGo DEF StepPCs
<1> QED BY <1>4, <1>5, <1>6

\* Where the handler is tells the phase of its copy.
LEMMA Placed ==
  ASSUME IInv, Following, NEW e \in Executors
  PROVE  /\ pc[e] = "memory" => loc[e].phase = "QUEUED"
         /\ pc[e] \in {"roleMade", "tools", "runtime"} => loc[e].phase = "BUILDING"
         /\ pc[e] \in {"register", "granted", "request", "asked", "outcome"}
              => loc[e].phase = "PROVISIONING"
<1>1. pc[e] \in {"memory", "roleMade", "tools", "runtime", "register", "granted",
                "request", "asked", "outcome"} => loc[e].phase = read[e]
  BY MidStep DEF StepPCs
<1> QED BY <1>1 DEF Following, FollowsAt

\* The memory is created and claimed, or it was the job's own already.
LEMMA SoloMemory ==
  ASSUME IInv, Following, SoloInv, faults = 0, CreateMemory(Admitter)
  PROVE  SoloInv'
<1> DEFINE i == loc[Admitter]
           n == IF live["memory"] = 0 THEN made["memory"] + 1 ELSE live["memory"]
           t == Claimed(i, "memory", n, Admitter)
           j == Moved(t, "BUILDING")
<1>1. /\ pc[Admitter] = "memory" /\ store' = store
      /\ pc[Admitter] \in StepPCs /\ pc[Admitter] # "idle"
  BY DEF CreateMemory, At, StepPCs
<1>2. /\ i \in Job /\ i.id \in [Kinds -> Nat] /\ i.owner \in [Kinds -> Owners]
      /\ Owns(i, live) /\ i.id["record"] = 1
  BY <1>1, SoloCopy
<1>3. /\ "memory" \in Kinds /\ "record" \in Kinds /\ "grants" \in Kinds
      /\ "runtime" \in Kinds
      /\ live["memory"] \in Nat /\ made["memory"] \in Nat /\ n \in Nat
      /\ Admitter \in Executors /\ TypeOK
  BY KindFacts, ExecutorsAssumption DEF IInv, TypeOK
<1>4. Go(Admitter, "commit", j) BY DEF CreateMemory
<1> HIDE DEF n
<1>5. t \in Job /\ t.rev = i.rev /\ t.phase = i.phase
      /\ t.id = [i.id EXCEPT !["memory"] = n]
      /\ t.owner = [i.owner EXCEPT !["memory"] = Admitter]
  <2> HIDE DEF i
  <2> QED BY <1>2, <1>3, ClaimedJob
<1> HIDE DEF t
<1>6. j \in Job /\ j.rev = i.rev /\ j.id = t.id /\ j.owner = t.owner
      /\ j.phase = "BUILDING"
  BY <1>5, MovedJob DEF Phases
<1> HIDE DEF j
<1>7. /\ j.id["memory"] = n /\ j.owner["memory"] = Admitter
      /\ \A k \in Kinds : k # "memory" =>
           j.id[k] = i.id[k] /\ j.owner[k] = i.owner[k]
  BY <1>2, <1>3, <1>5, <1>6
<1>8. CASE live["memory"] = 0
  <2>1. Create({"memory"}) BY <1>8 DEF CreateMemory
  <2>2. n = made["memory"] + 1 BY <1>8 DEF n
  <2>4. i.phase = "QUEUED" BY <1>1, <1>3, Placed
  <2>5. Owns(j, live')
    <3> DEFINE S == {"memory"}
    <3>1. S \in SUBSET (Kinds \ {"record"}) /\ Create(S) /\ \A k \in S : live[k] = 0
      BY <1>3, <1>8, <2>1
    <3>2. \A k \in S \ {"grants"} : j.id[k] = made[k] + 1 /\ j.owner[k] = Admitter
      BY <1>7, <2>2
    <3>3. \A k \in Kinds : k \notin S \cup {"grants"} =>
            j.id[k] = i.id[k] /\ j.owner[k] = i.owner[k]
      BY <1>7
    <3>4. /\ j.id["record"] = i.id["record"] /\ j.id["runtime"] = i.id["runtime"]
          /\ j.owner["grants"] = i.owner["grants"]
      BY <1>3, <1>7
    <3>5. "memory" \in S /\ "runtime" \notin S OBVIOUS
    <3> HIDE DEF S, i
    <3> QED BY <1>2, <1>3, <1>6, <2>4, <3>1, <3>2, <3>3, <3>4, <3>5,
           OwnsCreated
  <2> QED BY <1>1, <1>2, <1>4, <1>6, <1>7, <1>3, <2>5, SoloGo DEF StepPCs
<1>9. CASE live["memory"] # 0
  <2>1. live' = live BY <1>9 DEF CreateMemory
  <2>2. n = live["memory"] BY <1>9 DEF n
  <2>3. i.id["memory"] = live["memory"] /\ i.owner["memory"] = Admitter
    BY <1>2, <1>3, <1>9 DEF Owns
  <2>4. j.id = i.id /\ j.owner = i.owner BY <1>2, <1>3, <1>5, <1>6, <2>2, <2>3
  <2>5. i.phase = "QUEUED" BY <1>1, <1>3, Placed
  <2>6. live["runtime"] = 0 BY <1>2, <2>5 DEF Owns
  <2>7. Owns(j, live) BY <1>2, <1>6, <1>9, <2>4, <2>6, OwnsSame
  <2> QED BY <1>1, <1>2, <1>4, <1>6, <2>1, <2>4, <2>7, SoloGo DEF StepPCs
<1> QED BY <1>8, <1>9

\* BUILDING: the role is created and claimed; there is none from elsewhere.
LEMMA SoloRole ==
  ASSUME IInv, Following, SoloInv, faults = 0, EnsureRole(Admitter)
  PROVE  SoloInv'
<1> DEFINE i == loc[Admitter]
           n == made["role"] + 1
           j == Claimed(i, "role", n, Admitter)
<1>1. /\ pc[Admitter] = "step" /\ store' = store /\ i.phase = "BUILDING"
      /\ pc[Admitter] \in StepPCs /\ pc[Admitter] # "idle" /\ i.id["role"] = 0
  BY DEF EnsureRole, Stepping, At, StepPCs
<1>2. /\ i \in Job /\ i.id \in [Kinds -> Nat] /\ i.owner \in [Kinds -> Owners]
      /\ Owns(i, live) /\ i.id["record"] = 1
  BY <1>1, SoloCopy
<1>3. /\ {"role", "record", "grants", "runtime", "memory"} \subseteq Kinds
      /\ live["role"] \in Nat /\ made["role"] \in Nat /\ n \in Nat
      /\ Admitter \in Executors /\ TypeOK
  BY KindFacts, ExecutorsAssumption DEF IInv, TypeOK
<1>4. live["role"] = 0 BY <1>1, <1>2, <1>3 DEF Owns
<1>5. Create({"role"}) /\ Go(Admitter, "roleMade", j)
  BY <1>4 DEF EnsureRole
<1>6. j \in Job /\ j.rev = i.rev /\ j.phase = i.phase
      /\ j.id = [i.id EXCEPT !["role"] = n]
      /\ j.owner = [i.owner EXCEPT !["role"] = Admitter]
  <2> HIDE DEF i, n
  <2> QED BY <1>2, <1>3, ClaimedJob
<1> HIDE DEF j
<1>7. /\ j.id["role"] = n /\ j.owner["role"] = Admitter
      /\ \A k \in Kinds : k # "role" =>
           j.id[k] = i.id[k] /\ j.owner[k] = i.owner[k]
  BY <1>2, <1>3, <1>6
<1>8. Owns(j, live')
  <2> DEFINE S == {"role"}
  <2>1. S \in SUBSET (Kinds \ {"record"}) /\ Create(S) /\ \A k \in S : live[k] = 0
    BY <1>3, <1>4, <1>5
  <2>2. \A k \in S \ {"grants"} : j.id[k] = made[k] + 1 /\ j.owner[k] = Admitter
    BY <1>7
  <2>3. \A k \in Kinds : k \notin S \cup {"grants"} =>
          j.id[k] = i.id[k] /\ j.owner[k] = i.owner[k]
    BY <1>7
  <2>4. /\ j.id["record"] = i.id["record"] /\ j.id["runtime"] = i.id["runtime"]
        /\ j.owner["grants"] = i.owner["grants"] /\ "runtime" \notin S
    BY <1>3, <1>7
  <2> HIDE DEF S, i
  <2> QED BY <1>1, <1>2, <1>3, <1>6, <2>1, <2>2, <2>3, <2>4, OwnsCreated
<1> QED BY <1>1, <1>2, <1>3, <1>5, <1>6, <1>7, <1>8, SoloGo DEF StepPCs

\* BUILDING: each tool is created and claimed; there is none from elsewhere.
LEMMA SoloTools ==
  ASSUME IInv, Following, SoloInv, faults = 0, EnsureTools(Admitter)
  PROVE  SoloInv'
<1> DEFINE i == loc[Admitter]
<1>1. /\ pc[Admitter] = "tools" /\ store' = store
      /\ pc[Admitter] \in StepPCs /\ pc[Admitter] # "idle"
  BY DEF EnsureTools, At, StepPCs
<1>2. /\ i \in Job /\ i.id \in [Kinds -> Nat] /\ i.owner \in [Kinds -> Owners]
      /\ Owns(i, live) /\ i.id["record"] = 1
  BY <1>1, SoloCopy
<1>3. /\ {"record", "grants", "runtime", "memory"} \subseteq Kinds
      /\ live \in [Kinds -> Nat] /\ made \in [Kinds -> Nat]
      /\ Builtins \subseteq Kinds
      /\ {"record", "grants", "runtime"} \cap Builtins = {}
      /\ Admitter \in Executors /\ TypeOK
  BY KindFacts, ExecutorsAssumption, ConfigAssumption DEF IInv, TypeOK
<1>4. i.phase = "BUILDING" BY <1>1, <1>3, Placed
<1>5. PICK S \in SUBSET MissingTools(Admitter) :
        LET new == {k \in S : live[k] = 0} IN
        /\ Create(new)
        /\ Go(Admitter, "commit",
             [i EXCEPT
                !.phase = IF S = MissingTools(Admitter) THEN @ ELSE "FAILED",
                !.id    = [k \in Kinds |-> IF k \in new THEN made[k] + 1
                             ELSE IF k \in S THEN live[k] ELSE @[k]],
                !.owner = [k \in Kinds |-> IF k \in new THEN Admitter ELSE @[k]]])
  BY DEF EnsureTools
<1>6. S \subseteq Builtins /\ \A k \in S : i.id[k] = 0
  BY <1>5 DEF MissingTools
<1>7. \A k \in S : live[k] = 0 BY <1>2, <1>3, <1>6 DEF Owns
<1>8. {k \in S : live[k] = 0} = S BY <1>7
<1> DEFINE ph == IF S = MissingTools(Admitter) THEN i.phase ELSE "FAILED"
           j == [i EXCEPT
                !.phase = ph,
                !.id    = [k \in Kinds |-> IF k \in S THEN made[k] + 1 ELSE i.id[k]],
                !.owner = [k \in Kinds |-> IF k \in S THEN Admitter ELSE i.owner[k]]]
<1>9. [i EXCEPT
         !.phase = IF S = MissingTools(Admitter) THEN @ ELSE "FAILED",
         !.id    = [k \in Kinds |-> IF k \in S THEN made[k] + 1
                      ELSE IF k \in S THEN live[k] ELSE @[k]],
         !.owner = [k \in Kinds |-> IF k \in S THEN Admitter ELSE @[k]]] = j
  OBVIOUS
<1>10. Create(S) /\ Go(Admitter, "commit", j)
  <2>1. Create(S) BY <1>5, <1>8
  <2>2. Go(Admitter, "commit",
             [i EXCEPT
                !.phase = IF S = MissingTools(Admitter) THEN @ ELSE "FAILED",
                !.id    = [k \in Kinds |-> IF k \in S THEN made[k] + 1
                             ELSE IF k \in S THEN live[k] ELSE @[k]],
                !.owner = [k \in Kinds |-> IF k \in S THEN Admitter ELSE @[k]]])
    BY <1>5, <1>8
  <2> HIDE DEF j
  <2> QED BY <1>9, <2>1, <2>2
<1>11. ph \in Phases /\ (ph = i.phase \/ ph = "FAILED") BY <1>2 DEF Job, Phases
<1> HIDE DEF ph
<1>12. /\ j \in Job /\ j.rev = i.rev /\ j.phase = ph
       /\ j.id = [k \in Kinds |-> IF k \in S THEN made[k] + 1 ELSE i.id[k]]
       /\ j.owner = [k \in Kinds |-> IF k \in S THEN Admitter ELSE i.owner[k]]
  <2>1. [k \in Kinds |-> IF k \in S THEN made[k] + 1 ELSE i.id[k]] \in [Kinds -> Nat]
    BY <1>2, <1>3
  <2>2. [k \in Kinds |-> IF k \in S THEN Admitter ELSE i.owner[k]] \in [Kinds -> Owners]
    BY <1>2, <1>3 DEF Owners
  <2> QED BY <1>2, <1>11, <2>1, <2>2 DEF Job
<1> HIDE DEF j
<1>13. Owns(j, live')
  <2>1. S \in SUBSET (Kinds \ {"record"}) BY <1>3, <1>6
  <2>2. \A k \in S \ {"grants"} : j.id[k] = made[k] + 1 /\ j.owner[k] = Admitter
    BY <1>3, <1>6, <1>12
  <2>3. \A k \in Kinds : k \notin S \cup {"grants"} =>
          j.id[k] = i.id[k] /\ j.owner[k] = i.owner[k]
    BY <1>12
  <2>4. /\ j.id["record"] = i.id["record"] /\ j.id["runtime"] = i.id["runtime"]
        /\ j.owner["grants"] = i.owner["grants"] /\ "runtime" \notin S
    BY <1>3, <1>6, <1>12
  <2>5. /\ j.phase \in {"QUEUED", "BUILDING"} => i.phase \in {"QUEUED", "BUILDING"}
        /\ j.phase = "BUILDING" => i.phase = "BUILDING"
    BY <1>4
  <2> HIDE DEF i
  <2> QED BY <1>2, <1>3, <1>7, <1>10, <1>12, <2>1, <2>2, <2>3, <2>4, <2>5, OwnsCreated
<1>14. j.id["record"] = 1 BY <1>2, <1>3, <1>6, <1>12
<1> QED BY <1>1, <1>3, <1>10, <1>12, <1>13, <1>14, SoloGo DEF StepPCs

\* BUILDING: the memory is there, so none is created behind the job's back.
LEMMA SoloToolsReady ==
  ASSUME IInv, Following, SoloInv, faults = 0, ToolsReady(Admitter)
  PROVE  SoloInv'
<1> DEFINE i == loc[Admitter]
           m == Moved(i, "FAILED")
<1>1. /\ pc[Admitter] = "tools" /\ store' = store
      /\ pc[Admitter] \in StepPCs /\ pc[Admitter] # "idle"
  BY DEF ToolsReady, At, StepPCs
<1>2. i \in Job /\ Owns(i, live) /\ i.id["record"] = 1 BY <1>1, SoloCopy
<1>3. Admitter \in Executors BY ExecutorsAssumption
<1>4. Managed => live["memory"] # 0 BY <1>1, <1>2, <1>3, Placed DEF Owns
<1>5. live' = live BY <1>4 DEF ToolsReady
<1>6. Go(Admitter, "commit", m) \/ Go(Admitter, "runtime", i)
  BY <1>4 DEF ToolsReady, Fail
<1>7. m \in Job /\ m.rev = i.rev /\ m.id = i.id /\ m.owner = i.owner
      /\ m.phase = "FAILED"
  BY <1>2, MovedJob DEF Phases
<1> HIDE DEF m
<1>8. Owns(m, live) BY <1>2, <1>7, OwnsSame
<1> QED BY <1>1, <1>2, <1>5, <1>6, <1>7, <1>8, SoloGo DEF StepPCs

\* BUILDING: the identity of a first attempt is the job's own at the next one.
LEMMA SoloIdentity ==
  ASSUME IInv, Following, SoloInv, faults = 0, pc[Admitter] = "runtime"
  PROVE  LET i == loc[Admitter]
             w == WithIdentity(i, Admitter)
         IN /\ w \in Job /\ w.rev = i.rev /\ w.phase = "BUILDING"
            /\ i.phase = "BUILDING" /\ i \in Job /\ Owns(i, live)
            /\ i.id["record"] = 1 /\ live["runtime"] = 0
            /\ \A k \in Kinds : k # "identity" =>
                 w.id[k] = i.id[k] /\ w.owner[k] = i.owner[k]
            /\ live["identity"] = 0 => w.id["identity"] = made["identity"] + 1
                                       /\ w.owner["identity"] = Admitter
            /\ live["identity"] # 0 => w.id["identity"] = i.id["identity"]
                                       /\ w.owner["identity"] = i.owner["identity"]
<1> DEFINE i == loc[Admitter]
<1>1. pc[Admitter] # "idle" /\ pc[Admitter] \in StepPCs BY DEF StepPCs
<1>2. i \in Job /\ Owns(i, live) /\ i.id["record"] = 1 BY <1>1, SoloCopy
<1>3. Admitter \in Executors /\ TypeOK /\ "identity" \in Kinds
  BY ExecutorsAssumption, KindFacts DEF IInv
<1>4. i.phase = "BUILDING" BY <1>3, Placed
<1>5. live["runtime"] = 0 BY <1>2, <1>4 DEF Owns
<1>6. live["identity"] # 0 => live["identity"] = i.id["identity"]
  BY <1>2, <1>3 DEF Owns
<1> HIDE DEF i
<1> QED BY <1>2, <1>3, <1>4, <1>5, <1>6, WithIdentityJob DEF i

\* BUILDING: there is no runtime yet, so it is created and claimed.
LEMMA SoloRuntime ==
  ASSUME IInv, Following, SoloInv, faults = 0, CreateRuntime(Admitter)
  PROVE  SoloInv'
<1> DEFINE i == loc[Admitter]
           w == WithIdentity(i, Admitter)
           n == made["runtime"] + 1
           t == Claimed(w, "runtime", n, Admitter)
           j == Moved(t, "DEPLOYING")
<1>1. pc[Admitter] = "runtime" /\ store' = store BY DEF CreateRuntime, At
<1>2. /\ w \in Job /\ w.rev = i.rev
      /\ i \in Job /\ Owns(i, live) /\ i.id["record"] = 1 /\ live["runtime"] = 0
      /\ \A k \in Kinds : k # "identity" =>
           w.id[k] = i.id[k] /\ w.owner[k] = i.owner[k]
      /\ live["identity"] = 0 => w.id["identity"] = made["identity"] + 1
                                 /\ w.owner["identity"] = Admitter
      /\ live["identity"] # 0 => w.id["identity"] = i.id["identity"]
                                 /\ w.owner["identity"] = i.owner["identity"]
  BY <1>1, SoloIdentity
<1>3. /\ {"identity", "record", "grants", "runtime", "memory"} \subseteq Kinds
      /\ made \in [Kinds -> Nat] /\ n \in Nat
      /\ Admitter \in Executors /\ TypeOK
  BY KindFacts, ExecutorsAssumption DEF IInv, TypeOK
<1>4. Create(NewIdentity \cup {"runtime"}) /\ Go(Admitter, "commit", j)
  BY <1>2 DEF CreateRuntime
<1> HIDE DEF w, n
<1>5. t \in Job /\ t.rev = w.rev
      /\ t.id = [w.id EXCEPT !["runtime"] = n]
      /\ t.owner = [w.owner EXCEPT !["runtime"] = Admitter]
  BY <1>2, <1>3, ClaimedJob
<1> HIDE DEF t
<1>6. j \in Job /\ j.rev = i.rev /\ j.id = t.id /\ j.owner = t.owner
      /\ j.phase = "DEPLOYING"
  BY <1>2, <1>5, MovedJob DEF Phases
<1> HIDE DEF j
<1>7. w.id \in [Kinds -> Nat] /\ w.owner \in [Kinds -> Owners]
  BY <1>2 DEF Job
<1>8. /\ j.id["runtime"] = n /\ j.owner["runtime"] = Admitter
      /\ \A k \in Kinds : k # "runtime" =>
           j.id[k] = w.id[k] /\ j.owner[k] = w.owner[k]
  BY <1>3, <1>5, <1>6, <1>7
<1>9. Owns(j, live')
  <2> DEFINE S == NewIdentity \cup {"runtime"}
  <2>0. "identity" \in S <=> live["identity"] = 0 BY DEF NewIdentity
  <2>1. S \in SUBSET (Kinds \ {"record"}) /\ Create(S) /\ \A k \in S : live[k] = 0
    BY <1>2, <1>3, <1>4 DEF NewIdentity
  <2>a. S \subseteq {"identity", "runtime"} /\ "runtime" \in S
    BY DEF NewIdentity
  <2> HIDE DEF S
  <2>2. \A k \in S \ {"grants"} : j.id[k] = made[k] + 1 /\ j.owner[k] = Admitter
    <3>1. j.id["runtime"] = made["runtime"] + 1 BY <1>8 DEF n
    <3> QED BY <1>2, <1>3, <1>8, <2>0, <2>a, <3>1
  <2>3. \A k \in Kinds : k \notin S \cup {"grants"} =>
          j.id[k] = i.id[k] /\ j.owner[k] = i.owner[k]
    BY <1>2, <1>8, <2>0, <2>a
  <2>4. /\ j.id["record"] = i.id["record"]
        /\ j.owner["grants"] = i.owner["grants"]
    BY <1>2, <1>3, <1>8
  <2> HIDE DEF i
  <2> QED BY <1>2, <1>3, <1>6, <2>1, <2>2, <2>3, <2>4, <2>a, OwnsCreated
<1>10. j.id["record"] = 1 BY <1>2, <1>3, <1>8
<1> QED BY <1>1, <1>4, <1>6, <1>9, <1>10, SoloGo DEF StepPCs

\* BUILDING: the identity stays with the job when the runtime is refused.
LEMMA SoloRefused ==
  ASSUME IInv, Following, SoloInv, faults = 0, RuntimeRefused(Admitter)
  PROVE  SoloInv'
<1> DEFINE i == loc[Admitter]
           w == WithIdentity(i, Admitter)
           m == Moved(w, "FAILED")
<1>1. pc[Admitter] = "runtime" /\ store' = store BY DEF RuntimeRefused, At
<1>2. /\ w \in Job /\ w.rev = i.rev /\ w.phase = "BUILDING" /\ i.phase = "BUILDING"
      /\ i \in Job /\ Owns(i, live) /\ i.id["record"] = 1 /\ live["runtime"] = 0
      /\ \A k \in Kinds : k # "identity" =>
           w.id[k] = i.id[k] /\ w.owner[k] = i.owner[k]
      /\ live["identity"] = 0 => w.id["identity"] = made["identity"] + 1
                                 /\ w.owner["identity"] = Admitter
      /\ live["identity"] # 0 => w.id["identity"] = i.id["identity"]
                                 /\ w.owner["identity"] = i.owner["identity"]
  BY <1>1, SoloIdentity
<1>3. /\ {"identity", "record", "grants", "runtime", "memory"} \subseteq Kinds
      /\ made \in [Kinds -> Nat] /\ Admitter \in Executors /\ TypeOK
  BY KindFacts, ExecutorsAssumption DEF IInv, TypeOK
<1>4. /\ Create(NewIdentity)
      /\ Go(Admitter, "commit", w) \/ Go(Admitter, "commit", m)
  BY DEF RuntimeRefused
<1> HIDE DEF w
<1>5. m \in Job /\ m.rev = w.rev /\ m.id = w.id /\ m.owner = w.owner
      /\ m.phase = "FAILED"
  BY <1>2, MovedJob DEF Phases
<1> HIDE DEF m
<1>6. ASSUME NEW j \in {w, m} PROVE Owns(j, live') /\ j.id["record"] = 1
  <2>0. "identity" \in NewIdentity <=> live["identity"] = 0 BY DEF NewIdentity
  <2>1. /\ NewIdentity \in SUBSET (Kinds \ {"record"})
        /\ \A k \in NewIdentity : live[k] = 0
        /\ NewIdentity \subseteq {"identity"}
    BY <1>3 DEF NewIdentity
  <2>2. j \in Job /\ j.id = w.id /\ j.owner = w.owner BY <1>2, <1>5
  <2>3. \A k \in NewIdentity \ {"grants"} :
          j.id[k] = made[k] + 1 /\ j.owner[k] = Admitter
    BY <1>2, <2>0, <2>1, <2>2
  <2>4. \A k \in Kinds : k \notin NewIdentity \cup {"grants"} =>
          j.id[k] = i.id[k] /\ j.owner[k] = i.owner[k]
    BY <1>2, <2>0, <2>1, <2>2
  <2>5. /\ j.id["record"] = i.id["record"] /\ j.id["runtime"] = i.id["runtime"]
        /\ j.owner["grants"] = i.owner["grants"] /\ "runtime" \notin NewIdentity
    BY <1>2, <1>3, <2>1, <2>2
  <2> HIDE DEF i
  <2> QED BY <1>2, <1>3, <1>4, <2>1, <2>2, <2>3, <2>4, <2>5, OwnsCreated
<1>7. pc[Admitter] \in StepPCs BY <1>1 DEF StepPCs
<1> QED BY <1>1, <1>2, <1>4, <1>5, <1>6, <1>7, SoloGo DEF StepPCs

\* PROVISIONING: the grants are owned since the admission.
LEMMA SoloGrant ==
  ASSUME IInv, Following, SoloInv, faults = 0, Grant(Admitter)
  PROVE  SoloInv'
<1> DEFINE i == loc[Admitter]
           m == Moved(i, "FAILED")
<1>1. /\ pc[Admitter] = "register" /\ store' = store
      /\ pc[Admitter] \in StepPCs /\ pc[Admitter] # "idle"
  BY DEF Grant, At, StepPCs
<1>2. /\ i \in Job /\ i.id \in [Kinds -> Nat] /\ Owns(i, live)
      /\ i.id["record"] = 1
  BY <1>1, SoloCopy
<1>3. /\ {"record", "grants", "runtime", "memory"} \subseteq Kinds
      /\ live \in [Kinds -> Nat] /\ made \in [Kinds -> Nat]
      /\ Admitter \in Executors /\ TypeOK
  BY KindFacts, ExecutorsAssumption DEF IInv, TypeOK
<1>4. i.phase = "PROVISIONING" BY <1>1, <1>3, Placed
<1>5. m \in Job /\ m.rev = i.rev /\ m.id = i.id /\ m.owner = i.owner
      /\ m.phase = "FAILED"
  BY <1>2, MovedJob DEF Phases
<1>6. ASSUME NEW n \in Nat
      PROVE  LET t == Took(i, "grants", n) IN
             /\ t \in Job /\ t.rev = i.rev /\ t.phase = i.phase
             /\ t.owner = i.owner
             /\ \A k \in Kinds : k # "grants" => t.id[k] = i.id[k]
  <2> DEFINE t == Took(i, "grants", n)
  <2>1. t \in Job /\ t.rev = i.rev /\ t.phase = i.phase /\ t.owner = i.owner
        /\ t.id = [i.id EXCEPT !["grants"] = n]
    <3> HIDE DEF i
    <3> QED BY <1>2, <1>3, TookJob
  <2> HIDE DEF t
  <2>2. \A k \in Kinds : k # "grants" => t.id[k] = i.id[k] BY <1>2, <2>1
  <2> QED BY <2>1, <2>2 DEF t
<1> HIDE DEF m
<1>7. ASSUME NEW q \in {"granted", "commit"}, NEW j \in Job, Go(Admitter, q, j),
             j.rev = i.rev, j.phase \in {i.phase, "FAILED"}, j.owner = i.owner,
             \A k \in Kinds : k # "grants" => j.id[k] = i.id[k],
             live' = live \/ (live["grants"] = 0 /\ Create({"grants"}))
      PROVE  SoloInv'
  <2>1. Owns(j, live')
    <3>1. \A k \in Kinds : k # "grants" => live'[k] = live[k]
      BY <1>3, <1>7 DEF Create
    <3> QED BY <1>2, <1>3, <1>4, <1>7, <3>1 DEF Owns
  <2> QED BY <1>1, <1>2, <1>3, <1>7, <2>1, SoloGo DEF StepPCs
<1>8. CASE live["grants"] = 0 /\ Create({"grants"})
  <2>1. \/ Go(Admitter, "granted", Took(i, "grants", made["grants"] + 1))
        \/ Go(Admitter, "granted", i) \/ Go(Admitter, "commit", m)
        \/ \E n \in {i.id["grants"], live["grants"]} :
             Go(Admitter, "granted", Took(i, "grants", n))
    BY DEF Grant, Fail, m
  <2>2. made["grants"] + 1 \in Nat /\ i.id["grants"] \in Nat /\ live["grants"] \in Nat
    BY <1>2, <1>3
  <2> QED BY <1>2, <1>5, <1>6, <1>7, <1>8, <2>1, <2>2
<1>9. CASE live' = live
  <2>1. \/ \E n \in {i.id["grants"], live["grants"], made["grants"] + 1} :
             Go(Admitter, "granted", Took(i, "grants", n))
        \/ Go(Admitter, "granted", i) \/ Go(Admitter, "commit", m)
    BY DEF Grant, Fail, m
  <2>2. made["grants"] + 1 \in Nat /\ i.id["grants"] \in Nat /\ live["grants"] \in Nat
    BY <1>2, <1>3
  <2> QED BY <1>2, <1>5, <1>6, <1>7, <1>9, <2>1, <2>2
<1> QED BY <1>8, <1>9 DEF Grant

\* A stored checkpoint: the copy and the store go on as one.
LEMMA SoloCheckpoint ==
  ASSUME IInv, SoloInv, faults = 0, NEW q \in StepPCs, NEW j \in Job,
         pc[Admitter] \in StepPCs \ {"commit"}, Go(Admitter, q, j),
         store' = Bumped(loc[Admitter]), live' = live,
         j.rev = loc[Admitter].rev + 1, j.id = loc[Admitter].id,
         j.owner = loc[Admitter].owner,
         j.phase \in {loc[Admitter].phase, "FAILED"}
  PROVE  SoloInv'
<1> DEFINE i == loc[Admitter]
           b == Bumped(i)
<1>1. Admitter \in Executors /\ TypeOK BY ExecutorsAssumption DEF IInv
<1>2. pc[Admitter] # "idle" /\ pc[Admitter] # "commit" BY PCFacts
<1>3. i \in Job /\ Owns(i, live) /\ i.id["record"] = 1 BY <1>2, SoloCopy
<1>4. i.phase = read[Admitter] BY <1>1, <1>2, MidStep
<1>5. b \in Job /\ b.rev = i.rev + 1 /\ b.phase = i.phase BY <1>3, BumpedJob
<1> HIDE DEF b
<1>6. pc'[Admitter] = q /\ loc'[Admitter] = j /\ read' = read
  BY <1>1, WhereTo DEF Go
<1>7. Owns(j, live') BY <1>3, OwnsSame
<1>8. SoloState(q, j, b, read[Admitter], live')
  BY <1>3, <1>4, <1>5, <1>7, SweptFacts, PCFacts DEF SoloState
<1> QED BY <1>6, <1>8, SoloIntro DEF b

\* The checkpoints of the role and of PROVISIONING: nobody else writes the job.
LEMMA SoloCheckpoints ==
  ASSUME IInv, Following, SoloInv, faults = 0,
         CheckpointRole(Admitter) \/ CheckpointRecord(Admitter)
         \/ CheckpointGrants(Admitter) \/ CheckpointRequest(Admitter)
  PROVE  SoloInv'
<1> DEFINE i == loc[Admitter]
           b == Bumped(i)
<1>1. pc[Admitter] \in StepPCs \ {"commit"} /\ live' = live
  BY DEF CheckpointRole, CheckpointRecord, CheckpointGrants, CheckpointRequest,
         CheckpointAt, Stepping, At, StepPCs, remote
<1>2. pc[Admitter] # "idle" BY <1>1, PCFacts
<1>3. i \in Job /\ Current(Admitter) /\ Owns(i, live) /\ i.id["record"] = 1
  BY <1>1, <1>2, SoloCopy
<1>4. b \in Job /\ b.rev = i.rev + 1 /\ b.phase = i.phase /\ b.id = i.id
      /\ b.owner = i.owner
  BY <1>3, BumpedJob
<1>5. CASE ~CheckpointRole(Admitter)
  <2>1. PICK q \in {"register", "request", "outcome"} : CheckpointAt(Admitter, q)
    BY <1>5 DEF CheckpointRecord, CheckpointGrants, CheckpointRequest
  <2>2. store' = b /\ Go(Admitter, q, b) BY <1>3, <2>1 DEF CheckpointAt
  <2>3. q \in StepPCs BY DEF StepPCs
  <2> HIDE DEF b
  <2> QED BY <1>1, <1>4, <2>2, <2>3, SoloCheckpoint DEF b
<1>6. CASE CheckpointRole(Admitter)
  <2>1. i.phase = "BUILDING"
    BY <1>6, Placed, ExecutorsAssumption DEF CheckpointRole, At
  <2>2. CASE faults' = faults + 1
    BY <2>2 DEF SoloInv
  <2>3. CASE store' = b /\ \E p \in {"BUILDING", "FAILED"} :
                             Go(Admitter, "commit", Moved(b, p))
    <3>1. PICK p \in {"BUILDING", "FAILED"} : Go(Admitter, "commit", Moved(b, p))
      BY <2>3
    <3> DEFINE j == Moved(b, p)
    <3> HIDE DEF b
    <3>2. j \in Job /\ j.rev = b.rev /\ j.id = b.id /\ j.owner = b.owner
          /\ j.phase = p
      BY <1>4, MovedJob DEF Phases
    <3>3. Go(Admitter, "commit", j) BY <3>1
    <3> HIDE DEF j
    <3> QED BY <1>1, <1>4, <2>1, <2>3, <3>2, <3>3, SoloCheckpoint DEF b, StepPCs
  <2> QED BY <1>3, <1>6, <2>2, <2>3 DEF CheckpointRole, Fault
<1> QED BY <1>5, <1>6

\* poll() begins with the stored job.
LEMMA SoloLoad ==
  ASSUME IInv, SoloInv, faults = 0, Load(Admitter)
  PROVE  SoloInv'
<1>1. Admitter \in Executors /\ TypeOK /\ store \in Job
  BY ExecutorsAssumption DEF IInv, TypeOK
<1>2. /\ pc[Admitter] = "idle" /\ store.phase # "FAILED" /\ store' = store
      /\ live' = live
      /\ pc'[Admitter] = "step" /\ loc'[Admitter] = store
      /\ read'[Admitter] = store.phase
  BY <1>1 DEF Load, At, Terminal, remote, TypeOK
<1>3. Owns(store, live) /\ store.id["record"] = 1
  BY <1>2 DEF SoloInv, SoloState
<1>4. SoloState("step", store, store, store.phase, live)
  BY <1>2, <1>3, SweptFacts, PCFacts DEF SoloState
<1> QED BY <1>2, <1>4, SoloIntro

\* The conditional write succeeds: nobody else writes the job.
LEMMA SoloCommit ==
  ASSUME IInv, SoloInv, faults = 0, Commit(Admitter)
  PROVE  SoloInv'
<1> DEFINE i == loc[Admitter]
           b == Bumped(i)
<1>1. Admitter \in Executors /\ TypeOK BY ExecutorsAssumption DEF IInv
<1>2. pc[Admitter] = "commit" /\ pc[Admitter] \in StepPCs /\ pc[Admitter] # "idle"
      /\ live' = live
  BY DEF Commit, At, StepPCs, remote
<1>3. i \in Job /\ Current(Admitter) /\ Owns(i, live) /\ i.id["record"] = 1
  BY <1>2, SoloCopy
<1>4. b \in Job /\ b.phase = i.phase /\ b.id = i.id /\ b.owner = i.owner
  BY <1>3, BumpedJob
<1>5. /\ store' = b
      /\ \/ i.phase \in Terminal /\ Go(Admitter, "log", b)
         \/ i.phase \notin Terminal /\ Return(Admitter)
  BY <1>3 DEF Commit
<1> HIDE DEF b
<1>6. Owns(b, live) BY <1>3, <1>4, OwnsSame
<1>7. CASE i.phase \in Terminal /\ Go(Admitter, "log", b)
  <2>1. pc'[Admitter] = "log" /\ loc'[Admitter] = b BY <1>1, <1>7, WhereTo
  <2>2. SoloState("log", b, b, read'[Admitter], live)
    BY <1>3, <1>4, <1>6, SweptFacts, PCFacts DEF SoloState
  <2> QED BY <1>2, <1>5, <2>1, <2>2, SoloIntro
<1>8. CASE i.phase \notin Terminal /\ Return(Admitter)
  <2>1. pc'[Admitter] = "idle" BY <1>1, <1>8, WhereTo
  <2>2. b.phase # "FAILED" BY <1>4, <1>8 DEF Terminal
  <2>3. SoloState("idle", loc'[Admitter], b, read'[Admitter], live)
    BY <1>3, <1>4, <1>6, <2>2, SweptFacts, PCFacts DEF SoloState
  <2> QED BY <1>2, <1>5, <2>1, <2>3, SoloIntro
<1> QED BY <1>5, <1>7, <1>8

\* A failed job is compensated: it owns its grants and names its record.
LEMMA SoloLog ==
  ASSUME IInv, SoloInv, faults = 0, WriteLog(Admitter)
  PROVE  SoloInv'
<1> DEFINE i == loc[Admitter]
<1>1. Admitter \in Executors /\ TypeOK BY ExecutorsAssumption DEF IInv
<1>2. pc[Admitter] = "log" /\ live' = live /\ store' = store
  BY DEF WriteLog, At, remote
<1>3. Owns(i, live) /\ i.id["record"] = 1 /\ store = i
  BY <1>2 DEF SoloInv, SoloState
<1>4. Attempts(i, Admitter) BY <1>3 DEF Attempts, OwnsGrants, Owns
<1>5. CASE i.phase = "FAILED"
  <2>1. /\ pc'[Admitter] = "undo" /\ loc'[Admitter] = i
        /\ read'[Admitter] = read[Admitter]
    BY <1>1, <1>4, <1>5 DEF WriteLog, TypeOK
  <2>2. SoloState("undo", i, i, read[Admitter], live)
    BY <1>3, SweptFacts, PCFacts DEF SoloState
  <2> QED BY <1>2, <1>3, <2>1, <2>2, SoloIntro
<1>6. CASE i.phase # "FAILED"
  <2>1. Return(Admitter) BY <1>6 DEF WriteLog
  <2>2. pc'[Admitter] = "idle" BY <1>1, <2>1, WhereTo
  <2>3. SoloState("idle", loc'[Admitter], i, read'[Admitter], live)
    BY <1>3, <1>6, SweptFacts, PCFacts DEF SoloState
  <2> QED BY <1>2, <1>3, <2>2, <2>3, SoloIntro
<1> QED BY <1>5, <1>6

\* What is forgotten, pointwise.
LEMMA ForgetFacts ==
  ASSUME NEW j \in Job, NEW S
  PROVE  LET f == Forget(j, S) IN
         /\ f \in Job /\ f.rev = j.rev /\ f.phase = j.phase
         /\ \A k \in Kinds : k \notin S => f.id[k] = j.id[k] /\ f.owner[k] = j.owner[k]
         /\ \A k \in Kinds : k \in S => f.id[k] = 0
<1>1. Forget(j, S) \in Job /\ Forget(j, S).rev = j.rev
      /\ Forget(j, S).phase = j.phase
  BY ForgetJob
<1> QED BY <1>1 DEF Forget, Job

\* The compensation goes on.
LEMMA SoloUndo ==
  ASSUME IInv, SoloInv, faults = 0, pc[Admitter] \in UndoPCs, NEW q \in UndoPCs,
         NEW j \in Job, Go(Admitter, q, j), store' = store,
         j.rev = loc[Admitter].rev, Owns(j, live'),
         q \in {"undo", "undoRecord"} => j.id["record"] = 1,
         \A k \in SweptAt(q) : live'[k] = 0
  PROVE  SoloInv'
<1>1. Admitter \in Executors /\ TypeOK BY ExecutorsAssumption DEF IInv
<1>2. pc'[Admitter] = q /\ loc'[Admitter] = j BY <1>1, WhereTo
<1>3. store.rev = loc[Admitter].rev BY DEF SoloInv, SoloState
<1>4. SoloState(q, j, store, read'[Admitter], live')
  BY <1>3, PCFacts DEF SoloState, UndoPCs
<1> QED BY <1>2, <1>4, SoloIntro

\* What the compensation has in hand.
LEMMA UndoCopy ==
  ASSUME IInv, SoloInv, faults = 0, pc[Admitter] \in UndoPCs
  PROVE  LET i == loc[Admitter] IN
         /\ i \in Job /\ i.id \in [Kinds -> Nat] /\ Owns(i, live)
         /\ i.phase = "FAILED" /\ store.phase = "FAILED" /\ store.rev = i.rev
         /\ pc[Admitter] \in {"undo", "undoRecord"} => i.id["record"] = 1
         /\ \A k \in SweptAt(pc[Admitter]) : live[k] = 0
         /\ live \in [Kinds -> Nat]
<1>1. Admitter \in Executors /\ TypeOK BY ExecutorsAssumption DEF IInv
<1>2. pc[Admitter] # "idle" BY PCFacts
<1>3. loc[Admitter].phase = "FAILED" /\ store.phase = "FAILED"
  BY <1>1, PCFacts DEF IInv, OneWinner, Winner
<1>4. loc[Admitter] \in Job /\ Owns(loc[Admitter], live)
      /\ loc[Admitter].id \in [Kinds -> Nat]
  BY <1>2, SoloCopy
<1>5. /\ store.rev = loc[Admitter].rev
      /\ pc[Admitter] \in {"undo", "undoRecord"} => loc[Admitter].id["record"] = 1
      /\ \A k \in SweptAt(pc[Admitter]) : live[k] = 0
  BY DEF SoloInv, SoloState
<1> QED BY <1>1, <1>3, <1>4, <1>5 DEF TypeOK

\* What is deleted is gone, and the rest stays.
LEMMA DeleteFacts ==
  ASSUME NEW i \in Job, live \in [Kinds -> Nat], NEW S \in SUBSET Kinds, Delete(S, i)
  PROVE  /\ \A k \in Kinds : live'[k] \in {0, live[k]}
         /\ \A k \in Kinds : k \notin S => live'[k] = live[k]
         /\ \A k \in S : k \in ByName \/ live[k] \in {0, i.id[k]} => live'[k] = 0
BY DEF Delete

\* A failed job keeps owning what is left when some of it goes.
LEMMA OwnsLess ==
  ASSUME NEW i \in Job, NEW j \in Job, Owns(i, live), live \in [Kinds -> Nat],
         i.phase = "FAILED", j.phase = "FAILED",
         NEW S \in SUBSET (Kinds \ {"grants"}),
         \A k \in Kinds : k \notin S => j.id[k] = i.id[k] /\ j.owner[k] = i.owner[k],
         \A k \in S : live'[k] = 0 /\ j.id[k] = 0,
         \A k \in Kinds : live'[k] \in {0, live[k]}
  PROVE  Owns(j, live')
<1>1. {"record", "grants", "runtime"} \subseteq Kinds BY KindFacts
<1> QED BY <1>1 DEF Owns

\* The tools and the memory go: the job owns all there is of them.
LEMMA SoloUndoEarly ==
  ASSUME IInv, SoloInv, faults = 0, UndoEarly(Admitter)
  PROVE  SoloInv'
<1> DEFINE i == loc[Admitter]
           S == OwnedEarly(i, Admitter)
<1>1. pc[Admitter] = "undo" /\ pc[Admitter] \in UndoPCs
  BY DEF UndoEarly, At, UndoPCs
<1>2. /\ i \in Job /\ i.id \in [Kinds -> Nat] /\ Owns(i, live)
      /\ i.phase = "FAILED" /\ store.rev = i.rev
      /\ i.id["record"] = 1 /\ live \in [Kinds -> Nat]
  BY <1>1, UndoCopy
<1>3. PICK D \in SUBSET S :
        /\ Delete(D, i) /\ Go(Admitter, "undoRecord", Forget(i, D))
        /\ IF D = S THEN UNCHANGED budget ELSE Fault
        /\ store' = store
  BY DEF UndoEarly, Undo
<1>4. CASE D # S BY <1>3, <1>4 DEF Fault, SoloInv
<1>5. CASE D = S
  <2>1. /\ Builtins \cup {"memory"} \subseteq Kinds \ {"grants", "record"}
        /\ S \subseteq Builtins \cup {"memory"} /\ S \subseteq Kinds
        /\ "record" \in Kinds
    BY KindFacts, ConfigAssumption DEF OwnedEarly
  <2>2. \A k \in S : live[k] \in {0, i.id[k]}
    BY <1>2, <2>1 DEF Owns
  <2>3. \A k \in Builtins \cup {"memory"} : k \notin S => live[k] = 0
    BY <1>2, <2>1 DEF Owns, OwnedEarly
  <2>4. Delete(S, i) /\ Go(Admitter, "undoRecord", Forget(i, S))
    BY <1>3, <1>5
  <2> HIDE DEF S, i
  <2> DEFINE j == Forget(i, S)
  <2>5. /\ j \in Job /\ j.rev = i.rev /\ j.phase = i.phase
        /\ \A k \in Kinds : k \notin S => j.id[k] = i.id[k] /\ j.owner[k] = i.owner[k]
        /\ \A k \in Kinds : k \in S => j.id[k] = 0
    BY <1>2, ForgetFacts
  <2>6. Go(Admitter, "undoRecord", j) BY <2>4
  <2> HIDE DEF j
  <2>7. /\ \A k \in Kinds : live'[k] \in {0, live[k]}
        /\ \A k \in S : live'[k] = 0
    BY <1>2, <2>1, <2>2, <2>4, DeleteFacts
  <2>8. \A k \in SweptAt("undoRecord") : live'[k] = 0
    BY <2>1, <2>3, <2>7, SweptFacts
  <2>9. Owns(j, live') BY <1>2, <2>1, <2>5, <2>7, OwnsLess
  <2>10. j.id["record"] = 1 BY <1>2, <2>1, <2>5
  <2>11. "undoRecord" \in UndoPCs BY DEF UndoPCs
  <2> QED BY <1>1, <1>2, <1>3, <2>5, <2>6, <2>8, <2>9, <2>10, <2>11, SoloUndo DEF i
<1> QED BY <1>4, <1>5

\* The grants and the record of the new agent go.
LEMMA SoloUndoRecord ==
  ASSUME IInv, SoloInv, faults = 0, SoloSetting, UndoRecord(Admitter)
  PROVE  SoloInv'
<1> DEFINE i == loc[Admitter]
           S == {"grants", "record"}
<1>1. pc[Admitter] = "undoRecord" /\ pc[Admitter] \in UndoPCs
  BY DEF UndoRecord, At, UndoPCs
<1>2. /\ i \in Job /\ i.id \in [Kinds -> Nat] /\ Owns(i, live)
      /\ i.phase = "FAILED" /\ store.rev = i.rev
      /\ i.id["record"] = 1 /\ live \in [Kinds -> Nat]
      /\ \A k \in SweptAt("undoRecord") : live[k] = 0
  BY <1>1, UndoCopy
<1>3. OwnsGrants(i, Admitter) /\ ~Redeploy BY <1>2 DEF OwnsGrants, Owns, SoloSetting
<1>4. PICK D \in SUBSET S :
        /\ Delete(D, i)
        /\ Go(Admitter, "undoRuntime", Forget(i, D \cap {"record"}))
        /\ IF D = S THEN UNCHANGED budget ELSE Fault
  BY <1>3 DEF UndoRecord
<1>5. store' = store BY DEF UndoRecord
<1>6. CASE D # S BY <1>4, <1>6 DEF Fault, SoloInv
<1>7. CASE D = S
  <2>1. {"grants", "record", "memory", "runtime"} \subseteq Kinds
        /\ Builtins \subseteq Kinds /\ "grants" \in ByName
    BY KindFacts DEF ByName
  <2>2. live["record"] \in {0, i.id["record"]} BY <1>2 DEF Owns
  <2>3. S \cap {"record"} = {"record"} OBVIOUS
  <2>4. Delete(S, i) /\ Go(Admitter, "undoRuntime", Forget(i, {"record"}))
    BY <1>4, <1>7, <2>3
  <2> HIDE DEF i
  <2> DEFINE j == Forget(i, {"record"})
  <2>5. /\ j \in Job /\ j.rev = i.rev /\ j.phase = i.phase
        /\ \A k \in Kinds : k \notin {"record"} =>
             j.id[k] = i.id[k] /\ j.owner[k] = i.owner[k]
        /\ \A k \in Kinds : k \in {"record"} => j.id[k] = 0
    BY <1>2, ForgetFacts
  <2>6. Go(Admitter, "undoRuntime", j) BY <2>4
  <2> HIDE DEF j
  <2>7. /\ \A k \in Kinds : live'[k] \in {0, live[k]}
        /\ live'["grants"] = 0 /\ live'["record"] = 0
    BY <1>2, <2>1, <2>2, <2>4, DeleteFacts
  <2>8. \A k \in SweptAt("undoRuntime") : live'[k] = 0
    BY <1>2, <2>1, <2>7, SweptFacts
  <2>9. Owns(j, live')
    <3> DEFINE T == {"record"}
    <3>1. T \in SUBSET (Kinds \ {"grants"}) BY <2>1
    <3>2. \A k \in T : live'[k] = 0 /\ j.id[k] = 0 BY <2>1, <2>5, <2>7
    <3>3. \A k \in Kinds : k \notin T => j.id[k] = i.id[k] /\ j.owner[k] = i.owner[k]
      BY <2>5
    <3>4. j.phase = "FAILED" BY <1>2, <2>5
    <3> HIDE DEF T
    <3> QED BY <1>2, <2>5, <2>7, <3>1, <3>2, <3>3, <3>4, OwnsLess
  <2>11. "undoRuntime" \in UndoPCs BY DEF UndoPCs
  <2> QED BY <1>1, <1>2, <1>5, <2>5, <2>6, <2>8, <2>9, <2>11, SoloUndo DEF i
<1> QED BY <1>6, <1>7

\* The runtime goes: if there is one it is the job's own.
LEMMA SoloUndoRuntime ==
  ASSUME IInv, SoloInv, faults = 0, SoloSetting, UndoRuntime(Admitter)
  PROVE  SoloInv'
<1> DEFINE i == loc[Admitter]
<1>1. pc[Admitter] = "undoRuntime" /\ pc[Admitter] \in UndoPCs
  BY DEF UndoRuntime, At, UndoPCs
<1>2. /\ i \in Job /\ i.id \in [Kinds -> Nat] /\ Owns(i, live)
      /\ i.phase = "FAILED" /\ store.rev = i.rev /\ live \in [Kinds -> Nat]
      /\ \A k \in SweptAt("undoRuntime") : live[k] = 0
  BY <1>1, UndoCopy
<1>3. store' = store BY DEF UndoRuntime
<1>4. {"grants", "record", "memory", "runtime"} \subseteq Kinds
      /\ Builtins \subseteq Kinds
  BY KindFacts
<1>5. CASE OwnsRuntime(i, Admitter) /\ Fault BY <1>5 DEF Fault, SoloInv
<1>6. ASSUME Go(Admitter, "undoIdentity", i), live'["runtime"] = 0,
             \A k \in Kinds : live'[k] \in {0, live[k]}
      PROVE  SoloInv'
  <2>1. \A k \in SweptAt("undoIdentity") : live'[k] = 0
    BY <1>2, <1>4, <1>6, SweptFacts
  <2>2. Owns(i, live') BY <1>2, <1>4, <1>6 DEF Owns
  <2>3. "undoIdentity" \in UndoPCs BY DEF UndoPCs
  <2> QED BY <1>1, <1>2, <1>3, <1>6, <2>1, <2>2, <2>3, SoloUndo
<1>7. CASE OwnsRuntime(i, Admitter) /\ Delete({"runtime"}, i)
           /\ Go(Admitter, "undoIdentity", i)
  <2>1. live["runtime"] \in {0, i.id["runtime"]} BY <1>2, <1>4 DEF Owns
  <2>2. /\ \A k \in Kinds : live'[k] \in {0, live[k]}
        /\ live'["runtime"] = 0
    <3> HIDE DEF i
    <3> QED BY <1>2, <1>4, <1>7, <2>1, DeleteFacts
  <2> QED BY <1>6, <1>7, <2>2
<1>8. CASE ~OwnsRuntime(i, Admitter)
  <2>1. i.id["runtime"] = 0
    BY <1>2, <1>8 DEF OwnsRuntime, Owns, SoloSetting
  <2>2. live["runtime"] = 0 BY <1>2, <1>4, <2>1 DEF Owns
  <2>3. Go(Admitter, "undoIdentity", i) /\ live' = live
    BY <1>8, <2>1 DEF UndoRuntime
  <2> QED BY <1>6, <2>2, <2>3
<1> QED BY <1>5, <1>7, <1>8 DEF UndoRuntime

\* The identity and the role go, and with them the last of it.
LEMMA SoloUndoIdentity ==
  ASSUME IInv, SoloInv, faults = 0, UndoIdentity(Admitter)
  PROVE  SoloInv'
<1> DEFINE i == loc[Admitter]
           S == OwnedLate(i, Admitter)
<1>1. pc[Admitter] = "undoIdentity" /\ pc[Admitter] \in UndoPCs
  BY DEF UndoIdentity, At, UndoPCs
<1>2. /\ i \in Job /\ i.id \in [Kinds -> Nat] /\ Owns(i, live)
      /\ i.phase = "FAILED" /\ store.rev = i.rev /\ live \in [Kinds -> Nat]
      /\ \A k \in SweptAt("undoIdentity") : live[k] = 0
  BY <1>1, UndoCopy
<1>3. PICK D \in SUBSET S :
        /\ Delete(D, i) /\ Go(Admitter, "persist", Forget(i, D))
        /\ IF D = S THEN UNCHANGED budget ELSE Fault
        /\ store' = store
  BY DEF UndoIdentity, Undo
<1>4. CASE D # S BY <1>3, <1>4 DEF Fault, SoloInv
<1>5. CASE D = S
  <2>1. /\ S \subseteq {"identity", "role"} /\ S \subseteq Kinds \ {"grants"}
        /\ {"identity", "role"} \subseteq Kinds \cap ByName
    BY KindFacts DEF OwnedLate, ByName
  <2>3. \A k \in {"identity", "role"} : k \notin S => live[k] = 0
    BY <1>2, <2>1 DEF Owns, OwnedLate
  <2>4. Delete(S, i) /\ Go(Admitter, "persist", Forget(i, S))
    BY <1>3, <1>5
  <2> HIDE DEF S, i
  <2> DEFINE j == Forget(i, S)
  <2>5. /\ j \in Job /\ j.rev = i.rev /\ j.phase = i.phase
        /\ \A k \in Kinds : k \notin S => j.id[k] = i.id[k] /\ j.owner[k] = i.owner[k]
        /\ \A k \in Kinds : k \in S => j.id[k] = 0
    BY <1>2, ForgetFacts
  <2>6. Go(Admitter, "persist", j) BY <2>4
  <2> HIDE DEF j
  <2>7. /\ \A k \in Kinds : live'[k] \in {0, live[k]}
        /\ \A k \in S : live'[k] = 0
    BY <1>2, <2>1, <2>4, DeleteFacts
  <2>8. \A k \in Kinds : live'[k] = 0
    BY <1>2, <2>1, <2>3, <2>7, SweptFacts DEF Kinds
  <2>9. Owns(j, live')
    <3>1. S \in SUBSET (Kinds \ {"grants"}) BY <2>1
    <3>2. \A k \in S : live'[k] = 0 /\ j.id[k] = 0 BY <2>1, <2>5, <2>7
    <3>3. j.phase = "FAILED" BY <1>2, <2>5
    <3> QED BY <1>2, <2>5, <2>7, <3>1, <3>2, <3>3, OwnsLess
  <2>10. \A k \in SweptAt("persist") : live'[k] = 0 BY <2>8, SweptFacts
  <2>11. "persist" \in UndoPCs /\ "persist" \notin {"undo", "undoRecord"}
    BY DEF UndoPCs
  <2> QED BY <1>1, <1>2, <1>3, <2>5, <2>6, <2>9, <2>10, <2>11, SoloUndo DEF i
<1> QED BY <1>4, <1>5

\* The second write records it: nobody else wrote the job meanwhile.
LEMMA SoloPersist ==
  ASSUME IInv, SoloInv, faults = 0, Persist(Admitter)
  PROVE  SoloInv'
<1> DEFINE i == loc[Admitter]
           b == Bumped(i)
<1>0. Admitter \in Executors /\ TypeOK BY ExecutorsAssumption DEF IInv
<1>1. pc[Admitter] = "persist" /\ pc[Admitter] \in UndoPCs /\ live' = live
  BY DEF Persist, At, UndoPCs, remote
<1>2. /\ i \in Job /\ i.id \in [Kinds -> Nat] /\ Owns(i, live)
      /\ i.phase = "FAILED" /\ store.rev = i.rev /\ store.phase = "FAILED"
      /\ \A k \in SweptAt("persist") : live[k] = 0
  BY <1>1, UndoCopy
<1>3. store' = b /\ Return(Admitter) BY <1>2 DEF Persist
<1>4. b \in Job /\ b.phase = "FAILED" /\ b.id = i.id /\ b.owner = i.owner
  BY <1>2, BumpedJob
<1> HIDE DEF b
<1>5. Owns(b, live) BY <1>2, <1>4, OwnsSame
<1>6. pc'[Admitter] = "idle" BY <1>0, <1>3, WhereTo
<1>7. \A k \in Kinds : live[k] = 0 BY <1>2, SweptFacts
<1>8. SoloState("idle", loc'[Admitter], b, read'[Admitter], live)
  BY <1>4, <1>5, <1>7, SweptFacts, PCFacts DEF SoloState
<1> QED BY <1>1, <1>3, <1>6, <1>8, SoloIntro

\* One process, no fault: every step keeps what exists in the job's hands.
LEMMA SoloStep ==
  ASSUME SoloSetting, IInv, Following, SoloInv, [Next]_vars
  PROVE  SoloInv'
<1>1. CASE Next
  <2>1. PICK e \in Executors : Step(e) \/ Crash(e) BY <1>1 DEF Next
  <2>2. e = Admitter BY DEF SoloSetting
  <2>3. CASE faults' # 0 BY <2>3 DEF SoloInv
  <2>4. CASE faults # 0
    <3>1. faults' \in {faults, faults + 1} /\ faults \in Nat
      BY <2>1 DEF Step, Load, Stay, StepFails, StartBuild, CreateMemory,
         EnsureRole, CheckpointRole, RoleReady, EnsureTools, ToolsPending,
         ToolsReady, UpdateRuntime, CreateRuntime, RuntimeRefused, RuntimeUp,
         CheckpointRecord, Grant, CheckpointGrants, RequestTools,
         CheckpointRequest, PolicyOutcome, PolicyPending, MemoryPending,
         Finalize, Commit, CommitUnacknowledged, WriteLog, UndoEarly,
         UndoRecord, UndoRuntime, UndoIdentity, Persist, Abort, Crash, Undo,
         Wait, Fault, budget, IInv, TypeOK
    <3> QED BY <2>4, <3>1 DEF SoloInv
  <2>5. CASE faults = 0 /\ faults' = 0
    <3>1. ~CommitUnacknowledged(e) /\ ~Abort(e) /\ ~Crash(e)
      BY <2>5 DEF CommitUnacknowledged, Abort, Crash, Fault
    <3>2. ~UpdateRuntime(e) BY DEF UpdateRuntime, SoloSetting
    <3> QED
      BY <2>1, <2>2, <2>5, <3>1, <3>2, SoloQuiet, SoloStart, SoloMemory, SoloRole,
         SoloTools, SoloToolsReady, SoloRuntime, SoloRefused, SoloGrant,
         SoloCheckpoints, SoloLoad, SoloCommit, SoloLog, SoloUndoEarly,
         SoloUndoRecord, SoloUndoRuntime, SoloUndoIdentity, SoloPersist
         DEF Step
  <2> QED BY <2>3, <2>4, <2>5
<1>2. CASE UNCHANGED vars
  BY <1>2 DEF vars, SoloInv, SoloState, Owns, SweptAt
<1> QED BY <1>1, <1>2

\* A new agent has its record, and nothing else exists.
LEMMA SoloInit == SoloSetting /\ Init => SoloInv
<1> SUFFICES ASSUME SoloSetting, Init PROVE SoloInv
  OBVIOUS
<1>1. Kept = {} /\ {"record", "grants", "runtime", "memory"} \subseteq Kinds
      /\ Admitter \in Executors
  BY KindFacts, ExecutorsAssumption DEF SoloSetting
<1>2. /\ store = Admitted /\ pc[Admitter] = "idle"
      /\ \A k \in Kinds : live[k] = IF k = "record" THEN 1 ELSE 0
  BY <1>1 DEF Init
<1>3. /\ Admitted.id["record"] = 1 /\ Admitted.owner["grants"] = Admitter
      /\ Admitted.id["runtime"] = 0
      /\ Admitted.phase = "QUEUED"
  BY <1>1 DEF Admitted, SoloSetting
<1>4. Owns(store, live) BY <1>1, <1>2, <1>3 DEF Owns
<1>5. SoloState("idle", loc[Admitter], store, read[Admitter], live)
  BY <1>2, <1>3, <1>4, SweptFacts, PCFacts DEF SoloState
<1> QED BY <1>2, <1>5 DEF SoloInv

\* A failed deployment of a new agent, by one process and without a fault, leaves
\* nothing of its own behind, whichever step of advance_agent failed: what was
\* created was recorded before a failure could lose it, and taken back.
THEOREM NothingIsLeft ==
  ASSUME Executors = {Admitter}, ~Redeploy
  PROVE  Spec => []CleanSlate
<1>1. SoloSetting BY DEF SoloSetting
<1>2. Init => SoloInv BY <1>1, SoloInit
<1>3. IInv /\ Following /\ SoloInv /\ [Next]_vars => SoloInv' BY <1>1, SoloStep
<1>4. SoloInv => CleanSlate
  BY KindFacts, ExecutorsAssumption DEF SoloInv, SoloState, CleanSlate
<1>5. Spec => []Following
  BY Invariant, FollowsInit, FollowsStep, PTL DEF Spec
<1> QED BY <1>2, <1>3, <1>4, <1>5, Invariant, PTL DEF Spec

\* What the comment of create_agent_runtime promises, that no orphan runtime is left: of
\* one process it is true.  The run agent_orphan refutes it of two, whose polls overlap.
THEOREM NoOrphanAlone ==
  ASSUME Executors = {Admitter}
  PROVE  Spec => []NoOrphanRuntime
<1>1. CASE Redeploy
  <2>1. NoOrphanRuntime BY <1>1 DEF NoOrphanRuntime
  <2> QED BY <2>1, PTL
<1>2. CASE ~Redeploy
  <2>1. "runtime" \in Kinds /\ Kept = {} BY <1>2, KindFacts
  <2>2. CleanSlate => NoOrphanRuntime BY <2>1 DEF CleanSlate, NoOrphanRuntime
  <2>3. Spec => []CleanSlate BY <1>2, NothingIsLeft
  <2> QED BY <2>2, <2>3, PTL
<1> QED BY <1>1, <1>2

=============================================================================
