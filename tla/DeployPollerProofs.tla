-------------------------- MODULE DeployPollerProofs --------------------------
(***************************************************************************)
(* Proofs about module DeployPoller.                                       *)
(*                                                                         *)
(* Two runs of poll_once never poll the same job at once, because a run    *)
(* takes only a job that is not in _in_flight and the set is exactly what  *)
(* the runs hold.                                                          *)
(*                                                                         *)
(* A retry that is due waits for fewer cycles than there are jobs.  What   *)
(* can come before it in a cycle is a set that only loses members: a job   *)
(* that was examined leaves it, since it is confirmed or its next attempt  *)
(* is due later, and nothing enters it, since waiting moves all jobs       *)
(* alike.  As one of them is examined in each cycle that passes the job    *)
(* over, the cycles it waited and the members that are left never add up   *)
(* to more than the other jobs.                                            *)
(***************************************************************************)
EXTENDS DeployPoller, FiniteSetTheorems, WellFoundedInduction, TLAPS

(***************************************************************************)
(* The invariant                                                           *)
(***************************************************************************)
\* A run of poll_once: where it is, the jobs it has left, and its poll.
Ats    == {"idle", "next", "await", "back", "raised", "sync"}
Cycles == [at: Ats, todo: SUBSET Jobs, job: Jobs \cup {0}, fresh: Phases]

StoresTyped ==
  /\ phase \in [Jobs -> Phases] /\ log \in [Jobs -> Phases]
  /\ status \in [Jobs -> {"draft", "decided"}]
  /\ outage \in BOOLEAN /\ faults \in Nat

RetriesTyped ==
  /\ settled \subseteq Jobs
  /\ tries \in [Jobs -> 0 .. MaxTries] /\ ahead \in [Jobs -> -MaxLag .. MaxDelay]

CyclesTyped == cycle \in [Drivers -> Cycles] /\ inFlight \subseteq Jobs

\* A run that polls a job: it has one, which is in _in_flight, and nobody else has it.
Holding == {d \in Drivers : cycle[d].at \in {"await", "back", "raised"}}
Held ==
  /\ \A d \in Holding : cycle[d].job \in Jobs
  /\ \A d, e \in Holding : d # e => cycle[d].job # cycle[e].job
  /\ inFlight = {cycle[d].job : d \in Holding}

\* A job that was tried and failed is finished and was not confirmed.
TriedReady == \A j \in Jobs : tries[j] # 0 => phase[j] = "ready" /\ j \notin settled

\* A job whose poll always raises never gets to its governance.
StuckRests == \A j \in Stuck : phase[j] = "queued" /\ ahead[j] = 0

\* The jobs that can come before j in a cycle, however the phases change: the ones that
\* are not confirmed, and that were never tried, or whose next attempt is due before j's.
Turn(k)     == IF tries[k] = 0 THEN -MaxLag - 1 ELSE ahead[k]
First(i, j) == Turn(i) < Turn(j) \/ (Turn(i) = Turn(j) /\ i < j)
Rivals(j)   == {i \in (Jobs \ Stuck) \ {j} : i \notin settled /\ First(i, j)}

\* A job waits for no more cycles than it has lost rivals.
Patience == \A j \in Jobs \ Stuck :
  ahead[j] <= 0 => Cardinality(Rivals(j)) - ahead[j] < Cardinality(Jobs \ Stuck)

QueueInv == StoresTyped /\ RetriesTyped /\ TriedReady /\ StuckRests /\ Patience
PollerInv == StoresTyped /\ RetriesTyped /\ CyclesTyped /\ Held

(***************************************************************************)
(* Least elements                                                          *)
(***************************************************************************)
\* A set of natural numbers has a least element.
LEMMA LeastOf ==
  ASSUME NEW S \in SUBSET Nat, S # {}
  PROVE  \E m \in S : \A n \in S : m <= n
<1> DEFINE R == OpToRel(<, Nat)
<1>1. IsWellFoundedOn(R, Nat)
  BY NatLessThanWellFounded
<1>2. \A x, y \in Nat : x < y => <<x, y>> \in R
  BY DEF OpToRel
<1> HIDE DEF R
<1>3. PICK m \in S : \A n \in S : ~ (<<n, m>> \in R)
  BY <1>1, WFMin
<1>4. ASSUME NEW n \in S PROVE m <= n
  <2>1. ~ (<<n, m>> \in R) /\ n \in Nat /\ m \in Nat
    BY <1>3
  <2>2. ~ (n < m)
    BY <1>2, <2>1
  <2>3. QED
    BY <2>1, <2>2
<1> QED
  BY <1>4

\* The next job of a cycle is one of those it has left.
LEMMA HeadIn ==
  ASSUME NEW S \in SUBSET Jobs, S # {}
  PROVE  Head(S) \in S
<1>1. S \in SUBSET Nat
  BY PollerAssumption DEF Jobs
<1>2. \E j \in S : \A k \in S : j <= k
  BY <1>1, LeastOf
<1> QED
  BY <1>2 DEF Head

(***************************************************************************)
(* The retries                                                             *)
(***************************************************************************)
\* A further attempt is counted up to the maximum, and waited for at least two cycles.
LEMMA DelayTyped ==
  ASSUME RetriesTyped, NEW j \in Jobs
  PROVE  Tried(j) \in 1 .. MaxTries /\ Delay(Tried(j)) \in 2 .. MaxDelay
<1>1. MaxDelay \in Nat /\ MaxDelay >= 2
  BY PollerAssumption
<1>2. MaxTries \in Nat /\ MaxTries >= 1
  BY <1>1 DEF MaxTries
<1>3. tries[j] \in 0 .. MaxTries
  BY DEF RetriesTyped
<1>4. Tried(j) \in 1 .. MaxTries
  BY <1>2, <1>3 DEF Tried
<1>5. \A n \in 1 .. MaxTries : Delay(n) \in 2 .. MaxDelay
  BY <1>1, <1>2 DEF Delay
<1> QED
  BY <1>4, <1>5

\* What the first part of a cycle does to a job's bookkeeping: an examined job is settled or
\* gets its next attempt, and the others wait.
LEMMA RetryIs ==
  ASSUME RetriesTyped, Retry, NEW j \in Jobs
  PROVE  /\ Confirmed \subseteq Examined /\ Examined \subseteq Due /\ Due \subseteq Jobs
         /\ settled' = settled \cup Confirmed
         /\ j \in Confirmed => tries'[j] = 0 /\ ahead'[j] = 0
         /\ j \in Examined \ Confirmed =>
              tries'[j] = Tried(j) /\ ahead'[j] = Delay(Tried(j))
         /\ j \notin Examined => tries'[j] = tries[j]
         /\ j \notin Examined =>
              ahead'[j] = IF j \in Due \/ tries[j] # 0 THEN Waiting[j] ELSE 0
<1>1. Confirmed \subseteq Examined /\ Examined \subseteq Due /\ Due \subseteq Jobs
  BY DEF Confirmed, Examined, Due
<1>2. /\ settled' = settled \cup Confirmed
      /\ tries'[j] = IF j \in Confirmed THEN 0
                     ELSE IF j \in Examined \ Confirmed THEN Tried(j) ELSE tries[j]
      /\ ahead'[j] = IF j \in Examined \ Confirmed THEN Delay(Tried(j))
                     ELSE IF j \notin Confirmed /\ (j \in Due \/ tries[j] # 0)
                          THEN Waiting[j] ELSE 0
  BY DEF Retry
<1> QED
  BY <1>1, <1>2

\* The bookkeeping keeps its range.
LEMMA RetryTyped ==
  ASSUME RetriesTyped, StoresTyped, Retry
  PROVE  RetriesTyped' /\ status' \in [Jobs -> {"draft", "decided"}]
<1>1. MaxLag \in Nat \ {0} /\ MaxDelay \in Nat /\ MaxTries \in Nat
  BY PollerAssumption DEF MaxTries
<1>2. \A j \in Jobs : Waiting[j] \in -MaxLag .. MaxDelay
  BY <1>1 DEF Waiting, RetriesTyped
<1>3. ASSUME NEW j \in Jobs
      PROVE  tries'[j] \in 0 .. MaxTries /\ ahead'[j] \in -MaxLag .. MaxDelay
  <2>1. tries[j] \in 0 .. MaxTries /\ 0 \in 0 .. MaxTries /\ 0 \in -MaxLag .. MaxDelay
    BY <1>1 DEF RetriesTyped
  <2>2. Tried(j) \in 0 .. MaxTries /\ Delay(Tried(j)) \in -MaxLag .. MaxDelay
    BY <1>1, DelayTyped
  <2>3. QED
    BY <1>2, <2>1, <2>2, RetryIs
<1>4. /\ tries' = [j \in Jobs |-> tries'[j]] /\ ahead' = [j \in Jobs |-> ahead'[j]]
      /\ status' = Governed(Examined \ Confirmed)
  BY DEF Retry
<1>5. settled' \subseteq Jobs
  BY DEF Retry, Confirmed, Examined, Due, RetriesTyped
<1>6. Governed(Examined \ Confirmed) \in [Jobs -> {"draft", "decided"}]
  BY DEF Governed, StoresTyped
<1> QED
  BY <1>3, <1>4, <1>5, <1>6 DEF RetriesTyped

\* Of the jobs that are due, the first is examined: the budget is at least one.
LEMMA FirstIsExamined ==
  ASSUME RetriesTyped, Due # {}
  PROVE  \E e \in Examined : \A k \in Due : ~ Before(k, e)
<1> DEFINE key(k) == IF tries[k] = 0 THEN -MaxLag - 1 ELSE Waiting[k]
           rank(k) == key(k) + MaxLag + 1
           S == {rank(k) : k \in Due}
<1>1. MaxLag \in Nat \ {0} /\ Due \subseteq Jobs /\ Jobs \subseteq Nat
  BY PollerAssumption DEF Due, Jobs
<1>2. \A k \in Jobs : key(k) \in Int /\ rank(k) \in Nat
  BY <1>1 DEF RetriesTyped, Waiting
<1>3. S \in SUBSET Nat /\ S # {}
  BY <1>1, <1>2
<1>4. PICK m \in S : \A n \in S : m <= n
  BY <1>3, LeastOf
<1> DEFINE T == {k \in Due : rank(k) = m}
<1>5. T \in SUBSET Nat /\ T # {}
  BY <1>1, <1>4
<1>6. PICK e \in T : \A k \in T : e <= k
  BY <1>5, LeastOf
<1>7. ASSUME NEW k \in Due PROVE ~ Before(k, e)
  <2>1. e \in Due /\ rank(e) = m /\ rank(e) <= rank(k)
    BY <1>4, <1>6
  <2>2. key(e) \in Int /\ key(k) \in Int /\ e \in Nat /\ k \in Nat
    BY <1>1, <1>2, <2>1
  <2>3. key(e) <= key(k)
    BY <1>1, <2>1, <2>2
  <2>4. key(k) = key(e) => e <= k
    BY <1>6, <2>1
  <2>5. ~ (key(k) < key(e) \/ (key(k) = key(e) /\ k < e))
    BY <2>2, <2>3, <2>4
  <2>6. QED
    BY <2>5 DEF Before
<1>8. {i \in Due : Before(i, e)} = {}
  BY <1>7
<1>9. Cardinality({i \in Due : Before(i, e)}) = 0
  BY <1>8, FS_EmptySet
<1>10. e \in Examined
  BY <1>6, <1>9, PollerAssumption DEF Examined
<1> QED
  BY <1>7, <1>10

(***************************************************************************)
(* The wait                                                                *)
(***************************************************************************)
\* Rivals are other jobs that can become ready; there are finitely many.
LEMMA RivalsCount ==
  ASSUME NEW j \in Jobs \ Stuck
  PROVE  /\ IsFiniteSet(Jobs \ Stuck) /\ Cardinality(Jobs \ Stuck) \in Nat
         /\ \A S \in SUBSET ((Jobs \ Stuck) \ {j}) :
              /\ IsFiniteSet(S) /\ Cardinality(S) \in Nat
              /\ Cardinality(S) < Cardinality(Jobs \ Stuck)
<1>1. IsFiniteSet(Jobs)
  BY PollerAssumption, FS_Interval DEF Jobs
<1>2. IsFiniteSet(Jobs \ Stuck)
  BY <1>1, FS_Subset
<1>3. Cardinality(Jobs \ Stuck) \in Nat
  BY <1>2, FS_CardinalityType
<1>4. /\ IsFiniteSet((Jobs \ Stuck) \ {j})
      /\ Cardinality((Jobs \ Stuck) \ {j}) = Cardinality(Jobs \ Stuck) - 1
  BY <1>2, FS_RemoveElement
<1>5. ASSUME NEW S \in SUBSET ((Jobs \ Stuck) \ {j})
      PROVE  /\ IsFiniteSet(S) /\ Cardinality(S) \in Nat
             /\ Cardinality(S) < Cardinality(Jobs \ Stuck)
  <2>1. IsFiniteSet(S) /\ Cardinality(S) <= Cardinality((Jobs \ Stuck) \ {j})
    BY <1>4, FS_Subset
  <2>2. Cardinality(S) \in Nat
    BY <2>1, FS_CardinalityType
  <2>3. QED
    BY <1>3, <1>4, <2>1, <2>2
<1> QED
  BY <1>2, <1>3, <1>5

\* Nobody waited as long as the counter reaches: there are not as many rivals.
LEMMA NoneTooLong ==
  ASSUME QueueInv, MaxLag >= Cardinality(Jobs \ Stuck)
  PROVE  \A j \in Jobs : ahead[j] \in Int /\ ahead[j] > -MaxLag
<1> SUFFICES ASSUME NEW j \in Jobs PROVE ahead[j] \in Int /\ ahead[j] > -MaxLag
  OBVIOUS
<1>1. ahead[j] \in Int /\ MaxLag \in Nat /\ MaxLag > 0
  BY PollerAssumption DEF QueueInv, RetriesTyped
<1>2. CASE j \in Stuck
  BY <1>1, <1>2 DEF QueueInv, StuckRests
<1>3. CASE j \notin Stuck
  <2>1. /\ Cardinality(Rivals(j)) \in Nat /\ Cardinality(Jobs \ Stuck) \in Nat
    BY <1>3, RivalsCount DEF Rivals
  <2>2. ahead[j] <= 0 => Cardinality(Rivals(j)) - ahead[j] < Cardinality(Jobs \ Stuck)
    BY <1>3 DEF QueueInv, Patience
  <2>3. QED
    BY <1>1, <2>1, <2>2
<1> QED
  BY <1>2, <1>3

\* As nobody waited too long, a cycle takes the jobs in the order of their turns.
LEMMA InTurn ==
  ASSUME QueueInv, MaxLag >= Cardinality(Jobs \ Stuck), NEW i \in Jobs, NEW j \in Jobs
  PROVE  /\ Waiting[j] = ahead[j] - 1
         /\ Before(i, j) <=> First(i, j)
         /\ i # j /\ ~ First(j, i) => First(i, j)
<1>1. /\ ahead[i] \in Int /\ ahead[i] > -MaxLag /\ ahead[j] \in Int /\ ahead[j] > -MaxLag
      /\ MaxLag \in Nat /\ i \in Int /\ j \in Int
  BY NoneTooLong, PollerAssumption DEF Jobs
<1>2. Waiting[i] = ahead[i] - 1 /\ Waiting[j] = ahead[j] - 1
  BY <1>1 DEF Waiting
<1>3. Before(i, j) <=> First(i, j)
  BY <1>1, <1>2 DEF Before, First, Turn
<1>4. i # j /\ ~ First(j, i) => First(i, j)
  BY <1>1 DEF First, Turn
<1> QED
  BY <1>2, <1>3, <1>4

\* A job that waits another cycle was due, and somebody before it was examined.
LEMMA PassedOver ==
  ASSUME QueueInv, MaxLag >= Cardinality(Jobs \ Stuck), Retry,
         NEW j \in Jobs \ Stuck, ahead'[j] < 0
  PROVE  /\ j \notin Examined /\ tries'[j] = tries[j]
         /\ ahead'[j] = ahead[j] - 1 /\ ahead[j] <= 0
         /\ \E e \in Examined : e \in Rivals(j)
<1>1. RetriesTyped /\ MaxDelay \in Nat /\ ahead[j] \in Int /\ tries[j] \in Nat
  BY PollerAssumption DEF QueueInv, RetriesTyped, MaxTries
<1>2. j \notin Examined
  BY <1>1, RetryIs, DelayTyped
<1>3. (j \in Due \/ tries[j] # 0) /\ ahead'[j] = Waiting[j] /\ tries'[j] = tries[j]
  BY <1>1, <1>2, RetryIs
<1>4. Waiting[j] = ahead[j] - 1
  BY InTurn
<1>5. j \in Due
  BY <1>1, <1>3, <1>4 DEF Due, QueueInv, TriedReady
<1>6. PICK e \in Examined : \A k \in Due : ~ Before(k, e)
  BY <1>1, <1>5, FirstIsExamined
<1>7. e \in Due /\ e \in Jobs /\ e # j /\ ~ Before(j, e)
  BY <1>2, <1>5, <1>6 DEF Examined, Due
<1>8. First(e, j)
  BY <1>7, InTurn
<1>9. e \notin Stuck /\ e \notin settled
  BY <1>7 DEF Due, QueueInv, StuckRests
<1>10. e \in Rivals(j)
  BY <1>7, <1>8, <1>9 DEF Rivals
<1> QED
  BY <1>1, <1>2, <1>3, <1>4, <1>6, <1>10

\* Nobody becomes a rival of a job that waits, and who was examined is none any more.
LEMMA RivalsLeave ==
  ASSUME QueueInv, MaxLag >= Cardinality(Jobs \ Stuck), Retry,
         NEW j \in Jobs \ Stuck, j \notin Examined, tries'[j] = tries[j],
         ahead'[j] = ahead[j] - 1, ahead[j] <= 0,
         NEW i \in Rivals(j)'
  PROVE  i \in Rivals(j) /\ i \notin Examined
<1>1. RetriesTyped /\ ahead[j] \in Int /\ ahead[i] \in Int /\ MaxLag \in Nat
  BY PollerAssumption DEF QueueInv, RetriesTyped, Rivals
<1>2. /\ i \in Jobs \ Stuck /\ i # j /\ i \notin settled' /\ i \in Int /\ j \in Int
      /\ \/ Turn(i)' < Turn(j)'
         \/ Turn(i)' = Turn(j)' /\ i < j
  BY DEF Rivals, First, Jobs
<1>3. Turn(j)' = IF tries[j] = 0 THEN -MaxLag - 1 ELSE ahead[j] - 1
  BY DEF Turn
<1>4. i \notin Examined
  <2> SUFFICES ASSUME i \in Examined PROVE FALSE
    OBVIOUS
  <2>1. i \notin Confirmed
    BY <1>1, <1>2, RetryIs
  <2>2. tries'[i] = Tried(i) /\ ahead'[i] = Delay(Tried(i))
    BY <1>1, <1>2, <2>1, RetryIs
  <2>3. tries'[i] \in Nat /\ tries'[i] # 0 /\ ahead'[i] \in Int /\ ahead'[i] >= 2
    BY <1>1, <1>2, <2>2, DelayTyped, PollerAssumption DEF MaxTries
  <2>4. Turn(i)' = ahead'[i]
    BY <2>3 DEF Turn
  <2>5. QED
    BY <1>1, <1>2, <1>3, <2>3, <2>4
<1>5. /\ tries'[i] = tries[i] /\ i \notin settled
      /\ ahead'[i] = IF i \in Due \/ tries[i] # 0 THEN Waiting[i] ELSE 0
  BY <1>1, <1>2, <1>4, RetryIs
<1>6. Waiting[i] = ahead[i] - 1 /\ ahead[i] > -MaxLag /\ ahead[j] > -MaxLag
  BY <1>2, InTurn, NoneTooLong
<1>7. Turn(i)' = IF tries[i] = 0 THEN -MaxLag - 1 ELSE ahead[i] - 1
  BY <1>5, <1>6 DEF Turn
<1>8. First(i, j)
  BY <1>1, <1>2, <1>3, <1>6, <1>7 DEF First, Turn
<1> QED
  BY <1>2, <1>4, <1>5, <1>8 DEF Rivals

\* The first part of a cycle keeps every job patient.
LEMMA RetryPatience ==
  ASSUME QueueInv, MaxLag >= Cardinality(Jobs \ Stuck), Retry
  PROVE  Patience'
<1> SUFFICES ASSUME NEW j \in Jobs \ Stuck, ahead'[j] <= 0
             PROVE  Cardinality(Rivals(j)') - ahead'[j] < Cardinality(Jobs \ Stuck)
  BY DEF Patience
<1>1. ahead'[j] \in Int /\ ahead[j] \in Int
  BY RetryTyped DEF QueueInv, RetriesTyped
<1>2. /\ Rivals(j) \in SUBSET ((Jobs \ Stuck) \ {j})
      /\ Rivals(j)' \in SUBSET ((Jobs \ Stuck) \ {j})
  BY DEF Rivals
<1>3. /\ Cardinality(Rivals(j)') \in Nat /\ Cardinality(Jobs \ Stuck) \in Nat
      /\ Cardinality(Rivals(j)') < Cardinality(Jobs \ Stuck)
      /\ IsFiniteSet(Rivals(j)) /\ Cardinality(Rivals(j)) \in Nat
  BY <1>2, RivalsCount
<1>4. CASE ahead'[j] = 0
  BY <1>3, <1>4
<1>5. CASE ahead'[j] < 0
  <2>1. PICK e \in Examined : e \in Rivals(j)
    BY <1>5, PassedOver
  <2>2. /\ j \notin Examined /\ tries'[j] = tries[j]
        /\ ahead'[j] = ahead[j] - 1 /\ ahead[j] <= 0
    BY <1>5, PassedOver
  <2>3. Rivals(j)' \in SUBSET (Rivals(j) \ {e})
    BY <2>1, <2>2, RivalsLeave
  <2>4. IsFiniteSet(Rivals(j) \ {e}) /\ Cardinality(Rivals(j) \ {e}) = Cardinality(Rivals(j)) - 1
    BY <1>3, <2>1, FS_RemoveElement
  <2>5. Cardinality(Rivals(j)') <= Cardinality(Rivals(j)) - 1
    BY <2>3, <2>4, FS_Subset
  <2>6. Cardinality(Rivals(j)) - ahead[j] < Cardinality(Jobs \ Stuck)
    BY <2>2 DEF QueueInv, Patience
  <2>7. QED
    BY <1>1, <1>3, <2>2, <2>5, <2>6
<1> QED
  BY <1>1, <1>4, <1>5

(***************************************************************************)
(* The steps                                                               *)
(***************************************************************************)
\* A poll moves a job to a phase of the store; a finished job stays where it is.
LEMMA MovesOn ==
  ASSUME NEW p \in Phases
  PROVE  Moves(p) \subseteq Phases /\ (p = "ready" => Moves(p) = {"ready"})
BY DEF Moves, Phases

\* Who stores anything: the stores stay well typed, a finished job stays ready, and a job
\* whose poll always raises stays queued.
LEMMA StoresStep ==
  ASSUME StoresTyped, RetriesTyped, CyclesTyped, Held, [Next]_vars
  PROVE  /\ StoresTyped'
         /\ \A j \in Jobs : phase[j] = "ready" => phase'[j] = "ready"
         /\ \A j \in Stuck : phase'[j] = phase[j]
<1> DEFINE Goal == /\ StoresTyped'
                   /\ \A j \in Jobs : phase[j] = "ready" => phase'[j] = "ready"
                   /\ \A j \in Stuck : phase'[j] = phase[j]
<1>1. ASSUME NEW d \in Drivers, Begin(d) PROVE Goal
  <2>1. status' \in [Jobs -> {"draft", "decided"}]
    BY <1>1, RetryTyped DEF Begin
  <2>2. QED
    BY <1>1, <2>1 DEF Begin, StoresTyped
<1>2. ASSUME NEW d \in Drivers, Dispatch(d) PROVE Goal
  BY <1>2 DEF Dispatch, StoresTyped
<1>3. ASSUME NEW d \in Drivers, End(d) PROVE Goal
  BY <1>3 DEF End, StoresTyped
<1>4. ASSUME NEW d \in Drivers, Poll(d) PROVE Goal
  <2>1. cycle[d].job \in Jobs
    BY <1>4 DEF Poll, At, Held, Holding
  <2>2. \/ phase' = phase
        \/ /\ cycle[d].job \notin Stuck
           /\ \E p \in Moves(phase[cycle[d].job]) :
                phase' = [phase EXCEPT ![cycle[d].job] = p]
    BY <1>4 DEF Poll
  <2>3. UNCHANGED <<status, log, outage>> /\ faults' \in Nat
    <3>1. UNCHANGED <<status, log, outage>> /\ faults' \in {faults, faults + 1}
      BY <1>4 DEF Poll, Fault
    <3>2. QED
      BY <3>1 DEF StoresTyped
  <2>4. Moves(phase[cycle[d].job]) \subseteq Phases
        /\ (phase[cycle[d].job] = "ready" => Moves(phase[cycle[d].job]) = {"ready"})
    BY <2>1, MovesOn DEF StoresTyped
  <2>5. /\ phase' \in [Jobs -> Phases]
        /\ \A j \in Jobs : phase[j] = "ready" => phase'[j] = "ready"
        /\ \A j \in Stuck : phase'[j] = phase[j]
    <3>1. CASE phase' = phase
      BY <3>1 DEF StoresTyped
    <3>2. ASSUME cycle[d].job \notin Stuck, NEW p \in Moves(phase[cycle[d].job]),
                 phase' = [phase EXCEPT ![cycle[d].job] = p]
          PROVE  /\ phase' \in [Jobs -> Phases]
                 /\ \A j \in Jobs : phase[j] = "ready" => phase'[j] = "ready"
                 /\ \A j \in Stuck : phase'[j] = phase[j]
      BY <2>1, <2>4, <3>2, PollerAssumption DEF StoresTyped
    <3>3. QED
      BY <2>2, <3>1, <3>2
  <2>6. QED
    BY <2>3, <2>5 DEF StoresTyped
<1>5. ASSUME NEW d \in Drivers, Resume(d) PROVE Goal
  <2>1. cycle[d].job \in Jobs /\ cycle[d].fresh \in Phases
    BY <1>5 DEF Resume, At, Held, Holding, CyclesTyped, Cycles
  <2>2. /\ UNCHANGED <<phase, outage>> /\ faults' \in Nat
        /\ log' = log \/ log' = [log EXCEPT ![cycle[d].job] = cycle[d].fresh]
        /\ status' = status \/ status' = Governed({cycle[d].job})
    BY <1>5 DEF Resume, Fault, Sync, StoresTyped
  <2>3. Governed({cycle[d].job}) \in [Jobs -> {"draft", "decided"}]
    BY DEF Governed, StoresTyped
  <2>4. QED
    BY <2>1, <2>2, <2>3 DEF StoresTyped
<1>6. ASSUME NEW d \in Drivers, Raise(d) PROVE Goal
  BY <1>6 DEF Raise, StoresTyped
<1>7. ASSUME NEW d \in Drivers, PokeSync(d) PROVE Goal
  <2>0. PICK js \in SUBSET {j \in Jobs \ Stuck : log[j] \notin Terminal} :
          \E f \in [js -> Phases] :
            /\ \A j \in js : f[j] \in Moves(phase[j])
            /\ phase' = [j \in Jobs |-> IF j \in js THEN f[j] ELSE phase[j]]
            /\ log'   = [j \in Jobs |-> IF j \in js THEN f[j] ELSE log[j]]
    BY <1>7 DEF PokeSync
  <2>1. PICK f \in [js -> Phases] :
          /\ \A j \in js : f[j] \in Moves(phase[j])
          /\ phase' = [j \in Jobs |-> IF j \in js THEN f[j] ELSE phase[j]]
          /\ log'   = [j \in Jobs |-> IF j \in js THEN f[j] ELSE log[j]]
    BY <2>0
  <2>2. /\ phase' \in [Jobs -> Phases] /\ log' \in [Jobs -> Phases]
        /\ UNCHANGED <<status, outage, faults>>
    BY <1>7, <2>1 DEF PokeSync, StoresTyped
  <2>3. ASSUME NEW j \in Jobs, phase[j] = "ready" PROVE phase'[j] = "ready"
    <3>1. phase[j] \in Phases
      BY DEF StoresTyped
    <3>2. QED
      BY <2>1, <2>3, <3>1, MovesOn
  <2>4. \A j \in Stuck : phase'[j] = phase[j]
    BY <2>1, PollerAssumption
  <2>5. QED
    BY <2>2, <2>3, <2>4 DEF StoresTyped
<1>8. ASSUME NEW k \in Jobs, Get(k) PROVE Goal
  <2>1. PICK p \in Moves(phase[k]) : phase' = [phase EXCEPT ![k] = p]
    BY <1>8 DEF Get
  <2>2. Moves(phase[k]) \subseteq Phases /\ (phase[k] = "ready" => Moves(phase[k]) = {"ready"})
    BY MovesOn DEF StoresTyped
  <2>3. Governed({k}) \in [Jobs -> {"draft", "decided"}]
    BY DEF Governed, StoresTyped
  <2>4. k \notin Stuck /\ UNCHANGED <<log, outage, faults>> /\ status' \in {status, Governed({k})}
    BY <1>8 DEF Get
  <2>5. QED
    BY <2>1, <2>2, <2>3, <2>4 DEF StoresTyped
<1>9. ASSUME Restart PROVE Goal
  BY <1>9 DEF Restart, Fault, StoresTyped
<1>10. ASSUME OutageBegins PROVE Goal
  BY <1>10 DEF OutageBegins, Fault, StoresTyped
<1>11. ASSUME OutageEnds PROVE Goal
  BY <1>11 DEF OutageEnds, StoresTyped
<1>12. ASSUME UNCHANGED vars PROVE Goal
  BY <1>12 DEF vars, StoresTyped
<1> QED
  BY <1>1, <1>2, <1>3, <1>4, <1>5, <1>6, <1>7, <1>8, <1>9, <1>10, <1>11, <1>12
     DEF Next, Step

\* The bookkeeping of the retries changes at the start of a cycle, and is lost by a restart.
LEMMA RetriesChange ==
  ASSUME [Next]_vars
  PROVE  \/ Retry /\ phase' = phase
         \/ UNCHANGED Retries
         \/ /\ settled' = {} /\ tries' = [j \in Jobs |-> 0] /\ ahead' = [j \in Jobs |-> 0]
            /\ phase' = phase
BY DEF Next, vars, Begin, Step, Dispatch, End, Poll, Resume, Raise, PokeSync, Get, Restart,
   OutageBegins, OutageEnds, Retries

\* The bookkeeping keeps its range.
LEMMA RetriesStep ==
  ASSUME StoresTyped, RetriesTyped, [Next]_vars
  PROVE  RetriesTyped'
<1>1. CASE Retry
  BY <1>1, RetryTyped
<1>2. CASE UNCHANGED Retries
  BY <1>2 DEF Retries, RetriesTyped
<1>3. CASE /\ settled' = {} /\ tries' = [j \in Jobs |-> 0] /\ ahead' = [j \in Jobs |-> 0]
  <2>1. 0 \in 0 .. MaxTries /\ 0 \in -MaxLag .. MaxDelay
    BY PollerAssumption DEF MaxTries
  <2>2. QED
    BY <1>3, <2>1 DEF RetriesTyped
<1> QED
  BY <1>1, <1>2, <1>3, RetriesChange

\* A job gets attempts only when it is finished and not confirmed, and stays so.
LEMMA TriedReadyStep ==
  ASSUME QueueInv, StoresTyped', [Next]_vars,
         \A j \in Jobs : phase[j] = "ready" => phase'[j] = "ready"
  PROVE  TriedReady'
<1>1. ASSUME Retry, phase' = phase, NEW j \in Jobs, tries'[j] # 0
      PROVE  phase'[j] = "ready" /\ j \notin settled'
  <2>1. /\ j \notin Confirmed /\ settled' = settled \cup Confirmed
        /\ j \in Examined => j \in Due
        /\ j \notin Examined => tries[j] # 0
    BY <1>1, RetryIs DEF QueueInv
  <2>2. QED
    BY <1>1, <2>1 DEF QueueInv, TriedReady, Due
<1>2. CASE UNCHANGED Retries
  BY <1>2 DEF Retries, QueueInv, TriedReady
<1>3. CASE tries' = [j \in Jobs |-> 0]
  BY <1>3 DEF TriedReady
<1> QED
  BY <1>1, <1>2, <1>3, RetriesChange DEF TriedReady

\* A job whose poll always raises never waits for its governance.
LEMMA StuckRestsStep ==
  ASSUME QueueInv, [Next]_vars, \A j \in Stuck : phase'[j] = phase[j]
  PROVE  StuckRests'
<1>1. ASSUME Retry, NEW j \in Stuck PROVE ahead'[j] = 0
  <2>1. j \in Jobs /\ phase[j] = "queued"
    BY PollerAssumption DEF QueueInv, StuckRests
  <2>2. j \notin Due /\ tries[j] = 0
    BY <2>1 DEF Due, QueueInv, TriedReady
  <2>3. QED
    BY <1>1, <2>1, <2>2, RetryIs DEF QueueInv
<1>2. CASE UNCHANGED Retries
  BY <1>2 DEF Retries, QueueInv, StuckRests
<1>3. CASE ahead' = [j \in Jobs |-> 0]
  BY <1>3, PollerAssumption DEF QueueInv, StuckRests
<1> QED
  BY <1>1, <1>2, <1>3, RetriesChange DEF QueueInv, StuckRests

\* Every job stays patient: only the start of a cycle makes it wait.
LEMMA PatienceStep ==
  ASSUME QueueInv, MaxLag >= Cardinality(Jobs \ Stuck), [Next]_vars
  PROVE  Patience'
<1>1. CASE Retry
  BY <1>1, RetryPatience
<1>2. CASE UNCHANGED Retries
  BY <1>2 DEF Retries, QueueInv, Patience, Rivals, First, Turn
<1>3. CASE ahead' = [j \in Jobs |-> 0]
  <2>1. ASSUME NEW j \in Jobs \ Stuck
        PROVE  Cardinality(Rivals(j)') - ahead'[j] < Cardinality(Jobs \ Stuck)
    <3>1. Rivals(j)' \in SUBSET ((Jobs \ Stuck) \ {j})
      BY DEF Rivals
    <3>2. ahead'[j] = 0
      BY <1>3
    <3>3. QED
      BY <3>1, <3>2, RivalsCount
  <2>2. QED
    BY <2>1 DEF Patience
<1> QED
  BY <1>1, <1>2, <1>3, RetriesChange

\* A run of poll_once keeps its shape, and _in_flight holds jobs.
LEMMA CyclesStep ==
  ASSUME StoresTyped, CyclesTyped, Held, [Next]_vars
  PROVE  CyclesTyped'
<1>0. /\ Idle \in Cycles /\ \A d \in Drivers : Over(d) \in Cycles
  BY DEF Idle, Over, Cycles, Ats, Phases
<1>1. ASSUME NEW d \in Drivers, Begin(d) PROVE CyclesTyped'
  <2>1. [Idle EXCEPT !.at = "next", !.todo = {j \in Jobs : phase[j] \notin Terminal}] \in Cycles
    BY DEF Idle, Cycles, Ats, Phases
  <2>2. QED
    BY <1>1, <2>1 DEF Begin, Set, CyclesTyped
<1>2. ASSUME NEW d \in Drivers, Dispatch(d) PROVE CyclesTyped'
  <2> DEFINE j == Head(cycle[d].todo)
             rest == cycle[d].todo \ {j}
  <2>1. j \in Jobs /\ rest \in SUBSET Jobs /\ cycle[d] \in Cycles
    BY <1>2, HeadIn DEF Dispatch, CyclesTyped, Cycles
  <2>2. \/ cycle' = [cycle EXCEPT ![d] = [cycle[d] EXCEPT !.todo = rest]] /\ inFlight' = inFlight
        \/ /\ cycle' = [cycle EXCEPT ![d] = [cycle[d] EXCEPT !.at = "await", !.todo = rest, !.job = j]]
           /\ inFlight' = inFlight \cup {j}
    BY <1>2 DEF Dispatch, Set
  <2> HIDE DEF j, rest
  <2>3. /\ [cycle[d] EXCEPT !.todo = rest] \in Cycles
        /\ [cycle[d] EXCEPT !.at = "await", !.todo = rest, !.job = j] \in Cycles
    BY <2>1 DEF Cycles, Ats
  <2>4. QED
    BY <2>1, <2>2, <2>3 DEF CyclesTyped
<1>3. ASSUME NEW d \in Drivers, End(d) PROVE CyclesTyped'
  BY <1>0, <1>3 DEF End, Set, CyclesTyped
<1>4. ASSUME NEW d \in Drivers, Poll(d) PROVE CyclesTyped'
  <2>1. cycle[d].job \in Jobs /\ cycle[d] \in Cycles /\ inFlight' = inFlight
    BY <1>4 DEF Poll, At, Held, Holding, CyclesTyped
  <2>2. Moves(phase[cycle[d].job]) \subseteq Phases
    BY <2>1, MovesOn DEF StoresTyped
  <2>3. \/ \E p \in Moves(phase[cycle[d].job]) :
             cycle' = [cycle EXCEPT ![d] = [cycle[d] EXCEPT !.at = "back", !.fresh = p]]
        \/ cycle' = [cycle EXCEPT ![d] = [cycle[d] EXCEPT !.at = "raised"]]
    BY <1>4 DEF Poll, Set
  <2>4. /\ [cycle[d] EXCEPT !.at = "raised"] \in Cycles
        /\ \A p \in Phases : [cycle[d] EXCEPT !.at = "back", !.fresh = p] \in Cycles
    BY <2>1 DEF Cycles, Ats
  <2>5. QED
    BY <2>1, <2>2, <2>3, <2>4 DEF CyclesTyped
<1>5. ASSUME NEW d \in Drivers, Resume(d) PROVE CyclesTyped'
  <2>1. [cycle[d] EXCEPT !.at = "next"] \in Cycles
    BY DEF CyclesTyped, Cycles, Ats
  <2>2. /\ inFlight' = inFlight \ {cycle[d].job}
        /\ cycle' = [cycle EXCEPT ![d] = [cycle[d] EXCEPT !.at = "next"]]
           \/ cycle' = [cycle EXCEPT ![d] = Over(d)]
    BY <1>5 DEF Resume, Set
  <2>3. QED
    BY <1>0, <2>1, <2>2 DEF CyclesTyped
<1>6. ASSUME NEW d \in Drivers, Raise(d) PROVE CyclesTyped'
  BY <1>0, <1>6 DEF Raise, Set, CyclesTyped
<1>7. ASSUME NEW d \in Drivers, PokeSync(d) PROVE CyclesTyped'
  BY <1>0, <1>7 DEF PokeSync, Set, CyclesTyped
<1>8. ASSUME NEW k \in Jobs, Get(k) PROVE CyclesTyped'
  BY <1>8 DEF Get, CyclesTyped
<1>9. ASSUME Restart PROVE CyclesTyped'
  BY <1>0, <1>9 DEF Restart, CyclesTyped
<1>10. ASSUME OutageBegins PROVE CyclesTyped'
  BY <1>10 DEF OutageBegins, CyclesTyped
<1>11. ASSUME OutageEnds PROVE CyclesTyped'
  BY <1>11 DEF OutageEnds, CyclesTyped
<1>12. ASSUME UNCHANGED vars PROVE CyclesTyped'
  BY <1>12 DEF vars, CyclesTyped
<1> QED
  BY <1>1, <1>2, <1>3, <1>4, <1>5, <1>6, <1>7, <1>8, <1>9, <1>10, <1>11, <1>12
     DEF Next, Step

\* A run that goes on with another job, or with none, leaves the other runs their jobs.
LEMMA HeldMoves ==
  ASSUME CyclesTyped, Held, NEW d \in Drivers,
         \A e \in Drivers \ {d} : cycle'[e] = cycle[e],
         d \in Holding' =>
           \/ /\ d \in Holding /\ cycle'[d].job = cycle[d].job /\ inFlight' = inFlight
           \/ /\ d \notin Holding /\ cycle'[d].job \in Jobs \ inFlight
              /\ inFlight' = inFlight \cup {cycle'[d].job},
         d \notin Holding' =>
           inFlight' = IF d \in Holding THEN inFlight \ {cycle[d].job} ELSE inFlight
  PROVE  Held'
<1>1. /\ \A e \in Drivers \ {d} : e \in Holding' <=> e \in Holding
      /\ Holding' \subseteq Drivers /\ Holding \subseteq Drivers
  BY DEF Holding
<1>2. \A e \in Holding : cycle[e].job \in inFlight
  BY DEF Held
<1>3. \A e \in Holding' : cycle'[e].job \in Jobs
  BY <1>1 DEF Held
<1>4. \A e, f \in Holding' : e # f => cycle'[e].job # cycle'[f].job
  BY <1>1, <1>2 DEF Held
<1>5. inFlight' = {cycle'[e].job : e \in Holding'}
  <2>1. CASE d \in Holding' /\ d \in Holding
    <3>1. Holding' = Holding /\ \A e \in Holding : cycle'[e].job = cycle[e].job
      BY <1>1, <2>1
    <3>2. QED
      BY <2>1, <3>1 DEF Held
  <2>2. CASE d \in Holding' /\ d \notin Holding
    <3>1. Holding' = Holding \cup {d} /\ \A e \in Holding : cycle'[e].job = cycle[e].job
      BY <1>1, <2>2
    <3>2. QED
      BY <2>2, <3>1 DEF Held
  <2>3. CASE d \notin Holding' /\ d \in Holding
    <3>1. Holding' = Holding \ {d} /\ \A e \in Holding' : cycle'[e].job = cycle[e].job
      BY <1>1, <2>3
    <3>2. \A e \in Holding \ {d} : cycle[e].job # cycle[d].job
      BY <2>3 DEF Held
    <3>3. QED
      BY <2>3, <3>1, <3>2 DEF Held
  <2>4. CASE d \notin Holding' /\ d \notin Holding
    <3>1. Holding' = Holding /\ \A e \in Holding : cycle'[e].job = cycle[e].job
      BY <1>1, <2>4
    <3>2. QED
      BY <2>4, <3>1 DEF Held
  <2>5. QED
    BY <2>1, <2>2, <2>3, <2>4
<1> QED
  BY <1>3, <1>4, <1>5 DEF Held

\* Every action keeps the runs apart: a run takes only a job that is not in _in_flight, and
\* takes it out again when it is done with it, in whichever way.
LEMMA HeldStep ==
  ASSUME StoresTyped, CyclesTyped, Held, [Next]_vars
  PROVE  Held'
<1>1. ASSUME NEW d \in Drivers, Begin(d) PROVE Held'
  <2>1. /\ cycle[d].at = "idle" /\ cycle'[d].at = "next" /\ inFlight' = inFlight
        /\ \A e \in Drivers \ {d} : cycle'[e] = cycle[e]
    BY <1>1 DEF Begin, At, Set, Idle, CyclesTyped
  <2>2. QED
    BY <2>1, HeldMoves DEF Holding
<1>2. ASSUME NEW d \in Drivers, Dispatch(d) PROVE Held'
  <2> DEFINE j == Head(cycle[d].todo)
  <2>1. j \in Jobs /\ cycle[d] \in Cycles
    BY <1>2, HeadIn DEF Dispatch, CyclesTyped, Cycles
  <2>2. /\ cycle[d].at = "next"
        /\ \/ cycle' = [cycle EXCEPT ![d] = [cycle[d] EXCEPT !.todo = @ \ {j}]] /\ inFlight' = inFlight
           \/ /\ j \notin inFlight /\ inFlight' = inFlight \cup {j}
              /\ cycle' = [cycle EXCEPT ![d] =
                             [cycle[d] EXCEPT !.at = "await", !.todo = @ \ {j}, !.job = j]]
    BY <1>2 DEF Dispatch, Set, At, Skipped
  <2> HIDE DEF j
  <2>3. /\ \A e \in Drivers \ {d} : cycle'[e] = cycle[e]
        /\ \/ cycle'[d].at = "next" /\ inFlight' = inFlight
           \/ /\ j \notin inFlight /\ inFlight' = inFlight \cup {j}
              /\ cycle'[d].at = "await" /\ cycle'[d].job = j
    BY <2>1, <2>2 DEF CyclesTyped, Cycles
  <2>4. QED
    BY <2>1, <2>2, <2>3, HeldMoves DEF Holding
<1>3. ASSUME NEW d \in Drivers, End(d) PROVE Held'
  <2>1. /\ cycle[d].at = "next" /\ cycle'[d].at \in {"idle", "sync"} /\ inFlight' = inFlight
        /\ \A e \in Drivers \ {d} : cycle'[e] = cycle[e]
    BY <1>3 DEF End, At, Set, Over, Idle, CyclesTyped
  <2>2. QED
    BY <2>1, HeldMoves DEF Holding
<1>4. ASSUME NEW d \in Drivers, Poll(d) PROVE Held'
  <2>1. cycle[d].at = "await" /\ inFlight' = inFlight
    BY <1>4 DEF Poll, At
  <2>2. \/ \E p \in Moves(phase[cycle[d].job]) :
             cycle' = [cycle EXCEPT ![d] = [cycle[d] EXCEPT !.at = "back", !.fresh = p]]
        \/ cycle' = [cycle EXCEPT ![d] = [cycle[d] EXCEPT !.at = "raised"]]
    BY <1>4 DEF Poll, Set
  <2>3. cycle[d] \in Cycles /\ cycle \in [Drivers -> Cycles]
    BY DEF CyclesTyped
  <2>4. \A e \in Drivers \ {d} : cycle'[e] = cycle[e]
    BY <2>2, <2>3
  <2>5. cycle'[d].at \in {"back", "raised"} /\ cycle'[d].job = cycle[d].job
    <3>1. CASE cycle' = [cycle EXCEPT ![d] = [cycle[d] EXCEPT !.at = "raised"]]
      BY <2>3, <3>1 DEF Cycles
    <3>2. ASSUME NEW p \in Moves(phase[cycle[d].job]),
                 cycle' = [cycle EXCEPT ![d] = [cycle[d] EXCEPT !.at = "back", !.fresh = p]]
          PROVE  cycle'[d].at = "back" /\ cycle'[d].job = cycle[d].job
      BY <2>3, <3>2 DEF Cycles
    <3>3. QED
      BY <2>2, <3>1, <3>2
  <2>6. QED
    BY <2>1, <2>4, <2>5, HeldMoves DEF Holding
<1>5. ASSUME NEW d \in Drivers, Resume(d) PROVE Held'
  <2>1. /\ cycle[d].at = "back" /\ cycle'[d].at \in {"next", "idle", "sync"}
        /\ inFlight' = inFlight \ {cycle[d].job}
        /\ \A e \in Drivers \ {d} : cycle'[e] = cycle[e]
    BY <1>5 DEF Resume, At, Set, Over, Idle, CyclesTyped, Cycles
  <2>2. QED
    BY <2>1, HeldMoves DEF Holding
<1>6. ASSUME NEW d \in Drivers, Raise(d) PROVE Held'
  <2>1. /\ cycle[d].at = "raised" /\ cycle'[d].at \in {"idle", "sync"}
        /\ inFlight' = inFlight \ {cycle[d].job}
        /\ \A e \in Drivers \ {d} : cycle'[e] = cycle[e]
    BY <1>6 DEF Raise, At, Set, Over, Idle, CyclesTyped
  <2>2. QED
    BY <2>1, HeldMoves DEF Holding
<1>7. ASSUME NEW d \in Drivers, PokeSync(d) PROVE Held'
  <2>1. /\ cycle[d].at = "sync" /\ cycle'[d].at = "idle" /\ inFlight' = inFlight
        /\ \A e \in Drivers \ {d} : cycle'[e] = cycle[e]
    BY <1>7 DEF PokeSync, At, Set, Idle, CyclesTyped
  <2>2. QED
    BY <2>1, HeldMoves DEF Holding
<1>8. ASSUME NEW k \in Jobs, Get(k) PROVE Held'
  BY <1>8 DEF Get, Held, Holding
<1>9. ASSUME Restart PROVE Held'
  <2>1. Holding' = {} /\ inFlight' = {}
    BY <1>9 DEF Restart, Idle, Holding
  <2>2. QED
    BY <2>1 DEF Held
<1>10. ASSUME OutageBegins PROVE Held'
  BY <1>10 DEF OutageBegins, Held, Holding
<1>11. ASSUME OutageEnds PROVE Held'
  BY <1>11 DEF OutageEnds, Held, Holding
<1>12. ASSUME UNCHANGED vars PROVE Held'
  BY <1>12 DEF vars, Held, Holding
<1> QED
  BY <1>1, <1>2, <1>3, <1>4, <1>5, <1>6, <1>7, <1>8, <1>9, <1>10, <1>11, <1>12
     DEF Next, Step

(***************************************************************************)
(* The theorems                                                            *)
(***************************************************************************)
\* A store with queued jobs and no run of poll_once has the invariants.
LEMMA PollerInit == Init => PollerInv /\ QueueInv
<1> SUFFICES ASSUME Init PROVE PollerInv /\ QueueInv
  OBVIOUS
<1>1. StoresTyped
  BY DEF Init, StoresTyped, Phases
<1>2. RetriesTyped
  <2>1. 0 \in 0 .. MaxTries /\ 0 \in -MaxLag .. MaxDelay
    BY PollerAssumption DEF MaxTries
  <2>2. QED
    BY <2>1 DEF Init, RetriesTyped
<1>3. CyclesTyped
  BY DEF Init, CyclesTyped, Idle, Cycles, Ats, Phases
<1>4. Held
  <2>1. Holding = {} /\ inFlight = {}
    BY DEF Init, Holding, Idle
  <2>2. QED
    BY <2>1 DEF Held
<1>5. TriedReady /\ StuckRests
  BY PollerAssumption DEF Init, TriedReady, StuckRests
<1>6. Patience
  <2>1. ASSUME NEW j \in Jobs \ Stuck
        PROVE  Cardinality(Rivals(j)) - ahead[j] < Cardinality(Jobs \ Stuck)
    <3>1. Rivals(j) \in SUBSET ((Jobs \ Stuck) \ {j}) /\ ahead[j] = 0
      BY DEF Init, Rivals
    <3>2. /\ Cardinality(Rivals(j)) \in Nat /\ Cardinality(Jobs \ Stuck) \in Nat
          /\ Cardinality(Rivals(j)) < Cardinality(Jobs \ Stuck)
      BY <3>1, RivalsCount
    <3>3. QED
      BY <3>1, <3>2
  <2>2. QED
    BY <2>1 DEF Patience
<1> QED
  BY <1>1, <1>2, <1>3, <1>4, <1>5, <1>6 DEF PollerInv, QueueInv

\* The runs of poll_once keep apart, and the stores and the bookkeeping well typed.
THEOREM PollerInvariant == Spec => []PollerInv
<1>1. Init => PollerInv
  BY PollerInit
<1>2. PollerInv /\ [Next]_vars => PollerInv'
  <2> SUFFICES ASSUME PollerInv, [Next]_vars PROVE PollerInv'
    OBVIOUS
  <2> USE DEF PollerInv
  <2>1. StoresTyped' /\ RetriesTyped'
    BY StoresStep, RetriesStep
  <2>2. CyclesTyped' /\ Held'
    BY CyclesStep, HeldStep
  <2> QED
    BY <2>1, <2>2
<1> QED
  BY <1>1, <1>2, PTL DEF Spec

\* Jobs, request log, bookkeeping and runs keep their types (TypeOK), for any number of
\* jobs, any budget and any delay.
THEOREM PollerTyped == Spec => []TypeOK
<1>1. PollerInv => TypeOK
  <2> SUFFICES ASSUME PollerInv PROVE TypeOK
    OBVIOUS
  <2>1. \A d \in Drivers : cycle[d] \in Cycles
    BY DEF PollerInv, CyclesTyped
  <2>2. QED
    BY <2>1 DEF PollerInv, StoresTyped, RetriesTyped, CyclesTyped, Cycles, Ats, TypeOK
<1> QED
  BY <1>1, PollerInvariant, PTL

\* The poller and a poke never have the same job in a worker thread, and a job that nobody
\* polls is never left in _in_flight, whatever raises or restarts (InFlightExact).
THEOREM InFlightIsExact == Spec => []InFlightExact
<1>1. PollerInv => InFlightExact
  BY DEF PollerInv, Held, Holding, InFlightExact
<1> QED
  BY <1>1, PollerInvariant, PTL

\* Every job's wait and its rivals never add up to more than the other jobs.
THEOREM QueueInvariant ==
  ASSUME MaxLag >= Cardinality(Jobs \ Stuck)
  PROVE  Spec => []QueueInv
<1>1. Init => QueueInv
  BY PollerInit
<1>2. QueueInv /\ PollerInv /\ [Next]_vars => QueueInv'
  <2> SUFFICES ASSUME QueueInv, PollerInv, [Next]_vars PROVE QueueInv'
    OBVIOUS
  <2>1. /\ StoresTyped' /\ RetriesTyped'
        /\ \A j \in Jobs : phase[j] = "ready" => phase'[j] = "ready"
        /\ \A j \in Stuck : phase'[j] = phase[j]
    BY StoresStep, RetriesStep DEF PollerInv
  <2>2. TriedReady' /\ StuckRests' /\ Patience'
    BY <2>1, TriedReadyStep, StuckRestsStep, PatienceStep
  <2> QED
    BY <2>1, <2>2 DEF QueueInv
<1> QED
  BY <1>1, <1>2, PollerInvariant, PTL DEF Spec

\* A retry of governance that is due is passed over for fewer cycles than there are jobs,
\* whichever other records stay in DRAFT and compete for the budget (NoLongWait).  The
\* counter of the model must reach that far, and the budget may be as small as one.
THEOREM NobodyWaitsLong ==
  ASSUME MaxLag >= Cardinality(Jobs \ Stuck)
  PROVE  Spec => []NoLongWait
<1>1. QueueInv => NoLongWait
  BY NoneTooLong DEF NoLongWait
<1> QED
  BY <1>1, QueueInvariant, PTL

==============================================================================
