------------------------- MODULE SharedPolicyProofs -------------------------
(***************************************************************************)
(* Proofs about SharedPolicy, for any tools, threads and bounds: the calls *)
(* keep their shape, however provision and the reclaimer overlap, the last *)
(* ACTIVE revision is not deleted, and a call that reports success and was *)
(* not crossed leaves in force exactly what the ledger asks.               *)
(***************************************************************************)
EXTENDS SharedPolicy, WellFoundedInduction, TLAPS

-----------------------------------------------------------------------------
(* The inductive invariant.                                                *)

Given(p, x) == p[x].status # "unused"

\* Ids are handed out in order, so a revision number is no greater than its id.
Numbered(p) ==
  \A x \in PolicyIds :
    /\ p[x].rev <= x
    /\ Given(p, x) => \A y \in 1 .. x - 1 : Given(p, y)

Deleting == {"delete", "check", "drop"}
Undecided == {"empty", "list", "rules", "compare", "create"}

\* A call knows policies that exist or existed.  The revision it counts on is no
\* older than those, and when it deletes, some ACTIVE revision is no older still.
Fine(r, p, c) ==
  r.pc # "idle" =>
    /\ \A x \in r.existing : Given(p, x)
    /\ r.pc \in Undecided => r.own = 0
    /\ r.pc \in {"check", "drop"} => r.own # 0
    /\ r.own # 0 => Given(p, r.own) /\ \A x \in r.existing : p[x].rev <= p[r.own].rev
    /\ r.pc \in Deleting =>
         \/ r.own = 0 \/ c
         \/ \E y \in PolicyIds : p[y].status = "active" /\ p[r.own].rev <= p[y].rev

PolicyInv ==
  /\ SharedPolicyTypeOK
  /\ Numbered(policy)
  /\ \A t \in PolicyThreads : Fine(policyCall[t], policy, cleared)

\* From policies p to policies q, policies keep their revision number, and what
\* stops being ACTIVE is outranked by what stays ACTIVE, unless all is cleared.
Safe(p, c, q, d) ==
  /\ \A x \in PolicyIds : Given(p, x) => Given(q, x) /\ q[x].rev = p[x].rev
  /\ c => d
  /\ \/ d
     \/ \A x \in PolicyIds : p[x].status = "active" /\ q[x].status # "active" =>
          \E y \in PolicyIds : /\ p[y].status = "active" /\ q[y].status = "active"
                              /\ p[x].rev < p[y].rev

SafeStep == Safe(policy, cleared, policy', cleared')

-----------------------------------------------------------------------------
(* Initial states.                                                         *)

LEMMA InitInv ==
  ASSUME SharedPolicyInit
  PROVE  PolicyInv
<1>1. \A t \in PolicyThreads : Does(t, "idle")
  BY DEF SharedPolicyInit, Does, NoCall
<1>2. SharedPolicyTypeOK
  <2>1. policyCall \in [PolicyThreads -> [pc : {"idle"}]]
    BY DEF SharedPolicyInit, NoCall
  <2>2. policy \in [PolicyIds -> PolicyRow]
    BY SharedPolicyAssumption DEF SharedPolicyInit, PolicyRow
  <2> QED
    <3>1. policyCall \in [PolicyThreads -> [pc : {"idle"}] \cup PolicyCallRow]
      BY <2>1
    <3>2. declared \in SUBSET PolicyActions /\ covered \in SUBSET PolicyActions
      BY DEF SharedPolicyInit
    <3>3. policyChanges \in 0 .. MaxPolicyChanges /\ policyFaults \in 0 .. MaxPolicyFaults
      BY SharedPolicyAssumption DEF SharedPolicyInit
    <3>4. cleared \in BOOLEAN
      BY Zenon DEF SharedPolicyInit
    <3> QED
      BY <3>1, <2>2, <3>2, <3>3, <3>4, Zenon DEF SharedPolicyTypeOK
<1>3. Numbered(policy)
  BY SharedPolicyAssumption DEF SharedPolicyInit, Numbered, Given, PolicyIds
<1>4. \A t \in PolicyThreads : Fine(policyCall[t], policy, cleared)
  BY <1>1 DEF Fine, Does
<1> QED
  BY <1>2, <1>3, <1>4 DEF PolicyInv

-----------------------------------------------------------------------------
(* The number of the next revision.                                        *)

\* NextRevision is above every listed revision, and one above the newest.
LEMMA NextIsAbove ==
  ASSUME PolicyInv, NEW listed \in SUBSET PolicyIds
  PROVE  /\ NextRevision(listed) \in 1 .. MaxPolicies + 1
         /\ \A y \in listed : RevisionOf(y) < NextRevision(listed)
         /\ NextRevision(listed) = 1
              \/ \E y \in listed : RevisionOf(y) = NextRevision(listed) - 1
<1> DEFINE T == {n \in Nat : n >= 1 /\ \A y \in listed : RevisionOf(y) < n}
           R == OpToRel(<, Nat)
<1>1. \A y \in listed : RevisionOf(y) \in 0 .. MaxPolicies
  BY DEF PolicyInv, SharedPolicyTypeOK, PolicyRow, RevisionOf
<1>2. MaxPolicies + 1 \in T
  BY <1>1, SharedPolicyAssumption
<1>3. PICK n \in T : \A m \in T : ~ (<<m, n>> \in R)
  BY <1>2, NatLessThanWellFounded, WFMin
<1>4. \A m \in T : ~ (m < n)
  BY <1>3 DEF OpToRel
<1> HIDE DEF R
<1>5. n \in 1 .. MaxPolicies + 1
  BY <1>2, <1>4, SharedPolicyAssumption
<1>6. n = 1 \/ \E y \in listed : RevisionOf(y) = n - 1
  <2> SUFFICES ASSUME n # 1 PROVE \E y \in listed : RevisionOf(y) = n - 1
    OBVIOUS
  <2>1. n - 1 \in Nat /\ n - 1 >= 1
    BY <1>5
  <2>2. n - 1 \notin T
    BY <1>4, <2>1
  <2>3. PICK y \in listed : ~ (RevisionOf(y) < n - 1)
    BY <2>1, <2>2
  <2>4. RevisionOf(y) \in Nat /\ RevisionOf(y) < n
    BY <1>1
  <2>5. RevisionOf(y) = n - 1
    BY <1>5, <2>3, <2>4
  <2> QED
    BY <2>5
<1> QED
  BY <1>3, <1>5, <1>6 DEF NextRevision
-----------------------------------------------------------------------------
(* What a safe step keeps of a call.                                       *)

\* A call stays fine under a safe step of somebody else.
LEMMA Carry ==
  ASSUME NEW p \in [PolicyIds -> PolicyRow], NEW q \in [PolicyIds -> PolicyRow],
         NEW c, NEW d, Safe(p, c, q, d),
         NEW r \in PolicyCallRow, Fine(r, p, c)
  PROVE  Fine(r, q, d)
<1>1. \A x \in PolicyIds : p[x].rev \in Nat /\ q[x].rev \in Nat
  BY DEF PolicyRow
<1>2. r.existing \in SUBSET PolicyIds /\ r.own \in 0 .. MaxPolicies
  BY DEF PolicyCallRow
<1>3. r.own # 0 => r.own \in PolicyIds
  BY <1>2, SharedPolicyAssumption DEF PolicyIds
<1> SUFFICES ASSUME r.pc # "idle" PROVE Fine(r, q, d)
  BY DEF Fine
<1>4. \A x \in r.existing : Given(q, x)
  BY <1>2 DEF Fine, Safe
<1>5. r.own # 0 => Given(q, r.own) /\ \A x \in r.existing : q[x].rev <= q[r.own].rev
  BY <1>1, <1>2, <1>3 DEF Fine, Safe
<1>6. ASSUME r.pc \in Deleting, r.own # 0, ~ d
      PROVE  \E y \in PolicyIds : q[y].status = "active" /\ q[r.own].rev <= q[y].rev
  <2>1. q[r.own].rev = p[r.own].rev
    BY <1>3, <1>6 DEF Fine, Safe
  <2>2. PICK y \in PolicyIds : p[y].status = "active" /\ p[r.own].rev <= p[y].rev
    BY <1>6 DEF Fine, Safe
  <2>3. CASE q[y].status = "active"
    <3>1. q[y].rev = p[y].rev
      BY <2>2 DEF Safe, Given
    <3> QED
      BY <2>1, <2>2, <2>3, <3>1
  <2>4. CASE q[y].status # "active"
    <3>1. PICK z \in PolicyIds : /\ p[z].status = "active" /\ q[z].status = "active"
                                 /\ p[y].rev < p[z].rev
      BY <1>6, <2>2, <2>4 DEF Safe
    <3>2. q[z].rev = p[z].rev
      BY <3>1 DEF Safe, Given
    <3> QED
      BY <1>1, <1>3, <1>6, <2>1, <2>2, <3>1, <3>2
  <2> QED
    BY <2>3, <2>4
<1> QED
  BY <1>4, <1>5, <1>6 DEF Fine

-----------------------------------------------------------------------------
(* Steps that leave the policies alone.                                    *)

CallRow == [pc : {"idle"}] \cup PolicyCallRow

\* Such a step changes one call and at most counts a fault.
Frame ==
  /\ UNCHANGED <<declared, covered, policy, cleared, policyChanges>>
  /\ policyFaults' \in 0 .. MaxPolicyFaults

LEMMA FrameHolds ==
  ASSUME PolicyInv
  PROVE  /\ Sees => Frame
         /\ Unmoved /\ PolicyFault /\ UNCHANGED policy => Frame
BY SharedPolicyAssumption
   DEF PolicyInv, SharedPolicyTypeOK, Sees, Unmoved, PolicyFault, Frame

\* Counting a fault keeps the bound.
LEMMA FaultCounted ==
  ASSUME PolicyInv, PolicyFault \/ UNCHANGED policyFaults
  PROVE  policyFaults' \in 0 .. MaxPolicyFaults
BY SharedPolicyAssumption DEF PolicyFault, PolicyInv, SharedPolicyTypeOK

LEMMA Unchanging ==
  ASSUME UNCHANGED <<policy, cleared>>
  PROVE  SafeStep
BY DEF SafeStep, Safe

\* A call in progress has a row.
LEMMA RowOf ==
  ASSUME PolicyInv, NEW t \in PolicyThreads
  PROVE  /\ policyCall[t] \in CallRow
         /\ ~ Does(t, "idle") => policyCall[t] \in PolicyCallRow
         /\ Fine(policyCall[t], policy, cleared)
BY DEF PolicyInv, SharedPolicyTypeOK, CallRow, Does

\* One call gets a fine row, the others keep theirs.
LEMMA CallStep ==
  ASSUME PolicyInv, Frame, NEW t \in PolicyThreads, NEW r \in CallRow,
         policyCall' = [policyCall EXCEPT ![t] = r], Fine(r, policy, cleared)
  PROVE  PolicyInv' /\ SafeStep
<1>1. SafeStep
  BY Unchanging DEF Frame
<1>2. policyCall' \in [PolicyThreads -> CallRow]
  BY DEF PolicyInv, SharedPolicyTypeOK, CallRow
<1>3. SharedPolicyTypeOK'
  BY <1>2 DEF PolicyInv, SharedPolicyTypeOK, Frame, CallRow
<1>4. Numbered(policy')
  BY DEF PolicyInv, Frame
<1>5. ASSUME NEW u \in PolicyThreads
      PROVE  Fine(policyCall'[u], policy', cleared')
  <2>1. policyCall'[u] = IF u = t THEN r ELSE policyCall[u]
    BY DEF PolicyInv, SharedPolicyTypeOK
  <2>2. policy' = policy /\ cleared' = cleared
    BY DEF Frame
  <2>3. Fine(policyCall'[u], policy, cleared)
    BY <2>1, RowOf
  <2> QED
    BY <2>2, <2>3
<1> QED
  BY <1>1, <1>3, <1>4, <1>5 DEF PolicyInv

\* A call returns.
LEMMA ReturnStep ==
  ASSUME PolicyInv, Frame, NEW t \in PolicyThreads, Returns(t)
  PROVE  PolicyInv' /\ SafeStep
<1>1. NoCall \in CallRow /\ NoCall.pc = "idle"
  BY DEF NoCall, CallRow
<1>2. Fine(NoCall, policy, cleared)
  BY <1>1 DEF Fine
<1> QED
  BY <1>1, <1>2, CallStep DEF Returns

PolicyPcs ==
  {"empty", "list", "rules", "compare", "create", "await", "delete", "done",
   "judge", "verify", "check", "drop"}

\* What makes some ACTIVE revision as new as r.
Backed(r) ==
  r.own = 0 \/ cleared \/
  \E y \in PolicyIds : policy[y].status = "active" /\ policy[r.own].rev <= policy[y].rev

\* A call moves on.
LEMMA TurnStep ==
  ASSUME PolicyInv, Frame, NEW t \in PolicyThreads, ~ Does(t, "idle"),
         NEW pc \in PolicyPcs, Turns(t, pc),
         pc \in Undecided => Call(t).own = 0,
         pc \in {"check", "drop"} => Call(t).own # 0,
         pc \in Deleting => Backed(Call(t))
  PROVE  PolicyInv' /\ SafeStep
<1> DEFINE r == [policyCall[t] EXCEPT !.pc = pc]
<1>1. policyCall[t] \in PolicyCallRow /\ Fine(policyCall[t], policy, cleared)
  BY RowOf
<1>2. /\ r \in PolicyCallRow /\ r.pc = pc /\ r.own = policyCall[t].own
      /\ r.existing = policyCall[t].existing
  BY <1>1 DEF PolicyCallRow, PolicyPcs
<1>3. policyCall' = [policyCall EXCEPT ![t] = r]
  BY DEF Turns
<1>4. policyCall[t].pc # "idle"
  BY DEF Does
<1> HIDE DEF r
<1>5. Fine(r, policy, cleared)
  BY <1>1, <1>2, <1>4 DEF Fine, Call, Backed
<1>6. r \in CallRow
  BY <1>2 DEF CallRow
<1> QED
  BY <1>3, <1>5, <1>6, CallStep

\* A call reports success.
LEMMA SucceedStep ==
  ASSUME PolicyInv, Frame, NEW t \in PolicyThreads, ~ Does(t, "idle"), Succeeds(t)
  PROVE  PolicyInv' /\ SafeStep
<1>1. CASE Returns(t)
  BY <1>1, ReturnStep
<1>2. CASE ~ Returns(t)
  <2> DEFINE r == [policyCall[t] EXCEPT !.pc = "done", !.rules = {}, !.existing = {},
                                        !.own = 0]
  <2>1. policyCall' = [policyCall EXCEPT ![t] = r]
    BY <1>2 DEF Succeeds
  <2>2. policyCall[t] \in PolicyCallRow
    BY RowOf
  <2>3. r \in PolicyCallRow /\ r.pc = "done" /\ r.own = 0 /\ r.existing = {}
    <3>1. 0 \in 0 .. MaxPolicies /\ {} \in SUBSET PolicyIds /\ {} \in SUBSET PolicyActions
      BY SharedPolicyAssumption
    <3> QED
      BY <2>2, <3>1 DEF PolicyCallRow
  <2> HIDE DEF r
  <2>4. r \in CallRow /\ Fine(r, policy, cleared)
    BY <2>3 DEF CallRow, Fine, Undecided, Deleting
  <2> QED
    BY <2>1, <2>4, CallStep
<1> QED
  BY <1>1, <1>2

\* Every step of provision and of the reclaimer that leaves the policies alone.
LEMMA StartSteps ==
  ASSUME PolicyInv, NEW t \in PolicyThreads, StartCall(t) \/ ReclaimList(t)
  PROVE  PolicyInv' /\ SafeStep
<1>1. Frame
  BY FrameHolds DEF StartCall, ReclaimList
<1>2. Listed \in SUBSET PolicyIds /\ \A x \in Listed : Given(policy, x)
  BY DEF Listed, Given
<1>3. 0 \in 0 .. MaxPolicies /\ {} \in SUBSET PolicyIds /\ {} \in SUBSET PolicyActions
  BY SharedPolicyAssumption
<1>4. declared \in SUBSET PolicyActions /\ covered \in SUBSET PolicyActions
  BY DEF PolicyInv, SharedPolicyTypeOK
<1>5. CASE StartCall(t)
  <2> DEFINE r == [pc |-> IF declared = {} THEN "empty" ELSE "list",
                   want |-> declared \ covered,
                   rules |-> IF declared \subseteq covered THEN covered ELSE {},
                   unlisted |-> FALSE, existing |-> {}, own |-> 0, warned |-> FALSE,
                   alone |-> TRUE]
  <2>1. policyCall' = [policyCall EXCEPT ![t] = r]
    BY <1>5 DEF StartCall
  <2>2. r \in PolicyCallRow /\ r.pc \in Undecided /\ r.own = 0 /\ r.existing = {}
    BY <1>3, <1>4 DEF PolicyCallRow, Undecided
  <2> HIDE DEF r
  <2>3. r \in CallRow /\ Fine(r, policy, cleared)
    BY <2>2 DEF CallRow, Fine, Undecided, Deleting
  <2> QED
    BY <1>1, <2>1, <2>3, CallStep
<1>6. CASE ReclaimList(t)
  <2> DEFINE r == [pc |-> "judge", want |-> {}, rules |-> {}, unlisted |-> FALSE,
                   existing |-> Listed, own |-> 0, warned |-> FALSE, alone |-> TRUE]
  <2>1. policyCall' = [policyCall EXCEPT ![t] = r]
    BY <1>6 DEF ReclaimList
  <2>2. r \in PolicyCallRow /\ r.pc = "judge" /\ r.own = 0 /\ r.existing = Listed
    BY <1>2, <1>3 DEF PolicyCallRow
  <2> HIDE DEF r
  <2>3. r \in CallRow /\ Fine(r, policy, cleared)
    BY <1>2, <2>2 DEF CallRow, Fine, Undecided, Deleting
  <2> QED
    BY <1>1, <2>1, <2>3, CallStep
<1> QED
  BY <1>5, <1>6

LEMMA ObserveSteps ==
  ASSUME PolicyInv, NEW t \in PolicyThreads, SeeEmpty(t) \/ ListOwned(t) \/ CheckRules(t)
  PROVE  PolicyInv' /\ SafeStep
<1>1. Frame
  BY FrameHolds DEF SeeEmpty, ListOwned, CheckRules
<1>2. ~ Does(t, "idle")
  BY DEF SeeEmpty, ListOwned, CheckRules, Does
<1>3. policyCall[t] \in PolicyCallRow /\ Fine(policyCall[t], policy, cleared)
  BY <1>2, RowOf
<1>4. Call(t).own = 0
  BY <1>3 DEF SeeEmpty, ListOwned, CheckRules, Does, Fine, Undecided, Call
<1>5. Listed \in SUBSET PolicyIds /\ \A x \in Listed : Given(policy, x)
  BY DEF Listed, Given
<1>6. CASE Returns(t)
  BY <1>1, <1>6, ReturnStep
<1>7. CASE ~ Returns(t) /\ SeeEmpty(t)
  <2> DEFINE r == [policyCall[t] EXCEPT !.pc = "list", !.unlisted = TRUE]
  <2>1. policyCall' = [policyCall EXCEPT ![t] = r]
    BY <1>7 DEF SeeEmpty
  <2>2. /\ r \in PolicyCallRow /\ r.pc = "list" /\ r.own = 0
        /\ r.existing = policyCall[t].existing
    BY <1>3, <1>4 DEF PolicyCallRow, Call
  <2> HIDE DEF r
  <2>3. r \in CallRow /\ Fine(r, policy, cleared)
    BY <1>2, <1>3, <2>2 DEF CallRow, Fine, Undecided, Deleting, Does
  <2> QED
    BY <1>1, <2>1, <2>3, CallStep
<1>8. CASE ~ Returns(t) /\ ListOwned(t)
  <2> DEFINE pc == IF Wanted(t) = {} /\ ~ Call(t).unlisted THEN "rules" ELSE "compare"
             r  == [policyCall[t] EXCEPT !.existing = Listed, !.pc = pc]
  <2>1. policyCall' = [policyCall EXCEPT ![t] = r]
    BY <1>8 DEF ListOwned
  <2>2. pc \in {"rules", "compare"}
    OBVIOUS
  <2> HIDE DEF pc
  <2>3. r \in PolicyCallRow /\ r.pc = pc /\ r.own = 0 /\ r.existing = Listed
    BY <1>3, <1>4, <1>5, <2>2 DEF PolicyCallRow, Call
  <2> HIDE DEF r
  <2>4. r \in CallRow /\ Fine(r, policy, cleared)
    BY <1>5, <2>2, <2>3 DEF CallRow, Fine, Undecided, Deleting
  <2> QED
    BY <1>1, <2>1, <2>4, CallStep
<1>9. CASE ~ Returns(t) /\ CheckRules(t)
  <2>1. Turns(t, "compare")
    BY <1>9 DEF CheckRules
  <2> QED
    BY <1>1, <1>2, <1>4, <2>1, TurnStep DEF PolicyPcs, Deleting
<1> QED
  BY <1>6, <1>7, <1>8, <1>9

LEMMA CompareSteps ==
  ASSUME PolicyInv, NEW t \in PolicyThreads, Compare(t) \/ CompareFails(t)
  PROVE  PolicyInv' /\ SafeStep
<1>1. Frame
  BY FrameHolds DEF Compare, CompareFails
<1>2. ~ Does(t, "idle") /\ Does(t, "compare")
  BY DEF Compare, CompareFails, Does
<1>3. policyCall[t] \in PolicyCallRow /\ Fine(policyCall[t], policy, cleared)
  BY <1>2, RowOf
<1>4. Call(t).own = 0
  BY <1>2, <1>3 DEF Does, Fine, Undecided, Call
<1>5. CASE Succeeds(t)
  BY <1>1, <1>2, <1>5, SucceedStep
<1>6. CASE Turns(t, "create")
  BY <1>1, <1>2, <1>4, <1>6, TurnStep DEF PolicyPcs, Deleting
<1>7. CASE Turns(t, "delete")
  BY <1>1, <1>2, <1>4, <1>7, TurnStep DEF PolicyPcs, Undecided, Backed
<1>8. ASSUME NEW x \in Call(t).existing, IsTop(x, Call(t).existing),
             policyCall' = [policyCall EXCEPT ![t].own = x, ![t].pc = "await"]
      PROVE  PolicyInv' /\ SafeStep
  <2> DEFINE r == [policyCall[t] EXCEPT !.own = x, !.pc = "await"]
  <2>1. policyCall' = [policyCall EXCEPT ![t] = r]
    BY <1>8
  <2>2. x \in 0 .. MaxPolicies
    BY <1>3 DEF PolicyCallRow, PolicyIds, Call
  <2>3. /\ r \in PolicyCallRow /\ r.pc = "await" /\ r.own = x
        /\ r.existing = policyCall[t].existing
    BY <1>3, <2>2 DEF PolicyCallRow
  <2> HIDE DEF r
  <2>4. r \in CallRow /\ Fine(r, policy, cleared)
    BY <1>2, <1>3, <1>8, <2>3
       DEF CallRow, Fine, Undecided, Deleting, Does, IsTop, RevisionOf, Call
  <2> QED
    BY <1>1, <2>1, <2>4, CallStep
<1> QED
  BY <1>5, <1>6, <1>7, <1>8 DEF Compare, CompareFails

LEMMA WaitSteps ==
  ASSUME PolicyInv, NEW t \in PolicyThreads, WaitActive(t) \/ EndProvision(t) \/ Abandon(t)
  PROVE  PolicyInv' /\ SafeStep
<1>1. Frame
  BY FrameHolds DEF WaitActive, EndProvision, Abandon
<1>2. ~ Does(t, "idle")
  BY DEF WaitActive, EndProvision, Abandon, Does
<1>3. CASE Returns(t)
  BY <1>1, <1>3, ReturnStep
<1>4. CASE Succeeds(t)
  BY <1>1, <1>2, <1>4, SucceedStep
<1>5. CASE Call(t).own \in Enforced /\ Turns(t, "delete")
  <2>1. Backed(Call(t))
    BY <1>5 DEF Backed, Enforced, PolicyInv, SharedPolicyTypeOK, PolicyRow
  <2> QED
    BY <1>1, <1>2, <1>5, <2>1, TurnStep DEF PolicyPcs, Undecided
<1> QED
  BY <1>3, <1>4, <1>5 DEF WaitActive, EndProvision, Abandon

LEMMA ReclaimSteps ==
  ASSUME PolicyInv, NEW t \in PolicyThreads, Judge(t) \/ Verify(t) \/ CheckSurvivor(t)
  PROVE  PolicyInv' /\ SafeStep
<1>1. Frame
  BY FrameHolds DEF Judge, Verify, CheckSurvivor
<1>2. ~ Does(t, "idle")
  BY DEF Judge, Verify, CheckSurvivor, Does
<1>3. policyCall[t] \in PolicyCallRow /\ Fine(policyCall[t], policy, cleared)
  BY <1>2, RowOf
<1>4. CASE Returns(t)
  BY <1>1, <1>4, ReturnStep
<1>5. CASE ~ Returns(t) /\ Judge(t)
  <2> DEFINE r == [policyCall[t] EXCEPT !.want = declared \ covered, !.pc = "verify"]
  <2>1. policyCall' = [policyCall EXCEPT ![t] = r]
    BY <1>5 DEF Judge
  <2>2. declared \in SUBSET PolicyActions
    BY DEF PolicyInv, SharedPolicyTypeOK
  <2>3. /\ r \in PolicyCallRow /\ r.pc = "verify" /\ r.own = policyCall[t].own
        /\ r.existing = policyCall[t].existing
    BY <1>3, <2>2 DEF PolicyCallRow
  <2> HIDE DEF r
  <2>4. r \in CallRow /\ Fine(r, policy, cleared)
    BY <1>2, <1>3, <2>3 DEF CallRow, Fine, Undecided, Deleting, Does
  <2> QED
    BY <1>1, <2>1, <2>4, CallStep
<1>6. CASE ~ Returns(t) /\ Verify(t)
  <2>1. PICK x \in PolicyIds :
          /\ Survives(t, x)
          /\ policyCall' = [policyCall EXCEPT ![t].own = x, ![t].pc = "check"]
    BY <1>6 DEF Verify
  <2> DEFINE r == [policyCall[t] EXCEPT !.own = x, !.pc = "check"]
  <2>2. policyCall' = [policyCall EXCEPT ![t] = r]
    BY <2>1
  <2>3. x \in 0 .. MaxPolicies /\ x # 0
    BY DEF PolicyIds
  <2>4. /\ r \in PolicyCallRow /\ r.pc = "check" /\ r.own = x
        /\ r.existing = policyCall[t].existing
    BY <1>3, <2>3 DEF PolicyCallRow
  <2> HIDE DEF r
  <2>5. policy[x].status = "active" /\ policy[x].rev \in Nat
    BY <2>1 DEF Survives, Enforced, PolicyInv, SharedPolicyTypeOK, PolicyRow
  <2>6. /\ \A y \in policyCall[t].existing : policy[y].rev <= policy[x].rev
        /\ \A y \in policyCall[t].existing : Given(policy, y)
    BY <1>2, <1>3, <2>1 DEF Survives, IsTop, RevisionOf, Call, Fine, Does
  <2>7. r \in CallRow /\ Fine(r, policy, cleared)
    BY <2>3, <2>4, <2>5, <2>6 DEF CallRow, Fine, Undecided, Given
  <2> QED
    BY <1>1, <2>2, <2>7, CallStep
<1>7. CASE ~ Returns(t) /\ CheckSurvivor(t)
  <2>1. Turns(t, "drop") /\ Does(t, "check")
    BY <1>7 DEF CheckSurvivor
  <2>2. Call(t).own # 0 /\ Backed(Call(t))
    BY <1>3, <2>1 DEF Fine, Deleting, Does, Call, Backed
  <2> QED
    BY <1>1, <1>2, <2>1, <2>2, TurnStep DEF PolicyPcs, Undecided
<1> QED
  BY <1>4, <1>5, <1>6, <1>7

-----------------------------------------------------------------------------
(* Steps that change the policies.                                         *)

\* Who only learns that it is not alone stays fine.
LEMMA OthersKeep ==
  ASSUME PolicyInv, SafeStep, policy' \in [PolicyIds -> PolicyRow],
         NEW u \in PolicyThreads, policyCall'[u] \in {policyCall[u], Disturbed(u)}
  PROVE  policyCall'[u] \in CallRow /\ Fine(policyCall'[u], policy', cleared')
<1>1. /\ policyCall[u] \in CallRow /\ Fine(policyCall[u], policy, cleared)
      /\ ~ Does(u, "idle") => policyCall[u] \in PolicyCallRow
  BY RowOf
<1>2. CASE Does(u, "idle")
  BY <1>1, <1>2 DEF Disturbed, Fine, Does
<1>3. CASE ~ Does(u, "idle")
  <2>1. policy \in [PolicyIds -> PolicyRow]
    BY DEF PolicyInv, SharedPolicyTypeOK
  <2>2. Fine(policyCall[u], policy', cleared')
    BY <1>1, <1>3, <2>1, Carry DEF SafeStep
  <2> DEFINE r == [policyCall[u] EXCEPT !.alone = FALSE]
  <2>3. /\ r \in PolicyCallRow /\ r.pc = policyCall[u].pc /\ r.own = policyCall[u].own
        /\ r.existing = policyCall[u].existing
    BY <1>1, <1>3 DEF PolicyCallRow
  <2>4. policyCall'[u] \in {policyCall[u], r}
    BY <1>3 DEF Disturbed
  <2> HIDE DEF r
  <2>5. Fine(r, policy', cleared')
    BY <2>2, <2>3 DEF Fine
  <2> QED
    BY <1>1, <1>3, <2>2, <2>3, <2>4, <2>5 DEF CallRow
<1> QED
  BY <1>2, <1>3

\* What a step that changes the policies has to show.
LEMMA EffectStep ==
  ASSUME PolicyInv, SafeStep, policy' \in [PolicyIds -> PolicyRow], Numbered(policy'),
         cleared' \in BOOLEAN, policyFaults' \in 0 .. MaxPolicyFaults,
         UNCHANGED <<declared, covered, policyChanges>>,
         NEW t \in PolicyThreads, NEW r \in CallRow, Affects(t, r),
         Fine(r, policy', cleared')
  PROVE  PolicyInv'
<1>1. ASSUME NEW u \in PolicyThreads
      PROVE  policyCall'[u] \in CallRow /\ Fine(policyCall'[u], policy', cleared')
  <2>1. policyCall'[u] = IF u = t THEN r ELSE Disturbed(u)
    BY DEF Affects
  <2> QED
    BY <2>1, OthersKeep
<1>2. policyCall' \in [PolicyThreads -> CallRow]
  BY <1>1 DEF Affects
<1>3. SharedPolicyTypeOK'
  BY <1>2 DEF PolicyInv, SharedPolicyTypeOK, CallRow
<1> QED
  BY <1>1, <1>3 DEF PolicyInv

\* The ledger changes, or AWS ends a validation.
LEMMA OutsideSteps ==
  ASSUME PolicyInv, ChangeLedger \/ \E x \in PolicyIds : Activates(x) \/ Rejects(x)
  PROVE  PolicyInv' /\ SafeStep
<1>1. CASE ChangeLedger
  <2>1. SafeStep
    BY <1>1, Unchanging DEF ChangeLedger
  <2>2. policy' \in [PolicyIds -> PolicyRow] /\ Numbered(policy')
    BY <1>1 DEF ChangeLedger, PolicyInv, SharedPolicyTypeOK
  <2>3. \A u \in PolicyThreads :
          policyCall'[u] \in CallRow /\ Fine(policyCall'[u], policy', cleared')
    BY <1>1, <2>1, <2>2, OthersKeep DEF ChangeLedger
  <2>4. policyCall' \in [PolicyThreads -> CallRow]
    BY <1>1, <2>3 DEF ChangeLedger
  <2>5. /\ declared' \in SUBSET PolicyActions /\ covered' \in SUBSET PolicyActions
        /\ policyChanges' \in 0 .. MaxPolicyChanges /\ policyFaults' \in 0 .. MaxPolicyFaults
    BY <1>1, SharedPolicyAssumption DEF ChangeLedger, PolicyInv, SharedPolicyTypeOK
  <2>6. SharedPolicyTypeOK'
    BY <1>1, <2>2, <2>4, <2>5 DEF ChangeLedger, PolicyInv, SharedPolicyTypeOK, CallRow
  <2> QED
    BY <2>1, <2>2, <2>3, <2>6 DEF PolicyInv
<1>2. ASSUME NEW x \in PolicyIds, Activates(x) \/ Rejects(x)
      PROVE  PolicyInv' /\ SafeStep
  <2>1. PICK s \in {"active", "failed"} : policy' = [policy EXCEPT ![x].status = s]
    BY <1>2 DEF Activates, Rejects
  <2>2. policy[x].status = "creating" /\ policy \in [PolicyIds -> PolicyRow]
    BY <1>2 DEF Activates, Rejects, PolicyInv, SharedPolicyTypeOK
  <2>3. /\ policy' \in [PolicyIds -> PolicyRow]
        /\ \A y \in PolicyIds : /\ policy'[y].rev = policy[y].rev
                                /\ y # x => policy'[y] = policy[y]
        /\ policy'[x].status = s
    BY <2>1, <2>2 DEF PolicyRow
  <2>4. UNCHANGED <<declared, covered, policyCall, cleared, policyChanges>>
    BY <1>2 DEF Activates, Rejects
  <2>5. \A y \in PolicyIds : Given(policy', y) <=> Given(policy, y)
    BY <2>2, <2>3 DEF Given
  <2>6. SafeStep
    BY <2>2, <2>3, <2>4, <2>5 DEF SafeStep, Safe
  <2>7. Numbered(policy')
    <3>1. \A y \in PolicyIds : \A z \in 1 .. y - 1 : z \in PolicyIds
      BY SharedPolicyAssumption DEF PolicyIds
    <3> QED
      BY <2>3, <2>5, <3>1 DEF Numbered, PolicyInv
  <2>8. policyFaults' \in 0 .. MaxPolicyFaults
    BY <1>2, SharedPolicyAssumption
       DEF Activates, Rejects, PolicyFault, PolicyInv, SharedPolicyTypeOK
  <2>9. SharedPolicyTypeOK'
    BY <2>3, <2>4, <2>8 DEF PolicyInv, SharedPolicyTypeOK
  <2>10. \A u \in PolicyThreads : Fine(policyCall'[u], policy', cleared')
    BY <2>3, <2>4, <2>6, OthersKeep
  <2> QED
    BY <2>6, <2>7, <2>9, <2>10 DEF PolicyInv
<1> QED
  BY <1>1, <1>2

\* A new policy: its number is above what the call listed and below its id.
LEMMA CreatesOne ==
  ASSUME PolicyInv, NEW t \in PolicyThreads, ~ Does(t, "idle"), NEW x \in PolicyIds,
         Creates(t, x), UNCHANGED cleared
  PROVE  /\ policy' \in [PolicyIds -> PolicyRow] /\ Numbered(policy') /\ SafeStep
         /\ Given(policy', x)
         /\ \A y \in Call(t).existing :
              Given(policy', y) /\ policy'[y].rev <= policy'[x].rev
<1> DEFINE n == NextRevision(Call(t).existing)
<1>1. policyCall[t] \in PolicyCallRow /\ Fine(policyCall[t], policy, cleared)
  BY RowOf
<1>2. /\ Call(t).existing \in SUBSET PolicyIds /\ Wanted(t) \in SUBSET PolicyActions
      /\ \A y \in Call(t).existing : Given(policy, y)
  BY <1>1 DEF PolicyCallRow, Call, Wanted, Fine, Does
<1>3. /\ n \in 1 .. MaxPolicies + 1
      /\ \A y \in Call(t).existing : policy[y].rev < n
      /\ n = 1 \/ \E y \in Call(t).existing : policy[y].rev = n - 1
  BY <1>2, NextIsAbove DEF RevisionOf
<1>4. policy \in [PolicyIds -> PolicyRow] /\ x \in 1 .. MaxPolicies
  BY DEF PolicyInv, SharedPolicyTypeOK, PolicyIds
<1>5. ~ Given(policy, x) /\ \A y \in 1 .. x - 1 : Given(policy, y)
  BY DEF Creates, Given
<1>6. policy' = [policy EXCEPT ![x] = [rev |-> n, actions |-> Wanted(t), status |-> "creating"]]
  BY DEF Creates
<1> HIDE DEF n
<1>7. n <= x
  <2>1. CASE n = 1
    BY <1>4, <2>1
  <2>2. CASE n # 1
    <3>1. PICK y \in Call(t).existing : policy[y].rev = n - 1
      BY <1>3, <2>2
    <3>2. y \in 1 .. MaxPolicies /\ Given(policy, y) /\ policy[y].rev <= y
      BY <1>2, <3>1 DEF PolicyInv, Numbered, PolicyIds
    <3>3. ~ (x \in 1 .. y - 1)
      BY <1>5, <3>2 DEF PolicyInv, Numbered, PolicyIds
    <3>4. y < x
      BY <1>4, <1>5, <3>2, <3>3
    <3> QED
      BY <1>3, <1>4, <3>1, <3>2, <3>4
  <2> QED
    BY <2>1, <2>2
<1>8. n \in 0 .. MaxPolicies
  BY <1>3, <1>4, <1>7, SharedPolicyAssumption
<1>9. policy' \in [PolicyIds -> PolicyRow]
  BY <1>2, <1>4, <1>6, <1>8 DEF PolicyRow
<1>10. /\ policy'[x].rev = n /\ policy'[x].status = "creating"
       /\ \A y \in PolicyIds : y # x => policy'[y] = policy[y]
  BY <1>4, <1>6
<1>11. \A y \in PolicyIds : Given(policy, y) =>
         Given(policy', y) /\ policy'[y] = policy[y]
  BY <1>5, <1>10 DEF Given
<1>12. Numbered(policy')
  <2>1. \A y \in PolicyIds : \A z \in 1 .. y - 1 : z \in PolicyIds
    BY SharedPolicyAssumption DEF PolicyIds
  <2>2. \A y \in PolicyIds : policy'[y].rev <= y
    BY <1>7, <1>10 DEF PolicyInv, Numbered
  <2>3. \A z \in 1 .. x - 1 : Given(policy', z)
    BY <1>5, <1>11, <2>1
  <2>4. ASSUME NEW y \in PolicyIds, y # x, Given(policy', y), NEW z \in 1 .. y - 1
        PROVE  Given(policy', z)
    <3>1. Given(policy, y)
      BY <1>10, <2>4 DEF Given
    <3>2. Given(policy, z)
      BY <2>4, <3>1 DEF PolicyInv, Numbered
    <3> QED
      BY <1>11, <2>1, <2>4, <3>2
  <2> QED
    BY <2>2, <2>3, <2>4 DEF Numbered
<1>13. SafeStep
  BY <1>5, <1>11 DEF SafeStep, Safe, Given
<1>14. Given(policy', x)
  BY <1>10 DEF Given
<1>15. \A y \in Call(t).existing : Given(policy', y) /\ policy'[y].rev <= policy'[x].rev
  <2> TAKE y \in Call(t).existing
  <2>1. y \in PolicyIds /\ Given(policy, y)
    BY <1>2
  <2>2. Given(policy', y) /\ policy'[y] = policy[y]
    BY <1>11, <2>1
  <2>3. policy[y].rev \in Nat
    BY <1>4, <2>1 DEF PolicyRow
  <2> QED
    BY <1>3, <1>10, <2>2, <2>3
<1> QED
  BY <1>9, <1>12, <1>13, <1>14, <1>15

LEMMA CreateSteps ==
  ASSUME PolicyInv, NEW t \in PolicyThreads, CreatePolicy(t) \/ CreateFails(t)
  PROVE  PolicyInv' /\ SafeStep
<1>1. ~ Does(t, "idle")
  BY DEF CreatePolicy, CreateFails, Does
<1>2. /\ UNCHANGED <<declared, covered, cleared, policyChanges>>
      /\ policyFaults' \in 0 .. MaxPolicyFaults /\ cleared' \in BOOLEAN
  <2>1. Unmoved /\ (PolicyFault \/ UNCHANGED policyFaults)
    BY DEF CreatePolicy, CreateFails
  <2>2. UNCHANGED <<declared, covered, cleared, policyChanges>>
    BY <2>1 DEF Unmoved
  <2>3. cleared' \in BOOLEAN
    BY <2>2 DEF PolicyInv, SharedPolicyTypeOK
  <2> QED
    BY <2>1, <2>2, <2>3, FaultCounted
<1>3. policyCall[t] \in PolicyCallRow /\ Fine(policyCall[t], policy, cleared)
  BY <1>1, RowOf
<1>4. CASE Returns(t) /\ UNCHANGED policy
  BY <1>2, <1>4, ReturnStep DEF Frame
<1>5. ASSUME NEW x \in PolicyIds, Creates(t, x),
             Affects(t, [Call(t) EXCEPT !.pc = "await", !.own = x])
      PROVE  PolicyInv' /\ SafeStep
  <2> DEFINE r == [Call(t) EXCEPT !.pc = "await", !.own = x]
  <2>1. x \in 0 .. MaxPolicies
    BY DEF PolicyIds
  <2>2. /\ r \in PolicyCallRow /\ r.pc = "await" /\ r.own = x
        /\ r.existing = Call(t).existing
    BY <1>3, <2>1 DEF PolicyCallRow, Call
  <2>3. Affects(t, r)
    BY <1>5
  <2> HIDE DEF r
  <2>4. r \in CallRow /\ Fine(r, policy', cleared')
    BY <1>1, <1>2, <1>5, <2>2, CreatesOne DEF CallRow, Fine, Undecided, Deleting
  <2> QED
    BY <1>1, <1>2, <1>5, <2>3, <2>4, CreatesOne, EffectStep
<1>6. ASSUME NEW x \in PolicyIds, Creates(t, x), Affects(t, NoCall)
      PROVE  PolicyInv' /\ SafeStep
  <2>1. NoCall \in CallRow /\ Fine(NoCall, policy', cleared')
    BY DEF NoCall, CallRow, Fine
  <2> QED
    BY <1>1, <1>2, <1>6, <2>1, CreatesOne, EffectStep
<1> QED
  BY <1>4, <1>5, <1>6 DEF CreatePolicy, CreateFails

\* A deletion by who counts on an ACTIVE revision that is newer.
LEMMA DropsOld ==
  ASSUME PolicyInv, NEW t \in PolicyThreads, policyCall[t].pc \in Deleting,
         NEW x \in Stale(t), policy' \in {policy, Less(x)},
         Call(t).own = 0 => cleared', cleared => cleared'
  PROVE  policy' \in [PolicyIds -> PolicyRow] /\ Numbered(policy') /\ SafeStep
<1>1. policyCall[t] \in PolicyCallRow /\ Fine(policyCall[t], policy, cleared)
  BY RowOf DEF Does, Deleting
<1>2. policy \in [PolicyIds -> PolicyRow]
  BY DEF PolicyInv, SharedPolicyTypeOK
<1>3. x \in PolicyIds /\ x \in Call(t).existing
  BY <1>1 DEF Stale, PolicyCallRow, Call
<1>4. /\ policy' \in [PolicyIds -> PolicyRow]
      /\ \A y \in PolicyIds : policy'[y].rev = policy[y].rev /\ (y # x => policy'[y] = policy[y])
      /\ policy'[x] = policy[x] \/ (x \in Listed /\ policy'[x].status = "gone")
  <2>1. CASE policy' = policy
    BY <1>2, <2>1
  <2>2. CASE x \in Listed /\ policy' # policy
    <3>1. policy' = [policy EXCEPT ![x] = [policy[x] EXCEPT !.status = "gone", !.actions = {}]]
      BY <2>2 DEF Less
    <3>2. policy[x] \in PolicyRow
      BY <1>2, <1>3
    <3>3. /\ [policy[x] EXCEPT !.status = "gone", !.actions = {}] \in PolicyRow
          /\ [policy[x] EXCEPT !.status = "gone", !.actions = {}].rev = policy[x].rev
          /\ [policy[x] EXCEPT !.status = "gone", !.actions = {}].status = "gone"
      BY <3>2 DEF PolicyRow
    <3> QED
      BY <1>2, <1>3, <2>2, <3>1, <3>3
  <2> QED
    BY <2>1, <2>2 DEF Less
<1>5. \A y \in PolicyIds : Given(policy', y) <=> Given(policy, y)
  BY <1>3, <1>4 DEF Given, Listed
<1>6. Numbered(policy')
  <2>1. \A y \in PolicyIds : \A z \in 1 .. y - 1 : z \in PolicyIds
    BY SharedPolicyAssumption DEF PolicyIds
  <2> QED
    BY <1>4, <1>5, <2>1 DEF PolicyInv, Numbered
<1>7. ASSUME ~ cleared', policy[x].status = "active"
      PROVE  \E y \in PolicyIds : /\ policy[y].status = "active" /\ policy'[y].status = "active"
                                 /\ policy[x].rev < policy[y].rev
  <2>1. Call(t).own # 0 /\ Call(t).own \in PolicyIds
    BY <1>1, <1>7, SharedPolicyAssumption DEF PolicyCallRow, PolicyIds, Call
  <2>2. policy[x].rev < policy[Call(t).own].rev
    <3>1. policy[x].rev <= policy[Call(t).own].rev
      BY <1>1, <1>3, <2>1 DEF Fine, Call, Deleting
    <3>2. policy[x].rev # policy[Call(t).own].rev
      BY <2>1 DEF Stale, RevisionOf
    <3> QED
      BY <1>2, <1>3, <2>1, <3>1, <3>2 DEF PolicyRow
  <2>3. PICK y \in PolicyIds :
          policy[y].status = "active" /\ policy[Call(t).own].rev <= policy[y].rev
    BY <1>1, <1>7, <2>1 DEF Fine, Call, Deleting
  <2>4. policy[x].rev < policy[y].rev
    BY <1>2, <1>3, <2>1, <2>2, <2>3 DEF PolicyRow
  <2>5. y # x
    BY <1>2, <1>3, <2>4 DEF PolicyRow
  <2> QED
    BY <1>4, <2>3, <2>4, <2>5
<1>8. SafeStep
  BY <1>4, <1>5, <1>7 DEF SafeStep, Safe
<1> QED
  BY <1>4, <1>6, <1>8

LEMMA DropSteps ==
  ASSUME PolicyInv, NEW t \in PolicyThreads, DeleteOld(t) \/ DropStale(t) \/ DropFails(t)
  PROVE  PolicyInv' /\ SafeStep
<1>1. policyCall[t].pc \in {"delete", "drop"}
  BY DEF DeleteOld, DropStale, DropFails, Does
<1>2. policyCall[t] \in PolicyCallRow /\ Fine(policyCall[t], policy, cleared)
  BY <1>1, RowOf DEF Does
<1>3. /\ UNCHANGED <<declared, covered, policyChanges>>
      /\ policyFaults' \in 0 .. MaxPolicyFaults
  <2>1. PolicyFault \/ UNCHANGED policyFaults
    BY DEF DeleteOld, DropStale, DropFails
  <2>2. UNCHANGED <<declared, covered, policyChanges>>
    BY DEF DeleteOld, DropStale, DropFails, Unmoved
  <2> QED
    BY <2>1, <2>2, FaultCounted
<1>4. PICK x \in Stale(t), pc \in {"delete", "check"}, w \in BOOLEAN :
        /\ policy' \in {policy, Less(x)}
        /\ Affects(t, [Call(t) EXCEPT !.existing = @ \ {x}, !.warned = w, !.pc = pc])
        /\ pc = "check" => policyCall[t].pc = "drop"
  <2>1. policyCall[t].warned \in BOOLEAN
    BY <1>2 DEF PolicyCallRow
  <2>2. CASE DeleteOld(t)
    <3>1. PICK x \in Stale(t) : Deletes(t, x, "delete")
      BY <2>2 DEF DeleteOld
    <3>2. [Call(t) EXCEPT !.existing = @ \ {x}, !.pc = "delete"]
            = [Call(t) EXCEPT !.existing = @ \ {x}, !.warned = policyCall[t].warned,
                              !.pc = "delete"]
      BY <1>2 DEF PolicyCallRow, Call
    <3> QED
      BY <2>1, <3>1, <3>2 DEF Deletes
  <2>3. CASE DropStale(t)
    <3>1. PICK x \in Stale(t) : Deletes(t, x, "check")
      BY <2>3 DEF DropStale
    <3>2. [Call(t) EXCEPT !.existing = @ \ {x}, !.pc = "check"]
            = [Call(t) EXCEPT !.existing = @ \ {x}, !.warned = policyCall[t].warned,
                              !.pc = "check"]
      BY <1>2 DEF PolicyCallRow, Call
    <3> QED
      BY <2>1, <2>3, <3>1, <3>2 DEF Deletes, DropStale, Does
  <2>4. CASE DropFails(t)
    <3>1. PICK x \in Stale(t) :
            /\ policy' \in {policy, Less(x)}
            /\ Affects(t, [Call(t) EXCEPT !.existing = @ \ {x}, !.warned = TRUE,
                                         !.pc = IF Does(t, "drop") THEN "check" ELSE @])
      BY <2>4 DEF DropFails
    <3>2. CASE Does(t, "drop")
      BY <3>1, <3>2 DEF Does
    <3>3. CASE ~ Does(t, "drop")
      <4>1. Call(t).pc = "delete"
        BY <1>1, <3>3 DEF Does, Call
      <4>2. [Call(t) EXCEPT !.existing = @ \ {x}, !.warned = TRUE,
                            !.pc = IF Does(t, "drop") THEN "check" ELSE @]
              = [Call(t) EXCEPT !.existing = @ \ {x}, !.warned = TRUE, !.pc = "delete"]
        BY <1>2, <3>3, <4>1 DEF PolicyCallRow, Call
      <4> QED
        BY <3>1, <4>2
    <3> QED
      BY <3>2, <3>3
  <2> QED
    BY <2>2, <2>3, <2>4
<1>5. /\ cleared' \in BOOLEAN
      /\ cleared => cleared'
      /\ Call(t).own = 0 => cleared'
  <2>1. CASE DeleteOld(t) \/ DropFails(t)
    BY <2>1 DEF DeleteOld, DropFails
  <2>2. CASE DropStale(t)
    <3>1. cleared' = cleared /\ Call(t).own # 0
      BY <1>2, <2>2 DEF DropStale, Unmoved, Does, Fine, Call
    <3> QED
      BY <3>1 DEF PolicyInv, SharedPolicyTypeOK
  <2> QED
    BY <2>1, <2>2
<1>6. /\ policy' \in [PolicyIds -> PolicyRow] /\ Numbered(policy') /\ SafeStep
  <2>1. policyCall[t].pc \in Deleting
    BY <1>1 DEF Deleting
  <2> QED
    <3>1. policy' \in {policy, Less(x)}
      BY <1>4
    <3>2. cleared => cleared'
      BY <1>5
    <3>3. Call(t).own = 0 => cleared'
      BY <1>5
    <3> QED
      BY <2>1, <3>1, <3>2, <3>3, DropsOld
<1> DEFINE r == [Call(t) EXCEPT !.existing = @ \ {x}, !.warned = w, !.pc = pc]
<1>7. /\ r \in PolicyCallRow /\ r.pc = pc /\ r.own = Call(t).own
      /\ r.existing = Call(t).existing \ {x}
  BY <1>2 DEF PolicyCallRow, Call
<1>8. Affects(t, r)
  BY <1>4
<1> HIDE DEF r
<1>9. policy \in [PolicyIds -> PolicyRow]
  BY DEF PolicyInv, SharedPolicyTypeOK
<1>10. Fine(policyCall[t], policy', cleared')
  BY <1>2, <1>6, <1>9, Carry DEF SafeStep
<1>11. r \in CallRow /\ Fine(r, policy', cleared')
  BY <1>1, <1>4, <1>7, <1>10 DEF CallRow, Fine, Call, Undecided, Deleting
<1>12. PolicyInv'
  <2>1. cleared' \in BOOLEAN
    BY <1>5
  <2>2. UNCHANGED <<declared, covered, policyChanges>>
    BY <1>3
  <2>3. policyFaults' \in 0 .. MaxPolicyFaults
    BY <1>3
  <2> QED
    BY <1>6, <1>8, <1>11, <2>1, <2>2, <2>3, EffectStep
<1> QED
  BY <1>6, <1>12

-----------------------------------------------------------------------------
(* Theorems.                                                               *)

\* Every step of the code keeps the invariant and is safe.
LEMMA NextStep ==
  ASSUME PolicyInv, SharedPolicyNext
  PROVE  PolicyInv' /\ SafeStep
<1>1. CASE ChangeLedger \/ \E x \in PolicyIds : Activates(x) \/ Rejects(x)
  BY <1>1, OutsideSteps
<1>2. ASSUME NEW t \in PolicyThreads, Provision(t)
      PROVE  PolicyInv' /\ SafeStep
  BY <1>2, StartSteps, ObserveSteps, CompareSteps, WaitSteps, CreateSteps, DropSteps
     DEF Provision
<1>3. ASSUME NEW t \in PolicyThreads, Reclaim(t)
      PROVE  PolicyInv' /\ SafeStep
  BY <1>3, StartSteps, ReclaimSteps, DropSteps DEF Reclaim
<1>4. ASSUME NEW t \in PolicyThreads, DropFails(t) \/ Abandon(t)
      PROVE  PolicyInv' /\ SafeStep
  BY <1>4, DropSteps, WaitSteps
<1> QED
  BY <1>1, <1>2, <1>3, <1>4 DEF SharedPolicyNext

\* A stuttering step keeps it too.
LEMMA StutterStep ==
  ASSUME PolicyInv, UNCHANGED policyVars
  PROVE  PolicyInv' /\ SafeStep
BY Unchanging DEF PolicyInv, SharedPolicyTypeOK, policyVars

\* The inductive invariant holds for any tools, callers and bounds: whoever is
\* about to delete a revision leaves an ACTIVE one that is newer, unless some
\* call deletes all of them (provision, reclaim_stale_revisions).
THEOREM SharedPolicyInvariant == SharedPolicySpec => []PolicyInv
<1>1. SharedPolicyInit => PolicyInv
  BY InitInv
<1>2. PolicyInv /\ [SharedPolicyNext]_policyVars => PolicyInv'
  BY NextStep, StutterStep
<1> QED
  BY <1>1, <1>2, PTL DEF SharedPolicySpec

\* Policies, revision numbers and calls keep their shape, for any bounds.
THEOREM SharedPolicyTyped == SharedPolicySpec => []SharedPolicyTypeOK
<1>1. PolicyInv => SharedPolicyTypeOK
  BY DEF PolicyInv
<1> QED
  BY <1>1, SharedPolicyInvariant, PTL

\* However calls of provision and the reclaimer overlap, whatever fails and
\* whoever dies, replacing policies leaves the Gateway an ACTIVE one.
THEOREM NeverLeftBare == SharedPolicySpec => NeverBare
<1>1. ASSUME PolicyInv, [SharedPolicyNext]_policyVars
      PROVE  [Enforced # {} /\ ~ cleared' => Enforced' # {}]_policyVars
  <2>1. SafeStep
    BY <1>1, NextStep, StutterStep
  <2> SUFFICES ASSUME NEW x \in Enforced, ~ cleared', Enforced' = {}
               PROVE  FALSE
    OBVIOUS
  <2>2. x \in PolicyIds /\ policy[x].status = "active" /\ policy'[x].status # "active"
    BY DEF Enforced
  <2>3. PICK y \in PolicyIds : policy'[y].status = "active"
    BY <2>1, <2>2 DEF SafeStep, Safe
  <2> QED
    BY <2>3 DEF Enforced
<1> QED
  BY <1>1, SharedPolicyInvariant, PTL DEF SharedPolicySpec, NeverBare

-----------------------------------------------------------------------------
(* Calls that nobody crossed.                                              *)

On(p)      == {x \in PolicyIds : p[x].status \in {"creating", "active", "failed"}}
InForce(p) == {x \in PolicyIds : p[x].status = "active"}

\* No two listed policies have the same revision number.
Distinct(p) == \A x, y \in On(p) : p[x].rev = p[y].rev => x = y

\* A call that nobody crossed wants what the ledger asks, and knows which policies
\* there are: the ones it listed, and the revision it counts on.
Exact(r, p, w) ==
  r.pc # "idle" /\ r.alone =>
    /\ r.want = w
    /\ r.pc \in {"rules", "compare", "create"} => r.existing = On(p)
    /\ r.pc = "await" =>
         r.own \in On(p) /\ On(p) = r.existing \cup {r.own} /\ p[r.own].actions = w
    /\ r.pc = "delete" /\ r.own = 0 => w = {} /\ (r.warned \/ On(p) = r.existing)
    /\ r.pc = "delete" /\ r.own # 0 =>
         /\ r.own \in InForce(p) /\ p[r.own].actions = w
         /\ r.warned \/ On(p) = r.existing \cup {r.own}
    /\ r.pc = "done" =>
         /\ \A x \in On(p) : x \in InForce(p) /\ p[x].actions = w
         /\ w # {} => On(p) # {}

\* The steps of the reclaimer are not those of a call of provision.
Provisions(r) == r.pc \notin {"judge", "verify", "check", "drop"}

ExactCalls ==
  \A t \in PolicyCallers :
    Provisions(policyCall[t]) /\ Exact(policyCall[t], policy, declared \ covered)

ExactInv == PolicyInv /\ Distinct(policy) /\ ExactCalls

\* The policies that the code lists and enforces, and those of the invariant.
LEMMA OnIsListed == On(policy) = Listed /\ InForce(policy) = Enforced
BY DEF On, InForce, Listed, Enforced

\* The parts of a call that only goes on.
LEMMA TurnedRow ==
  ASSUME NEW c \in PolicyCallRow, NEW pc \in PolicyPcs
  PROVE  /\ [c EXCEPT !.pc = pc].pc = pc
         /\ [c EXCEPT !.pc = pc].want = c.want /\ [c EXCEPT !.pc = pc].own = c.own
         /\ [c EXCEPT !.pc = pc].existing = c.existing
         /\ [c EXCEPT !.pc = pc].warned = c.warned /\ [c EXCEPT !.pc = pc].alone = c.alone
BY DEF PolicyCallRow, PolicyPcs

\* A call goes on and leaves policies and ledger alone: the other calls stay exact.
LEMMA ExactMoves ==
  ASSUME ExactInv, UNCHANGED <<declared, covered, policy>>, NEW t \in PolicyThreads, NEW r,
         policyCall' = [policyCall EXCEPT ![t] = r],
         t \in PolicyCallers => Provisions(r) /\ Exact(r, policy, declared \ covered)
  PROVE  Distinct(policy') /\ ExactCalls'
<1>1. Distinct(policy')
  BY DEF ExactInv
<1>2. ASSUME NEW u \in PolicyCallers
      PROVE  Provisions(policyCall'[u]) /\ Exact(policyCall'[u], policy', declared' \ covered')
  <2>1. policyCall'[u] = IF u = t THEN r ELSE policyCall[u]
    BY DEF ExactInv, PolicyInv, SharedPolicyTypeOK, PolicyThreads
  <2>2. Provisions(policyCall'[u]) /\ Exact(policyCall'[u], policy, declared \ covered)
    BY <2>1 DEF ExactInv, ExactCalls
  <2>3. policy' = policy /\ declared' \ covered' = declared \ covered
    OBVIOUS
  <2> QED
    BY <2>2, <2>3
<1> QED
  BY <1>1, <1>2 DEF ExactCalls

\* A call returns.
LEMMA ExactReturns ==
  ASSUME ExactInv, UNCHANGED <<declared, covered, policy>>, NEW t \in PolicyThreads, Returns(t)
  PROVE  Distinct(policy') /\ ExactCalls'
<1>1. Provisions(NoCall) /\ Exact(NoCall, policy, declared \ covered)
  BY DEF NoCall, Provisions, Exact
<1> QED
  BY <1>1, ExactMoves DEF Returns

\* Who was crossed may promise nothing.
LEMMA CrossedIsExact ==
  ASSUME ExactInv, NEW u \in PolicyCallers, NEW p, NEW w
  PROVE  Provisions(Disturbed(u)) /\ Exact(Disturbed(u), p, w)
<1>1. u \in PolicyThreads /\ Provisions(policyCall[u])
  BY DEF PolicyThreads, ExactInv, ExactCalls
<1>2. CASE Does(u, "idle")
  BY <1>1, <1>2 DEF Disturbed, Does, Exact
<1>3. CASE ~ Does(u, "idle")
  <2>1. policyCall[u] \in PolicyCallRow
    BY <1>1, <1>3, RowOf DEF ExactInv
  <2>2. /\ [policyCall[u] EXCEPT !.alone = FALSE].alone = FALSE
        /\ [policyCall[u] EXCEPT !.alone = FALSE].pc = policyCall[u].pc
    BY <2>1 DEF PolicyCallRow
  <2> QED
    BY <1>1, <1>3, <2>2 DEF Disturbed, Provisions, Exact
<1> QED
  BY <1>2, <1>3

\* A call that changes the policies crosses all others.
LEMMA ExactCrosses ==
  ASSUME ExactInv, UNCHANGED <<declared, covered>>, NEW t \in PolicyThreads, NEW r,
         Affects(t, r),
         t \in PolicyCallers => Provisions(r) /\ Exact(r, policy', declared \ covered)
  PROVE  ExactCalls'
<1>1. ASSUME NEW u \in PolicyCallers
      PROVE  Provisions(policyCall'[u]) /\ Exact(policyCall'[u], policy', declared' \ covered')
  <2>1. policyCall'[u] = IF u = t THEN r ELSE Disturbed(u)
    BY DEF Affects, PolicyThreads
  <2>2. Provisions(Disturbed(u)) /\ Exact(Disturbed(u), policy', declared' \ covered')
    BY CrossedIsExact
  <2>3. declared' \ covered' = declared \ covered
    OBVIOUS
  <2>4. u = t => Provisions(r) /\ Exact(r, policy', declared' \ covered')
    BY <2>3
  <2> QED
    BY <2>1, <2>2, <2>4
<1> QED
  BY <1>1 DEF ExactCalls

\* A deletion takes one policy off the list, or none, and changes no other one.
LEMMA LessIs ==
  ASSUME ExactInv, NEW x \in PolicyIds, policy' \in {policy, Less(x)}
  PROVE  /\ \A y \in PolicyIds : policy'[y].rev = policy[y].rev
         /\ \A y \in PolicyIds \ {x} : policy'[y] = policy[y]
         /\ On(policy') \subseteq On(policy) /\ Distinct(policy')
         /\ policy' = Less(x) => On(policy') = On(policy) \ {x}
<1>1. policy \in [PolicyIds -> PolicyRow]
  BY DEF ExactInv, PolicyInv, SharedPolicyTypeOK
<1> DEFINE row == [policy[x] EXCEPT !.status = "gone", !.actions = {}]
<1>2. policy' = policy \/ policy' = [policy EXCEPT ![x] = row]
  BY <1>1 DEF Less
<1>0. row.rev = policy[x].rev /\ row.status = "gone"
  BY <1>1 DEF PolicyRow
<1> HIDE DEF row
<1>3. /\ \A y \in PolicyIds : policy'[y].rev = policy[y].rev
      /\ \A y \in PolicyIds \ {x} : policy'[y] = policy[y]
  BY <1>0, <1>1, <1>2
<1>4. On(policy') \subseteq On(policy)
  BY <1>0, <1>1, <1>2 DEF On
<1>5. Distinct(policy')
  BY <1>3, <1>4 DEF ExactInv, Distinct, On
<1>6. ASSUME policy' = Less(x) PROVE On(policy') = On(policy) \ {x}
  <2>1. CASE x \in Listed
    <3>1. policy'[x].status = "gone"
      BY <1>1, <1>6, <2>1 DEF Less, PolicyRow
    <3> QED
      BY <1>3, <3>1 DEF On
  <2>2. CASE x \notin Listed
    BY <1>6, <2>2, OnIsListed DEF Less
  <2> QED
    BY <2>1, <2>2
<1> QED
  BY <1>3, <1>4, <1>5, <1>6

\* A creation adds the policy that the call counts on, with a revision nobody listed has.
LEMMA CreatesIs ==
  ASSUME ExactInv, NEW t \in PolicyThreads, ~ NameTaken(t), NEW x \in PolicyIds, Creates(t, x)
  PROVE  /\ On(policy') = On(policy) \cup {x} /\ policy'[x].actions = Wanted(t)
         /\ Distinct(policy')
<1>1. policy \in [PolicyIds -> PolicyRow]
  BY DEF ExactInv, PolicyInv, SharedPolicyTypeOK
<1> DEFINE n == NextRevision(Call(t).existing)
<1>2. policy' = [policy EXCEPT ![x] = [rev |-> n, actions |-> Wanted(t), status |-> "creating"]]
  BY DEF Creates
<1>3. \A y \in On(policy) : policy[y].rev # n
  BY OnIsListed DEF NameTaken, RevisionOf
<1>4. policy[x].status = "unused"
  BY DEF Creates
<1> HIDE DEF n
<1>5. /\ policy'[x].rev = n /\ policy'[x].actions = Wanted(t) /\ policy'[x].status = "creating"
      /\ \A y \in PolicyIds \ {x} : policy'[y] = policy[y]
  BY <1>1, <1>2
<1>6. On(policy') = On(policy) \cup {x}
  BY <1>5 DEF On
<1>7. x \notin On(policy)
  BY <1>4 DEF On
<1>8. Distinct(policy')
  <2> SUFFICES ASSUME NEW y \in On(policy'), NEW z \in On(policy'),
                      policy'[y].rev = policy'[z].rev
               PROVE  y = z
    BY DEF Distinct
  <2>1. \A v \in On(policy) : policy'[v].rev = policy[v].rev
    BY <1>5, <1>7 DEF On
  <2>2. CASE y \in On(policy) /\ z \in On(policy)
    BY <2>1, <2>2 DEF ExactInv, Distinct
  <2>3. CASE y = x \/ z = x
    BY <1>3, <1>5, <1>6, <2>1, <2>3
  <2> QED
    BY <1>6, <2>2, <2>3
<1> QED
  BY <1>5, <1>6, <1>8

\* A call that succeeds leaves the revision it counts on, alone, or nothing.
LEMMA SucceedsExact ==
  ASSUME ExactInv, UNCHANGED <<declared, covered, policy>>, NEW t \in PolicyThreads,
         ~ Does(t, "idle"), Succeeds(t),
         t \in PolicyCallers /\ Call(t).alone /\ ~ Call(t).warned =>
           /\ \A x \in On(policy) : x \in InForce(policy) /\ policy[x].actions = Call(t).want
           /\ Call(t).want # {} => On(policy) # {}
  PROVE  Distinct(policy') /\ ExactCalls'
<1>1. CASE Returns(t)
  BY <1>1, ExactReturns
<1>2. CASE ~ Returns(t)
  <2> DEFINE r == [policyCall[t] EXCEPT !.pc = "done", !.rules = {}, !.existing = {},
                                        !.own = 0]
  <2>1. /\ policyCall' = [policyCall EXCEPT ![t] = r]
        /\ Call(t).alone /\ ~ Call(t).warned
    BY <1>2 DEF Succeeds
  <2>2. policyCall[t] \in PolicyCallRow
    BY RowOf DEF ExactInv
  <2>3. r.pc = "done" /\ r.want = policyCall[t].want /\ r.alone = policyCall[t].alone
    BY <2>2 DEF PolicyCallRow
  <2> HIDE DEF r
  <2>4. ASSUME t \in PolicyCallers PROVE Provisions(r) /\ Exact(r, policy, declared \ covered)
    <3>1. policyCall[t].pc # "idle" /\ policyCall[t].alone /\ policyCall[t].want = declared \ covered
      BY <2>1, <2>4 DEF Does, Call, ExactInv, ExactCalls, Exact
    <3> QED
      BY <2>1, <2>3, <2>4, <3>1 DEF Provisions, Exact, Call
  <2> QED
    BY <2>1, <2>4, ExactMoves
<1> QED
  BY <1>1, <1>2

\* A call that goes on and knows what its next step needs stays exact.
LEMMA TurnsExact ==
  ASSUME ExactInv, UNCHANGED <<declared, covered, policy>>, NEW t \in PolicyThreads,
         ~ Does(t, "idle"), NEW pc \in PolicyPcs, Turns(t, pc),
         t \in PolicyCallers =>
           Provisions([policyCall[t] EXCEPT !.pc = pc])
           /\ Exact([policyCall[t] EXCEPT !.pc = pc], policy, declared \ covered)
  PROVE  Distinct(policy') /\ ExactCalls'
<1>1. policyCall' = [policyCall EXCEPT ![t] = [policyCall[t] EXCEPT !.pc = pc]]
  BY DEF Turns
<1> QED
  BY <1>1, ExactMoves

\* A call begins, looks at the engine and lists the policies.
LEMMA ExactBegins ==
  ASSUME ExactInv, NEW t \in PolicyThreads, StartCall(t) \/ SeeEmpty(t) \/ ListOwned(t)
  PROVE  Distinct(policy') /\ ExactCalls'
<1>1. UNCHANGED <<declared, covered, policy>>
  BY DEF StartCall, SeeEmpty, ListOwned, Sees, Unmoved
<1>2. CASE StartCall(t)
  <2> DEFINE r == [pc |-> IF declared = {} THEN "empty" ELSE "list",
                   want |-> declared \ covered,
                   rules |-> IF declared \subseteq covered THEN covered ELSE {},
                   unlisted |-> FALSE, existing |-> {}, own |-> 0, warned |-> FALSE,
                   alone |-> TRUE]
  <2>1. policyCall' = [policyCall EXCEPT ![t] = r]
    BY <1>2 DEF StartCall
  <2>2. r.pc \in {"empty", "list"} /\ r.want = declared \ covered
    OBVIOUS
  <2> HIDE DEF r
  <2>3. Provisions(r) /\ Exact(r, policy, declared \ covered)
    BY <2>2 DEF Provisions, Exact
  <2> QED
    BY <1>1, <2>1, <2>3, ExactMoves
<1>3. ASSUME SeeEmpty(t), ~ Returns(t) PROVE Distinct(policy') /\ ExactCalls'
  <2> DEFINE r == [policyCall[t] EXCEPT !.pc = "list", !.unlisted = TRUE]
  <2>1. policyCall' = [policyCall EXCEPT ![t] = r] /\ policyCall[t].pc = "empty"
    BY <1>3 DEF SeeEmpty, Does
  <2>2. policyCall[t] \in PolicyCallRow
    BY <2>1, RowOf DEF ExactInv, Does
  <2>3. r.pc = "list" /\ r.want = policyCall[t].want /\ r.alone = policyCall[t].alone
    BY <2>2 DEF PolicyCallRow
  <2> HIDE DEF r
  <2>4. t \in PolicyCallers => Provisions(r) /\ Exact(r, policy, declared \ covered)
    BY <2>1, <2>3 DEF Provisions, Exact, ExactInv, ExactCalls
  <2> QED
    BY <1>1, <2>1, <2>4, ExactMoves
<1>4. ASSUME ListOwned(t), ~ Returns(t) PROVE Distinct(policy') /\ ExactCalls'
  <2> DEFINE pc == IF Wanted(t) = {} /\ ~ Call(t).unlisted THEN "rules" ELSE "compare"
             r == [policyCall[t] EXCEPT !.existing = Listed, !.pc = pc]
  <2>1. policyCall' = [policyCall EXCEPT ![t] = r] /\ policyCall[t].pc = "list"
    BY <1>4 DEF ListOwned, Does
  <2>2. policyCall[t] \in PolicyCallRow /\ pc \in {"rules", "compare"}
    BY <2>1, RowOf DEF ExactInv, Does
  <2> HIDE DEF pc
  <2>3. /\ r.pc = pc /\ r.want = policyCall[t].want /\ r.alone = policyCall[t].alone
        /\ r.existing = Listed
    BY <2>2 DEF PolicyCallRow
  <2> HIDE DEF r
  <2>4. t \in PolicyCallers => Provisions(r) /\ Exact(r, policy, declared \ covered)
    BY <2>1, <2>2, <2>3, OnIsListed DEF Provisions, Exact, ExactInv, ExactCalls
  <2> QED
    BY <1>1, <2>1, <2>4, ExactMoves
<1> QED
  BY <1>1, <1>2, <1>3, <1>4, ExactReturns DEF SeeEmpty, ListOwned

\* A call compares what it listed with what it wants, after another look at the rules.
LEMMA ExactCompares ==
  ASSUME ExactInv, NEW t \in PolicyThreads, CheckRules(t) \/ Compare(t) \/ CompareFails(t)
  PROVE  Distinct(policy') /\ ExactCalls'
<1>1. UNCHANGED <<declared, covered, policy>> /\ policyCall[t].pc \in {"rules", "compare"}
  BY DEF CheckRules, Compare, CompareFails, Sees, Unmoved, Does
<1>2. /\ policyCall[t] \in PolicyCallRow /\ Fine(policyCall[t], policy, cleared)
      /\ ~ Does(t, "idle")
  BY <1>1, RowOf DEF ExactInv, Does
<1>3. /\ policyCall[t].own = 0
      /\ policyCall[t].existing \in SUBSET PolicyIds
  BY <1>1, <1>2 DEF Fine, Undecided, PolicyCallRow
<1>4. t \in PolicyCallers /\ policyCall[t].alone =>
        policyCall[t].want = declared \ covered /\ policyCall[t].existing = On(policy)
  BY <1>1 DEF ExactInv, ExactCalls, Exact
<1>5. ASSUME NEW pc \in {"compare", "create"}, Turns(t, pc) PROVE Distinct(policy') /\ ExactCalls'
  <2> DEFINE r == [policyCall[t] EXCEPT !.pc = pc]
  <2>1. /\ r.pc = pc /\ r.want = policyCall[t].want /\ r.existing = policyCall[t].existing
        /\ r.alone = policyCall[t].alone /\ pc \in PolicyPcs
    BY <1>2, <1>5, TurnedRow DEF PolicyPcs
  <2>2. t \in PolicyCallers => Provisions(r) /\ Exact(r, policy, declared \ covered)
    <3> HIDE DEF r
    <3> QED
      BY <1>4, <1>5, <2>1 DEF Provisions, Exact
  <2> QED
    BY <1>1, <1>2, <1>5, <2>1, <2>2, TurnsExact
<1>6. CASE CheckRules(t)
  BY <1>1, <1>5, <1>6, ExactReturns DEF CheckRules
<1>7. CASE CompareFails(t)
  BY <1>5, <1>7 DEF CompareFails
<1>8. ASSUME Compare(t) PROVE Distinct(policy') /\ ExactCalls'
  <2>1. ASSUME Wanted(t) = {}, Call(t).existing = {}, Succeeds(t)
        PROVE  Distinct(policy') /\ ExactCalls'
    BY <1>1, <1>2, <1>4, <2>1, SucceedsExact DEF Call, Wanted
  <2>2. ASSUME Wanted(t) = {}, Turns(t, "delete")
        PROVE  Distinct(policy') /\ ExactCalls'
    <3> DEFINE r == [policyCall[t] EXCEPT !.pc = "delete"]
    <3>1. /\ r.pc = "delete" /\ r.want = policyCall[t].want
          /\ r.existing = policyCall[t].existing /\ r.own = policyCall[t].own
          /\ r.alone = policyCall[t].alone /\ "delete" \in PolicyPcs
      BY <1>2, TurnedRow DEF PolicyPcs
    <3>2. t \in PolicyCallers => Provisions(r) /\ Exact(r, policy, declared \ covered)
      <4> HIDE DEF r
      <4> QED
        BY <1>3, <1>4, <2>2, <3>1 DEF Provisions, Exact, Wanted, Call
    <3> QED
      BY <1>1, <1>2, <2>2, <3>1, <3>2, TurnsExact
  <2>3. ASSUME NEW x \in Call(t).existing, Call(t).existing = {x}, Says(t, x), x \in Enforced,
               Succeeds(t)
        PROVE  Distinct(policy') /\ ExactCalls'
    <3>1. t \in PolicyCallers /\ Call(t).alone => On(policy) = {x}
      BY <1>4, <2>3 DEF Call
    <3>2. x \in InForce(policy) /\ policy[x].actions = Call(t).want
      BY <2>3, OnIsListed DEF Says, Wanted
    <3> QED
      BY <1>1, <1>2, <2>3, <3>1, <3>2, SucceedsExact
  <2>4. ASSUME NEW x \in Call(t).existing, Says(t, x),
               policyCall' = [policyCall EXCEPT ![t].own = x, ![t].pc = "await"]
        PROVE  Distinct(policy') /\ ExactCalls'
    <3> DEFINE r == [policyCall[t] EXCEPT !.own = x, !.pc = "await"]
    <3>1. policyCall' = [policyCall EXCEPT ![t] = r]
      BY <2>4
    <3>2. /\ r.pc = "await" /\ r.want = policyCall[t].want /\ r.own = x
          /\ r.existing = policyCall[t].existing /\ r.alone = policyCall[t].alone
      BY <1>2 DEF PolicyCallRow
    <3> HIDE DEF r
    <3>3. t \in PolicyCallers => Provisions(r) /\ Exact(r, policy, declared \ covered)
      BY <1>4, <2>4, <3>2 DEF Provisions, Exact, Says, Wanted, Call
    <3> QED
      BY <1>1, <3>1, <3>3, ExactMoves
  <2> QED
    BY <1>5, <1>8, <2>1, <2>2, <2>3, <2>4 DEF Compare
<1> QED
  BY <1>6, <1>7, <1>8

\* A call creates the next revision, or finds its name taken, or does not learn its id.
LEMMA ExactCreates ==
  ASSUME ExactInv, NEW t \in PolicyThreads, CreatePolicy(t) \/ CreateFails(t)
  PROVE  Distinct(policy') /\ ExactCalls'
<1>1. UNCHANGED <<declared, covered>> /\ policyCall[t].pc = "create"
  BY DEF CreatePolicy, CreateFails, Unmoved, Does
<1>2. policyCall[t] \in PolicyCallRow
  BY <1>1, RowOf DEF ExactInv, Does
<1>3. ASSUME Returns(t), UNCHANGED policy PROVE Distinct(policy') /\ ExactCalls'
  BY <1>1, <1>3, ExactReturns
<1>4. ASSUME ~ NameTaken(t), NEW x \in PolicyIds, Creates(t, x),
             Affects(t, [Call(t) EXCEPT !.pc = "await", !.own = x])
      PROVE  Distinct(policy') /\ ExactCalls'
  <2> DEFINE r == [policyCall[t] EXCEPT !.pc = "await", !.own = x]
  <2>1. Affects(t, r)
    BY <1>4 DEF Call
  <2>2. /\ r.pc = "await" /\ r.want = policyCall[t].want /\ r.own = x
        /\ r.existing = policyCall[t].existing /\ r.alone = policyCall[t].alone
    BY <1>2 DEF PolicyCallRow
  <2> HIDE DEF r
  <2>3. /\ On(policy') = On(policy) \cup {x} /\ policy'[x].actions = policyCall[t].want
        /\ Distinct(policy') /\ x # 0
    BY <1>4, CreatesIs DEF Wanted, Call, PolicyIds
  <2>4. t \in PolicyCallers /\ policyCall[t].alone =>
          policyCall[t].want = declared \ covered /\ policyCall[t].existing = On(policy)
    BY <1>1 DEF ExactInv, ExactCalls, Exact
  <2>5. t \in PolicyCallers => Provisions(r) /\ Exact(r, policy', declared \ covered)
    BY <2>2, <2>3, <2>4 DEF Provisions, Exact
  <2> QED
    BY <1>1, <2>1, <2>3, <2>5, ExactCrosses
<1>5. ASSUME ~ NameTaken(t), NEW x \in PolicyIds, Creates(t, x), Affects(t, NoCall)
      PROVE  Distinct(policy') /\ ExactCalls'
  <2>1. Provisions(NoCall) /\ Exact(NoCall, policy', declared \ covered)
    BY DEF NoCall, Provisions, Exact
  <2> QED
    BY <1>1, <1>5, <2>1, CreatesIs, ExactCrosses
<1> QED
  BY <1>3, <1>4, <1>5 DEF CreatePolicy, CreateFails

\* A call waits for its revision, and ends when nothing is left to delete.
LEMMA ExactWaits ==
  ASSUME ExactInv, NEW t \in PolicyThreads, WaitActive(t) \/ EndProvision(t)
  PROVE  Distinct(policy') /\ ExactCalls'
<1>1. UNCHANGED <<declared, covered, policy>> /\ policyCall[t].pc \in {"await", "delete"}
  BY DEF WaitActive, EndProvision, Sees, Unmoved, Does
<1>2. policyCall[t] \in PolicyCallRow /\ ~ Does(t, "idle")
  BY <1>1, RowOf DEF ExactInv, Does
<1>3. t \in PolicyCallers /\ policyCall[t].alone =>
        Exact(policyCall[t], policy, declared \ covered) /\ policyCall[t].want = declared \ covered
  BY <1>1 DEF ExactInv, ExactCalls, Exact
<1>4. ASSUME WaitActive(t), ~ Returns(t) PROVE Distinct(policy') /\ ExactCalls'
  <2> DEFINE r == [policyCall[t] EXCEPT !.pc = "delete"]
  <2>1. /\ Turns(t, "delete") /\ policyCall[t].pc = "await" /\ policyCall[t].own \in InForce(policy)
    BY <1>4, OnIsListed DEF WaitActive, Does, Call
  <2>2. /\ r.pc = "delete" /\ r.want = policyCall[t].want /\ r.own = policyCall[t].own
        /\ r.existing = policyCall[t].existing /\ r.alone = policyCall[t].alone
        /\ "delete" \in PolicyPcs
    BY <1>2, TurnedRow DEF PolicyPcs
  <2>3. policyCall[t].own # 0
    BY <2>1 DEF InForce, PolicyIds
  <2>4. t \in PolicyCallers => Provisions(r) /\ Exact(r, policy, declared \ covered)
    <3> HIDE DEF r
    <3> QED
      BY <1>3, <2>1, <2>2, <2>3 DEF Provisions, Exact
  <2> QED
    BY <1>1, <1>2, <2>1, <2>2, <2>4, TurnsExact
<1>5. ASSUME EndProvision(t) PROVE Distinct(policy') /\ ExactCalls'
  <2>1. Succeeds(t) /\ Stale(t) = {} /\ policyCall[t].pc = "delete"
    BY <1>5 DEF EndProvision, Does
  <2>2. ASSUME t \in PolicyCallers, Call(t).alone, ~ Call(t).warned
        PROVE  /\ \A x \in On(policy) : x \in InForce(policy) /\ policy[x].actions = Call(t).want
               /\ Call(t).want # {} => On(policy) # {}
    <3>1. CASE Call(t).own = 0
      <4>1. Call(t).existing = {}
        BY <2>1, <3>1 DEF Stale
      <4> QED
        BY <1>3, <2>1, <2>2, <3>1, <4>1 DEF Exact, Call
    <3>2. CASE Call(t).own # 0
      <4>1. /\ Call(t).own \in InForce(policy) /\ policy[Call(t).own].actions = Call(t).want
            /\ On(policy) = Call(t).existing \cup {Call(t).own}
        BY <1>3, <2>1, <2>2, <3>2 DEF Exact, Call
      <4>2. \A y \in Call(t).existing : policy[y].rev = policy[Call(t).own].rev
        BY <2>1, <3>2 DEF Stale, RevisionOf
      <4>3. \A y \in On(policy) : y = Call(t).own
        BY <4>1, <4>2 DEF ExactInv, Distinct
      <4> QED
        BY <4>1, <4>3
    <3> QED
      BY <3>1, <3>2
  <2> QED
    BY <1>1, <1>2, <2>1, <2>2, SucceedsExact
<1> QED
  BY <1>1, <1>4, <1>5, ExactReturns

\* A call deletes an older revision, or all, and notes when that may not have worked.
LEMMA ExactDeletes ==
  ASSUME ExactInv, NEW t \in PolicyThreads, DeleteOld(t) \/ DropFails(t)
  PROVE  Distinct(policy') /\ ExactCalls'
<1>1. UNCHANGED <<declared, covered>> /\ policyCall[t].pc \in {"delete", "drop"}
  BY DEF DeleteOld, DropFails, Does
<1>2. policyCall[t] \in PolicyCallRow
  BY <1>1, RowOf DEF ExactInv, Does
<1>3. t \in PolicyCallers => policyCall[t].pc = "delete"
  BY <1>1 DEF ExactInv, ExactCalls, Provisions
<1>4. t \in PolicyCallers /\ policyCall[t].alone =>
        Exact(policyCall[t], policy, declared \ covered) /\ policyCall[t].want = declared \ covered
  BY <1>1 DEF ExactInv, ExactCalls, Exact
<1>5. ASSUME NEW x \in Stale(t), policy' \in {policy, Less(x)}, NEW r,
             r.pc = "delete", r.want = policyCall[t].want, r.own = policyCall[t].own,
             r.existing = policyCall[t].existing \ {x}, r.alone = policyCall[t].alone,
             r.warned = TRUE \/ (policy' = Less(x) /\ r.warned = policyCall[t].warned),
             t \in PolicyCallers
      PROVE  Exact(r, policy', declared \ covered)
  <2>1. x \in PolicyIds /\ x \in policyCall[t].existing
    BY <1>2, <1>5 DEF Stale, Call, PolicyCallRow
  <2>2. /\ \A y \in PolicyIds \ {x} : policy'[y] = policy[y]
        /\ policy' = Less(x) => On(policy') = On(policy) \ {x}
    BY <1>5, <2>1, LessIs
  <2>3. policyCall[t].own # 0 => x # policyCall[t].own
    BY <1>5 DEF Stale, Call
  <2>4. CASE policyCall[t].own = 0
    BY <1>3, <1>4, <1>5, <2>2, <2>4 DEF Exact
  <2>5. CASE policyCall[t].own # 0
    <3>1. policyCall[t].own \in InForce(policy) /\ policyCall[t].alone =>
            policyCall[t].own \in InForce(policy')
            /\ policy'[policyCall[t].own].actions = policy[policyCall[t].own].actions
      BY <2>2, <2>3, <2>5 DEF InForce
    <3> QED
      BY <1>3, <1>4, <1>5, <2>2, <2>3, <2>5, <3>1 DEF Exact
  <2> QED
    BY <2>4, <2>5
<1>6. CASE DeleteOld(t)
  <2>1. PICK x \in Stale(t) : Deletes(t, x, "delete")
    BY <1>6 DEF DeleteOld
  <2> DEFINE r == [policyCall[t] EXCEPT !.existing = @ \ {x}, !.pc = "delete"]
  <2>2. Affects(t, r) /\ policy' = Less(x) /\ x \in PolicyIds
    BY <1>2, <2>1 DEF Deletes, Call, Stale, PolicyCallRow
  <2>3. /\ r.pc = "delete" /\ r.want = policyCall[t].want /\ r.own = policyCall[t].own
        /\ r.existing = policyCall[t].existing \ {x} /\ r.alone = policyCall[t].alone
        /\ r.warned = policyCall[t].warned
    BY <1>2 DEF PolicyCallRow
  <2> HIDE DEF r
  <2>4. t \in PolicyCallers => Provisions(r) /\ Exact(r, policy', declared \ covered)
    BY <1>5, <2>1, <2>2, <2>3 DEF Provisions
  <2> QED
    BY <1>1, <2>2, <2>4, LessIs, ExactCrosses
<1>7. CASE DropFails(t)
  <2>1. PICK x \in Stale(t) :
          /\ policy' \in {policy, Less(x)}
          /\ Affects(t, [policyCall[t] EXCEPT !.existing = @ \ {x}, !.warned = TRUE,
                                    !.pc = IF Does(t, "drop") THEN "check" ELSE @])
    BY <1>7 DEF DropFails, Call
  <2> DEFINE r == [policyCall[t] EXCEPT !.existing = @ \ {x}, !.warned = TRUE,
                                    !.pc = IF Does(t, "drop") THEN "check" ELSE @]
  <2>2. Affects(t, r) /\ x \in PolicyIds
    BY <1>2, <2>1 DEF Call, Stale, PolicyCallRow
  <2>3. /\ r.want = policyCall[t].want /\ r.own = policyCall[t].own
        /\ r.existing = policyCall[t].existing \ {x} /\ r.alone = policyCall[t].alone
        /\ r.warned = TRUE /\ (policyCall[t].pc = "delete" => r.pc = "delete")
    BY <1>2 DEF PolicyCallRow, Does
  <2> HIDE DEF r
  <2>4. t \in PolicyCallers => Provisions(r) /\ Exact(r, policy', declared \ covered)
    BY <1>3, <1>5, <2>1, <2>3 DEF Provisions
  <2> QED
    BY <1>1, <2>1, <2>2, <2>4, LessIs, ExactCrosses
<1> QED
  BY <1>6, <1>7

\* The reclaimer is not a call of provision: it only crosses them when it deletes.
LEMMA ExactReclaims ==
  ASSUME ExactInv, NEW t \in PolicyThreads, Reclaim(t)
  PROVE  Distinct(policy') /\ ExactCalls'
<1>1. UNCHANGED <<declared, covered>> /\ t \notin PolicyCallers
  BY SharedPolicyAssumption
     DEF Reclaim, ReclaimList, Judge, Verify, CheckSurvivor, DropStale, Sees, Unmoved,
         ExactInv, ExactCalls, Provisions, Does
<1>2. CASE DropStale(t)
  <2>1. policyCall[t] \in PolicyCallRow
    BY <1>2, RowOf DEF ExactInv, Does, DropStale
  <2>2. PICK x \in Stale(t) : Deletes(t, x, "check")
    BY <1>2 DEF DropStale
  <2>3. x \in PolicyIds
    BY <2>1, <2>2 DEF Stale, Call, PolicyCallRow
  <2>4. policy' = Less(x) /\ \E r : Affects(t, r)
    BY <2>2 DEF Deletes
  <2> QED
    BY <1>1, <2>3, <2>4, LessIs, ExactCrosses
<1>3. CASE ~ DropStale(t)
  <2>1. UNCHANGED policy /\ \E r : policyCall' = [policyCall EXCEPT ![t] = r]
    BY <1>3 DEF Reclaim, ReclaimList, Judge, Verify, CheckSurvivor, Sees, Turns, Returns
  <2> QED
    BY <1>1, <2>1, ExactMoves
<1> QED
  BY <1>2, <1>3

\* A change of the ledger crosses every call; the end of a validation takes nothing out of
\* force that was in force, and leaves the list as it is.
LEMMA ExactOutside ==
  ASSUME ExactInv, ChangeLedger \/ \E x \in PolicyIds : Activates(x) \/ Rejects(x)
  PROVE  Distinct(policy') /\ ExactCalls'
<1>1. CASE ChangeLedger
  <2>1. policy' = policy /\ \A u \in PolicyCallers : policyCall'[u] = Disturbed(u)
    BY <1>1 DEF ChangeLedger, PolicyThreads
  <2>2. ASSUME NEW u \in PolicyCallers
        PROVE  Provisions(policyCall'[u]) /\ Exact(policyCall'[u], policy', declared' \ covered')
    BY <2>1, CrossedIsExact
  <2> QED
    BY <2>1, <2>2 DEF ExactInv, ExactCalls
<1>2. ASSUME NEW x \in PolicyIds, Activates(x) \/ Rejects(x)
      PROVE  Distinct(policy') /\ ExactCalls'
  <2>1. policy \in [PolicyIds -> PolicyRow]
    BY DEF ExactInv, PolicyInv, SharedPolicyTypeOK
  <2>2. /\ UNCHANGED <<declared, covered, policyCall>> /\ policy[x].status = "creating"
        /\ \A y \in PolicyIds \ {x} : policy'[y] = policy[y]
        /\ policy'[x].rev = policy[x].rev /\ policy'[x].actions = policy[x].actions
        /\ policy'[x].status \in {"active", "failed"}
    BY <1>2, <2>1 DEF Activates, Rejects, PolicyRow
  <2>3. On(policy') = On(policy) /\ InForce(policy) \subseteq InForce(policy')
    BY <2>2 DEF On, InForce
  <2>4. \A y \in PolicyIds : policy'[y].rev = policy[y].rev /\ policy'[y].actions = policy[y].actions
    BY <2>2
  <2>5. Distinct(policy')
    BY <2>3, <2>4 DEF ExactInv, Distinct, On
  <2>6. ASSUME NEW u \in PolicyCallers
        PROVE  Provisions(policyCall'[u]) /\ Exact(policyCall'[u], policy', declared' \ covered')
    <3>1. Provisions(policyCall[u]) /\ Exact(policyCall[u], policy, declared \ covered)
      BY DEF ExactInv, ExactCalls
    <3>2. On(policy) \subseteq PolicyIds /\ InForce(policy) \subseteq PolicyIds
      BY DEF On, InForce
    <3>3. Exact(policyCall[u], policy', declared \ covered)
      BY <2>3, <2>4, <3>1, <3>2 DEF Exact
    <3>4. policyCall'[u] = policyCall[u] /\ declared' \ covered' = declared \ covered
      BY <2>2
    <3> QED
      BY <3>1, <3>3, <3>4
  <2> QED
    BY <2>5, <2>6 DEF ExactCalls
<1> QED
  BY <1>1, <1>2

\* Calls that nobody crossed know what they do, for any tools, callers and bounds.
THEOREM ExactInvariant == SharedPolicySpec => []ExactInv
<1>1. SharedPolicyInit => ExactInv
  <2> SUFFICES ASSUME SharedPolicyInit PROVE ExactInv
    OBVIOUS
  <2>1. \A t \in PolicyCallers : policyCall[t].pc = "idle"
    BY DEF SharedPolicyInit, NoCall, PolicyThreads
  <2>2. On(policy) = {}
    BY DEF SharedPolicyInit, On
  <2> QED
    BY <2>1, <2>2, InitInv DEF ExactInv, Distinct, ExactCalls, Provisions, Exact
<1>2. ExactInv /\ [SharedPolicyNext]_policyVars => ExactInv'
  <2> SUFFICES ASSUME ExactInv, [SharedPolicyNext]_policyVars PROVE Distinct(policy') /\ ExactCalls'
    BY NextStep, StutterStep DEF ExactInv
  <2>1. ASSUME NEW t \in PolicyThreads, Provision(t) PROVE Distinct(policy') /\ ExactCalls'
    BY <2>1, ExactBegins, ExactCompares, ExactCreates, ExactWaits, ExactDeletes DEF Provision
  <2>2. ASSUME NEW t \in PolicyThreads, Abandon(t) PROVE Distinct(policy') /\ ExactCalls'
    BY <2>2, ExactReturns DEF Abandon, Unmoved
  <2>3. CASE UNCHANGED policyVars
    BY <2>3 DEF policyVars, ExactInv, ExactCalls
  <2> QED
    BY <2>1, <2>2, <2>3, ExactDeletes, ExactReclaims, ExactOutside DEF SharedPolicyNext
<1> QED
  BY <1>1, <1>2, PTL DEF SharedPolicySpec

\* What a call leaves in force that reports success, and that no other call and no change
\* of the ledger crossed, is what the ledger asks, and nothing wider (SuccessIsExact).
THEOREM SuccessLeavesExact == SharedPolicySpec => []SuccessIsExact
<1>1. ExactInv => SuccessIsExact
  <2> SUFFICES ASSUME ExactInv, NEW t \in PolicyCallers, Does(t, "done"), Call(t).alone
               PROVE  /\ Wanted(t) = declared \ covered
                      /\ \A x \in Enforced : policy[x].actions = Wanted(t)
                      /\ Wanted(t) # {} => Enforced # {}
    BY DEF SuccessIsExact
  <2>1. /\ Call(t).want = declared \ covered
        /\ \A x \in On(policy) : x \in InForce(policy) /\ policy[x].actions = declared \ covered
        /\ declared \ covered # {} => On(policy) # {}
    BY DEF ExactInv, ExactCalls, Exact, Does, Call
  <2>2. Enforced \subseteq On(policy)
    BY DEF Enforced, On
  <2> QED
    BY <2>1, <2>2, OnIsListed DEF Wanted
<1> QED
  BY <1>1, ExactInvariant, PTL
=============================================================================
