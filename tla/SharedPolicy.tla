---------------------------- MODULE SharedPolicy ----------------------------
(***************************************************************************)
(* The shared Cedar policy of a Gateway (shared_policy_provisioner.py):    *)
(* provision replaces one revision by the next without a lock, called by   *)
(* admins and deployments; reclaim_stale_revisions deletes what a call     *)
(* that ran out of time left behind.  Cedar permits the union of all       *)
(* ACTIVE revisions.                                                       *)
(***************************************************************************)
EXTENDS Naturals, FiniteSets

CONSTANTS
  PolicyActions,      \* tools a policy may permit
  PolicyCallers,      \* threads that run provision
  MaxPolicies,        \* bound on the policies ever created
  MaxPolicyChanges,   \* bound on changes of the identity ledger
  MaxPolicyFaults     \* bound on failing calls and dying threads

ASSUME SharedPolicyAssumption ==
  /\ "reclaimer" \notin PolicyCallers
  /\ MaxPolicies \in Nat /\ MaxPolicyChanges \in Nat /\ MaxPolicyFaults \in Nat

VARIABLES
  declared,       \* actions the tool bindings declare
  covered,        \* actions a live domain rule covers
  policy,         \* every policy of the Gateway, by id
  policyCall,     \* what each thread and the reclaimer are doing
  cleared,        \* ghost: some call began to delete every revision
  policyChanges,
  policyFaults

policyVars ==
  <<declared, covered, policy, policyCall, cleared, policyChanges, policyFaults>>

PolicyIds == 1 .. MaxPolicies
PolicyThreads == PolicyCallers \cup {"reclaimer"}

\* Ids are never used again, revision numbers are.
PolicyRow ==
  [rev : 0 .. MaxPolicies, actions : SUBSET PolicyActions,
   status : {"unused", "creating", "active", "failed", "gone"}]

\* A call in progress or returned: the statement it wants, the domain rules that
\* leave it none, the policies it listed and the revision it counts on.
PolicyCallRow ==
  [pc : {"empty", "list", "rules", "compare", "create", "await", "delete", "done",
         "judge", "verify", "check", "drop"},
   want : SUBSET PolicyActions, rules : SUBSET PolicyActions, unlisted : BOOLEAN,
   existing : SUBSET PolicyIds, own : 0 .. MaxPolicies,
   warned : BOOLEAN, alone : BOOLEAN]

Listed == {x \in PolicyIds : policy[x].status \in {"creating", "active", "failed"}}
Enforced == {x \in PolicyIds : policy[x].status = "active"}

RevisionOf(x) == policy[x].rev

\* The newest of a set of listed policies.
IsTop(x, listed) == x \in listed /\ \A y \in listed : RevisionOf(y) <= RevisionOf(x)

NextRevision(listed) ==
  CHOOSE n \in 1 .. MaxPolicies + 1 :
    /\ \A y \in listed : RevisionOf(y) < n
    /\ n = 1 \/ \E y \in listed : RevisionOf(y) = n - 1

NoCall == [pc |-> "idle"]

SharedPolicyInit ==
  /\ declared \in SUBSET PolicyActions /\ covered = {}
  /\ policy = [x \in PolicyIds |-> [rev |-> 0, actions |-> {}, status |-> "unused"]]
  /\ policyCall = [t \in PolicyThreads |-> NoCall]
  /\ cleared = FALSE /\ policyChanges = 0 /\ policyFaults = 0

----------------------------------------------------------------------------
Does(t, pc) == policyCall[t].pc = pc
Call(t) == policyCall[t]

\* What the ledger of the call asks the policy to permit.
Wanted(t) == Call(t).want

\* The thread moves on, or its call ends.
Turns(t, pc) == policyCall' = [policyCall EXCEPT ![t].pc = pc]
Returns(t) == policyCall' = [policyCall EXCEPT ![t] = NoCall]

\* The same, with an effect that other calls in progress did not see.
Disturbed(u) ==
  IF Does(u, "idle") THEN policyCall[u] ELSE [policyCall[u] EXCEPT !.alone = FALSE]

Affects(t, call) ==
  policyCall' = [u \in PolicyThreads |-> IF u = t THEN call ELSE Disturbed(u)]

PolicyFault == policyFaults < MaxPolicyFaults /\ policyFaults' = policyFaults + 1

\* The bindings or the domain rules change.
ChangeLedger ==
  /\ policyChanges < MaxPolicyChanges /\ policyChanges' = policyChanges + 1
  /\ \/ declared' \in SUBSET PolicyActions \ {declared} /\ UNCHANGED covered
     \/ covered' \in SUBSET PolicyActions \ {covered} /\ UNCHANGED declared
  /\ policyCall' = [u \in PolicyThreads |-> Disturbed(u)]
  /\ UNCHANGED <<policy, cleared, policyFaults>>

\* AWS ends the asynchronous validation of a policy.
Activates(x) ==
  /\ policy[x].status = "creating"
  /\ policy' = [policy EXCEPT ![x].status = "active"]
  /\ UNCHANGED <<declared, covered, policyCall, cleared, policyChanges, policyFaults>>

Rejects(x) ==
  /\ policy[x].status = "creating" /\ PolicyFault
  /\ policy' = [policy EXCEPT ![x].status = "failed"]
  /\ UNCHANGED <<declared, covered, policyCall, cleared, policyChanges>>

----------------------------------------------------------------------------
Unmoved == UNCHANGED <<declared, covered, cleared, policyChanges>>
Sees == Unmoved /\ UNCHANGED <<policy, policyFaults>>

\* observe_policy_ledger.  Without any binding the compiler refuses, unless the
\* engine is found empty.
StartCall(t) ==
  /\ t \in PolicyCallers /\ (Does(t, "idle") \/ Does(t, "done"))
  /\ declared # {} \/ covered = {}
  /\ policyCall' = [policyCall EXCEPT ![t] =
       [pc |-> IF declared = {} THEN "empty" ELSE "list",
        want |-> declared \ covered,
        rules |-> IF declared \subseteq covered THEN covered ELSE {}, unlisted |-> FALSE,
        existing |-> {}, own |-> 0, warned |-> FALSE, alone |-> TRUE]]
  /\ Sees

SeeEmpty(t) ==
  /\ Does(t, "empty") /\ Sees
  /\ IF Listed = {}
       THEN policyCall' = [policyCall EXCEPT ![t].pc = "list", ![t].unlisted = TRUE]
       ELSE Returns(t)

\* _owned_policies: a call that counted on an empty engine backs off.
ListOwned(t) ==
  /\ Does(t, "list") /\ Sees
  /\ IF Call(t).unlisted /\ Listed # {}
       THEN Returns(t)
       ELSE policyCall' = [policyCall EXCEPT ![t].existing = Listed,
              ![t].pc = IF Wanted(t) = {} /\ ~ Call(t).unlisted THEN "rules" ELSE "compare"]

\* _observe_domain_rule_policies: the rules that leave nothing to permit live.
CheckRules(t) ==
  /\ Does(t, "rules") /\ Sees
  /\ IF Call(t).rules \subseteq covered THEN Turns(t, "compare") ELSE Returns(t)

\* Mutant of Says: policies are counted, not compared.
SaysAnything(t, x) == x \in Listed

\* The live statement is the wanted one.
Says(t, x) == x \in Listed /\ policy[x].actions = Wanted(t)

\* Success is reported without a warning only.
Succeeds(t) ==
  IF Call(t).warned \/ ~ Call(t).alone
    THEN Returns(t)
    ELSE policyCall' = [policyCall EXCEPT ![t] =
           [@ EXCEPT !.pc = "done", !.rules = {}, !.existing = {}, !.own = 0]]

\* _already_current, then _latest_resumable_revision.
Compare(t) ==
  LET existing == Call(t).existing
      current(x) == existing = {x} /\ Says(t, x) /\ x \in Enforced
      resumed(x) == IsTop(x, existing) /\ Says(t, x) /\ policy[x].status # "failed"
  IN
  /\ Does(t, "compare") /\ Sees
  /\ \/ Wanted(t) = {} /\ existing = {} /\ Succeeds(t)
     \/ Wanted(t) = {} /\ existing # {} /\ Turns(t, "delete")
     \/ /\ Wanted(t) # {} /\ \E x \in existing : current(x)
        /\ Succeeds(t)
     \/ \E x \in existing :
          /\ Wanted(t) # {} /\ resumed(x) /\ ~ current(x)
          /\ policyCall' = [policyCall EXCEPT ![t].own = x, ![t].pc = "await"]
     \/ /\ Wanted(t) # {} /\ \A x \in existing : ~ resumed(x)
        /\ Turns(t, "create")

\* get_policy raises: what is not seen is taken to differ.
CompareFails(t) ==
  /\ Does(t, "compare") /\ Wanted(t) # {} /\ Call(t).existing # {} /\ PolicyFault
  /\ Turns(t, "create")
  /\ Unmoved /\ UNCHANGED policy

\* A policy with the name of the revision is there already.
NameTaken(t) == \E x \in Listed : RevisionOf(x) = NextRevision(Call(t).existing)

\* The next unused id gets the revision and the statement of the call.
Creates(t, x) ==
  /\ policy[x].status = "unused" /\ \A y \in 1 .. x - 1 : policy[y].status # "unused"
  /\ policy' = [policy EXCEPT ![x] =
       [rev |-> NextRevision(Call(t).existing), actions |-> Wanted(t), status |-> "creating"]]

CreatePolicy(t) ==
  /\ Does(t, "create")
  /\ \/ NameTaken(t) /\ Returns(t) /\ UNCHANGED policy
     \/ /\ ~ NameTaken(t)
        /\ \E x \in PolicyIds :
             Creates(t, x) /\ Affects(t, [Call(t) EXCEPT !.pc = "await", !.own = x])
  /\ Unmoved /\ UNCHANGED policyFaults

\* create_policy raises after it took effect: nobody knows the new id.
CreateFails(t) ==
  /\ Does(t, "create") /\ ~ NameTaken(t) /\ PolicyFault
  /\ \E x \in PolicyIds : Creates(t, x)
  /\ Affects(t, NoCall)
  /\ Unmoved

\* _wait_active.  It may give up early, find a failure, or find nothing.
WaitActive(t) ==
  /\ Does(t, "await") /\ Sees
  /\ \/ Call(t).own \in Enforced /\ Turns(t, "delete")
     \/ Call(t).own \notin Enforced /\ Returns(t)

\* What is left to delete: the listed policies of other revisions.
Stale(t) ==
  {x \in Call(t).existing :
     Call(t).own = 0 \/ RevisionOf(x) # RevisionOf(Call(t).own)}

\* The policies without x, which somebody else may have deleted before.
Less(x) ==
  IF x \in Listed THEN [policy EXCEPT ![x].status = "gone", ![x].actions = {}]
                  ELSE policy

Deletes(t, x, pc) ==
  /\ policy' = Less(x)
  /\ Affects(t, [Call(t) EXCEPT !.existing = @ \ {x}, !.pc = pc])

DeleteOld(t) ==
  /\ Does(t, "delete")
  /\ \E x \in Stale(t) : Deletes(t, x, "delete")
  /\ cleared' = (cleared \/ Call(t).own = 0)
  /\ UNCHANGED <<declared, covered, policyChanges, policyFaults>>

\* A deletion that raises, or whose effect is not seen, is a warning.
DropFails(t) ==
  /\ Does(t, "delete") \/ Does(t, "drop")
  /\ PolicyFault
  /\ \E x \in Stale(t) :
       /\ policy' \in {policy, Less(x)}
       /\ Affects(t, [Call(t) EXCEPT !.existing = @ \ {x}, !.warned = TRUE,
                                    !.pc = IF Does(t, "drop") THEN "check" ELSE @])
  /\ cleared' = (cleared \/ Call(t).own = 0)
  /\ UNCHANGED <<declared, covered, policyChanges>>

EndProvision(t) == Does(t, "delete") /\ Stale(t) = {} /\ Succeeds(t) /\ Sees

\* A call raises, or its process dies.
Abandon(t) ==
  /\ ~ Does(t, "idle") /\ ~ Does(t, "done") /\ PolicyFault /\ Returns(t)
  /\ Unmoved /\ UNCHANGED policy

Provision(t) ==
  \/ StartCall(t) \/ SeeEmpty(t) \/ ListOwned(t) \/ CheckRules(t)
  \/ Compare(t) \/ CompareFails(t) \/ CreatePolicy(t) \/ CreateFails(t)
  \/ WaitActive(t) \/ DeleteOld(t) \/ EndProvision(t)

----------------------------------------------------------------------------
\* Mutant of Reclaimable: one stale revision is let live.
ReclaimableLater == Cardinality(Listed) > 2

Reclaimable == Cardinality(Listed) > 1

\* reclaim_precheck, then reclaim_stale_revisions.
ReclaimList(t) ==
  /\ t = "reclaimer" /\ Does(t, "idle") /\ Reclaimable
  /\ policyCall' = [policyCall EXCEPT ![t] =
       [pc |-> "judge", want |-> {}, rules |-> {}, unlisted |-> FALSE,
        existing |-> Listed, own |-> 0, warned |-> FALSE, alone |-> TRUE]]
  /\ Sees

\* The ledger must ask for a policy at all.
Judge(t) ==
  /\ Does(t, "judge") /\ Sees
  /\ IF declared \ covered = {}
       THEN Returns(t)
       ELSE policyCall' = [policyCall EXCEPT ![t].want = declared \ covered,
                                             ![t].pc = "verify"]

\* Mutant of Survives: the newest revision need not be ACTIVE.
SurvivesListed(t, x) == IsTop(x, Call(t).existing) /\ Says(t, x)

\* The newest revision is ACTIVE and says what the ledger asks.
Survives(t, x) == x \in Enforced /\ IsTop(x, Call(t).existing) /\ Says(t, x)

Verify(t) ==
  /\ Does(t, "verify") /\ Sees
  /\ \/ \E x \in PolicyIds :
          /\ Survives(t, x)
          /\ policyCall' = [policyCall EXCEPT ![t].own = x, ![t].pc = "check"]
     \/ (\A x \in PolicyIds : ~ Survives(t, x)) /\ Returns(t)

\* _survivor_missing, before every deletion.
CheckSurvivor(t) ==
  /\ Does(t, "check") /\ Sees
  /\ IF Stale(t) # {} /\ Call(t).own \in Listed THEN Turns(t, "drop") ELSE Returns(t)

DropStale(t) ==
  /\ Does(t, "drop")
  /\ \E x \in Stale(t) : Deletes(t, x, "check")
  /\ Unmoved /\ UNCHANGED policyFaults

Reclaim(t) ==
  ReclaimList(t) \/ Judge(t) \/ Verify(t) \/ CheckSurvivor(t) \/ DropStale(t)

SharedPolicyNext ==
  \/ ChangeLedger
  \/ \E x \in PolicyIds : Activates(x) \/ Rejects(x)
  \/ \E t \in PolicyThreads : Provision(t) \/ Reclaim(t) \/ DropFails(t) \/ Abandon(t)

SharedPolicySpec == SharedPolicyInit /\ [][SharedPolicyNext]_policyVars

\* The reclaimer's loop never ends (shared_policy_reclaimer.py), and AWS ends
\* a validation.
SharedPolicyFairness ==
  /\ WF_policyVars(Reclaim("reclaimer"))
  /\ WF_policyVars(\E x \in PolicyIds : Activates(x))

----------------------------------------------------------------------------
\* The ledger, the policies and the calls are what the code can hold.
SharedPolicyTypeOK ==
  /\ declared \in SUBSET PolicyActions /\ covered \in SUBSET PolicyActions
  /\ policy \in [PolicyIds -> PolicyRow] /\ cleared \in BOOLEAN
  /\ policyChanges \in 0 .. MaxPolicyChanges /\ policyFaults \in 0 .. MaxPolicyFaults
  /\ policyCall \in [PolicyThreads -> [pc : {"idle"}] \cup PolicyCallRow]

\* Replacing a policy never leaves the Gateway without any: however calls and
\* the reclaimer overlap, the last ACTIVE revision stays, unless a call found
\* every declared action covered by domain rules and deletes them all.
NeverBare == [][Enforced # {} /\ ~ cleared' => Enforced' # {}]_policyVars

\* A call that reports success, and that no other call's write or change of the
\* ledger crossed, leaves in force what the ledger asks and nothing wider.
SuccessIsExact ==
  \A t \in PolicyCallers : Does(t, "done") /\ Call(t).alone =>
    /\ Wanted(t) = declared \ covered
    /\ \A x \in Enforced : policy[x].actions = Wanted(t)
    /\ Wanted(t) # {} => Enforced # {}

\* When calls have stopped and the newest revision is what the ledger asks, the
\* older ones, whose permits would go on counting, are reclaimed.
Quiet ==
  /\ \A t \in PolicyCallers : Does(t, "idle") \/ Does(t, "done")
  /\ declared \ covered # {}
  /\ \E x \in Listed : /\ IsTop(x, Listed) /\ policy[x].status # "failed"
                       /\ policy[x].actions = declared \ covered

StaleReclaimed == <>[]Quiet => <>[](Cardinality(Listed) = 1)
=============================================================================
