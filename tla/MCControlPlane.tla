--------------------------- MODULE MCControlPlane ---------------------------
(***************************************************************************)
(* The services that keep an asset of the catalog true, side by side:      *)
(* storing the drift ledger (DriftLedger), changing a tool's sensitivity   *)
(* (SensitivityChange), following a connected server (ConnectedCatalog),   *)
(* settling the review (GovernanceStatus) and replacing the Gateway's      *)
(* policy (SharedPolicy).  At the level of these modules they share no     *)
(* state, so nothing is lost when a behaviour runs one of them and leaves  *)
(* the others where they started.                                          *)
(***************************************************************************)
EXTENDS DriftLedger, SensitivityChange, ConnectedCatalog, GovernanceStatus,
        SharedPolicy, TLC

CONSTANT Parts   \* the services a behaviour may run

VARIABLE part    \* the service this behaviour runs

vars == <<part, ledgerVars, sensVars, catalogVars, govVars, policyVars>>

\* The others rest in one of their initial states.
Init ==
  /\ DriftLedgerInit /\ SensitivityInit /\ ConnectedCatalogInit /\ GovernanceInit
  /\ SharedPolicyInit
  /\ part \in Parts
  /\ part # "sensitivity" => ~ sensMode.deployed
  /\ part # "governance" => contacts /\ reopens
  /\ part # "policy" => declared = {}

\* A step of one service.
Stored(A) ==
  /\ part = "ledger" /\ A
  /\ UNCHANGED <<part, sensVars, catalogVars, govVars, policyVars>>
Changed(A) ==
  /\ part = "sensitivity" /\ A
  /\ UNCHANGED <<part, ledgerVars, catalogVars, govVars, policyVars>>
Connected(A) ==
  /\ part = "connected" /\ A
  /\ UNCHANGED <<part, ledgerVars, sensVars, govVars, policyVars>>
Governed(A) ==
  /\ part = "governance" /\ A
  /\ UNCHANGED <<part, ledgerVars, sensVars, catalogVars, policyVars>>
Policed(A) ==
  /\ part = "policy" /\ A
  /\ UNCHANGED <<part, ledgerVars, sensVars, catalogVars, govVars>>

Next ==
  \/ Stored(DriftLedgerNext) \/ Changed(SensitivityNext)
  \/ Connected(ConnectedCatalogNext) \/ Governed(GovernanceNext)
  \/ Policed(SharedPolicyNext)

Spec == Init /\ [][Next]_vars

\* ConnectedCatalogFairness, GovernanceFairness and SharedPolicyFairness, for
\* the service that runs.
Fairness ==
  /\ WF_vars(Connected(Observe("poller")))
  /\ \A p \in GovProcs : WF_vars(Governed(Advance(p)))
  /\ \A n \in 1 .. MaxScans : WF_vars(Governed(Ends(n)))
  /\ WF_vars(Governed(\E p \in GovProcs : PollRunning(p)))
  /\ WF_vars(Governed(\E p \in GovProcs : BackstopList(p)))
  /\ WF_vars(Policed(Reclaim("reclaimer")))
  /\ WF_vars(Policed(\E x \in PolicyIds : Activates(x)))

FairSpec == Spec /\ Fairness

\* Overlapping calls are alike, and so are tools and areas.  Only one service
\* moves, so the same values serve as its calls, whichever it is.
Alike == Permutations(GovProcs) \cup Permutations(Areas)

----------------------------------------------------------------------------
\* Every row, request, observer and thread of the service that runs keeps its
\* shape: versions, states and sets of tools stay among those the code knows.
TypesOK ==
  /\ part = "ledger"      => DriftLedgerTypeOK
  /\ part = "sensitivity" => SensitivityTypeOK
  /\ part = "connected"   => ConnectedCatalogTypeOK
  /\ part = "governance"  => GovernanceTypeOK
  /\ part = "policy"      => SharedPolicyTypeOK
=============================================================================
