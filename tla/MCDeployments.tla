--------------------------- MODULE MCDeployments ---------------------------
(***************************************************************************)
(* What drives deployments and what one poll of an MCP deployment does,    *)
(* side by side: the background cycles next to pokes and page requests     *)
(* (DeployPoller), which keep a job to its phase, and overlapping polls of *)
(* MCP jobs step by step (McpDeploy).  At the level of these modules they  *)
(* share no state, so a behaviour runs one of them and leaves the other    *)
(* where it started.                                                       *)
(***************************************************************************)
EXTENDS DeployPoller, McpDeploy, TLC

CONSTANT Sides   \* what a behaviour may run: "cycles", "polls"

VARIABLE side    \* what this behaviour runs

deploymentVars == <<side, vars, mcpVars>>

\* The polls at rest wait for their first deployment.
DeploymentsInit ==
  /\ Init /\ McpInit
  /\ side \in Sides
  /\ side = "cycles" => mcpCase = "first" /\ \A j \in McpJobs : version[j] = 2

Cycles(A) == side = "cycles" /\ A /\ UNCHANGED <<side, mcpVars>>
Polls(A)  == side = "polls"  /\ A /\ UNCHANGED <<side, vars>>

DeploymentsNext == Cycles(Next) \/ Polls(McpNext)

DeploymentsSpec == DeploymentsInit /\ [][DeploymentsNext]_deploymentVars

\* Fairness of DeployPoller; a build may take for ever.
DeploymentsFairness ==
  /\ WF_deploymentVars(Cycles(Begin("poller")))
  /\ \A d \in Drivers : WF_deploymentVars(Cycles(Step(d)))
  /\ WF_deploymentVars(Cycles(OutageEnds))

DeploymentsFairSpec == DeploymentsSpec /\ DeploymentsFairness

\* Neither the jobs nor the processes of an MCP deployment are told apart.
Alike == Permutations(McpJobs) \cup Permutations(McpProcs)

----------------------------------------------------------------------------
\* The bookkeeping of the cycles (poll_once) and the rows, Targets and polls of
\* MCP deployments (advance) keep their shape.
TypesOK == TypeOK /\ McpTypeOK
=============================================================================
