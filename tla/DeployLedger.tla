---------------------------- MODULE DeployLedger ----------------------------
(***************************************************************************)
(* What the deployment ledger promises to its readers (the portal polling  *)
(* GET /deployments/{id}, the governance hook, the monitoring projection)  *)
(* of one job, an agent's or an MCP server's: it moves through the phases  *)
(* of its kind one at a time, or fails; READY and FAILED are final; and    *)
(* nothing the ledger names is taken away from a job that has not failed.  *)
(***************************************************************************)
CONSTANT Advances   \* the pairs of phases that follow one another

VARIABLES phase,    \* the phase a reader sees
          intact    \* every remote resource the job names exists

Init == phase = "QUEUED" /\ intact = TRUE

Advance == /\ <<phase, phase'>> \in Advances
           /\ intact' = TRUE

Fail == /\ phase \notin {"READY", "FAILED"}
        /\ phase' = "FAILED"
        /\ intact' = TRUE

Compensate == /\ phase = "FAILED"
              /\ phase' = phase
              /\ intact' \in BOOLEAN

Next == Advance \/ Fail \/ Compensate

Spec == Init /\ [][Next]_<<phase, intact>>
=============================================================================
