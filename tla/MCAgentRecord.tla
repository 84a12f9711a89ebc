--------------------------- MODULE MCAgentRecord ---------------------------
(***************************************************************************)
(* What the deployments of one agent share: its draft Registry record      *)
(* (MCRecordReference) and its OAuth client (ManagedClient).  The first    *)
(* looks inside create_job and the compensation and takes the issuer's     *)
(* calls as one step each, the second does the opposite, so they are run   *)
(* side by side and not together: a behaviour runs one of them and leaves  *)
(* the other where it started.                                             *)
(***************************************************************************)
EXTENDS MCRecordReference, ManagedClient

VARIABLE shared    \* what this behaviour looks at

RecordUsed(A)  == shared = "record" /\ A /\ UNCHANGED <<shared, clientVars>>
ClientGiven(A) == shared = "client" /\ A /\ UNCHANGED <<shared, vars>>

AgentInit == Init /\ ManagedClientInit /\ shared \in {"record", "client"}

AgentNext == RecordUsed(Next) \/ ClientGiven(ManagedClientNext)

AgentSpec == AgentInit /\ [][AgentNext]_<<vars, clientVars, shared>>

\* Deployments are alike, and so are cleanups.
Alike == Permutations(ClientCallers) \cup Permutations(ClientSweepers)

----------------------------------------------------------------------------
\* Drafts, items, calls and cleanups, and the reservation, the clients and the
\* ledgers, keep their shape: references only name jobs, clients those created.
TypesOK == TypeOK /\ ManagedClientTypeOK
============================================================================
