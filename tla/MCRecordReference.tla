------------------------- MODULE MCRecordReference -------------------------
(***************************************************************************)
(* RecordReference for two jobs and three calls: the request of job a is   *)
(* sent twice.                                                             *)
(***************************************************************************)
EXTENDS RecordReference, TLC

CONSTANTS a, b, c1, c2, c3

JobOfCalls == (c1 :> a) @@ (c2 :> a) @@ (c3 :> b)
=============================================================================
