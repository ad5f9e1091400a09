---------------------------- MODULE MCMduManager ----------------------------
(***************************************************************************)
(* Model values for the agent: one application server, which is deployed,  *)
(* and one dispatcher, which an earlier agent deployed and whose report    *)
(* was lost, so that starting, deploying and reporting meet.               *)
(***************************************************************************)
EXTENDS MduManager

CONSTANTS s1, d1

MCInstance  == {s1, d1}
MCAppServer == {s1}
MCRecorded  == {d1}
=============================================================================
