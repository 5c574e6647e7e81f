------------------------------ MODULE MCPacing ------------------------------
(***************************************************************************)
(* The loop watched for six intervals of three ticks, so that frames and   *)
(* sleeps can be shorter than an interval, and longer than two.            *)
(***************************************************************************)
EXTENDS Pacing
=============================================================================
