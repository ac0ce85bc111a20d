---------------------------- MODULE MCPpsCapture ----------------------------
(* PpsCapture with a short period: every phase of the counter meets every   *)
(* step of the handler and of monotonic_now, over three rollovers.           *)
EXTENDS PpsCapture
=============================================================================
