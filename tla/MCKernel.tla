------------------------------ MODULE MCKernel ------------------------------
(***************************************************************************)
(* Kernel instantiated for TLC.  Two requests, one result and two          *)
(* start/stop calls: enough for a request to be in flight across a stop or *)
(* a free, for a start to follow a failed one, and for the @timeout        *)
(* attribute to change between start and a request.  Timeouts 0 and 1: a   *)
(* request that never polls and one that polls, sleeps and times out.      *)
(***************************************************************************)
EXTENDS Kernel

MCTimeoutChoices == {0, 1}

=============================================================================
