---------------------------- MODULE MCLifecycle ----------------------------
(***************************************************************************)
(* Lifecycle instantiated for TLC.  Three start/stop calls reach           *)
(* start-stop-stop, stop-start and a start retried after a failed one;     *)
(* two timeout values let the attribute change after start.               *)
(***************************************************************************)
EXTENDS Lifecycle

MCTimeoutChoices == {1, 2}

=============================================================================
