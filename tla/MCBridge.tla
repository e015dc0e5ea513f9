------------------------------ MODULE MCBridge ------------------------------
(***************************************************************************)
(* Bridge instantiated for TLC.  Two requests are enough for a result or a *)
(* directive of one request to be left behind for the next; three results *)
(* let the patch answer both and send one extra.  A timeout of 0 covers    *)
(* the loop that never polls (timeout <= 0 in the attribute), 2 the loop   *)
(* that polls, sleeps and polls again before its deadline.                 *)
(***************************************************************************)
EXTENDS Bridge

MCTimeoutChoices == {0, 2}

=============================================================================
