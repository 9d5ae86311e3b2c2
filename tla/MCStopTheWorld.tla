--------------------------- MODULE MCStopTheWorld ---------------------------
(* StopTheWorld for the model checker                                      *)
EXTENDS StopTheWorld, TLC
=============================================================================
