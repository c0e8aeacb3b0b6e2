--------------------------- MODULE MCBreakerCell ---------------------------
(* One breaker with small thresholds, checked exhaustively.  The constants *)
(* are given in the configuration.                                         *)
EXTENDS BreakerCell

=============================================================================
