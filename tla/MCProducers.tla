---------------------------- MODULE MCProducers ----------------------------
(* Two letters, so that a text may or may not begin with another one.      *)
EXTENDS Producers

CONSTANTS a, b

=============================================================================
