----------------------------- MODULE MCShutdown -----------------------------
(* Three streams, so that one is on its way in while a second leaves and a *)
(* third is turned away, and one request that is not streamed.             *)
EXTENDS Shutdown

CONSTANTS h1, h2, h3, h4

MCStreams == {h1, h2, h3}
MCSingles == {h4}

=============================================================================
