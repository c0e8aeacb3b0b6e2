------------------------------- MODULE MCPipe -------------------------------
(* Three tokens, so that each goroutine can have one in hand; one failure   *)
(* that counts as a timeout and one that does not.                          *)
EXTENDS Pipe

MCUpstreamErrors == {"rate_limited", "upstream_error"}

AllEndpoints == {"chat", "responses", "collect"}

ResponsesEndpoints == {"responses", "collect"}

=============================================================================
