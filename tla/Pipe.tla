------------------------------- MODULE Pipe --------------------------------
(***************************************************************************)
(* The path of the tokens of one attempt, and its three goroutines:        *)
(*                                                                         *)
(*   producer --events--> wrapper --tokenCh, errCh--> reader --> client    *)
(*                                                                         *)
(* The producer is the goroutine of an adapter (newSSEStream, or the one   *)
(* of the Vertex Generate).  The wrapper is the goroutine of StreamText.   *)
(* The reader is the handler: it calls StreamText, waits for the first     *)
(* token (waitForFirstToken), then for the rest (waitForNextStreamEvent).  *)
(* events and tokenCh are unbuffered: a send is a step of both sides.      *)
(* errCh has a buffer of one.  A select with several cases ready may take  *)
(* any of them.  Timers may fire at any time.                              *)
(*                                                                         *)
(* Tokens are numbered as the upstream sends them; channels carry numbers. *)
(***************************************************************************)
EXTENDS Integers

CONSTANTS MaxTokens,     \* bound: tokens an upstream sends
          Endpoints,     \* those of "chat", "responses", "collect" in use
          UpstreamErrors \* statuses an upstream may give (statusForAdapterError)

AdapterFailures ==
  {"rate_limited", "timeout", "auth_failed", "bad_request", "upstream_error"}

ASSUME PipeAssumption ==
  /\ MaxTokens \in Nat
  /\ Endpoints \subseteq {"chat", "responses", "collect"}
  /\ UpstreamErrors \subseteq AdapterFailures

VARIABLES
  endpoint,  \* of the request; "collect" is a response that is not streamed
  exec,      \* the execution context: "live", or the status its end gives
  upstream,  \* "open", "whole" (read to its end), "broken"
  produced,  \* tokens read from the upstream
  producer,  \* "absent", "reading", "offering" a token, "failing" (offering
             \* an error), "text" (no goroutine: the upstream answered with
             \* the text of a single token), "gone"
  failure,   \* the status of the error the producer offers
  wrapper,   \* "absent", "receiving", "handing" a token, "failing" (handing
             \* the error), then "closing" and "half_closed", "gone"
  held,      \* the last token the wrapper received
  errBuf,    \* the status of the error in errCh, "none" for none
  reader,    \* "calling" (first HTTP call), "recalling" (second),
             \* "awaiting", "opening" (writing the created event), "writing"
             \* a token, "reading", "finishing" (writing the end of the
             \* stream), "marking" (writing [DONE]), "telling" (writing the
             \* error event of a response that failed), "done"
  open,      \* the channels that are not nil for the reader
  got,       \* the last token the reader took
  written,   \* the last token the client was sent
  outcome    \* the status of the attempt, "none" while it goes on

sourceVars == <<upstream, produced, producer, failure>>
wrapperVars == <<wrapper, held, errBuf>>
readerVars == <<reader, open, got, written, outcome>>
vars == <<endpoint, exec, sourceVars, wrapperVars, readerVars>>

Init ==
  /\ endpoint \in Endpoints
  /\ exec = "live"
  /\ upstream = "open" /\ produced = 0 /\ producer = "absent" /\ failure = "none"
  /\ wrapper = "absent" /\ held = 0 /\ errBuf = "none"
  /\ reader = "calling" /\ open = {"tokens", "errors"}
  /\ got = 0 /\ written = 0 /\ outcome = "none"

\* The attempt's context is a child of the execution context; every way out of
\* the handler cancels it (Close).
Ended == exec # "live" \/ reader = "done"

\* What an HTTP call or read that the context stopped comes to.
ContextStatus == IF exec = "live" THEN "client_cancel" ELSE exec

----------------------------------------------------------------------------
(***************************************************************************)
(* The execution context.                                                  *)
(***************************************************************************)
ContextEnds ==
  /\ exec = "live" /\ reader # "done"
  /\ exec' \in {"client_cancel", "timeout"}
  /\ UNCHANGED <<endpoint, sourceVars, wrapperVars, readerVars>>

DeadlinePassesSlip == ContextEnds /\ exec' = "timeout" /\ reader = "calling"

DeadlinePasses == ContextEnds /\ exec' = "timeout"

----------------------------------------------------------------------------
(***************************************************************************)
(* StreamText and Generate, called by the handler itself.  An upstream     *)
(* without /responses is asked for /chat/completions.                      *)
(***************************************************************************)
FallsBack ==
  /\ reader = "calling"
  /\ reader' = "recalling"
  /\ UNCHANGED <<endpoint, exec, sourceVars, wrapperVars, open, got, written, outcome>>

\* closedErrorStream.
CallReturnsError(status) ==
  /\ reader \in {"calling", "recalling"}
  /\ reader' = "awaiting"
  /\ wrapper' = "gone" /\ errBuf' = status
  /\ UNCHANGED <<endpoint, exec, produced, producer, failure, held, open, got, written,
                 outcome>>

CallFails ==
  /\ upstream' = "broken"
  /\ \E status \in UpstreamErrors : CallReturnsError(status)

\* An answer that breaks off while it is read as JSON is not asked why.
CallCancelled ==
  /\ Ended
  /\ CallReturnsError(ContextStatus) \/ CallReturnsError("upstream_error")
  /\ UNCHANGED upstream

CallReturns ==
  /\ reader \in {"calling", "recalling"}
  /\ reader' = "awaiting"
  /\ wrapper' = "receiving"
  /\ UNCHANGED <<endpoint, exec, failure, held, errBuf, open, got, written, outcome>>

StreamStarts ==
  /\ CallReturns
  /\ producer' = "reading"
  /\ UNCHANGED <<upstream, produced>>

\* The answer is one JSON document; its text may be empty.
SingleAnswer ==
  /\ CallReturns
  /\ upstream' = "whole"
  /\ \/ produced' = 1 /\ producer' = "text"
     \/ produced' = 0 /\ producer' = "gone"

----------------------------------------------------------------------------
(***************************************************************************)
(* The producer.  It sends on events without looking at the context.       *)
(* Closing the body changes nothing more: when the wrapper does so, the    *)
(* producer has finished or its context has ended, so its reads fail.      *)
(***************************************************************************)
ReadToken ==
  /\ producer = "reading" /\ produced < MaxTokens
  /\ produced' = produced + 1
  /\ producer' = "offering"
  /\ UNCHANGED <<endpoint, exec, upstream, failure, wrapperVars, readerVars>>

\* An end marker, or the end of the body.
ReadEnd ==
  /\ producer = "reading"
  /\ producer' = "gone" /\ upstream' = "whole"
  /\ UNCHANGED <<endpoint, exec, produced, failure, wrapperVars, readerVars>>

\* A broken connection, an error event, or an event that does not parse.
ReadError ==
  /\ producer = "reading"
  /\ producer' = "failing" /\ upstream' = "broken"
  /\ failure' \in UpstreamErrors
  /\ UNCHANGED <<endpoint, exec, produced, wrapperVars, readerVars>>

ReadCancelledSlip ==
  /\ producer = "reading" /\ Ended
  /\ producer' = "failing"
  /\ failure' = "client_cancel"
  /\ UNCHANGED <<endpoint, exec, upstream, produced, wrapperVars, readerVars>>

ReadCancelled ==
  /\ producer = "reading" /\ Ended
  /\ producer' = "failing"
  /\ failure' = ContextStatus
  /\ UNCHANGED <<endpoint, exec, upstream, produced, wrapperVars, readerVars>>

----------------------------------------------------------------------------
(***************************************************************************)
(* The wrapper.                                                            *)
(***************************************************************************)
RecvTokenSlip ==
  /\ wrapper \in {"receiving", "handing"} /\ producer \in {"offering", "text"}
  /\ producer' = IF producer = "text" THEN "gone" ELSE "reading"
  /\ wrapper' = "handing"
  /\ held' = produced
  /\ UNCHANGED <<endpoint, exec, upstream, produced, failure, errBuf, readerVars>>

RecvToken ==
  /\ wrapper = "receiving" /\ producer \in {"offering", "text"}
  /\ producer' = IF producer = "text" THEN "gone" ELSE "reading"
  /\ wrapper' = "handing"
  /\ held' = produced
  /\ UNCHANGED <<endpoint, exec, upstream, produced, failure, errBuf, readerVars>>

RecvErrorSlip ==
  /\ wrapper = "receiving" /\ producer = "failing"
  /\ producer' = "gone"
  /\ wrapper' = "closing"
  /\ UNCHANGED <<endpoint, exec, upstream, produced, failure, held, errBuf, readerVars>>

RecvError ==
  /\ wrapper = "receiving" /\ producer = "failing"
  /\ producer' = "gone"
  /\ wrapper' = "failing"
  /\ UNCHANGED <<endpoint, exec, upstream, produced, failure, held, errBuf, readerVars>>

\* io.EOF: events is closed, or the single text has been read.
RecvEnd ==
  /\ wrapper = "receiving" /\ producer = "gone"
  /\ wrapper' = "closing"
  /\ UNCHANGED <<endpoint, exec, sourceVars, held, errBuf, readerVars>>

SendError ==
  /\ wrapper = "failing"
  /\ errBuf' = failure
  /\ wrapper' = "closing"
  /\ UNCHANGED <<endpoint, exec, sourceVars, held, readerVars>>

\* The token or the error in hand is dropped.
StopsSlip ==
  /\ wrapper = "failing" /\ Ended
  /\ wrapper' = "closing"
  /\ UNCHANGED <<endpoint, exec, sourceVars, held, errBuf, readerVars>>

Stops ==
  /\ wrapper \in {"handing", "failing"} /\ Ended
  /\ wrapper' = "closing"
  /\ UNCHANGED <<endpoint, exec, sourceVars, held, errBuf, readerVars>>

\* The deferred calls: stream.Close, close(errCh), close(tokenCh).
CloseErrCh ==
  /\ wrapper = "closing"
  /\ wrapper' = "half_closed"
  /\ UNCHANGED <<endpoint, exec, sourceVars, held, errBuf, readerVars>>

CloseTokenCh ==
  /\ wrapper = "half_closed"
  /\ wrapper' = "gone"
  /\ UNCHANGED <<endpoint, exec, sourceVars, held, errBuf, readerVars>>

----------------------------------------------------------------------------
(***************************************************************************)
(* The reader: the cases of its select.                                    *)
(***************************************************************************)
Waiting == reader \in {"awaiting", "reading"} /\ open # {}

\* streamRoutedResponse tells its client of a failure before it reports it.
TellsClient(status) ==
  endpoint = "responses" /\ reader = "reading" /\ status # "client_cancel"

\* The attempt has its status.
Ends(status) ==
  /\ outcome' = status
  /\ reader' = IF TellsClient(status) THEN "telling" ELSE "done"

\* A streamed response is opened when its first token is there.
AfterToken ==
  CASE endpoint = "collect" -> "reading"
    [] endpoint = "responses" /\ reader = "awaiting" -> "opening"
    [] OTHER -> "writing"

TakeToken ==
  /\ Waiting /\ "tokens" \in open
  /\ wrapper = "handing"
  /\ wrapper' = "receiving"
  /\ got' = held
  /\ reader' = AfterToken
  /\ UNCHANGED <<endpoint, exec, sourceVars, held, errBuf, open, written, outcome>>

TakeErrorSlip ==
  /\ Waiting /\ "errors" \in open
  /\ errBuf # "none"
  /\ errBuf' = "none" /\ outcome' = errBuf
  /\ UNCHANGED <<endpoint, exec, sourceVars, wrapper, held, reader, open, got, written>>

TakeError ==
  /\ Waiting /\ "errors" \in open
  /\ errBuf # "none"
  /\ errBuf' = "none"
  /\ Ends(errBuf)
  /\ UNCHANGED <<endpoint, exec, sourceVars, wrapper, held, open, got, written>>

SeeTokensClosed ==
  /\ Waiting /\ "tokens" \in open
  /\ wrapper = "gone"
  /\ open' = open \ {"tokens"}
  /\ UNCHANGED <<endpoint, exec, sourceVars, wrapperVars, reader, got, written, outcome>>

\* A closed channel still gives what is in its buffer first.
SeeErrorsClosed ==
  /\ Waiting /\ "errors" \in open
  /\ wrapper \in {"half_closed", "gone"} /\ errBuf = "none"
  /\ open' = open \ {"errors"}
  /\ UNCHANGED <<endpoint, exec, sourceVars, wrapperVars, reader, got, written, outcome>>

SeeContext ==
  /\ Waiting /\ exec # "live"
  /\ Ends(exec)
  /\ UNCHANGED <<endpoint, exec, sourceVars, wrapperVars, open, got, written>>

TimerFiresSlip ==
  /\ Waiting
  /\ Ends("upstream_error")
  /\ UNCHANGED <<endpoint, exec, sourceVars, wrapperVars, open, got, written>>

\* The first-token watchdog or the idle timer.
TimerFires ==
  /\ Waiting
  /\ Ends("timeout")
  /\ UNCHANGED <<endpoint, exec, sourceVars, wrapperVars, open, got, written>>

\* Both channels closed before a token came.
NoToken ==
  /\ reader = "awaiting" /\ open = {}
  /\ Ends("upstream_error")
  /\ UNCHANGED <<endpoint, exec, sourceVars, wrapperVars, open, got, written>>

LastToken ==
  /\ reader = "reading" /\ open = {}
  /\ reader' = "finishing"
  /\ UNCHANGED <<endpoint, exec, sourceVars, wrapperVars, open, got, written, outcome>>

----------------------------------------------------------------------------
(***************************************************************************)
(* The reader: its writes.  A write blocks while the client does not read, *)
(* and may fail at any time.                                               *)
(***************************************************************************)
Writing == reader \in {"opening", "writing", "finishing", "marking", "telling"}

\* streamRoutedChatCompletion looks at the context before its last two
\* writes; streamRoutedResponse and collectResponsesOutput do not.
Checks == endpoint = "chat" /\ reader \in {"finishing", "marking"}

CheckStops ==
  /\ Checks /\ exec # "live"
  /\ Ends(exec)
  /\ UNCHANGED <<endpoint, exec, sourceVars, wrapperVars, open, got, written>>

\* classifyExecutionFailure; the created event (classifyStreamError) and a
\* collected response look only at the client's context, or at none.
WriteFailures ==
  CASE exec = "live" \/ endpoint = "collect"     -> {"internal_error"}
    [] exec = "timeout" /\ reader = "opening" -> {"internal_error", "client_cancel"}
    [] OTHER                                   -> {exec}

WriteFails ==
  /\ Writing /\ reader # "telling"
  /\ \E status \in WriteFailures : Ends(status)
  /\ UNCHANGED <<endpoint, exec, sourceVars, wrapperVars, open, got, written>>

WriteOpeningSlip ==
  /\ reader = "opening"
  /\ reader' = "reading"
  /\ UNCHANGED <<endpoint, exec, sourceVars, wrapperVars, open, got, written, outcome>>

WriteOpening ==
  /\ reader = "opening"
  /\ reader' = "writing"
  /\ UNCHANGED <<endpoint, exec, sourceVars, wrapperVars, open, got, written, outcome>>

WriteToken ==
  /\ reader = "writing"
  /\ reader' = "reading" /\ written' = got
  /\ UNCHANGED <<endpoint, exec, sourceVars, wrapperVars, open, got, outcome>>

\* Whether this write fails does not matter.
WriteFailure ==
  /\ reader = "telling"
  /\ reader' = "done"
  /\ UNCHANGED <<endpoint, exec, sourceVars, wrapperVars, open, got, written, outcome>>

\* The final chunk of a chat; [DONE] follows.
WriteFinalChunk ==
  /\ reader = "finishing" /\ endpoint = "chat" /\ exec = "live"
  /\ reader' = "marking"
  /\ UNCHANGED <<endpoint, exec, sourceVars, wrapperVars, open, got, written, outcome>>

\* [DONE], the completed event, or the whole response.
WriteLast ==
  /\ \/ reader = "marking" /\ exec = "live"
     \/ reader = "finishing" /\ endpoint # "chat"
  /\ Ends("ok")
  /\ written' = got
  /\ UNCHANGED <<endpoint, exec, sourceVars, wrapperVars, open, got>>

----------------------------------------------------------------------------
CallStep == FallsBack \/ CallFails \/ CallCancelled \/ StreamStarts \/ SingleAnswer

ProducerStep == ReadToken \/ ReadEnd \/ ReadError \/ ReadCancelled

WrapperStep ==
  RecvToken \/ RecvError \/ RecvEnd \/ SendError \/ Stops \/ CloseErrCh \/ CloseTokenCh

\* What the reader does although the client does not read.
ReaderStep ==
  \/ TakeToken \/ TakeError \/ SeeTokensClosed \/ SeeErrorsClosed \/ SeeContext
  \/ NoToken \/ LastToken \/ CheckStops

WriteStep ==
  WriteFails \/ WriteOpening \/ WriteToken \/ WriteFailure \/ WriteFinalChunk \/ WriteLast

Next == ContextEnds \/ CallStep \/ ProducerStep \/ WrapperStep \/ ReaderStep
          \/ TimerFires \/ WriteStep

SafeSpec == Init /\ [][Next]_vars

\* Goroutines are scheduled, the execution context has a deadline, and calls
\* and reads return when their context has ended.  Nothing is asked of the
\* upstream, and nothing of the client: it may never read.
Fairness ==
  /\ WF_vars(DeadlinePasses)
  /\ WF_vars(CallCancelled)
  /\ WF_vars(ReadCancelled)
  /\ WF_vars(WrapperStep)
  /\ WF_vars(ReaderStep)

Spec == SafeSpec /\ Fairness

----------------------------------------------------------------------------
Statuses == AdapterFailures \union {"none", "ok", "client_cancel", "internal_error"}

PipeTypeOK ==
  /\ endpoint \in Endpoints
  /\ exec \in {"live", "client_cancel", "timeout"}
  /\ upstream \in {"open", "whole", "broken"}
  /\ produced \in 0..(MaxTokens + 1)
  /\ producer \in {"absent", "reading", "offering", "failing", "text", "gone"}
  /\ wrapper \in {"absent", "receiving", "handing", "failing", "closing", "half_closed", "gone"}
  /\ failure \in Statuses /\ errBuf \in Statuses /\ outcome \in Statuses
  /\ held \in Nat /\ got \in Nat /\ written \in Nat
  /\ reader \in {"calling", "recalling", "awaiting", "opening", "writing", "reading",
                 "finishing", "marking", "telling", "done"}
  /\ open \subseteq {"tokens", "errors"}
  /\ outcome # "none" <=> reader \in {"telling", "done"}

(***************************************************************************)
(* While the context lives, every token read from the upstream has reached *)
(* the handler or is in one of two hands: the producer's or the wrapper's. *)
(***************************************************************************)
NoTokenLost ==
  ~Ended =>
    produced - got = (IF producer \in {"offering", "text"} THEN 1 ELSE 0)
                   + (IF wrapper = "handing" THEN 1 ELSE 0)

(***************************************************************************)
(* A stream recorded as "ok" is whole: the upstream was read to its end    *)
(* and the client was sent every token.                                    *)
(***************************************************************************)
OkIsWhole == outcome = "ok" => upstream = "whole" /\ written = produced

(***************************************************************************)
(* It holds for the chat endpoint, which looks at the context again after  *)
(* both channels are closed: a wrapper that stopped early does not pass    *)
(* for one that finished.                                                  *)
(***************************************************************************)
ChatOkIsWhole == endpoint = "chat" => OkIsWhole

(***************************************************************************)
(* A request whose context lives blames the upstream only for what the     *)
(* upstream did: it failed, or it finished without a token.                *)
(***************************************************************************)
NoFalseBlame ==
  outcome = "upstream_error" /\ exec = "live" =>
    upstream = "broken" \/ (upstream = "whole" /\ produced = 0)

(***************************************************************************)
(* An attempt is put down to its client, which the breaker ignores, only   *)
(* when the client has left: wherever a deadline is noticed first, in the  *)
(* adapter, in a select or in a write, it never passes for a client that   *)
(* cancelled.  (The opening of a streamed response asks about the client   *)
(* alone, who may leave when the deadline has passed already.)             *)
(***************************************************************************)
NoFalseCancel ==
  outcome = "client_cancel" =>
    exec = "client_cancel" \/ (exec = "timeout" /\ endpoint = "responses")

(***************************************************************************)
(* The three goroutines implement the contract of a stream; a response,    *)
(* streamed or collected, is lenient.                                      *)
(***************************************************************************)
Contract == INSTANCE StreamContract WITH
  Failures <- Statuses \ {"none", "ok"},
  sent     <- produced,
  received <- written,
  lenient  <- endpoint # "chat"

ImplementsContract == Contract!Safe

(***************************************************************************)
(* When the attempt's context ends, the wrapper leaves, whether or not the *)
(* handler still listens and whatever the upstream does, and the producer  *)
(* stops reading.  It may still have an event in hand that nobody will     *)
(* receive: then its goroutine never ends.                                 *)
(***************************************************************************)
GoroutinesReleased == Ended ~> [](wrapper = "gone" /\ producer # "reading")

(***************************************************************************)
(* The handler ends, although the upstream may hang anywhere; only a write *)
(* to a client that does not read can keep it.                             *)
(***************************************************************************)
OnlyClientBlocks == <>(reader = "done") \/ <>[]Writing

=============================================================================
