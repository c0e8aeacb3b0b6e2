----------------------------- MODULE PipeProof -----------------------------
(***************************************************************************)
(* For every bound on the tokens, every set of endpoints and every set of  *)
(* errors an upstream may give: no token is lost while the context lives,  *)
(* a chat recorded as "ok" is whole, the upstream is blamed only for what  *)
(* it did and the client only for leaving, and the goroutines implement    *)
(* StreamContract.                                                         *)
(***************************************************************************)
EXTENDS Pipe, TLAPS

(***************************************************************************)
(* The inductive invariant.  A chat that ends as "ok" has seen both        *)
(* channels closed and a live context; to conclude that the upstream was   *)
(* read to its end one has to know why the wrapper left (Errors), which    *)
(* tokens are where (Chain), and what the reader has seen (Reader).        *)
(***************************************************************************)
Left == wrapper \in {"closing", "half_closed", "gone"}

\* The attempt has its status, or will not get "ok" from a chat any more.
Over == Ended \/ outcome # "none"

\* What the producer is about, and what it has made of the upstream.
Source ==
  /\ wrapper = "absent" <=> reader \in {"calling", "recalling"}
  /\ wrapper = "absent" => producer = "absent" /\ upstream = "open" /\ errBuf = "none"
  /\ producer = "absent" => wrapper = "absent" \/ (Left /\ (errBuf # "none" \/ Over))
  /\ producer \in {"reading", "offering"} => upstream = "open"
  /\ producer = "text" => upstream = "whole"
  /\ producer = "gone" /\ wrapper \in {"receiving", "handing"} => upstream = "whole"

\* Where the tokens are.
Chain ==
  /\ producer \in {"offering", "text"} => produced = held + 1
  /\ producer \notin {"offering", "text"} => produced = held
  /\ producer = "absent" => held = 0
  /\ wrapper = "handing" => held = got + 1
  /\ wrapper # "handing" /\ ~(Left /\ Ended) => got = held
  /\ got =< held

\* Where an error is, and why the wrapper has left.
Errors ==
  /\ producer = "failing" \/ wrapper = "failing" => failure \notin {"none", "ok"}
  /\ wrapper = "failing" => producer = "gone"
  /\ failure = "upstream_error" => upstream = "broken"
  /\ errBuf = "upstream_error" => upstream = "broken" \/ exec # "live"
  /\ failure = "client_cancel" => exec = "client_cancel" \/ reader = "done"
  /\ errBuf = "client_cancel" => exec = "client_cancel" \/ reader = "done"
  /\ errBuf # "ok"
  /\ errBuf # "none" => Left
  /\ Left /\ ~Over /\ errBuf = "none" => producer = "gone" /\ upstream = "whole"

\* What the reader knows of the channels.
Reader ==
  /\ "errors" \notin open => wrapper \in {"half_closed", "gone"} /\ errBuf = "none"
  /\ "tokens" \notin open => wrapper = "gone"
  /\ reader \in {"finishing", "marking"} => open = {}
  /\ endpoint = "chat" => reader # "opening"

\* What the client has been sent.
Delivery ==
  /\ reader \in {"calling", "recalling", "awaiting"} => got = 0 /\ written = 0
  /\ reader \in {"opening", "writing"} => got = written + 1 /\ endpoint # "collect"
  /\ reader \in {"reading", "finishing", "marking"} /\ endpoint # "collect" => written = got
  /\ written =< got

\* A whole chat stays whole.
Final ==
  endpoint = "chat" /\ outcome = "ok" =>
    upstream = "whole" /\ written = produced /\ producer = "gone"

IInv ==
  /\ PipeTypeOK /\ Source /\ Chain /\ Errors /\ Reader /\ Delivery /\ Final
  /\ NoFalseBlame /\ NoFalseCancel

----------------------------------------------------------------------------
\* What an upstream gives is an error and never the client's leaving.
LEMMA StatusFacts ==
  /\ {"none", "ok", "client_cancel", "timeout", "internal_error", "upstream_error"}
       \subseteq Statuses
  /\ \A status \in UpstreamErrors : status \in Statuses \ {"none", "ok", "client_cancel"}
BY PipeAssumption DEF Statuses, AdapterFailures

\* Before the first call nothing is on its way.
LEMMA InitIInv == Init => IInv
<1> SUFFICES ASSUME Init PROVE IInv
  OBVIOUS
<1>1. PipeTypeOK
  <2>1. produced \in 0..(MaxTokens + 1)
    BY PipeAssumption DEF Init
  <2> QED
    BY <2>1, StatusFacts DEF Init, PipeTypeOK
<1>2. /\ Source /\ Chain /\ Errors /\ Reader /\ Delivery /\ Final
      /\ NoFalseBlame /\ NoFalseCancel
  BY DEF Init, Source, Chain, Errors, Reader, Delivery, Final, NoFalseBlame, NoFalseCancel,
         Left, Over, Ended
<1> QED
  BY <1>1, <1>2 DEF IInv

\* One step per action of a goroutine keeps the invariant.
LEMMA NextIInv == IInv /\ [Next]_vars => IInv'
<1> SUFFICES ASSUME IInv, [Next]_vars PROVE IInv'
  OBVIOUS
<1> USE PipeAssumption, StatusFacts
    DEF IInv, PipeTypeOK, Source, Chain, Errors, Reader, Delivery, Final, NoFalseBlame,
        NoFalseCancel, Left, Over, Ended, sourceVars, wrapperVars, readerVars
<1>1. ASSUME ContextEnds PROVE IInv'
  BY <1>1 DEF ContextEnds
<1>2. ASSUME FallsBack PROVE IInv'
  BY <1>2 DEF FallsBack
<1>3. ASSUME CallFails PROVE IInv'
  BY <1>3 DEF CallFails, CallReturnsError
<1>4. ASSUME CallCancelled PROVE IInv'
  <2>1. exec # "live"
    BY <1>4 DEF CallCancelled, CallReturnsError
  <2>2. CASE CallReturnsError(ContextStatus)
    BY <1>4, <2>1, <2>2 DEF CallCancelled, CallReturnsError, ContextStatus
  <2>3. CASE CallReturnsError("upstream_error")
    BY <1>4, <2>1, <2>3 DEF CallCancelled, CallReturnsError
  <2> QED
    BY <1>4, <2>2, <2>3 DEF CallCancelled
<1>5. ASSUME StreamStarts PROVE IInv'
  BY <1>5 DEF StreamStarts, CallReturns
<1>6. ASSUME SingleAnswer PROVE IInv'
  BY <1>6 DEF SingleAnswer, CallReturns
<1>7. ASSUME ReadToken PROVE IInv'
  BY <1>7 DEF ReadToken
<1>8. ASSUME ReadEnd PROVE IInv'
  BY <1>8 DEF ReadEnd
<1>9. ASSUME ReadError PROVE IInv'
  BY <1>9 DEF ReadError
<1>10. ASSUME ReadCancelled PROVE IInv'
  BY <1>10 DEF ReadCancelled, ContextStatus
<1>11. ASSUME RecvToken PROVE IInv'
  BY <1>11 DEF RecvToken
<1>12. ASSUME RecvError PROVE IInv'
  BY <1>12 DEF RecvError
<1>13. ASSUME RecvEnd PROVE IInv'
  BY <1>13 DEF RecvEnd
<1>14. ASSUME SendError PROVE IInv'
  BY <1>14 DEF SendError
<1>15. ASSUME Stops PROVE IInv'
  BY <1>15 DEF Stops
<1>16. ASSUME CloseErrCh PROVE IInv'
  BY <1>16 DEF CloseErrCh
<1>17. ASSUME CloseTokenCh PROVE IInv'
  BY <1>17 DEF CloseTokenCh
<1>18. ASSUME TakeToken PROVE IInv'
  BY <1>18 DEF TakeToken, AfterToken, Waiting
<1>19. ASSUME TakeError PROVE IInv'
  BY <1>19 DEF TakeError, Ends, Waiting
<1>20. ASSUME SeeTokensClosed PROVE IInv'
  BY <1>20 DEF SeeTokensClosed, Waiting
<1>21. ASSUME SeeErrorsClosed PROVE IInv'
  BY <1>21 DEF SeeErrorsClosed, Waiting
<1>22. ASSUME SeeContext PROVE IInv'
  BY <1>22 DEF SeeContext, Ends, Waiting
<1>23. ASSUME TimerFires PROVE IInv'
  BY <1>23 DEF TimerFires, Ends, Waiting
<1>24. ASSUME NoToken PROVE IInv'
  BY <1>24 DEF NoToken, Ends
<1>25. ASSUME LastToken PROVE IInv'
  BY <1>25 DEF LastToken
<1>26. ASSUME CheckStops PROVE IInv'
  BY <1>26 DEF CheckStops, Ends, Checks
<1>27. ASSUME WriteFails PROVE IInv'
  BY <1>27 DEF WriteFails, WriteFailures, Ends, Writing
<1>28. ASSUME WriteOpening PROVE IInv'
  BY <1>28 DEF WriteOpening
<1>29. ASSUME WriteToken PROVE IInv'
  BY <1>29 DEF WriteToken
<1>30. ASSUME WriteFinalChunk PROVE IInv'
  BY <1>30 DEF WriteFinalChunk
<1>31. ASSUME WriteLast PROVE IInv'
  BY <1>31 DEF WriteLast, Ends
<1>32. ASSUME WriteFailure PROVE IInv'
  BY <1>32 DEF WriteFailure
<1>33. ASSUME UNCHANGED vars PROVE IInv'
  BY <1>33 DEF vars
<1> QED
  BY <1>1, <1>2, <1>3, <1>4, <1>5, <1>6, <1>7, <1>8, <1>9, <1>10, <1>11,
     <1>12, <1>13, <1>14, <1>15, <1>16, <1>17, <1>18, <1>19, <1>20, <1>21,
     <1>22, <1>23, <1>24, <1>25, <1>26, <1>27, <1>28, <1>29, <1>30, <1>31,
     <1>32, <1>33
  DEF Next, CallStep, ProducerStep, WrapperStep, ReaderStep, WriteStep

\* The invariant holds in every state of every run.
LEMMA InductiveIInv == SafeSpec => []IInv
BY InitIInv, NextIInv, PTL DEF SafeSpec

----------------------------------------------------------------------------
(***************************************************************************)
(* Types, and an outcome exactly when the attempt is over.                 *)
(***************************************************************************)
THEOREM PipeTypes == SafeSpec => []PipeTypeOK
<1>1. IInv => PipeTypeOK
  BY DEF IInv
<1> QED
  BY <1>1, InductiveIInv, PTL

(***************************************************************************)
(* No token is lost between upstream and handler while the context lives   *)
(* (newSSEStream, StreamText, waitForNextStreamEvent).                     *)
(***************************************************************************)
THEOREM NoTokenLostAlways == SafeSpec => []NoTokenLost
<1>1. IInv => NoTokenLost
  BY PipeAssumption DEF IInv, PipeTypeOK, Chain, NoTokenLost
<1> QED
  BY <1>1, InductiveIInv, PTL

(***************************************************************************)
(* A chat recorded as "ok" is whole (streamRoutedChatCompletion).          *)
(***************************************************************************)
THEOREM ChatOkIsWholeAlways == SafeSpec => []ChatOkIsWhole
<1>1. IInv => ChatOkIsWhole
  BY DEF IInv, Final, ChatOkIsWhole, OkIsWhole
<1> QED
  BY <1>1, InductiveIInv, PTL

(***************************************************************************)
(* While the context lives the upstream is blamed only for its own doing.  *)
(***************************************************************************)
THEOREM NoFalseBlameAlways == SafeSpec => []NoFalseBlame
<1>1. IInv => NoFalseBlame
  BY DEF IInv
<1> QED
  BY <1>1, InductiveIInv, PTL

(***************************************************************************)
(* An attempt ends as "client_cancel" only if the client left: the ends of *)
(* the execution context keep their cause on every way to the handler.     *)
(***************************************************************************)
THEOREM NoFalseCancelAlways == SafeSpec => []NoFalseCancel
<1>1. IInv => NoFalseCancel
  BY DEF IInv
<1> QED
  BY <1>1, InductiveIInv, PTL

----------------------------------------------------------------------------
(***************************************************************************)
(* The refinement: the source's steps are Send and Finish, a write of a    *)
(* token is Deliver, an end of the handler is Fail, Complete or            *)
(* CompleteCut; the other steps the contract does not see.                 *)
(***************************************************************************)
LEMMA ContractStep == IInv /\ [Next]_vars => [Contract!Next]_Contract!contractVars
<1> SUFFICES ASSUME IInv, [Next]_vars PROVE [Contract!Next]_Contract!contractVars
  OBVIOUS
<1> USE PipeAssumption, StatusFacts
    DEF IInv, PipeTypeOK, sourceVars, wrapperVars, readerVars, Contract!contractVars
<1> DEFINE Hidden == Contract!contractVars' = Contract!contractVars
<1>1. ASSUME ReadToken PROVE Contract!Send
  BY <1>1 DEF ReadToken, Source, Contract!Send
<1>2. ASSUME ReadEnd \/ ReadError \/ CallFails PROVE Contract!Finish
  BY <1>2 DEF ReadEnd, ReadError, CallFails, CallReturnsError, Source, Contract!Finish
<1>3. ASSUME SingleAnswer PROVE Contract!Send \/ Contract!Finish
  BY <1>3 DEF SingleAnswer, CallReturns, Source, Chain, Contract!Send, Contract!Finish
<1>4. ASSUME WriteToken PROVE Contract!Deliver
  BY <1>4 DEF WriteToken, Chain, Delivery, Contract!Deliver
<1>5. ASSUME TakeError \/ SeeContext \/ TimerFires \/ NoToken \/ CheckStops \/ WriteFails
      PROVE  Contract!Fail
  BY <1>5 DEF TakeError, SeeContext, TimerFires, NoToken, CheckStops, WriteFails,
     WriteFailures, Ends, Waiting, Writing, Checks, Errors, Contract!Fail
<1>6. ASSUME WriteLast PROVE Contract!Complete \/ Contract!CompleteCut
  <2>1. CASE endpoint = "chat"
    BY <1>6, <2>1 DEF WriteLast, Ends, Chain, Errors, Reader, Delivery, Left, Over, Ended,
       Contract!Complete
  <2>2. CASE endpoint # "chat"
    BY <1>6, <2>2 DEF WriteLast, Ends, Chain, Delivery, Contract!CompleteCut
  <2> QED
    BY <2>1, <2>2
<1>7. ASSUME ContextEnds \/ FallsBack \/ CallCancelled \/ StreamStarts \/ ReadCancelled
             \/ WrapperStep
      PROVE  Hidden
  BY <1>7 DEF ContextEnds, FallsBack, CallCancelled, CallReturnsError, StreamStarts,
     CallReturns, ReadCancelled, WrapperStep, RecvToken, RecvError, RecvEnd, SendError,
     Stops, CloseErrCh, CloseTokenCh
<1>8. ASSUME \/ TakeToken \/ SeeTokensClosed \/ SeeErrorsClosed \/ LastToken
             \/ WriteOpening \/ WriteFailure \/ WriteFinalChunk \/ UNCHANGED vars
      PROVE  Hidden
  BY <1>8 DEF TakeToken, SeeTokensClosed, SeeErrorsClosed, LastToken, WriteOpening,
     WriteFailure, WriteFinalChunk, vars
<1> QED
  BY <1>1, <1>2, <1>3, <1>4, <1>5, <1>6, <1>7, <1>8
  DEF Next, CallStep, ProducerStep, ReaderStep, WriteStep, Contract!Next

(***************************************************************************)
(* The goroutines and channels implement the contract of a stream.         *)
(***************************************************************************)
THEOREM PipeImplementsContract == SafeSpec => ImplementsContract
<1>1. Init => Contract!Init
  BY DEF Init, Contract!Init
<1> QED
  BY <1>1, InductiveIInv, ContractStep, PTL DEF SafeSpec, ImplementsContract, Contract!Safe

=============================================================================
