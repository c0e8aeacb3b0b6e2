----------------------------- MODULE Producers -----------------------------
(***************************************************************************)
(* What is in the events that Pipe only counts: how an adapter's producer  *)
(* makes a text out of what its upstream sends, in four dialects.          *)
(*   "responses", "chat"  lines of server-sent events, with an optional    *)
(*                        name and one or more data lines per event        *)
(*   "vertex"             texts, that hold all so far (cumulative) or only *)
(*                        what is new: the producer has to guess           *)
(*   "body"               one JSON answer in several parts                 *)
(* A text is a sequence of letters.  The consumer takes what it is sent at *)
(* once; Pipe has the waiting.                                             *)
(*                                                                         *)
(* A payload is whole only with all of its data lines together; ill-formed *)
(* JSON is a payload of kind "junk".                                       *)
(***************************************************************************)
EXTENDS Naturals, Sequences, SequencesExt

CONSTANTS Letters,
          MaxText,    \* bound on the letters an upstream sends
          MaxEvents   \* bound on its events

ASSUME ProducersAssumption == MaxText \in Nat /\ MaxEvents \in Nat

Texts == {<<x>> : x \in Letters} \union {<<x, y>> : x, y \in Letters}

VARIABLES dialect, cumulative,
          sending,    \* lines of the event under way that are still to come
          events,     \* events begun
          name, data, \* the scanner's eventName and eventData
          sentSoFar,  \* of the Vertex producer
          out,        \* what the consumer has been sent
          result,     \* "none", "ended", "failed"
          said, trouble, guess  \* history: see the properties

vars == <<dialect, cumulative, sending, events, name, data, sentSoFar, out, result,
          said, trouble, guess>>

Init ==
  /\ dialect \in {"responses", "chat", "vertex", "body"}
  /\ cumulative \in IF dialect = "vertex" THEN BOOLEAN ELSE {FALSE}
  /\ sending = <<>> /\ events = 0
  /\ name = "none" /\ data = <<>>
  /\ sentSoFar = <<>> /\ out = <<>> /\ result = "none"
  /\ said = <<>> /\ trouble = FALSE /\ guess = FALSE

----------------------------------------------------------------------------
(***************************************************************************)
(* The events of the two upstreams with lines, and their lines.  A "ping"  *)
(* is a blank line, perhaps after a name, without data.  An error may come *)
(* under the name of another event; the parser reads nothing that is named *)
(* "created" (it stands for every name that parseResponsesEvent does not   *)
(* know).                                                                  *)
(***************************************************************************)
Event(kind, names, texts) == [kind : {kind}, name : names, text : texts]

Events ==
  IF dialect = "responses"
  THEN Event("delta", {"none", "delta"}, Texts) \union
       Event("untyped", {"none", "delta"}, Texts) \union
       Event("created", {"none", "created"}, {<<>>}) \union
       Event("completed", {"none", "completed"}, {<<>>}) \union
       Event("error", {"none", "error", "delta", "created"}, {<<>>}) \union
       Event("junk", {"none", "delta"}, {<<>>}) \union
       Event("done", {"none"}, {<<>>}) \union
       Event("ping", {"none", "created"}, {<<>>})
  ELSE Event("content", {"none"}, Texts) \union
       Event("finish", {"none"}, Texts \union {<<>>}) \union
       Event("no_choices", {"none"}, {<<>>}) \union
       Event("error", {"none"}, {<<>>}) \union
       Event("junk", {"none"}, {<<>>}) \union
       Event("done", {"none"}, {<<>>}) \union
       Event("ping", {"none"}, {<<>>})

IsTrouble(e) == e.kind \in {"error", "junk"} /\ e.name # "created"

DataLines(e, n) == [i \in 1..n |-> [type |-> "data", event |-> e, part |-> i, parts |-> n]]

Lines(e, n) ==
  (IF e.name = "none" THEN <<>> ELSE <<[type |-> "event", event |-> e]>>)
  \o DataLines(e, n)
  \o <<[type |-> "blank", event |-> e]>>

Says ==
  /\ dialect \in {"responses", "chat"} /\ result = "none"
  /\ sending = <<>> /\ events < MaxEvents
  /\ \E e \in Events :
       /\ Len(said) + Len(e.text) =< MaxText
       /\ \E n \in IF e.kind = "ping" THEN {0} ELSE 1..2 : sending' = Lines(e, n)
  /\ events' = events + 1
  /\ UNCHANGED <<dialect, cumulative, name, data, sentSoFar, out, result, said, trouble, guess>>

----------------------------------------------------------------------------
(***************************************************************************)
(* The two parsers.                                                        *)
(***************************************************************************)
Text(t)  == [verdict |-> "text", text |-> t]
Nothing  == [verdict |-> "nothing", text |-> <<>>]
Done     == [verdict |-> "done", text |-> <<>>]
Failure  == [verdict |-> "failure", text |-> <<>>]

\* strings.Join(eventData, "\n"), which is JSON when the lines are those of one payload.
Kind(lines) ==
  IF Len(lines) = lines[1].parts /\ \A i \in DOMAIN lines : lines[i].event = lines[1].event
  THEN lines[1].event.kind ELSE "junk"

ParseResponsesSlip(eventName, lines) ==
  LET kind == Kind(lines)
      text == lines[1].event.text
  IN  CASE kind = "done"                                -> Done
        [] eventName \in {"none", "delta"} /\ kind # "done" ->
             CASE kind = "junk"                         -> Failure
               [] kind = "completed"                    -> Done
               [] kind \in {"delta", "untyped"}         -> Text(text)
               [] OTHER                                 -> Nothing
        [] eventName = "error" /\ kind # "done"         -> Failure
        [] eventName = "completed" /\ kind # "done"     -> Done
        [] OTHER                                        -> Nothing

ParseResponses(eventName, lines) ==
  LET kind == Kind(lines)
      text == lines[1].event.text
  IN  CASE kind = "done"                                -> Done
        [] eventName \in {"none", "delta"} /\ kind # "done" ->
             CASE kind \in {"junk", "error"}            -> Failure
               [] kind = "completed"                    -> Done
               [] kind \in {"delta", "untyped"}         -> Text(text)
               [] OTHER                                 -> Nothing
        [] eventName = "error" /\ kind # "done"         -> Failure
        [] eventName = "completed" /\ kind # "done"     -> Done
        [] OTHER                                        -> Nothing

ParseChat(lines) ==
  LET kind == Kind(lines)
  IN  CASE kind \in {"done", "finish"} -> Done
        [] kind \in {"junk", "error"}  -> Failure
        [] kind = "content"            -> Text(lines[1].event.text)
        [] kind = "no_choices"         -> Nothing

Parsed ==
  IF data = <<>> THEN Nothing
  ELSE IF dialect = "responses" THEN ParseResponses(name, data) ELSE ParseChat(data)

----------------------------------------------------------------------------
(***************************************************************************)
(* The scanner's loop.  Comments and other fields change nothing and are   *)
(* left out.                                                               *)
(***************************************************************************)
NextLine(type) ==
  /\ result = "none"
  /\ sending # <<>> /\ Head(sending).type = type
  /\ sending' = Tail(sending)

ReadName ==
  /\ NextLine("event")
  /\ name' = Head(sending).event.name
  /\ UNCHANGED <<dialect, cumulative, events, data, sentSoFar, out, result, said, trouble, guess>>

ReadData ==
  /\ NextLine("data")
  /\ data' = Append(data, Head(sending))
  /\ UNCHANGED <<dialect, cumulative, events, name, sentSoFar, out, result, said, trouble, guess>>

ReadBlankSlip ==
  LET event == Head(sending).event
  IN  /\ NextLine("blank")
      /\ out' = out \o Parsed.text
      /\ result' = CASE Parsed.verdict = "done"    -> "ended"
                     [] Parsed.verdict = "failure" -> "failed"
                     [] OTHER                      -> "none"
      /\ data' = <<>>
      /\ said' = said \o event.text
      /\ trouble' = IsTrouble(event)
      /\ guess' = (event.kind = "finish" /\ event.text # <<>>)
      /\ UNCHANGED <<dialect, cumulative, events, name, sentSoFar>>

\* emitEvent; when it is done the producer leaves.
ReadBlank ==
  LET event == Head(sending).event
  IN  /\ NextLine("blank")
      /\ out' = out \o Parsed.text
      /\ result' = CASE Parsed.verdict = "done"    -> "ended"
                     [] Parsed.verdict = "failure" -> "failed"
                     [] OTHER                      -> "none"
      /\ name' = "none" /\ data' = <<>>
      /\ said' = said \o event.text
      /\ trouble' = IsTrouble(event)
      /\ guess' = (event.kind = "finish" /\ event.text # <<>>)
      /\ UNCHANGED <<dialect, cumulative, events, sentSoFar>>

----------------------------------------------------------------------------
(***************************************************************************)
(* The Vertex producer's loop, and the whole answer in one body: only its  *)
(* output_text, or its first part that has a text, is used.                *)
(***************************************************************************)
SuffixSlip(text) == SubSeq(text, Len(sentSoFar) + 1, Len(text))

Suffix(text) ==
  IF IsPrefix(sentSoFar, text) THEN SubSeq(text, Len(sentSoFar) + 1, Len(text)) ELSE text

Yields ==
  /\ dialect = "vertex" /\ result = "none" /\ events < MaxEvents
  /\ \E new \in Texts \union {<<>>} :
       LET text == IF cumulative THEN said \o new ELSE new
       IN  /\ Len(said) + Len(new) =< MaxText
           /\ IF text = <<>> THEN UNCHANGED <<sentSoFar, out>>
              ELSE /\ out' = out \o Suffix(text)
                   /\ sentSoFar' = text
           /\ said' = said \o new
           /\ guess' = (guess \/ (/\ ~cumulative /\ new # <<>>
                                 /\ sentSoFar # <<>> /\ IsPrefix(sentSoFar, new)))
  /\ events' = events + 1
  /\ UNCHANGED <<dialect, cumulative, sending, name, data, result, trouble>>

AnswersWhole ==
  /\ dialect = "body" /\ result = "none"
  /\ \E first, second \in Texts \union {<<>>}, outputText \in BOOLEAN :
       /\ said' = first \o second
       /\ out' = IF outputText THEN said' ELSE IF first # <<>> THEN first ELSE second
       /\ guess' = (~outputText /\ first # <<>> /\ second # <<>>)
  /\ result' = "ended"
  /\ UNCHANGED <<dialect, cumulative, sending, events, name, data, sentSoFar, trouble>>

----------------------------------------------------------------------------
(***************************************************************************)
(* The upstream closes the connection, or it breaks, at any point of an    *)
(* event; what was read of that event is given up.                         *)
(***************************************************************************)
Ends(how) ==
  /\ result = "none"
  /\ result' = how
  /\ UNCHANGED <<dialect, cumulative, sending, events, name, data, sentSoFar, out, said, guess>>

ReadEOF == dialect # "body" /\ Ends("ended") /\ UNCHANGED trouble

ReadFails == Ends("failed") /\ trouble' = TRUE

Next ==
  \/ Says \/ ReadName \/ ReadData \/ ReadBlank
  \/ Yields \/ AnswersWhole
  \/ ReadEOF \/ ReadFails

Spec == Init /\ [][Next]_vars

----------------------------------------------------------------------------
(***************************************************************************)
(* The types; between two events the scanner remembers nothing of the      *)
(* first, and it never holds lines of two.                                 *)
(***************************************************************************)
ProducersTypeOK ==
  /\ name \in {"none", "delta", "created", "completed", "error"}
  /\ out \in Seq(Letters) /\ said \in Seq(Letters) /\ sentSoFar \in Seq(Letters)
  /\ result \in {"none", "ended", "failed"}
  /\ sending = <<>> /\ result = "none" => name = "none" /\ data = <<>>
  /\ \A i, j \in DOMAIN data : data[i].event = data[j].event

(***************************************************************************)
(* The text that the client is sent is the text that the upstream said in  *)
(* the events that arrived in full, at every moment, unless the producer   *)
(* had to guess: a chat chunk with a finish_reason is not looked at for    *)
(* content, of a body without output_text only the first part counts, and  *)
(* a Vertex text that begins with the one before it is taken for           *)
(* cumulative.  Cumulative texts never come out wrong.                     *)
(***************************************************************************)
StreamIntact ==
  /\ ~guess => out = said
  /\ cumulative => out = said /\ ~guess
  /\ dialect \in {"chat", "body"} => IsPrefix(out, said)

(***************************************************************************)
(* A stream fails exactly when the upstream reported an error, sent what   *)
(* is no JSON, or could not be read: neither does an error pass for an     *)
(* end, nor does a name or a line left over from another event make one.   *)
(* An error under the name of a text is noticed; the exception is one      *)
(* under a name that the parser does not know, which it does not read.     *)
(***************************************************************************)
ErrorNoticed == result = "failed" <=> trouble

=============================================================================
