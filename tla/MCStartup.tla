----------------------------- MODULE MCStartup -----------------------------
(* Files: every list of up to two backends with no numbers, every legacy   *)
(* form, every choice of the numbers of one part, global and of the first  *)
(* of two backends, and every single number out of its range.              *)
EXTENDS Startup, SequencesExt

MCDefault ==
  [total |-> 9, ttft |-> 3, idle |-> 4, attempts |-> 3, base |-> 2, max |-> 6,
   jitter |-> 2, fails |-> 3, window |-> 5, rate |-> 6, probe |-> 1]

Shapes ==
  {e \in [name : {NoName, 1, 2}, kind : {"vertex", "other"}, padded : BOOLEAN,
           complete : BOOLEAN, override : {NoOverride}] : e.kind = "vertex" \/ e.complete}

Lists ==
  [rest : {TRUE}, backend : {"none"}, vertex : {"absent"}, openaiKey : {TRUE},
   enabled : {"unset", "on", "off"}, ewma : BOOLEAN, prefer : {NoName, 2},
   global : {NoOverride}, entries : BoundedSeq(Shapes, 2)]

GoodEntry(name, kind, override) ==
  [name |-> name, kind |-> kind, padded |-> FALSE, complete |-> TRUE, override |-> override]

LegacyForms ==
  [rest : BOOLEAN, backend : {"none", "openai", "vertex", "other"},
   vertex : {"absent", "partly", "complete"}, openaiKey : BOOLEAN,
   enabled : {"unset", "on", "off"}, ewma : {TRUE}, prefer : {NoName, 2},
   global : {NoOverride}, entries : {<<>>, <<GoodEntry(1, "openai", NoOverride)>>}]

\* The second backend is there for Validate; main passes it over.
GoodFile(ewma, global, override) ==
  [rest |-> TRUE, backend |-> "none", vertex |-> "absent", openaiKey |-> TRUE,
   enabled |-> "unset", ewma |-> ewma, prefer |-> NoName, global |-> global,
   entries |-> <<GoodEntry(1, "openai", override),
                 [GoodEntry(2, "vertex", NoOverride) EXCEPT !.padded = TRUE]>>]

Only(part, p) == [f \in Fields |-> IF f \in part THEN p[f] ELSE Unset]

\* A field's global value and the backend's own.
Pairs == {<<Unset, Unset>>, <<0, Unset>>, <<1, Unset>>, <<0, 0>>, <<1, 0>>, <<1, 5>>}

Numbers ==
  UNION {{GoodFile(TRUE, Only(part, [f \in part |-> p[f][1]]), Only(part, [f \in part |-> p[f][2]])) :
            p \in [part -> Pairs]} :
         part \in {TimeoutFields, RetryFields, BreakerFields}}

\* One number out of its range, in one of the two places.
OutOfRange ==
  LET wrong == {Only({f}, [g \in {f} |-> v]) : f \in Fields, v \in {-1, 11}}
  IN  {GoodFile(TRUE, p, NoOverride) : p \in wrong} \union
      {GoodFile(ewma, NoOverride, p) : ewma \in BOOLEAN, p \in wrong}

MCFiles == Lists \union LegacyForms \union Numbers \union OutOfRange

=============================================================================
