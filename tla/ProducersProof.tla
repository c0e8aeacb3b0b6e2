--------------------------- MODULE ProducersProof ---------------------------
(***************************************************************************)
(* Proofs about Producers: whatever the letters of a text and however many *)
(* events an upstream sends, the client is sent what the upstream said,    *)
(* and a stream fails exactly when something was wrong.                    *)
(***************************************************************************)
EXTENDS Producers, SequenceTheorems, TLAPS

NameLine(e)     == [type |-> "event", event |-> e]
DataLine(e, n, i) == [type |-> "data", event |-> e, part |-> i, parts |-> n]
BlankLine(e)    == [type |-> "blank", event |-> e]

LinesOf(e, n) == {NameLine(e), BlankLine(e)} \union {DataLine(e, n, i) : i \in 1..n}

\* What the scanner holds of event e after k of its n data lines, and what is to come.
Taken(e, n, k) == [i \in 1..k |-> DataLine(e, n, i)]
Rest(e, n, k)  ==
  [i \in 1..(n - k + 1) |-> IF i =< n - k THEN DataLine(e, n, i + k) ELSE BlankLine(e)]

----------------------------------------------------------------------------
(***************************************************************************)
(* Reading the lines of one event.                                         *)
(***************************************************************************)

\* Taken and Rest are sequences of lines of the event; nothing is taken at first.
LEMMA LinesTyped ==
  ASSUME NEW e, NEW n \in Nat, NEW k \in 0..n
  PROVE  /\ Taken(e, n, k) \in Seq(LinesOf(e, n)) /\ Len(Taken(e, n, k)) = k
         /\ Rest(e, n, k) \in Seq(LinesOf(e, n)) /\ Len(Rest(e, n, k)) = n - k + 1
         /\ Taken(e, n, 0) = <<>>
<1> DEFINE S == LinesOf(e, n)
           T == Taken(e, n, k)
           R == Rest(e, n, k)
<1>1. T \in [1..k -> S]
  BY DEF Taken, LinesOf
<1>2. R \in [1..(n - k + 1) -> S]
  <2> SUFFICES ASSUME NEW i \in 1..(n - k + 1)
               PROVE  (IF i =< n - k THEN DataLine(e, n, i + k) ELSE BlankLine(e)) \in S
    BY DEF Rest
  <2>1. CASE i =< n - k
    <3>1. i + k \in 1..n
      BY <2>1
    <3> QED  BY <2>1, <3>1 DEF LinesOf
  <2>2. CASE ~(i =< n - k)
    BY <2>2 DEF LinesOf
  <2> QED  BY <2>1, <2>2
<1>3. n - k + 1 \in Nat
  OBVIOUS
<1> HIDE DEF S, T, R
<1>4. T \in Seq(S) /\ R \in Seq(S)
  BY <1>1, <1>2, <1>3, SeqDef
<1>5. Len(T) = k /\ Len(R) = n - k + 1
  BY <1>1, <1>2, <1>3, <1>4, LenProperties
<1>6. Taken(e, n, 0) = <<>>
  <2>1. Taken(e, n, 0) \in [1..0 -> S]
    BY DEF Taken
  <2>2. Taken(e, n, 0) \in Seq(S)
    BY <2>1, SeqDef
  <2>3. Len(Taken(e, n, 0)) = 0
    BY <2>1, <2>2, LenProperties
  <2> QED  BY <2>2, <2>3, EmptySeq
<1> QED  BY <1>4, <1>5, <1>6 DEF S, T, R

\* The first line of what is to come is the next data line, or the blank line
\* when there is none; taking it leads to the next Rest.
LEMMA NextOfRest ==
  ASSUME NEW e, NEW n \in Nat, NEW k \in 0..n
  PROVE  /\ Rest(e, n, k) # <<>>
         /\ k < n => /\ Head(Rest(e, n, k)) = DataLine(e, n, k + 1)
                     /\ Tail(Rest(e, n, k)) = Rest(e, n, k + 1)
                     /\ Append(Taken(e, n, k), DataLine(e, n, k + 1)) = Taken(e, n, k + 1)
         /\ k = n => /\ Head(Rest(e, n, k)) = BlankLine(e)
                     /\ Tail(Rest(e, n, k)) = <<>>
<1> DEFINE S == LinesOf(e, n)
           R == Rest(e, n, k)
           T == Taken(e, n, k)
<1>1. R \in Seq(S) /\ Len(R) = n - k + 1 /\ T \in Seq(S) /\ Len(T) = k
  BY LinesTyped
<1>2. R # <<>> /\ R[1] = Head(R)
  <2>1. Len(R) # 0
    BY <1>1
  <2> HIDE DEF R, S
  <2> QED  BY <1>1, <2>1, EmptySeq
<1>3. /\ Tail(R) \in Seq(S) /\ Len(Tail(R)) = n - k
      /\ \A i \in 1..(n - k) : Tail(R)[i] = R[i + 1]
  <2> HIDE DEF R, S
  <2> QED  BY <1>1, <1>2, HeadTailProperties
<1>4. ASSUME k < n
      PROVE  /\ Head(R) = DataLine(e, n, k + 1)
             /\ Tail(R) = Rest(e, n, k + 1)
             /\ Append(T, DataLine(e, n, k + 1)) = Taken(e, n, k + 1)
  <2>1. Head(R) = DataLine(e, n, k + 1)
    <3>1. R[1] = DataLine(e, n, 1 + k)
      BY <1>4 DEF Rest
    <3> QED  BY <1>2, <3>1
  <2>2. k + 1 \in 0..n
    BY <1>4
  <2>3. /\ Rest(e, n, k + 1) \in Seq(S) /\ Len(Rest(e, n, k + 1)) = n - k
        /\ Taken(e, n, k + 1) \in Seq(S) /\ Len(Taken(e, n, k + 1)) = k + 1
    <3>1. PICK j \in 0..n : j = k + 1
      BY <2>2
    <3>2. /\ Rest(e, n, j) \in Seq(S) /\ Len(Rest(e, n, j)) = n - j + 1
          /\ Taken(e, n, j) \in Seq(S) /\ Len(Taken(e, n, j)) = j
      BY LinesTyped
    <3>3. n - j + 1 = n - k
      BY <3>1
    <3> HIDE DEF S
    <3> QED  BY <3>1, <3>2, <3>3
  <2>4. Tail(R) = Rest(e, n, k + 1)
    <3>1. ASSUME NEW i \in 1..(n - k)
          PROVE  Tail(R)[i] = Rest(e, n, k + 1)[i]
      <4>1. Tail(R)[i] = R[i + 1] /\ i + 1 \in 1..(n - k + 1) /\ i \in 1..(n - (k + 1) + 1)
        BY <1>3
      <4>2. R[i + 1] = IF i + 1 =< n - k THEN DataLine(e, n, (i + 1) + k) ELSE BlankLine(e)
        BY <4>1 DEF Rest
      <4>3. Rest(e, n, k + 1)[i] = IF i =< n - (k + 1) THEN DataLine(e, n, i + (k + 1)) ELSE BlankLine(e)
        BY <4>1 DEF Rest
      <4>4. (i + 1) + k = i + (k + 1) /\ (i + 1 =< n - k <=> i =< n - (k + 1))
        OBVIOUS
      <4> QED  BY <4>1, <4>2, <4>3, <4>4
    <3> HIDE DEF R, S
    <3> QED  BY <1>3, <2>3, <3>1, SeqEqual
  <2>5. Append(T, DataLine(e, n, k + 1)) = Taken(e, n, k + 1)
    <3>1. k + 1 \in 1..n
      BY <1>4
    <3>2. DataLine(e, n, k + 1) \in S
      BY <3>1 DEF LinesOf
    <3>3. PICK d : d = DataLine(e, n, k + 1)
      OBVIOUS
    <3>4. /\ Append(T, d) \in Seq(S) /\ Len(Append(T, d)) = k + 1
          /\ \A i \in 1..k : Append(T, d)[i] = T[i]
          /\ Append(T, d)[k + 1] = d
      <4> HIDE DEF T, S
      <4> QED  BY <1>1, <3>2, <3>3, AppendProperties
    <3>5. ASSUME NEW i \in 1..(k + 1)
          PROVE  Append(T, d)[i] = Taken(e, n, k + 1)[i]
      <4>1. Taken(e, n, k + 1)[i] = DataLine(e, n, i)
        BY DEF Taken
      <4>2. CASE i = k + 1
        BY <3>3, <3>4, <4>1, <4>2
      <4>3. CASE i \in 1..k
        <5>1. T[i] = DataLine(e, n, i)
          BY <4>3 DEF Taken
        <5> QED  BY <3>4, <4>1, <4>3, <5>1
      <4>4. i = k + 1 \/ i \in 1..k
        OBVIOUS
      <4> HIDE DEF T, S
      <4> QED  BY <4>2, <4>3, <4>4
    <3> HIDE DEF T, S
    <3> QED  BY <2>3, <3>3, <3>4, <3>5, SeqEqual
  <2> QED  BY <2>1, <2>4, <2>5
<1>5. ASSUME k = n
      PROVE  Head(R) = BlankLine(e) /\ Tail(R) = <<>>
  <2>1. R[1] = BlankLine(e)
    BY <1>5 DEF Rest
  <2>2. Len(Tail(R)) = 0
    BY <1>3, <1>5
  <2> HIDE DEF R, S
  <2> QED  BY <1>2, <1>3, <2>1, <2>2, EmptySeq
<1> QED  BY <1>2, <1>4, <1>5

\* The lines of an event without a name are its Rest; with one, the name comes first.
LEMMA LinesBegin ==
  ASSUME NEW e, NEW n \in Nat
  PROVE  /\ e.name = "none" => Lines(e, n) = Rest(e, n, 0)
         /\ e.name # "none" => /\ Lines(e, n) # <<>>
                               /\ Head(Lines(e, n)) = NameLine(e)
                               /\ Tail(Lines(e, n)) = Rest(e, n, 0)
<1> DEFINE S == LinesOf(e, n)
           D == DataLines(e, n)
           B == <<BlankLine(e)>>
           N == <<NameLine(e)>>
           R == Rest(e, n, 0)
           L == (N \o D) \o B
<1>1. D = Taken(e, n, n)
  BY DEF DataLines, Taken, DataLine
<1>2. D \in Seq(S) /\ Len(D) = n
  <2>1. n \in 0..n
    OBVIOUS
  <2>2. Taken(e, n, n) \in Seq(S) /\ Len(Taken(e, n, n)) = n
    BY <2>1, LinesTyped
  <2> HIDE DEF S, D
  <2> QED  BY <1>1, <2>2
<1>3. R \in Seq(S) /\ Len(R) = n + 1
  BY LinesTyped
<1>4. /\ B \in Seq(S) /\ Len(B) = 1 /\ B[1] = BlankLine(e)
      /\ N \in Seq(S) /\ Len(N) = 1 /\ N[1] = NameLine(e)
  BY DEF LinesOf
<1>5. \A i \in 1..n : D[i] = DataLine(e, n, i)
  BY <1>1 DEF Taken
<1>6. \A i \in 1..(n + 1) : R[i] = IF i =< n THEN DataLine(e, n, i) ELSE BlankLine(e)
  BY DEF Rest
<1>7. e.name = "none" => Lines(e, n) = (<<>> \o D) \o B
  BY DEF Lines, BlankLine
<1>8. e.name # "none" => Lines(e, n) = L
  BY DEF Lines, BlankLine, NameLine
<1> HIDE DEF S, D, B, N, R
<1>9. D \o B = R
  <2>1. /\ D \o B \in Seq(S) /\ Len(D \o B) = n + 1
        /\ \A i \in 1..(n + 1) : (D \o B)[i] = IF i =< n THEN D[i] ELSE B[i - n]
    <3>1. /\ D \o B \in Seq(S) /\ Len(D \o B) = Len(D) + Len(B)
          /\ \A i \in 1..(Len(D) + Len(B)) :
               (D \o B)[i] = IF i =< Len(D) THEN D[i] ELSE B[i - Len(D)]
      BY <1>2, <1>4, ConcatProperties
    <3> QED  BY <1>2, <1>4, <3>1
  <2>2. ASSUME NEW i \in 1..(n + 1)
        PROVE  (D \o B)[i] = R[i]
    <3>1. CASE i =< n
      BY <1>5, <1>6, <2>1, <3>1
    <3>2. CASE i = n + 1
      <4>1. ~(i =< n) /\ i - n = 1
        BY <3>2
      <4>2. (D \o B)[i] = B[1]
        BY <2>1, <4>1
      <4> QED  BY <1>4, <1>6, <4>1, <4>2
    <3>3. i =< n \/ i = n + 1
      OBVIOUS
    <3> QED  BY <3>1, <3>2, <3>3
  <2> QED  BY <1>3, <2>1, <2>2, SeqEqual
<1>10. <<>> \o D = D
  BY <1>2, ConcatEmptySeq
<1>11. L # <<>> /\ Head(L) = NameLine(e) /\ Tail(L) = R
  <2>1. L = N \o R
    <3>1. (N \o D) \o B = N \o (D \o B)
      BY <1>2, <1>4, ConcatAssociative
    <3> QED  BY <1>9, <3>1
  <2>2. /\ L \in Seq(S) /\ Len(L) = n + 2
        /\ \A i \in 1..(n + 2) : L[i] = IF i =< 1 THEN N[i] ELSE R[i - 1]
    <3>1. /\ N \o R \in Seq(S) /\ Len(N \o R) = Len(N) + Len(R)
          /\ \A i \in 1..(Len(N) + Len(R)) :
               (N \o R)[i] = IF i =< Len(N) THEN N[i] ELSE R[i - Len(N)]
      BY <1>3, <1>4, ConcatProperties
    <3>2. Len(N) + Len(R) = n + 2
      BY <1>3, <1>4
    <3> HIDE DEF L
    <3> QED  BY <1>4, <2>1, <3>1, <3>2
  <2> HIDE DEF L
  <2>3. L # <<>> /\ Head(L) = L[1]
    BY <2>2, EmptySeq
  <2>4. L[1] = N[1]
    BY <2>2
  <2>5. /\ Tail(L) \in Seq(S) /\ Len(Tail(L)) = n + 1
        /\ \A i \in 1..(n + 1) : Tail(L)[i] = L[i + 1]
    BY <2>2, <2>3, HeadTailProperties
  <2>6. \A i \in 1..(n + 1) : L[i + 1] = R[i]
    BY <2>2
  <2>7. Tail(L) = R
    BY <1>3, <2>5, <2>6, SeqEqual
  <2> QED  BY <1>4, <2>3, <2>4, <2>7
<1> QED  BY <1>7, <1>8, <1>9, <1>10, <1>11 DEF R

----------------------------------------------------------------------------
(***************************************************************************)
(* The inductive invariant.                                                *)
(***************************************************************************)

EventNames == {"none", "delta", "created", "completed", "error"}

Typed ==
  /\ dialect \in {"responses", "chat", "vertex", "body"} /\ cumulative \in BOOLEAN
  /\ name \in EventNames
  /\ out \in Seq(Letters) /\ said \in Seq(Letters) /\ sentSoFar \in Seq(Letters)
  /\ result \in {"none", "ended", "failed"}

\* Where the scanner is: between two events, before the name of one, or after k
\* of its n data lines.
Between        == sending = <<>> /\ name = "none" /\ data = <<>>
Named(e, n)    == e.name # "none" /\ sending = Lines(e, n) /\ name = "none" /\ data = <<>>
Reading(e, n, k) == name = e.name /\ data = Taken(e, n, k) /\ sending = Rest(e, n, k)

Underway ==
  \E e \in Events, n \in Nat :
    /\ n = 0 <=> e.kind = "ping"
    /\ Named(e, n) \/ \E k \in 0..n : Reading(e, n, k)

Scanning ==
  /\ result = "none" => Between \/ (dialect \in {"responses", "chat"} /\ Underway)
  /\ \A i, j \in DOMAIN data : data[i].event = data[j].event

\* What has been sent, against what was said.  While a producer of lines or of a
\* body has not left, nothing was guessed; what it guesses last only drops text.
Faithful ==
  /\ result = "none" /\ dialect \in {"responses", "chat", "body"} => out = said /\ ~guess
  /\ cumulative => dialect = "vertex" /\ out = said /\ sentSoFar = said /\ ~guess
  /\ ~guess => out = said
  /\ dialect \in {"chat", "body"} => IsPrefix(out, said)

Judged ==
  /\ result = "none" => ~trouble
  /\ ErrorNoticed

LInv == Typed /\ Scanning /\ Faithful /\ Judged

----------------------------------------------------------------------------
(***************************************************************************)
(* Texts and prefixes of them.                                             *)
(***************************************************************************)

\* A text begins with each text that it was made from, and what follows is the rest.
LEMMA ConcatPrefix ==
  ASSUME NEW S, NEW s \in Seq(S), NEW t \in Seq(S)
  PROVE  /\ IsPrefix(s, s \o t)
         /\ SubSeq(s \o t, Len(s) + 1, Len(s \o t)) = t
<1>1. /\ Len(s) \in Nat /\ Len(t) \in Nat
      /\ s \o t \in Seq(S) /\ Len(s \o t) = Len(s) + Len(t)
      /\ \A i \in 1..(Len(s) + Len(t)) :
           (s \o t)[i] = IF i <= Len(s) THEN s[i] ELSE t[i - Len(s)]
  BY LenProperties, ConcatProperties
<1>2. \A i \in 1..(Len(s) + Len(t)) : (s \o t)[i] \in S
  BY <1>1, ElementOfSeq
<1> DEFINE st == s \o t
           m == Len(s)
           n == Len(t)
           front == SubSeq(st, 1, m)
           back == SubSeq(st, m + 1, m + n)
<1>3. \A i \in 1..m : st[i] \in S
  BY <1>1, <1>2
<1>4. \A i \in (m + 1)..(m + n) : st[i] \in S
  BY <1>1, <1>2
<1>5. /\ m \in Nat /\ n \in Nat
      /\ \A i \in 1..m : st[i] = s[i]
      /\ \A i \in 1..n : st[(m + 1) + i - 1] = t[i]
  <2>1. m \in Nat /\ n \in Nat /\ \A i \in 1..m : st[i] = s[i]
    BY <1>1
  <2>2. ASSUME NEW i \in 1..n
        PROVE  st[(m + 1) + i - 1] = t[i]
    <3>1. /\ (m + 1) + i - 1 = m + i /\ m + i \in 1..(m + n)
          /\ ~(m + i <= m) /\ (m + i) - m = i
      BY <2>1
    <3> QED  BY <1>1, <3>1
  <2> QED  BY <2>1, <2>2
<1>6. Len(st) = m + n /\ st \in Seq(S)
  BY <1>1
<1> HIDE DEF st, m, n
<1>7. /\ front \in Seq(S) /\ Len(front) = m
      /\ \A i \in 1..m : front[i] = st[i]
  <2>1. /\ SubSeq(st, 1, m) \in Seq(S)
        /\ Len(SubSeq(st, 1, m)) = IF 1 <= m THEN m - 1 + 1 ELSE 0
        /\ \A i \in 1..(m - 1 + 1) : SubSeq(st, 1, m)[i] = st[1 + i - 1]
    BY <1>3, <1>5, SubSeqProperties
  <2>2. m - 1 + 1 = m /\ \A i \in 1..m : 1 + i - 1 = i
    BY <1>5
  <2> QED  BY <1>5, <2>1, <2>2
<1>8. /\ back \in Seq(S) /\ Len(back) = n
      /\ \A i \in 1..n : back[i] = st[(m + 1) + i - 1]
  <2>1. /\ SubSeq(st, m + 1, m + n) \in Seq(S)
        /\ Len(SubSeq(st, m + 1, m + n)) = IF m + 1 <= m + n THEN (m + n) - (m + 1) + 1 ELSE 0
        /\ \A i \in 1..((m + n) - (m + 1) + 1) : SubSeq(st, m + 1, m + n)[i] = st[(m + 1) + i - 1]
    <3>1. m + 1 \in Int /\ m + n \in Int
      BY <1>5
    <3> QED  BY <1>4, <3>1, SubSeqProperties
  <2>2. (m + n) - (m + 1) + 1 = n
    BY <1>5
  <2> QED  BY <1>5, <2>1, <2>2
<1> HIDE DEF front, back
<1>9. front = s
  <2>1. Len(s) = m
    BY DEF m
  <2> QED  BY <1>5, <1>7, <2>1, SeqEqual
<1>10. back = t
  <2>1. Len(t) = n
    BY DEF n
  <2> QED  BY <1>5, <1>8, <2>1, SeqEqual
<1>11. SubSeq(s, 1, Len(s)) = s
  BY SubSeqFull
<1>12. IsPrefix(s, s \o t)
  BY <1>1, <1>9, <1>11 DEF IsPrefix, front, st, m
<1>13. SubSeq(s \o t, Len(s) + 1, Len(s \o t)) = t
  BY <1>6, <1>10 DEF back, st, m, n
<1> QED  BY <1>12, <1>13

\* A text is a prefix of itself, and the empty text of every text.
LEMMA TrivialPrefixes ==
  ASSUME NEW S, NEW s \in Seq(S)
  PROVE  IsPrefix(s, s) /\ IsPrefix(<<>>, s)
<1>1. <<>> \in Seq(S) /\ s \o <<>> = s /\ <<>> \o s = s
  BY ConcatEmptySeq, EmptySeq
<1>2. IsPrefix(s, s \o <<>>)
  BY <1>1, ConcatPrefix
<1>3. IsPrefix(<<>>, <<>> \o s)
  BY <1>1, ConcatPrefix
<1> QED  BY <1>1, <1>2, <1>3

\* What is left of a text after a prefix is a text.
LEMMA SuffixTyped ==
  ASSUME NEW text \in Seq(Letters), sentSoFar \in Seq(Letters)
  PROVE  Suffix(text) \in Seq(Letters)
<1>1. Len(sentSoFar) + 1 \in Int /\ Len(text) \in Int /\ Len(sentSoFar) \in Nat
  BY LenProperties
<1>2. \A i \in (Len(sentSoFar) + 1)..Len(text) : text[i] \in Letters
  BY <1>1, ElementOfSeq
<1>3. SubSeq(text, Len(sentSoFar) + 1, Len(text)) \in Seq(Letters)
  BY <1>1, <1>2, SubSeqProperties
<1> QED  BY <1>3 DEF Suffix

\* A text that an upstream sends is a sequence of letters.
LEMMA TextsTyped ==
  ASSUME NEW t \in Texts
  PROVE  t \in Seq(Letters)
<1>1. CASE t \in {<<x>> : x \in Letters}
  <2>1. PICK x \in Letters : t = <<x>>
    BY <1>1
  <2> QED  BY <2>1
<1>2. CASE t \in {<<x, y>> : x, y \in Letters}
  <2>1. PICK x \in Letters, y \in Letters : t = <<x, y>>
    BY <1>2
  <2> QED  BY <2>1
<1> QED  BY <1>1, <1>2 DEF Texts

\* The fields of an event of one kind.
LEMMA EventFields ==
  ASSUME NEW kind, NEW names, NEW texts, NEW e \in Event(kind, names, texts)
  PROVE  e.kind = kind /\ e.name \in names /\ e.text \in texts
BY DEF Event

\* What is known of an event of the Responses upstream.
LEMMA ResponsesEvents ==
  ASSUME NEW e \in Events, dialect = "responses"
  PROVE  \/ e.kind \in {"delta", "untyped"} /\ e.name \in {"none", "delta"} /\ e.text \in Texts
         \/ /\ e.text = <<>>
            /\ \/ e.kind \in {"created", "ping"} /\ e.name \in {"none", "created"}
               \/ e.kind = "completed" /\ e.name \in {"none", "completed"}
               \/ e.kind = "error" /\ e.name \in {"none", "error", "delta", "created"}
               \/ e.kind = "junk" /\ e.name \in {"none", "delta"}
               \/ e.kind = "done" /\ e.name = "none"
<1>1. \/ e \in Event("delta", {"none", "delta"}, Texts)
      \/ e \in Event("untyped", {"none", "delta"}, Texts)
      \/ e \in Event("created", {"none", "created"}, {<<>>})
      \/ e \in Event("completed", {"none", "completed"}, {<<>>})
      \/ e \in Event("error", {"none", "error", "delta", "created"}, {<<>>})
      \/ e \in Event("junk", {"none", "delta"}, {<<>>})
      \/ e \in Event("done", {"none"}, {<<>>})
      \/ e \in Event("ping", {"none", "created"}, {<<>>})
  BY DEF Events
<1>2. CASE e \in Event("delta", {"none", "delta"}, Texts)
  BY <1>2, EventFields
<1>3. CASE e \in Event("untyped", {"none", "delta"}, Texts)
  BY <1>3, EventFields
<1>4. CASE e \in Event("created", {"none", "created"}, {<<>>})
  BY <1>4, EventFields
<1>5. CASE e \in Event("completed", {"none", "completed"}, {<<>>})
  BY <1>5, EventFields
<1>6. CASE e \in Event("error", {"none", "error", "delta", "created"}, {<<>>})
  BY <1>6, EventFields
<1>7. CASE e \in Event("junk", {"none", "delta"}, {<<>>})
  BY <1>7, EventFields
<1>8. CASE e \in Event("done", {"none"}, {<<>>})
  BY <1>8, EventFields
<1>9. CASE e \in Event("ping", {"none", "created"}, {<<>>})
  BY <1>9, EventFields
<1> QED  BY <1>1, <1>2, <1>3, <1>4, <1>5, <1>6, <1>7, <1>8, <1>9

\* What is known of an event of the chat upstream.
LEMMA ChatEvents ==
  ASSUME NEW e \in Events, dialect = "chat"
  PROVE  /\ e.name = "none"
         /\ \/ e.kind = "content" /\ e.text \in Texts
            \/ e.kind = "finish" /\ e.text \in Texts \union {<<>>}
            \/ e.kind \in {"no_choices", "error", "junk", "done", "ping"} /\ e.text = <<>>
<1>1. \/ e \in Event("content", {"none"}, Texts)
      \/ e \in Event("finish", {"none"}, Texts \union {<<>>})
      \/ e \in Event("no_choices", {"none"}, {<<>>})
      \/ e \in Event("error", {"none"}, {<<>>})
      \/ e \in Event("junk", {"none"}, {<<>>})
      \/ e \in Event("done", {"none"}, {<<>>})
      \/ e \in Event("ping", {"none"}, {<<>>})
  BY DEF Events
<1>2. CASE e \in Event("content", {"none"}, Texts)
  BY <1>2, EventFields
<1>3. CASE e \in Event("finish", {"none"}, Texts \union {<<>>})
  BY <1>3, EventFields
<1>4. CASE e \in Event("no_choices", {"none"}, {<<>>})
  BY <1>4, EventFields
<1>5. CASE e \in Event("error", {"none"}, {<<>>})
  BY <1>5, EventFields
<1>6. CASE e \in Event("junk", {"none"}, {<<>>})
  BY <1>6, EventFields
<1>7. CASE e \in Event("done", {"none"}, {<<>>})
  BY <1>7, EventFields
<1>8. CASE e \in Event("ping", {"none"}, {<<>>})
  BY <1>8, EventFields
<1> QED  BY <1>1, <1>2, <1>3, <1>4, <1>5, <1>6, <1>7, <1>8

\* The name and the text of an event.
LEMMA EventsTyped ==
  ASSUME NEW e \in Events, dialect \in {"responses", "chat"}
  PROVE  e.text \in Seq(Letters) /\ e.name \in EventNames
<1>1. /\ \A t \in Texts : t \in Seq(Letters)
      /\ <<>> \in Seq(Letters)
  BY TextsTyped
<1>2. CASE dialect = "responses"
  <2>1. e.text \in Texts \/ e.text = <<>>
    BY <1>2, ResponsesEvents
  <2>2. e.name \in EventNames
    BY <1>2, ResponsesEvents DEF EventNames
  <2> QED  BY <1>1, <2>1, <2>2
<1>3. CASE dialect = "chat"
  <2>1. e.text \in Texts \/ e.text = <<>>
    BY <1>3, ChatEvents
  <2>2. e.name \in EventNames
    BY <1>3, ChatEvents DEF EventNames
  <2> QED  BY <1>1, <2>1, <2>2
<1> QED  BY <1>2, <1>3

----------------------------------------------------------------------------
(***************************************************************************)
(* What the parsers make of an event that they hold in full: the text that *)
(* was said, except in a chat chunk with a finish_reason, and a failure    *)
(* exactly for an error or for what is no JSON, under a name that is read. *)
(***************************************************************************)

\* The lines of one event make its payload, and no line is a payload without data.
LEMMA WholePayload ==
  ASSUME NEW e, NEW n \in Nat, n # 0
  PROVE  /\ Taken(e, n, n) # <<>>
         /\ Kind(Taken(e, n, n)) = e.kind
         /\ Taken(e, n, n)[1].event = e
<1> DEFINE T == Taken(e, n, n)
<1>1. n \in 0..n /\ 1 \in 1..n
  OBVIOUS
<1>2. T \in Seq(LinesOf(e, n)) /\ Len(T) = n
  BY <1>1, LinesTyped
<1>3. DOMAIN T = 1..n /\ \A i \in 1..n : T[i].event = e /\ T[i].parts = n
  BY DEF Taken, DataLine
<1> HIDE DEF T
<1>4. T # <<>>
  BY <1>2, EmptySeq
<1>5. Kind(T) = e.kind
  BY <1>1, <1>2, <1>3 DEF Kind
<1> QED  BY <1>1, <1>3, <1>4, <1>5 DEF T

\* The verdict on the event that was read.
LEMMA Verdicts ==
  ASSUME dialect \in {"responses", "chat"}, NEW e \in Events, NEW n \in Nat,
         n = 0 <=> e.kind = "ping",
         name = e.name, data = Taken(e, n, n)
  PROVE  /\ Parsed.verdict = "failure" <=> IsTrouble(e)
         /\ \/ Parsed.text = e.text /\ (e.kind = "finish" => e.text = <<>>)
            \/ /\ dialect = "chat" /\ e.kind = "finish" /\ e.text # <<>>
               /\ Parsed.verdict = "done" /\ Parsed.text = <<>>
<1>1. CASE n = 0
  <2>1. data = <<>> /\ e.kind = "ping"
    BY <1>1, LinesTyped
  <2>2. e.text = <<>>
    BY <2>1, ResponsesEvents, ChatEvents
  <2> QED  BY <2>1, <2>2 DEF Parsed, Nothing, IsTrouble
<1>2. CASE n # 0 /\ dialect = "responses"
  <2>1. data # <<>> /\ Kind(data) = e.kind /\ data[1].event = e /\ e.kind # "ping"
    BY <1>2, WholePayload
  <2>2. Parsed = ParseResponses(name, data)
    BY <1>2, <2>1 DEF Parsed
  <2> QED  BY <1>2, <2>1, <2>2, ResponsesEvents
           DEF ParseResponses, Text, Nothing, Done, Failure, IsTrouble
<1>3. CASE n # 0 /\ dialect = "chat"
  <2>1. data # <<>> /\ Kind(data) = e.kind /\ data[1].event = e /\ e.kind # "ping"
    BY <1>3, WholePayload
  <2>2. Parsed = ParseChat(data)
    BY <1>3, <2>1 DEF Parsed
  <2> QED  BY <1>3, <2>1, <2>2, ChatEvents
           DEF ParseChat, Text, Nothing, Done, Failure, IsTrouble
<1> QED  BY <1>1, <1>2, <1>3

----------------------------------------------------------------------------
(***************************************************************************)
(* Every action preserves the invariant.                                   *)
(***************************************************************************)

\* At first nothing was said, sent or begun.
LEMMA InitLInv == Init => LInv
<1> SUFFICES ASSUME Init PROVE LInv
  OBVIOUS
<1>1. <<>> \in Seq(Letters) /\ IsPrefix(<<>>, <<>>)
  BY EmptySeq, TrivialPrefixes
<1>2. Typed
  BY <1>1 DEF Init, Typed, EventNames
<1>3. Scanning
  BY DEF Init, Scanning, Between
<1>4. Faithful
  BY <1>1 DEF Init, Faithful
<1>5. Judged
  BY DEF Init, Judged, ErrorNoticed
<1> QED  BY <1>2, <1>3, <1>4, <1>5 DEF LInv

\* A step that changes none of the variables of the conjuncts keeps them.
LEMMA SentUnchanged ==
  ASSUME Typed, Faithful, Judged, name' \in EventNames,
         UNCHANGED <<dialect, cumulative, sentSoFar, out, result, said, trouble, guess>>
  PROVE  Typed' /\ Faithful' /\ Judged'
<1>1. Typed'
  BY DEF Typed
<1>2. Faithful'
  BY DEF Faithful
<1>3. Judged'
  BY DEF Judged, ErrorNoticed
<1> QED  BY <1>1, <1>2, <1>3

\* The lines of a new event come only between two events.
LEMMA SaysLInv == LInv /\ Says => LInv'
<1> SUFFICES ASSUME LInv, Says PROVE LInv'
  OBVIOUS
<1> USE DEF LInv
<1>1. /\ dialect \in {"responses", "chat"} /\ result = "none" /\ sending = <<>>
      /\ UNCHANGED <<dialect, cumulative, name, data, sentSoFar, out, result, said, trouble, guess>>
  BY DEF Says
<1>2. PICK e \in Events, n \in Nat : (n = 0 <=> e.kind = "ping") /\ sending' = Lines(e, n)
  <2>1. PICK e \in Events : \E n \in IF e.kind = "ping" THEN {0} ELSE 1..2 : sending' = Lines(e, n)
    BY DEF Says
  <2>2. PICK n \in IF e.kind = "ping" THEN {0} ELSE 1..2 : sending' = Lines(e, n)
    BY <2>1
  <2>3. n \in Nat /\ (n = 0 <=> e.kind = "ping")
    OBVIOUS
  <2> QED  BY <2>2, <2>3
<1>3. Typed' /\ Faithful' /\ Judged'
  <2>1. name' \in EventNames
    BY <1>1 DEF Typed
  <2> QED  BY <1>1, <2>1, SentUnchanged
<1>4. name = "none" /\ data = <<>>
  <2>1. CASE Between
    BY <2>1 DEF Between
  <2>2. CASE Underway
    <3>1. PICK f \in Events, m \in Nat : Named(f, m) \/ \E k \in 0..m : Reading(f, m, k)
      BY <2>2 DEF Underway
    <3>2. CASE Named(f, m)
      BY <3>2 DEF Named
    <3>3. ASSUME NEW k \in 0..m, Reading(f, m, k)
          PROVE  FALSE
      BY <1>1, <3>3, NextOfRest DEF Reading
    <3> QED  BY <3>1, <3>2, <3>3
  <2> QED  BY <1>1, <2>1, <2>2 DEF Scanning
<1>5. Underway'
  <2>1. e \in Events'
    BY <1>1 DEF Events
  <2>2. CASE e.name = "none"
    <3>1. Rest(e, n, 0) = Lines(e, n) /\ Taken(e, n, 0) = <<>>
      BY <2>2, LinesBegin, LinesTyped
    <3>2. Reading(e, n, 0)'
      BY <1>1, <1>2, <1>4, <2>2, <3>1 DEF Reading
    <3>3. 0 \in 0..n
      OBVIOUS
    <3> QED  BY <1>2, <2>1, <3>2, <3>3 DEF Underway
  <2>3. CASE e.name # "none"
    <3>1. Named(e, n)'
      BY <1>1, <1>2, <1>4, <2>3 DEF Named
    <3> QED  BY <1>2, <2>1, <3>1 DEF Underway
  <2> QED  BY <2>2, <2>3
<1>6. Scanning'
  BY <1>1, <1>5 DEF Scanning
<1> QED  BY <1>3, <1>6

\* What the scanner is in the middle of when it takes a line.
LEMMA LineUnderway ==
  ASSUME Scanning, NEW type, NextLine(type)
  PROVE  /\ dialect \in {"responses", "chat"} /\ result = "none"
         /\ \E e \in Events, n \in Nat :
              /\ n = 0 <=> e.kind = "ping"
              /\ \/ /\ type = "event" /\ Head(sending) = NameLine(e) /\ e.name # "none"
                    /\ name = "none" /\ data = <<>> /\ sending' = Rest(e, n, 0)
                 \/ \E k \in 0..n :
                      /\ Reading(e, n, k)
                      /\ IF k < n THEN /\ type = "data" /\ Head(sending) = DataLine(e, n, k + 1)
                                       /\ sending' = Rest(e, n, k + 1)
                                  ELSE /\ type = "blank" /\ Head(sending) = BlankLine(e)
                                       /\ sending' = <<>>
<1>1. /\ result = "none" /\ sending # <<>> /\ Head(sending).type = type
      /\ sending' = Tail(sending)
  BY DEF NextLine
<1>2. dialect \in {"responses", "chat"} /\ Underway
  BY <1>1 DEF Scanning, Between
<1>3. PICK e \in Events, n \in Nat :
        /\ n = 0 <=> e.kind = "ping"
        /\ Named(e, n) \/ \E k \in 0..n : Reading(e, n, k)
  BY <1>2 DEF Underway
<1>4. CASE Named(e, n)
  <2>1. /\ Head(sending) = NameLine(e) /\ sending' = Rest(e, n, 0)
        /\ e.name # "none" /\ name = "none" /\ data = <<>>
    BY <1>1, <1>4, LinesBegin DEF Named
  <2>2. type = "event"
    BY <1>1, <2>1 DEF NameLine
  <2> QED  BY <1>1, <1>2, <1>3, <2>1, <2>2
<1>5. ASSUME NEW k \in 0..n, Reading(e, n, k)
      PROVE  IF k < n THEN /\ type = "data" /\ Head(sending) = DataLine(e, n, k + 1)
                           /\ sending' = Rest(e, n, k + 1)
                      ELSE /\ type = "blank" /\ Head(sending) = BlankLine(e)
                           /\ sending' = <<>>
  <2>1. sending = Rest(e, n, k)
    BY <1>5 DEF Reading
  <2>2. CASE k < n
    <3>1. Head(sending) = DataLine(e, n, k + 1) /\ sending' = Rest(e, n, k + 1)
      BY <1>1, <2>1, <2>2, NextOfRest
    <3>2. type = "data"
      BY <1>1, <3>1 DEF DataLine
    <3> QED  BY <2>2, <3>1, <3>2
  <2>3. CASE ~(k < n)
    <3>1. k = n
      BY <2>3
    <3>2. Head(sending) = BlankLine(e) /\ sending' = <<>>
      BY <1>1, <2>1, <3>1, NextOfRest
    <3>3. type = "blank"
      BY <1>1, <3>2 DEF BlankLine
    <3> QED  BY <2>3, <3>2, <3>3
  <2> QED  BY <2>2, <2>3
<1> QED  BY <1>1, <1>2, <1>3, <1>4, <1>5

\* The name that is read is the event's.
LEMMA ReadNameLInv == LInv /\ ReadName => LInv'
<1> SUFFICES ASSUME LInv, ReadName PROVE LInv'
  OBVIOUS
<1> USE DEF LInv
<1>1. /\ NextLine("event") /\ name' = Head(sending).event.name
      /\ UNCHANGED <<dialect, cumulative, events, data, sentSoFar, out, result, said, trouble, guess>>
  BY DEF ReadName
<1>2. dialect \in {"responses", "chat"} /\ result = "none"
  BY <1>1, LineUnderway
<1>3. PICK e \in Events, n \in Nat :
        /\ n = 0 <=> e.kind = "ping"
        /\ Head(sending) = NameLine(e)
        /\ data = <<>> /\ sending' = Rest(e, n, 0)
  BY <1>1, LineUnderway
<1>4. name' = e.name
  BY <1>1, <1>3 DEF NameLine
<1>5. Typed' /\ Faithful' /\ Judged'
  BY <1>1, <1>2, <1>4, EventsTyped, SentUnchanged
<1>6. Underway'
  <2>1. e \in Events' /\ 0 \in 0..n
    BY <1>1 DEF Events
  <2>2. Reading(e, n, 0)'
    <3>1. Taken(e, n, 0) = <<>>
      BY <2>1, LinesTyped
    <3> QED  BY <1>1, <1>3, <1>4, <3>1 DEF Reading
  <2> QED  BY <1>3, <2>1, <2>2 DEF Underway
<1>7. Scanning'
  BY <1>1, <1>2, <1>3, <1>6 DEF Scanning
<1> QED  BY <1>5, <1>7

\* The data that is read is the event's next line.
LEMMA ReadDataLInv == LInv /\ ReadData => LInv'
<1> SUFFICES ASSUME LInv, ReadData PROVE LInv'
  OBVIOUS
<1> USE DEF LInv
<1>1. /\ NextLine("data") /\ data' = Append(data, Head(sending))
      /\ UNCHANGED <<dialect, cumulative, events, name, sentSoFar, out, result, said, trouble, guess>>
  BY DEF ReadData
<1>2. dialect \in {"responses", "chat"} /\ result = "none"
  BY <1>1, LineUnderway
<1>3. PICK e \in Events, n \in Nat :
        /\ n = 0 <=> e.kind = "ping"
        /\ \E k \in 0..n : /\ Reading(e, n, k) /\ k < n
                           /\ Head(sending) = DataLine(e, n, k + 1)
                           /\ sending' = Rest(e, n, k + 1)
  BY <1>1, LineUnderway
<1>4. PICK k \in 0..n : /\ Reading(e, n, k) /\ k < n
                        /\ Head(sending) = DataLine(e, n, k + 1)
                        /\ sending' = Rest(e, n, k + 1)
  BY <1>3
<1>5. Typed' /\ Faithful' /\ Judged'
  <2>1. name' \in EventNames
    BY <1>1 DEF Typed
  <2> QED  BY <1>1, <2>1, SentUnchanged
<1>6. data' = Taken(e, n, k + 1)
  BY <1>1, <1>4, NextOfRest DEF Reading
<1>7. Underway'
  <2>1. e \in Events' /\ k + 1 \in 0..n
    BY <1>1, <1>4 DEF Events
  <2>2. Reading(e, n, k + 1)'
    BY <1>1, <1>4, <1>6 DEF Reading
  <2> QED  BY <1>3, <2>1, <2>2 DEF Underway
<1>8. \A i, j \in DOMAIN data' : data'[i].event = data'[j].event
  BY <1>6 DEF Taken, DataLine
<1>9. Scanning'
  BY <1>1, <1>2, <1>7, <1>8 DEF Scanning
<1> QED  BY <1>5, <1>9

\* At the blank line the whole event is parsed, and nothing of it is kept.
LEMMA ReadBlankLInv == LInv /\ ReadBlank => LInv'
<1> SUFFICES ASSUME LInv, ReadBlank PROVE LInv'
  OBVIOUS
<1> USE DEF LInv
<1>1. NextLine("blank")
  BY DEF ReadBlank
<1>2. dialect \in {"responses", "chat"} /\ result = "none"
  BY <1>1, LineUnderway
<1>3. PICK e \in Events, n \in Nat :
        /\ n = 0 <=> e.kind = "ping"
        /\ Reading(e, n, n) /\ Head(sending) = BlankLine(e) /\ sending' = <<>>
  BY <1>1, LineUnderway
<1>4. /\ out' = out \o Parsed.text
      /\ result' = CASE Parsed.verdict = "done"    -> "ended"
                     [] Parsed.verdict = "failure" -> "failed"
                     [] OTHER                      -> "none"
      /\ name' = "none" /\ data' = <<>>
      /\ said' = said \o e.text
      /\ trouble' = IsTrouble(e)
      /\ guess' = (e.kind = "finish" /\ e.text # <<>>)
      /\ UNCHANGED <<dialect, cumulative, sentSoFar>>
  BY <1>3 DEF ReadBlank, BlankLine
<1>5. /\ Parsed.verdict = "failure" <=> IsTrouble(e)
      /\ \/ Parsed.text = e.text /\ (e.kind = "finish" => e.text = <<>>)
         \/ /\ dialect = "chat" /\ e.kind = "finish" /\ e.text # <<>>
            /\ Parsed.verdict = "done" /\ Parsed.text = <<>>
  BY <1>2, <1>3, Verdicts DEF Reading
<1>6. out \in Seq(Letters) /\ said \in Seq(Letters) /\ e.text \in Seq(Letters)
  BY <1>2, EventsTyped DEF Typed
<1>7. out = said /\ cumulative = FALSE
  BY <1>2 DEF Faithful, Typed
<1>8. /\ said' \in Seq(Letters)
      /\ IsPrefix(said, said') /\ IsPrefix(said', said')
      /\ said \o <<>> = said
  BY <1>4, <1>6, ConcatProperties, ConcatPrefix, TrivialPrefixes, ConcatEmptySeq
<1>9. \/ out' = said' /\ ~guess'
      \/ out' = said /\ guess' /\ result' = "ended"
  BY <1>4, <1>5, <1>7, <1>8
<1>10. Typed'
  BY <1>2, <1>4, <1>6, <1>8, <1>9 DEF Typed, EventNames
<1>11. Scanning'
  BY <1>3, <1>4 DEF Scanning, Between
<1>12. Faithful'
  BY <1>2, <1>4, <1>7, <1>8, <1>9 DEF Faithful
<1>13. Judged'
  BY <1>4, <1>5 DEF Judged, ErrorNoticed
<1> QED  BY <1>10, <1>11, <1>12, <1>13

\* A Vertex text: only what is new of it is sent when texts are cumulative.
LEMMA YieldsLInv == LInv /\ Yields => LInv'
<1> SUFFICES ASSUME LInv, Yields PROVE LInv'
  OBVIOUS
<1> USE DEF LInv
<1>1. /\ dialect = "vertex" /\ result = "none"
      /\ UNCHANGED <<dialect, cumulative, sending, name, data, result, trouble>>
  BY DEF Yields
<1>2. PICK new \in Texts \union {<<>>} :
        LET text == IF cumulative THEN said \o new ELSE new
        IN  /\ Len(said) + Len(new) =< MaxText
            /\ IF text = <<>> THEN UNCHANGED <<sentSoFar, out>>
               ELSE /\ out' = out \o Suffix(text)
                    /\ sentSoFar' = text
            /\ said' = said \o new
            /\ guess' = (guess \/ (/\ ~cumulative /\ new # <<>>
                                  /\ sentSoFar # <<>> /\ IsPrefix(sentSoFar, new)))
  BY DEF Yields
<1>3. /\ new \in Seq(Letters) /\ <<>> \in Seq(Letters)
      /\ out \in Seq(Letters) /\ said \in Seq(Letters) /\ sentSoFar \in Seq(Letters)
  BY TextsTyped, EmptySeq DEF Typed
<1>4. PICK text : text = IF cumulative THEN said \o new ELSE new
  OBVIOUS
<1>5. /\ IF text = <<>> THEN sentSoFar' = sentSoFar /\ out' = out
         ELSE out' = out \o Suffix(text) /\ sentSoFar' = text
      /\ said' = said \o new
      /\ guess' = (guess \/ (/\ ~cumulative /\ new # <<>>
                            /\ sentSoFar # <<>> /\ IsPrefix(sentSoFar, new)))
  BY <1>2, <1>4
<1>6. said \o new \in Seq(Letters) /\ text \in Seq(Letters)
  BY <1>3, <1>4, ConcatProperties
<1>7. /\ Suffix(text) \in Seq(Letters)
      /\ out \o Suffix(text) \in Seq(Letters)
  <2>1. Suffix(text) \in Seq(Letters)
    BY <1>3, <1>6, SuffixTyped
  <2> QED  BY <1>3, <2>1, ConcatProperties
<1>8. Typed'
  BY <1>1, <1>3, <1>5, <1>6, <1>7 DEF Typed
<1>9. Scanning'
  <2>1. Between
    BY <1>1 DEF Scanning
  <2> QED  BY <1>1, <2>1 DEF Scanning, Between
<1>10. Judged'
  BY <1>1 DEF Judged, ErrorNoticed
<1>11. ASSUME cumulative
       PROVE  out' = said' /\ sentSoFar' = said' /\ ~guess'
  <2>1. out = said /\ sentSoFar = said /\ ~guess /\ text = said \o new
    BY <1>4, <1>11 DEF Faithful
  <2>2. ~guess'
    BY <1>5, <1>11, <2>1
  <2>3. CASE text = <<>>
    <3>1. said = <<>>
      <4>1. Len(said \o new) = Len(said) + Len(new) /\ Len(said) \in Nat /\ Len(new) \in Nat
        BY <1>3, ConcatProperties, LenProperties
      <4>2. said \o new = <<>> /\ Len(<<>>) = 0
        BY <2>1, <2>3, EmptySeq
      <4>3. Len(said) = 0
        BY <4>1, <4>2
      <4> QED  BY <1>3, <4>3, EmptySeq
    <3> QED  BY <1>5, <2>1, <2>2, <2>3, <3>1
  <2>4. CASE text # <<>>
    <3>1. IsPrefix(said, said \o new)
      BY <1>3, ConcatPrefix
    <3>2. SubSeq(said \o new, Len(said) + 1, Len(said \o new)) = new
      BY <1>3, ConcatPrefix
    <3>3. Suffix(text) = new
      BY <2>1, <3>1, <3>2 DEF Suffix
    <3> QED  BY <1>5, <2>1, <2>2, <2>4, <3>3
  <2> QED  BY <2>3, <2>4
<1>12. ASSUME ~cumulative, ~guess'
       PROVE  out' = said'
  <2>1. out = said /\ text = new
    BY <1>4, <1>5, <1>12 DEF Faithful
  <2>2. CASE new = <<>>
    BY <1>3, <1>5, <2>1, <2>2, ConcatEmptySeq
  <2>3. CASE new # <<>> /\ ~IsPrefix(sentSoFar, new)
    <3>1. Suffix(new) = new
      BY <2>3 DEF Suffix
    <3> QED  BY <1>5, <2>1, <2>3, <3>1
  <2>4. CASE new # <<>> /\ sentSoFar = <<>>
    <3>1. /\ <<>> \o new = new
          /\ IsPrefix(<<>>, <<>> \o new)
          /\ SubSeq(<<>> \o new, Len(<<>>) + 1, Len(<<>> \o new)) = new
      BY <1>3, ConcatPrefix, ConcatEmptySeq
    <3>2. Suffix(new) = new
      BY <2>4, <3>1 DEF Suffix
    <3> QED  BY <1>5, <2>1, <2>4, <3>2
  <2> QED  BY <1>5, <1>12, <2>2, <2>3, <2>4
<1>13. Faithful'
  BY <1>1, <1>11, <1>12 DEF Faithful
<1> QED  BY <1>8, <1>9, <1>10, <1>13

\* A whole answer: its first text, unless that is empty or there is an output_text.
LEMMA AnswersWholeLInv == LInv /\ AnswersWhole => LInv'
<1> SUFFICES ASSUME LInv, AnswersWhole PROVE LInv'
  OBVIOUS
<1> USE DEF LInv
<1>1. /\ dialect = "body" /\ result = "none" /\ result' = "ended"
      /\ UNCHANGED <<dialect, cumulative, sending, events, name, data, sentSoFar, trouble>>
  BY DEF AnswersWhole
<1>2. PICK first \in Texts \union {<<>>}, second \in Texts \union {<<>>}, outputText \in BOOLEAN :
        /\ said' = first \o second
        /\ out' = IF outputText THEN said' ELSE IF first # <<>> THEN first ELSE second
        /\ guess' = (~outputText /\ first # <<>> /\ second # <<>>)
  BY DEF AnswersWhole
<1>3. first \in Seq(Letters) /\ second \in Seq(Letters)
  BY TextsTyped, EmptySeq
<1>4. /\ said' \in Seq(Letters) /\ IsPrefix(first, said') /\ IsPrefix(said', said')
      /\ first \o <<>> = first /\ <<>> \o second = second
  BY <1>2, <1>3, ConcatProperties, ConcatPrefix, TrivialPrefixes, ConcatEmptySeq
<1>5. \/ out' = said' \/ (out' = first /\ guess')
  BY <1>2, <1>4
<1>6. Typed'
  BY <1>1, <1>3, <1>4, <1>5 DEF Typed
<1>7. Scanning'
  BY <1>1 DEF Scanning
<1>8. cumulative = FALSE
  BY <1>1 DEF Faithful, Typed
<1>9. Faithful'
  BY <1>1, <1>4, <1>5, <1>8 DEF Faithful
<1>10. Judged'
  BY <1>1 DEF Judged, ErrorNoticed
<1> QED  BY <1>6, <1>7, <1>9, <1>10

\* The producer leaves: nothing more is sent, and only a broken connection is trouble.
LEMMA EndsLInv == LInv /\ (ReadEOF \/ ReadFails) => LInv'
<1> SUFFICES ASSUME LInv, ReadEOF \/ ReadFails PROVE LInv'
  OBVIOUS
<1> USE DEF LInv
<1>1. /\ result = "none"
      /\ \/ result' = "ended" /\ trouble' = trouble
         \/ result' = "failed" /\ trouble' = TRUE
      /\ UNCHANGED <<dialect, cumulative, sending, events, name, data, sentSoFar, out, said, guess>>
  BY DEF ReadEOF, ReadFails, Ends
<1>2. Typed'
  BY <1>1 DEF Typed
<1>3. Scanning'
  BY <1>1 DEF Scanning
<1>4. Faithful'
  BY <1>1 DEF Faithful
<1>5. Judged'
  BY <1>1 DEF Judged, ErrorNoticed
<1> QED  BY <1>2, <1>3, <1>4, <1>5

\* The invariant is one.
LEMMA StreamsKeepLInv == Spec => []LInv
<1>1. LInv /\ UNCHANGED vars => LInv'
  <2> SUFFICES ASSUME LInv, UNCHANGED vars PROVE LInv'
    OBVIOUS
  <2> USE DEF LInv, vars
  <2>1. Typed' /\ Faithful' /\ Judged'
    <3>1. name' \in EventNames
      BY DEF Typed
    <3> QED  BY <3>1, SentUnchanged
  <2>2. Underway => Underway'
    BY DEF Underway, Named, Reading, Events
  <2>3. Scanning'
    BY <2>2 DEF Scanning, Between
  <2> QED  BY <2>1, <2>3
<1>2. LInv /\ [Next]_vars => LInv'
  BY <1>1, SaysLInv, ReadNameLInv, ReadDataLInv, ReadBlankLInv, YieldsLInv, AnswersWholeLInv,
     EndsLInv DEF Next
<1> QED  BY InitLInv, <1>2, PTL DEF Spec

----------------------------------------------------------------------------
(***************************************************************************)
(* The theorems.                                                           *)
(***************************************************************************)

(***************************************************************************)
(* The types, and that the scanner (eventName, eventData) never holds      *)
(* lines of two events nor anything of an event that is over.              *)
(***************************************************************************)
THEOREM ProducersTypes == Spec => []ProducersTypeOK
<1>1. LInv => ProducersTypeOK
  <2> SUFFICES ASSUME LInv PROVE ProducersTypeOK
    OBVIOUS
  <2>1. sending = <<>> /\ result = "none" => name = "none" /\ data = <<>>
    <3> SUFFICES ASSUME sending = <<>>, result = "none", Underway
                 PROVE  FALSE
      BY DEF LInv, Scanning, Between
    <3>1. PICK e \in Events, n \in Nat : Named(e, n) \/ \E k \in 0..n : Reading(e, n, k)
      BY DEF Underway
    <3>2. CASE Named(e, n)
      BY <3>2, LinesBegin DEF Named
    <3>3. ASSUME NEW k \in 0..n, Reading(e, n, k)
          PROVE  FALSE
      BY <3>3, NextOfRest DEF Reading
    <3> QED  BY <3>1, <3>2, <3>3
  <2> QED  BY <2>1 DEF LInv, Typed, Scanning, ProducersTypeOK, EventNames
<1> QED  BY <1>1, StreamsKeepLInv, PTL

(***************************************************************************)
(* The text that the client is sent is the text that the upstream said in  *)
(* whole events, unless the producer had to guess; a cumulative Vertex     *)
(* text never comes out wrong, and a guess of the chat and body producers  *)
(* drops text at the end but invents none.                                 *)
(***************************************************************************)
THEOREM StreamsAreIntact == Spec => []StreamIntact
<1>1. LInv => StreamIntact
  BY DEF LInv, Faithful, StreamIntact
<1> QED  BY <1>1, StreamsKeepLInv, PTL

(***************************************************************************)
(* A stream fails if and only if the upstream reported an error, sent what *)
(* is no JSON, or could not be read.                                       *)
(***************************************************************************)
THEOREM ErrorsAreNoticed == Spec => []ErrorNoticed
<1>1. LInv => ErrorNoticed
  BY DEF LInv, Judged
<1> QED  BY <1>1, StreamsKeepLInv, PTL

=============================================================================
