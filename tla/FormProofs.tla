----------------------------- MODULE FormProofs -----------------------------
(***************************************************************************)
(* Proofs about the article form, for texts of every length: what a form   *)
(* shows comes back from it, no form is used on another article than its   *)
(* own, and a refused form loses nothing.                                  *)
(***************************************************************************)
EXTENDS AdminProofs, SequenceTheorems, WellFoundedInduction, NaturalsInduction

\* Induction from 0 to N, with a set in the place of the predicate.
LEMMA UpToN ==
  ASSUME NEW N \in Nat, NEW T, 0 \in T, \A n \in 1..N : n - 1 \in T => n \in T
  PROVE  0..N \subseteq T
<1> DEFINE B == (0..N) \ T
<1> SUFFICES ASSUME B # {}
             PROVE  FALSE
  OBVIOUS
<1>1. B \subseteq Nat
  OBVIOUS
<1>2. PICK m \in B : \A n \in B : <<n, m>> \notin OpToRel(<, Nat)
  <2> HIDE DEF B
  <2> QED
    BY <1>1, WFMin, NatLessThanWellFounded, Zenon
<1>3. \A n \in B : ~(n < m)
  <2> HIDE DEF B
  <2>1. m \in Nat
    BY <1>1
  <2> QED
    BY <1>1, <1>2, <2>1, Zenon DEF OpToRel
<1>4. m \in 1..N /\ m - 1 \in 0..N /\ m - 1 < m
  OBVIOUS
<1>5. m - 1 \in T
  BY <1>3, <1>4
<1> QED
  BY <1>4, <1>5

\* What the loop of parseSources and parseRelations computes: f after each line.
LoopOf(text, f) ==
  f = [n \in 0..Len(text) |->
        IF n = 0 THEN <<>>
        ELSE IF text[n] = Empty THEN f[n - 1] ELSE Append(f[n - 1], text[n])]

\* Lines is the last value of such a function, whenever there is one.
LEMMA LinesDef == ASSUME NEW text, NEW f, LoopOf(text, f)
  PROVE \E g : LoopOf(text, g) /\ Lines(text) = g[Len(text)]
<1> DEFINE g == CHOOSE h : LoopOf(text, h)
<1>1. LoopOf(text, g)
  OBVIOUS
<1>2. Lines(text) = g[Len(text)]
  BY DEF Lines, LoopOf
<1> QED
  BY <1>1, <1>2

\* What the loop has kept after n lines.
KeptUpTo(text, f, n) ==
  \A i \in 0..n : f[i] = IF i = 0 THEN <<>>
                         ELSE IF text[i] = Empty THEN f[i - 1] ELSE Append(f[i - 1], text[i])

\* There is one, for texts of every length.
LEMMA LoopRuns ==
  ASSUME NEW text \in Seq(Text)
  PROVE  \E f \in [0..Len(text) -> Seq(Text)] : LoopOf(text, f)
<1> DEFINE N == Len(text)
           T == {n \in 0..N : \E f \in [0..n -> Seq(Text)] : KeptUpTo(text, f, n)}
<1>1. N \in Nat
  OBVIOUS
<1>2. 0 \in T
  <2> DEFINE f == [i \in 0..0 |-> << >>]
  <2>1. f \in [0..0 -> Seq(Text)]
    OBVIOUS
  <2>2. KeptUpTo(text, f, 0)
    BY DEF KeptUpTo
  <2>3. 0 \in 0..N
    BY <1>1
  <2> HIDE DEF f
  <2> QED
    BY <2>1, <2>2, <2>3
<1>3. ASSUME NEW n \in 1..N, n - 1 \in T
      PROVE  n \in T
  <2>1. PICK f \in [0..(n - 1) -> Seq(Text)] : KeptUpTo(text, f, n - 1)
    BY <1>3
  <2> DEFINE prev == f[n - 1]
             next == IF text[n] = Empty THEN prev ELSE Append(prev, text[n])
             h == [i \in 0..n |-> IF i = n THEN next ELSE f[i]]
  <2>2. n \in Nat /\ n - 1 \in 0..(n - 1) /\ \A i \in 0..n : i # n => i \in 0..(n - 1)
    OBVIOUS
  <2>3. prev \in Seq(Text) /\ text[n] \in Text
    BY <2>1, <2>2
  <2>4. next \in Seq(Text)
    <3> HIDE DEF prev
    <3> QED
      BY <2>3
  <2>5. h \in [0..n -> Seq(Text)]
    <3> HIDE DEF next
    <3> QED
      BY <2>1, <2>2, <2>4
  <2>6. h[n] = next /\ \A i \in 0..(n - 1) : h[i] = f[i]
    BY <2>2
  <2>7. KeptUpTo(text, h, n)
    <3> SUFFICES ASSUME NEW i \in 0..n
                 PROVE  h[i] = IF i = 0 THEN <<>>
                               ELSE IF text[i] = Empty THEN h[i - 1] ELSE Append(h[i - 1], text[i])
      BY DEF KeptUpTo
    <3> HIDE DEF h
    <3>1. CASE i = n
      BY <2>2, <2>6, <3>1
    <3>2. CASE i # n
      <4>1. i \in 0..(n - 1) /\ (i # 0 => i - 1 \in 0..(n - 1))
        BY <3>2
      <4>2. h[i] = f[i] /\ (i # 0 => h[i - 1] = f[i - 1])
        BY <2>6, <4>1
      <4>3. f[i] = IF i = 0 THEN <<>>
                   ELSE IF text[i] = Empty THEN f[i - 1] ELSE Append(f[i - 1], text[i])
        BY <2>1, <4>1 DEF KeptUpTo
      <4> QED
        BY <4>2, <4>3
    <3> QED
      BY <3>1, <3>2
  <2>8. n \in 0..N
    BY <1>1
  <2> HIDE DEF h, N
  <2> QED
    BY <2>5, <2>7, <2>8
<1>4. N \in T
  <2>1. \A n \in 1..N : n - 1 \in T => n \in T
    BY <1>3
  <2> HIDE DEF T, N
  <2>2. 0..N \subseteq T
    BY <1>1, <1>2, <2>1, UpToN, Zenon
  <2> QED
    BY <1>1, <2>2
<1>5. PICK f \in [0..N -> Seq(Text)] : KeptUpTo(text, f, N)
  BY <1>4
<1>6. LoopOf(text, f)
  BY <1>5 DEF LoopOf, KeptUpTo
<1> QED
  BY <1>5, <1>6

\* Lines(text) is what the loop has kept at the end.
LEMMA LinesLoop ==
  ASSUME NEW text \in Seq(Text)
  PROVE  \E g : /\ Lines(text) = g[Len(text)]
                /\ g[0] = <<>>
                /\ \A n \in 1..Len(text) :
                     g[n] = IF text[n] = Empty THEN g[n - 1] ELSE Append(g[n - 1], text[n])
<1>1. PICK f : LoopOf(text, f)
  BY LoopRuns
<1>2. PICK g : LoopOf(text, g) /\ Lines(text) = g[Len(text)]
  BY <1>1, LinesDef
<1> DEFINE Body(n) == IF n = 0 THEN <<>>
                      ELSE IF text[n] = Empty THEN g[n - 1] ELSE Append(g[n - 1], text[n])
<1>3. g = [n \in 0..Len(text) |-> Body(n)]
  BY <1>2 DEF LoopOf
<1>4. \A n \in 0..Len(text) : g[n] = Body(n)
  <2> HIDE DEF Body
  <2> QED
    BY <1>3
<1>5. 0 \in 0..Len(text) /\ \A n \in 1..Len(text) : n \in 0..Len(text) /\ n # 0
  OBVIOUS
<1> QED
  BY <1>2, <1>4, <1>5

\* The lines that are kept are lines.
LEMMA LinesAreText == ASSUME NEW text \in Seq(Text) PROVE Lines(text) \in Seq(Text)
<1> DEFINE N == Len(text)
<1>1. PICK g : /\ Lines(text) = g[N]
               /\ g[0] = <<>>
               /\ \A n \in 1..N : g[n] = IF text[n] = Empty THEN g[n - 1] ELSE Append(g[n - 1], text[n])
  BY LinesLoop
<1> DEFINE T == {n \in 0..N : g[n] \in Seq(Text)}
<1>2. N \in Nat /\ \A n \in 1..N : n - 1 \in 0..N /\ n \in 0..N /\ text[n] \in Text
  OBVIOUS
<1>3. 0 \in T
  <2>1. 0 \in 0..N
    BY <1>2
  <2>2. g[0] \in Seq(Text)
    BY <1>1
  <2> QED
    BY <2>1, <2>2
<1>4. \A n \in 1..N : n - 1 \in T => n \in T
  <2> SUFFICES ASSUME NEW n \in 1..N, g[n - 1] \in Seq(Text)
               PROVE  g[n] \in Seq(Text)
    BY <1>2
  <2> DEFINE prev == g[n - 1]
             line == text[n]
  <2>1. prev \in Seq(Text) /\ line \in Text
    BY <1>2
  <2>2. g[n] = IF line = Empty THEN prev ELSE Append(prev, line)
    BY <1>1
  <2> HIDE DEF prev, line
  <2> QED
    BY <2>1, <2>2
<1>5. N \in T
  <2> HIDE DEF T, N
  <2>1. 0..N \subseteq T
    BY <1>2, <1>3, <1>4, UpToN, Zenon
  <2> QED
    BY <1>2, <2>1
<1> QED
  BY <1>1, <1>5

\* Of a text without empty lines all lines are kept.
LEMMA FullTextStays ==
  ASSUME NEW text \in Seq(Text), \A i \in 1..Len(text) : text[i] # Empty
  PROVE  Lines(text) = text
<1> DEFINE N == Len(text)
<1>1. PICK g : /\ Lines(text) = g[N]
               /\ g[0] = <<>>
               /\ \A n \in 1..N : g[n] = IF text[n] = Empty THEN g[n - 1] ELSE Append(g[n - 1], text[n])
  BY LinesLoop
<1> DEFINE F(n) == [i \in 1..n |-> text[i]]
           T == {n \in 0..N : g[n] = F(n)}
<1>2. N \in Nat /\ \A n \in 1..N : n - 1 \in 0..N /\ n \in 0..N /\ text[n] \in Text
  OBVIOUS
<1>3. 0 \in T
  <2>1. F(0) = <<>>
    OBVIOUS
  <2> QED
    BY <1>1, <1>2, <2>1
<1>4. \A n \in 1..N : n - 1 \in T => n \in T
  <2> SUFFICES ASSUME NEW n \in 1..N, g[n - 1] = F(n - 1)
               PROVE  g[n] = F(n)
    BY <1>2
  <2>1. g[n] = Append(F(n - 1), text[n])
    BY <1>1
  <2>2. n \in Nat /\ n - 1 \in Nat /\ \A i \in 1..n : i # n => i \in 1..(n - 1)
    OBVIOUS
  <2>3. F(n - 1) \in Seq(Text) /\ Len(F(n - 1)) = n - 1
    BY <1>2, <2>2
  <2>4. Append(F(n - 1), text[n]) = F(n)
    BY <1>2, <2>2, <2>3
  <2> QED
    BY <2>1, <2>4
<1>5. N \in T
  <2> HIDE DEF T, N
  <2>1. 0..N \subseteq T
    BY <1>2, <1>3, <1>4, UpToN, Zenon
  <2> QED
    BY <1>2, <2>1
<1>6. F(N) = text
  OBVIOUS
<1> QED
  BY <1>1, <1>5, <1>6

-----------------------------------------------------------------------------
(* The conversions.                                                        *)

\* Lines of parts joined are a line, as long as both.
LEMMA TextJoin == ASSUME NEW s \in Text, NEW t \in Text PROVE s \o t \in Text /\ Len(s \o t) = Len(s) + Len(t)
<1>1. s \in Seq(STRING) /\ t \in Seq(STRING) /\ Len(s) # 0
  BY DEF Text
<1>2. s \o t \in Seq(STRING) /\ Len(s \o t) = Len(s) + Len(t)
  BY <1>1, ConcatProperties
<1>3. Len(s \o t) # 0
  BY <1>1, <1>2
<1> QED
  BY <1>2, <1>3 DEF Text

\* A line has at least one part.
LEMMA TextLength == ASSUME NEW s \in Text PROVE Len(s) \in Nat \ {0} /\ s \in Seq(STRING) /\ DOMAIN s = 1..Len(s)
BY DEF Text

\* Sequences of one element.
LEMMA OnePart == ASSUME NEW S, NEW w \in S PROVE <<w>> \in Seq(S) /\ Len(<<w>>) = 1
OBVIOUS

\* A single part is a line.
LEMMA OnePartText == ASSUME NEW w \in STRING PROVE <<w>> \in Text /\ Len(<<w>>) = 1
<1>1. <<w>> \in Seq(STRING) /\ Len(<<w>>) = 1
  BY OnePart
<1>2. <<w>> # <<>>
  BY <1>1
<1> QED
  BY <1>1, <1>2 DEF Text

\* A source's line has its five fields; its parts are the fields' parts.
LEMMA SourceLines ==
  ASSUME NEW s \in Source
  PROVE  /\ SourceLine(s) \in Text
         /\ Len(SourceLine(s)) >= 5
<1>1. s.url \in Text /\ s.title \in Text /\ s.publisher \in Text /\ s.publishedAt \in Text /\ s.type \in Text
  BY DEF Source
<1> DEFINE t1 == s.url \o s.title
           t2 == t1 \o s.publisher
           t3 == t2 \o s.publishedAt
           t4 == t3 \o s.type
<1>2. t1 \in Text /\ Len(t1) >= 2
  <2> DEFINE u == s.url
             v == s.title
  <2>1. u \in Text /\ v \in Text
    BY <1>1
  <2> HIDE DEF u, v
  <2>2. u \o v \in Text /\ Len(u \o v) = Len(u) + Len(v)
    BY <2>1, TextJoin
  <2>3. Len(u) \in Nat \ {0} /\ Len(v) \in Nat \ {0}
    BY <2>1, TextLength
  <2>4. u \o v \in Text /\ Len(u \o v) >= 2
    BY <2>2, <2>3
  <2> QED
    BY <2>4 DEF u, v
<1>3. t2 \in Text /\ Len(t2) >= 3
  <2> HIDE DEF t1
  <2> QED
    BY <1>1, <1>2, TextJoin, TextLength
<1>4. t3 \in Text /\ Len(t3) >= 4
  <2> HIDE DEF t2
  <2> QED
    BY <1>1, <1>3, TextJoin, TextLength
<1>5. t4 \in Text /\ Len(t4) >= 5
  <2> HIDE DEF t3
  <2> QED
    BY <1>1, <1>4, TextJoin, TextLength
<1> QED
  BY <1>5 DEF SourceLine

\* A line of several parts is not the empty one.
LEMMA LongIsNotEmpty == ASSUME NEW line, Len(line) >= 2 PROVE line # Empty
<1>1. Len(Empty) = 1
  BY DEF Empty
<1> QED
  BY <1>1

\* The parts of two sequences joined.
LEMMA PartsOfJoin ==
  ASSUME NEW s \in Seq(STRING), NEW t \in Seq(STRING)
  PROVE  /\ s \o t \in Seq(STRING) /\ Len(s \o t) = Len(s) + Len(t)
         /\ \A i \in 1..Len(s) : (s \o t)[i] = s[i]
         /\ \A i \in 1..Len(t) : (s \o t)[Len(s) + i] = t[i]
<1>1. Len(s) \in Nat /\ Len(t) \in Nat
  OBVIOUS
<1>2. /\ s \o t \in Seq(STRING) /\ Len(s \o t) = Len(s) + Len(t)
      /\ \A i \in 1..(Len(s) + Len(t)) : (s \o t)[i] = IF i <= Len(s) THEN s[i] ELSE t[i - Len(s)]
  BY ConcatProperties
<1>3. \A i \in 1..Len(t) : Len(s) + i \in 1..(Len(s) + Len(t)) /\ ~(Len(s) + i <= Len(s)) /\ (Len(s) + i) - Len(s) = i
  BY <1>1
<1>4. \A i \in 1..Len(s) : i \in 1..(Len(s) + Len(t)) /\ i <= Len(s)
  BY <1>1
<1> QED
  BY <1>2, <1>3, <1>4

\* Reading back the line of a source without "|" before its last field gives the source.
LEMMA PlainSourcesComeBack ==
  ASSUME NEW s \in Source, Plain(s)
  PROVE  ParseSource(SourceLine(s)) = s
<1>1. s.url \in Text /\ s.title \in Text /\ s.publisher \in Text /\ s.publishedAt \in Text /\ s.type \in Text
      /\ Len(s.url) = 1 /\ Len(s.title) = 1 /\ Len(s.publisher) = 1 /\ Len(s.publishedAt) = 1
  BY DEF Source, Plain
<1> DEFINE t == s.type
           N == Len(t)
           line == SourceLine(s)
<1>2. /\ s.url = <<s.url[1]>> /\ s.title = <<s.title[1]>> /\ s.publisher = <<s.publisher[1]>>
      /\ s.publishedAt = <<s.publishedAt[1]>>
  BY <1>1 DEF Text
<1>3. t \in Seq(STRING) /\ N \in Nat \ {0} /\ DOMAIN t = 1..N
  BY <1>1, TextLength
<1>4. /\ line \in Seq(STRING) /\ Len(line) = 4 + N
      /\ line[1] = s.url[1] /\ line[2] = s.title[1] /\ line[3] = s.publisher[1] /\ line[4] = s.publishedAt[1]
      /\ \A i \in 1..N : line[4 + i] = t[i]
  <2> DEFINE u1 == s.url
             u2 == s.title
             u3 == s.publisher
             u4 == s.publishedAt
  <2>1. /\ u1 \in Seq(STRING) /\ u2 \in Seq(STRING) /\ u3 \in Seq(STRING) /\ u4 \in Seq(STRING)
        /\ Len(u1) = 1 /\ Len(u2) = 1 /\ Len(u3) = 1 /\ Len(u4) = 1
    BY <1>1, TextLength
  <2>2. line = u1 \o u2 \o u3 \o u4 \o t
    BY DEF SourceLine
  <2> HIDE DEF u1, u2, u3, u4, t, line
  <2> DEFINE t2 == u1 \o u2
             t3 == t2 \o u3
             t4 == t3 \o u4
  <2>3. t2 \in Seq(STRING) /\ Len(t2) = 2 /\ t2[1] = u1[1] /\ t2[2] = u2[1]
    <3>1. /\ t2 \in Seq(STRING) /\ Len(t2) = Len(u1) + Len(u2)
          /\ \A i \in 1..Len(u1) : t2[i] = u1[i]
          /\ \A i \in 1..Len(u2) : t2[Len(u1) + i] = u2[i]
      BY <2>1, PartsOfJoin
    <3> HIDE DEF t2
    <3> QED
      BY <2>1, <3>1
  <2>4. t3 \in Seq(STRING) /\ Len(t3) = 3 /\ t3[1] = u1[1] /\ t3[2] = u2[1] /\ t3[3] = u3[1]
    <3> HIDE DEF t2
    <3>1. /\ t3 \in Seq(STRING) /\ Len(t3) = Len(t2) + Len(u3)
          /\ \A i \in 1..Len(t2) : t3[i] = t2[i]
          /\ \A i \in 1..Len(u3) : t3[Len(t2) + i] = u3[i]
      BY <2>1, <2>3, PartsOfJoin
    <3> HIDE DEF t3
    <3> QED
      BY <2>1, <2>3, <3>1
  <2>5. t4 \in Seq(STRING) /\ Len(t4) = 4 /\ t4[1] = u1[1] /\ t4[2] = u2[1] /\ t4[3] = u3[1] /\ t4[4] = u4[1]
    <3> HIDE DEF t3
    <3>1. /\ t4 \in Seq(STRING) /\ Len(t4) = Len(t3) + Len(u4)
          /\ \A i \in 1..Len(t3) : t4[i] = t3[i]
          /\ \A i \in 1..Len(u4) : t4[Len(t3) + i] = u4[i]
      BY <2>1, <2>4, PartsOfJoin
    <3> HIDE DEF t4
    <3> QED
      BY <2>1, <2>4, <3>1
  <2>6. line = t4 \o t
    BY <2>2
  <2> HIDE DEF t4
  <2>7. /\ line \in Seq(STRING) /\ Len(line) = Len(t4) + Len(t)
        /\ \A i \in 1..Len(t4) : line[i] = t4[i]
        /\ \A i \in 1..Len(t) : line[Len(t4) + i] = t[i]
    BY <1>3, <2>5, <2>6, PartsOfJoin
  <2>8. line[1] = u1[1] /\ line[2] = u2[1] /\ line[3] = u3[1] /\ line[4] = u4[1]
    BY <2>5, <2>7
  <2> QED
    BY <2>5, <2>7, <2>8 DEF u1, u2, u3, u4
<1>5. SubSeq(line, 5, Len(line)) = t
  <2> HIDE DEF line, t
  <2>1. \A i \in 5..(4 + N) : line[i] \in STRING
    BY <1>3, <1>4
  <2>2. /\ SubSeq(line, 5, 4 + N) \in Seq(STRING)
        /\ Len(SubSeq(line, 5, 4 + N)) = N
        /\ \A i \in 1..N : SubSeq(line, 5, 4 + N)[i] = line[5 + i - 1]
    BY <1>3, <2>1, SubSeqProperties
  <2>3. \A i \in 1..N : SubSeq(line, 5, 4 + N)[i] = t[i]
    BY <1>3, <1>4, <2>2
  <2> QED
    BY <1>3, <1>4, <2>2, <2>3, SeqEqual
<1>6. /\ Part(line, 1) = s.url /\ Part(line, 2) = s.title /\ Part(line, 3) = s.publisher
      /\ Part(line, 4) = s.publishedAt
  <2> HIDE DEF line
  <2>1. 1 \in DOMAIN line /\ 2 \in DOMAIN line /\ 3 \in DOMAIN line /\ 4 \in DOMAIN line
    BY <1>3, <1>4
  <2> QED
    BY <1>2, <1>4, <2>1 DEF Part
<1>7. ParseSource(line) = [url |-> s.url, title |-> s.title, publisher |-> s.publisher,
                           publishedAt |-> s.publishedAt, type |-> s.type]
  <2> HIDE DEF line
  <2>1. Len(line) > 4
    BY <1>3, <1>4
  <2> QED
    BY <1>5, <1>6, <2>1 DEF ParseSource
<1> QED
  BY <1>7 DEF Source

\* The empty line is a line.
LEMMA EmptyText == Empty \in Text
<1> DEFINE w == ""
<1>1. w \in STRING
  BY StringAssumption
<1>2. <<w>> \in Text
  <2> HIDE DEF w
  <2> QED
    BY <1>1, OnePartText
<1> QED
  BY <1>2 DEF Empty

\* Whatever a line is, it is read as a source.
LEMMA ParseSourceTyped == ASSUME NEW line \in Text PROVE ParseSource(line) \in Source
<1>1. line \in Seq(STRING) /\ DOMAIN line = 1..Len(line) /\ Len(line) \in Nat
  BY TextLength
<1>2. ASSUME NEW i PROVE Part(line, i) \in Text
  <2>1. CASE i \in DOMAIN line
    <3>1. line[i] \in STRING
      BY <1>1, <2>1
    <3> QED
      BY <2>1, <3>1, OnePartText DEF Part
  <2>2. CASE i \notin DOMAIN line
    BY <2>2, EmptyText DEF Part
  <2> QED
    BY <2>1, <2>2
<1>3. (IF Len(line) > 4 THEN SubSeq(line, 5, Len(line)) ELSE Empty) \in Text
  <2>1. CASE Len(line) > 4
    <3>1. SubSeq(line, 5, Len(line)) \in Seq(STRING) /\ Len(SubSeq(line, 5, Len(line))) = Len(line) - 5 + 1
      <4>1. \A i \in 5..Len(line) : line[i] \in STRING
        BY <1>1
      <4> QED
        BY <1>1, <2>1, <4>1, SubSeqProperties
    <3>2. SubSeq(line, 5, Len(line)) # <<>>
      <4> DEFINE rest == SubSeq(line, 5, Len(line))
      <4>1. Len(rest) > 0
        BY <1>1, <2>1, <3>1
      <4> HIDE DEF rest
      <4>2. rest # <<>>
        BY <4>1
      <4> QED
        BY <4>2 DEF rest
    <3> QED
      BY <2>1, <3>1, <3>2 DEF Text
  <2>2. CASE ~(Len(line) > 4)
    BY <2>2, EmptyText
  <2> QED
    BY <2>1, <2>2
<1> DEFINE type == IF Len(line) > 4 THEN SubSeq(line, 5, Len(line)) ELSE Empty
<1>4. Part(line, 1) \in Text /\ Part(line, 2) \in Text /\ Part(line, 3) \in Text /\ Part(line, 4) \in Text /\ type \in Text
  BY <1>2, <1>3
<1>5. ParseSource(line) = [url |-> Part(line, 1), title |-> Part(line, 2), publisher |-> Part(line, 3),
                           publishedAt |-> Part(line, 4), type |-> type]
  BY DEF ParseSource
<1> HIDE DEF type
<1> QED
  BY <1>4, <1>5 DEF Source

\* A line with a separator gives a relation.
LEMMA ParseRelationTyped ==
  ASSUME NEW line \in Text, IsRelationLine(line)
  PROVE  ParseRelation(line) \in Relation
<1>1. line \in Seq(STRING) /\ Len(line) \in Nat /\ Len(line) >= 2
  BY TextLength DEF IsRelationLine
<1>2. line[1] \in STRING
  BY <1>1
<1>3. Tail(line) \in Seq(STRING) /\ Len(Tail(line)) = Len(line) - 1
  BY <1>1
<1>4. Tail(line) \in Text
  BY <1>1, <1>3 DEF Text
<1> QED
  BY <1>2, <1>4 DEF ParseRelation, Relation

\* A function on 1..n is a sequence.
LEMMA SequenceFrom ==
  ASSUME NEW S, NEW n \in Nat, NEW f, DOMAIN f = 1..n, f = [i \in 1..n |-> f[i]], \A i \in 1..n : f[i] \in S
  PROVE  f \in Seq(S) /\ Len(f) = n
OBVIOUS

\* A form that can be read at all is read as an input.
LEMMA ParseFormTyped ==
  ASSUME NEW f \in Fields, ReadableRelations(f)
  PROVE  ParseForm(f) \in Input
<1> DEFINE st == Lines(f.sourcesText)
           rt == Lines(f.relationsText)
           so == [i \in DOMAIN st |-> ParseSource(st[i])]
           re == [i \in DOMAIN rt |-> ParseRelation(rt[i])]
<1>1. f.sourcesText \in Seq(Text) /\ f.relationsText \in Seq(Text)
      /\ f.body \in STRING /\ f.status \in Statuses /\ f.cats \in SUBSET STRING
  BY DEF Fields
<1>2. st \in Seq(Text) /\ rt \in Seq(Text)
  BY <1>1, LinesAreText
<1>3. \A i \in DOMAIN rt : IsRelationLine(rt[i])
  BY DEF ReadableRelations
<1>4. ParseForm(f) = [body |-> f.body, status |-> f.status, cats |-> f.cats, sources |-> so, relations |-> re]
  BY DEF ParseForm
<1> HIDE DEF st, rt
<1>5. so \in Seq(Source)
  <2>1. DOMAIN st = 1..Len(st) /\ Len(st) \in Nat /\ \A i \in 1..Len(st) : st[i] \in Text
    BY <1>2
  <2>2. \A i \in 1..Len(st) : ParseSource(st[i]) \in Source
    BY <2>1, ParseSourceTyped
  <2>3. DOMAIN so = 1..Len(st) /\ \A i \in 1..Len(st) : so[i] = ParseSource(st[i])
    BY <2>1
  <2>4. so = [i \in 1..Len(st) |-> so[i]] /\ \A i \in 1..Len(st) : so[i] \in Source
    BY <2>1, <2>2, <2>3
  <2> HIDE DEF so
  <2> QED
    BY <2>1, <2>3, <2>4, SequenceFrom
<1>6. re \in Seq(Relation)
  <2>1. DOMAIN rt = 1..Len(rt) /\ Len(rt) \in Nat /\ \A i \in 1..Len(rt) : rt[i] \in Text
    BY <1>2
  <2>2. \A i \in 1..Len(rt) : ParseRelation(rt[i]) \in Relation
    BY <1>3, <2>1, ParseRelationTyped
  <2>3. DOMAIN re = 1..Len(rt) /\ \A i \in 1..Len(rt) : re[i] = ParseRelation(rt[i])
    BY <2>1
  <2>4. re = [i \in 1..Len(rt) |-> re[i]] /\ \A i \in 1..Len(rt) : re[i] \in Relation
    BY <2>1, <2>2, <2>3
  <2> HIDE DEF re
  <2> QED
    BY <2>1, <2>3, <2>4, SequenceFrom
<1> HIDE DEF so, re
<1> QED
  BY <1>1, <1>4, <1>5, <1>6 DEF Input

\* Every relation is shown as a line with its separator.
LEMMA RelationLines ==
  ASSUME NEW r \in Relation
  PROVE  <<r.id>> \o r.relation \in Text /\ Len(<<r.id>> \o r.relation) >= 2
<1>1. r.id \in STRING /\ r.relation \in Text
  BY DEF Relation
<1> DEFINE u == <<r.id>>
           v == r.relation
<1>2. u \in Text /\ v \in Text
  BY <1>1, OnePartText
<1> HIDE DEF u, v
<1>3. u \o v \in Text /\ Len(u \o v) = Len(u) + Len(v)
  BY <1>2, TextJoin
<1>4. Len(u) \in Nat \ {0} /\ Len(v) \in Nat \ {0}
  BY <1>2, TextLength
<1>5. u \o v \in Text /\ Len(u \o v) >= 2
  BY <1>3, <1>4
<1> QED
  BY <1>5 DEF u, v

\* sourcesText shows every source in its place, on a line that is not empty.
LEMMA SourcesTextTyped ==
  ASSUME NEW sources \in Seq(Source)
  PROVE  /\ SourcesText(sources) \in Seq(Text) /\ Len(SourcesText(sources)) = Len(sources)
         /\ \A i \in 1..Len(sources) : SourcesText(sources)[i] = SourceLine(sources[i]) /\ SourcesText(sources)[i] # Empty
<1> DEFINE text == SourcesText(sources)
           n == Len(sources)
<1>1. DOMAIN sources = 1..n /\ n \in Nat /\ \A i \in 1..n : sources[i] \in Source
  OBVIOUS
<1>2. DOMAIN text = 1..n /\ \A i \in 1..n : text[i] = SourceLine(sources[i])
  BY <1>1 DEF SourcesText
<1>3. text = [i \in 1..n |-> text[i]]
  BY <1>1 DEF SourcesText
<1>4. \A i \in 1..n : text[i] \in Text /\ text[i] # Empty
  <2> SUFFICES ASSUME NEW i \in 1..n
               PROVE  text[i] \in Text /\ text[i] # Empty
    OBVIOUS
  <2>1. sources[i] \in Source /\ text[i] = SourceLine(sources[i])
    BY <1>1, <1>2
  <2>2. text[i] \in Text /\ Len(text[i]) >= 5
    <3> HIDE DEF text
    <3> QED
      BY <2>1, SourceLines
  <2> DEFINE line == text[i]
  <2> HIDE DEF line
  <2>3. Len(line) >= 2
    BY <2>2 DEF line
  <2>4. line # Empty
    BY <2>3, LongIsNotEmpty
  <2> QED
    BY <2>2, <2>4 DEF line
<1> HIDE DEF text
<1>5. text \in Seq(Text) /\ Len(text) = n
  BY <1>1, <1>2, <1>3, <1>4, SequenceFrom
<1>6. /\ text \in Seq(Text) /\ Len(text) = n
      /\ \A i \in 1..n : text[i] = SourceLine(sources[i]) /\ text[i] # Empty
  BY <1>2, <1>4, <1>5
<1> QED
  BY <1>6 DEF text

\* relationsText does so for relations.
LEMMA RelationsTextTyped ==
  ASSUME NEW relations \in Seq(Relation)
  PROVE  /\ RelationsText(relations) \in Seq(Text) /\ Len(RelationsText(relations)) = Len(relations)
         /\ \A i \in 1..Len(relations) :
              /\ RelationsText(relations)[i] = <<relations[i].id>> \o relations[i].relation
              /\ RelationsText(relations)[i] # Empty
<1> DEFINE text == RelationsText(relations)
           n == Len(relations)
<1>1. DOMAIN relations = 1..n /\ n \in Nat /\ \A i \in 1..n : relations[i] \in Relation
  OBVIOUS
<1>2. DOMAIN text = 1..n /\ \A i \in 1..n : text[i] = <<relations[i].id>> \o relations[i].relation
  BY <1>1 DEF RelationsText
<1>3. text = [i \in 1..n |-> text[i]]
  BY <1>1 DEF RelationsText
<1>4. \A i \in 1..n : text[i] \in Text /\ text[i] # Empty
  <2> SUFFICES ASSUME NEW i \in 1..n
               PROVE  text[i] \in Text /\ text[i] # Empty
    OBVIOUS
  <2>1. relations[i] \in Relation /\ text[i] = <<relations[i].id>> \o relations[i].relation
    BY <1>1, <1>2
  <2>2. text[i] \in Text /\ Len(text[i]) >= 2
    <3> HIDE DEF text
    <3> QED
      BY <2>1, RelationLines
  <2> DEFINE line == text[i]
  <2> HIDE DEF line
  <2>3. Len(line) >= 2
    BY <2>2 DEF line
  <2>4. line # Empty
    BY <2>3, LongIsNotEmpty
  <2> QED
    BY <2>2, <2>4 DEF line
<1> HIDE DEF text
<1>5. text \in Seq(Text) /\ Len(text) = n
  BY <1>1, <1>2, <1>3, <1>4, SequenceFrom
<1>6. /\ text \in Seq(Text) /\ Len(text) = n
      /\ \A i \in 1..n : text[i] = <<relations[i].id>> \o relations[i].relation /\ text[i] # Empty
  BY <1>2, <1>4, <1>5
<1> QED
  BY <1>6 DEF text

\* The form of an article has values in all its controls.
LEMMA FieldsTyped == ASSUME NEW in \in Input PROVE FieldsOf(in) \in Fields
<1>1. in.sources \in Seq(Source) /\ in.relations \in Seq(Relation)
      /\ in.body \in STRING /\ in.status \in Statuses /\ in.cats \in SUBSET STRING
  BY DEF Input
<1>2. SourcesText(in.sources) \in Seq(Text) /\ RelationsText(in.relations) \in Seq(Text)
  BY <1>1, SourcesTextTyped, RelationsTextTyped
<1> QED
  BY <1>1, <1>2 DEF FieldsOf, Fields, ShownStatus

\* The lines of an article's sources, read back: as many, and the plain ones unchanged.
LEMMA SourcesComeBack ==
  ASSUME NEW in \in Input, NEW f \in Fields, f.sourcesText = SourcesText(in.sources)
  PROVE  /\ Len(ParseForm(f).sources) = Len(in.sources)
         /\ \A i \in 1..Len(in.sources) :
              Plain(in.sources[i]) => ParseForm(f).sources[i] = in.sources[i]
<1> DEFINE ss == in.sources
           n == Len(ss)
           text == f.sourcesText
           parsed == ParseForm(f).sources
<1>1. ss \in Seq(Source)
  BY DEF Input
<1>2. /\ text \in Seq(Text) /\ Len(text) = n
      /\ \A i \in 1..n : text[i] = SourceLine(ss[i]) /\ text[i] # Empty
  BY <1>1, SourcesTextTyped
<1>3. Lines(text) = text
  BY <1>2, FullTextStays
<1>4. parsed = [i \in DOMAIN Lines(text) |-> ParseSource(Lines(text)[i])]
  BY DEF ParseForm
<1>5. DOMAIN text = 1..n /\ n \in Nat
  BY <1>1, <1>2
<1>6. parsed = [i \in 1..n |-> ParseSource(text[i])]
  BY <1>3, <1>4, <1>5
<1>7. \A i \in 1..n : parsed[i] = ParseSource(SourceLine(ss[i])) /\ ss[i] \in Source
  BY <1>1, <1>2, <1>6
<1>8. \A i \in 1..n : Plain(ss[i]) => parsed[i] = ss[i]
  BY <1>7, PlainSourcesComeBack
<1>9. Len(parsed) = n
  <2> HIDE DEF parsed, n
  <2> QED
    BY <1>5, <1>6
<1> QED
  BY <1>8, <1>9

\* The rest of a pair is its second element.
LEMMA TailOfPair ==
  ASSUME NEW S, NEW s \in Seq(S), Len(s) = 2
  PROVE  Tail(s) \in Seq(S) /\ Len(Tail(s)) = 1 /\ Tail(s)[1] = s[2]
<1>1. s # <<>>
  BY EmptySeq
<1>2. /\ Tail(s) \in Seq(S) /\ Len(Tail(s)) = Len(s) - 1
      /\ \A i \in 1..Len(Tail(s)) : Tail(s)[i] = s[i + 1]
  BY <1>1, HeadTailProperties
<1> QED
  BY <1>2

\* The lines of valid relations, read back, are the relations.
LEMMA RelationsComeBack ==
  ASSUME NEW in \in Input, NEW f \in Fields, f.relationsText = RelationsText(in.relations),
         \A i \in DOMAIN in.relations : Len(in.relations[i].relation) = 1
  PROVE  ParseForm(f).relations = in.relations
<1> DEFINE rs == in.relations
           n == Len(rs)
           text == f.relationsText
           parsed == ParseForm(f).relations
<1>1. rs \in Seq(Relation) /\ DOMAIN rs = 1..n /\ n \in Nat
  BY DEF Input
<1>2. /\ text \in Seq(Text) /\ Len(text) = n
      /\ \A i \in 1..n : text[i] = <<rs[i].id>> \o rs[i].relation /\ text[i] # Empty
  BY <1>1, RelationsTextTyped
<1>3. Lines(text) = text
  BY <1>2, FullTextStays
<1>4. parsed = [i \in DOMAIN Lines(text) |-> ParseRelation(Lines(text)[i])]
  BY DEF ParseForm
<1>5. DOMAIN text = 1..n
  BY <1>1, <1>2
<1>6. parsed = [i \in 1..n |-> ParseRelation(text[i])]
  BY <1>3, <1>4, <1>5
<1>7. ASSUME NEW i \in 1..n PROVE parsed[i] = rs[i]
  <2> DEFINE r == rs[i]
  <2>0. r \in Relation /\ Len(r.relation) = 1
    BY <1>1
  <2>4. parsed[i] = ParseRelation(<<r.id>> \o r.relation)
    BY <1>2, <1>6
  <2> HIDE DEF r
  <2>1. r.id \in STRING /\ r.relation \in Text /\ Len(r.relation) = 1
    BY <2>0 DEF Relation
  <2>2. r = [id |-> r.id, relation |-> r.relation]
    BY <2>0 DEF Relation
  <2>3. r.relation \in Seq(STRING) /\ r.relation = <<r.relation[1]>> /\ r.relation[1] \in STRING
    BY <2>1 DEF Text
  <2> DEFINE u == <<r.id>>
             v == r.relation
  <2>5. u \in Seq(STRING) /\ Len(u) = 1 /\ u[1] = r.id
    BY <2>1, OnePart
  <2>6. v \in Seq(STRING) /\ Len(v) = 1
    BY <2>1, <2>3
  <2> HIDE DEF u, v
  <2>7. u \o v \in Seq(STRING) /\ Len(u \o v) = 2 /\ (u \o v)[1] = u[1] /\ (u \o v)[2] = v[1]
    <3>1. /\ u \o v \in Seq(STRING) /\ Len(u \o v) = Len(u) + Len(v)
          /\ \A k \in 1..Len(u) : (u \o v)[k] = u[k]
          /\ \A k \in 1..Len(v) : (u \o v)[Len(u) + k] = v[k]
      BY <2>5, <2>6, PartsOfJoin
    <3> QED
      BY <2>5, <2>6, <3>1
  <2> DEFINE line == u \o v
  <2>8. Tail(line) = v
    <3> HIDE DEF line
    <3>1. line \in Seq(STRING) /\ Len(line) = 2 /\ line[2] = v[1]
      BY <2>7 DEF line
    <3>2. Tail(line) \in Seq(STRING) /\ Len(Tail(line)) = 1 /\ Tail(line)[1] = line[2]
      BY <3>1, TailOfPair
    <3>3. \A k \in 1..1 : Tail(line)[k] = v[k]
      BY <3>1, <3>2
    <3> QED
      BY <2>6, <3>2, <3>3, SeqEqual
  <2>9. ParseRelation(u \o v) = [id |-> r.id, relation |-> v]
    BY <2>5, <2>7, <2>8 DEF ParseRelation
  <2>10. parsed[i] = [id |-> r.id, relation |-> r.relation]
    BY <2>4, <2>9 DEF u, v
  <2> QED
    BY <2>2, <2>10 DEF r
<1>8. parsed = rs
  <2>1. rs = [i \in 1..n |-> rs[i]]
    BY <1>1
  <2>2. parsed = [i \in 1..n |-> parsed[i]]
    BY <1>6
  <2> HIDE DEF parsed, rs
  <2> QED
    BY <1>7, <2>1, <2>2
<1> QED
  BY <1>8

-----------------------------------------------------------------------------
(* The invariant of the article and the form.                              *)

\* What the table holds of an article.
Stored(in) ==
  /\ in \in Input /\ in.status # ""
  /\ \A i \in DOMAIN in.relations : Len(in.relations[i].relation) = 1

\* An id is the number of its creation: it is given once.
ArticleInv ==
  /\ created \in 0..MaxArticles /\ edits \in 0..MaxEdits
  /\ article # None => /\ article \in Row
                       /\ article.id = article.born /\ article.id \in 1..created
                       /\ Stored(article.content)

\* Where nobody touched it, the form shows what it was opened with.
Shows(f) == \A control \in Controls : Kept(f, control) => f.fields[control] = FieldsOf(f.shown)[control]

\* An open form: made for the article created under its number, or for none yet (0).
Good(f) ==
  /\ f \in Form
  /\ f.id = f.born /\ f.id \in 0..created
  /\ f.id # 0 => Stored(f.shown) /\ Shows(f)

\* The open form, if there is one, is a good one.
FormsInv == form # None => Good(form)

\* Normalize gives every article a status and leaves its text, categories and links alone.
LEMMA NormalizeTyped ==
  ASSUME NEW in \in Input
  PROVE  /\ Normalize(in) \in Input /\ Normalize(in).status # ""
         /\ Normalize(in).body = in.body /\ Normalize(in).cats = in.cats
         /\ Normalize(in).sources = in.sources /\ Normalize(in).relations = in.relations
         /\ in.status # "" => Normalize(in).status = in.status
BY DEF Normalize, Input, Statuses

\* A write stores a valid article, under a new number or that of the article there is.
LEMMA StoreMakesRows ==
  ASSUME ArticleInv, NEW id, NEW in \in Input, id = 0 => created < MaxArticles, Store(id, in), UNCHANGED edits
  PROVE  /\ ArticleInv' /\ created <= created'
         /\ article' # None /\ article'.content = Normalize(in)
         /\ id # 0 => article # None /\ article.id = id
<1> DEFINE c == Normalize(in)
<1>1. c \in Input /\ c.status # ""
  BY NormalizeTyped
<1>2. Valid(c) /\ (id # 0 => article # None /\ article.id = id) /\ (id = 0 => article = None)
  BY DEF Store, Refusal
<1>3. Stored(c)
  BY <1>1, <1>2 DEF Stored, Valid
<1>4. created \in Nat /\ created \in 0..MaxArticles /\ MaxArticles \in Nat
  BY BoundsAssumption DEF ArticleInv
<1>5. CASE id = 0
  <2>1. created' = created + 1 /\ article' = [id |-> created + 1, born |-> created + 1, content |-> c]
    BY <1>5 DEF Store, NewId
  <2> HIDE DEF c
  <2>2. created + 1 \in 0..MaxArticles /\ created + 1 \in 1..(created + 1) /\ created + 1 \in Nat
    BY <1>4, <1>5
  <2>3. article' \in Row
    BY <1>1, <2>1, <2>2 DEF Row
  <2>4. article' # None
    BY <2>3, RowAssumption
  <2>5. article'.id = article'.born /\ article'.id \in 1..created' /\ article'.content = c /\ Stored(article'.content)
    BY <1>3, <2>1, <2>2
  <2>6. created' \in 0..MaxArticles /\ edits' \in 0..MaxEdits
    BY <2>1, <2>2 DEF ArticleInv
  <2>7. ArticleInv'
    BY <2>3, <2>5, <2>6 DEF ArticleInv
  <2>8. created <= created'
    BY <1>4, <2>1
  <2> QED
    BY <1>5, <2>4, <2>5, <2>7, <2>8 DEF c
<1>6. CASE id # 0
  <2>1. article # None /\ article.id = id /\ created' = created /\ article' = [article EXCEPT !.content = c]
    BY <1>2, <1>6 DEF Store
  <2> HIDE DEF c
  <2>2. article \in Row /\ article.id = article.born /\ article.id \in 1..created
    BY <2>1 DEF ArticleInv
  <2>3. article' \in Row /\ article'.id = article.id /\ article'.born = article.born /\ article'.content = c
    BY <1>1, <2>1, <2>2 DEF Row
  <2>4. article' # None
    BY <2>3, RowAssumption
  <2>5. article'.id = article'.born /\ article'.id \in 1..created' /\ Stored(article'.content)
    BY <1>3, <2>1, <2>2, <2>3
  <2>6. created' \in 0..MaxArticles /\ edits' \in 0..MaxEdits
    BY <2>1 DEF ArticleInv
  <2>7. ArticleInv'
    BY <2>3, <2>5, <2>6 DEF ArticleInv
  <2>8. created <= created'
    BY <1>4, <2>1
  <2> QED
    BY <2>1, <2>3, <2>4, <2>7, <2>8 DEF c
<1> QED
  BY <1>5, <1>6

\* A form that has not been rendered yet.
Unsent == [id : Nat, born : Nat, shown : Input \cup {None}, fields : Fields,
           touched : SUBSET Controls, blanked : BOOLEAN, exposed : BOOLEAN, token : Tokens \cup {None}]

\* Rendering gives a good form its token.
LEMMA RenderedIsGood ==
  ASSUME NEW f \in Unsent, f.id = f.born, f.id \in 0..created, f.id # 0 => Stored(f.shown) /\ Shows(f),
         NEW c, RenderForm(c, f)
  PROVE  Good(form') /\ form' # None /\ form'.fields = f.fields /\ form'.token = csrf'
<1> PICK t \in Tokens : csrf' = t /\ form' = [f EXCEPT !.token = t, !.exposed = bare' # 0]
  BY DEF RenderForm
<1> DEFINE g == [f EXCEPT !.token = t, !.exposed = bare' # 0]
<1>1. /\ g \in Form
      /\ g.id = f.id /\ g.born = f.born /\ g.shown = f.shown /\ g.fields = f.fields
      /\ g.touched = f.touched /\ g.blanked = f.blanked /\ g.token = t
  BY DEF Unsent, Form
<1> HIDE DEF g
<1>2. Shows(f) => Shows(g)
  BY <1>1 DEF Shows, Kept
<1>3. Good(g)
  BY <1>1, <1>2 DEF Good
<1>4. g # None
  BY <1>1, FormAssumption
<1>5. Good(g) /\ g # None /\ g.fields = f.fields /\ g.token = t
  BY <1>1, <1>3, <1>4
<1> QED
  BY <1>5 DEF g

\* The empty form is good.
LEMMA NewFormIsGood ==
  ASSUME ArticleInv, NEW c, RenderForm(c, Page(0, None, NewFields))
  PROVE  Good(form') /\ form' # None
<1> DEFINE f == Page(0, None, NewFields)
           in == [body |-> "", status |-> "published", cats |-> {}, sources |-> <<>>, relations |-> <<>>]
<1>1. in \in Input
  <2>1. <<>> \in Seq(Source) /\ <<>> \in Seq(Relation)
    BY EmptySeq
  <2>2. "published" \in Statuses /\ {} \in SUBSET STRING
    BY DEF Statuses
  <2> QED
    BY <2>1, <2>2, StringAssumption DEF Input
<1>2. NewFields \in Fields
  <2> HIDE DEF in
  <2>1. FieldsOf(in) \in Fields
    BY <1>1, FieldsTyped
  <2> QED
    BY <2>1 DEF in, NewFields
<1>3. f \in Unsent /\ f.id = 0 /\ f.born = 0
  <2>1. f = [id |-> 0, born |-> 0, shown |-> None, fields |-> NewFields, touched |-> {}, blanked |-> FALSE,
             exposed |-> FALSE, token |-> None]
    BY DEF Page
  <2>2. 0 \in Nat /\ {} \in SUBSET Controls /\ FALSE \in BOOLEAN
    OBVIOUS
  <2> HIDE DEF f
  <2> QED
    BY <1>2, <2>1, <2>2 DEF Unsent
<1>4. 0 \in 0..created
  BY BoundsAssumption DEF ArticleInv
<1> HIDE DEF f
<1>5. RenderForm(c, f)
  BY DEF f
<1> QED
  BY <1>3, <1>4, <1>5, RenderedIsGood

\* The form of a stored article is good.
LEMMA EditFormIsGood ==
  ASSUME ArticleInv, NEW id, NEW c, article # None, article.id = id,
         RenderForm(c, Page(id, article.content, FieldsOf(article.content)))
  PROVE  Good(form') /\ form' # None
<1> DEFINE old == article.content
           f == Page(id, old, FieldsOf(old))
<1>1. article.id = article.born /\ article.id \in 1..created /\ Stored(old) /\ created \in Nat
  BY BoundsAssumption DEF ArticleInv
<1>2. id \in Nat /\ id # 0 /\ id \in 0..created /\ article.born = id
  BY <1>1
<1>3. old \in Input
  BY <1>1 DEF Stored
<1> HIDE DEF old
<1>4. FieldsOf(old) \in Fields
  BY <1>3, FieldsTyped
<1>5. f = [id |-> id, born |-> id, shown |-> old, fields |-> FieldsOf(old), touched |-> {}, blanked |-> FALSE,
           exposed |-> FALSE, token |-> None]
  BY <1>2 DEF Page
<1>6. RenderForm(c, f)
  BY DEF old
<1> HIDE DEF f
<1>7. f \in Unsent /\ f.id = id /\ f.born = id /\ f.shown = old /\ f.fields = FieldsOf(old)
  BY <1>2, <1>3, <1>4, <1>5 DEF Unsent
<1>8. Shows(f)
  BY <1>7 DEF Shows
<1> QED
  BY <1>1, <1>2, <1>6, <1>7, <1>8, RenderedIsGood

\* After a refusal the form shows the fields it was given, with the current token.
LEMMA RefusedShowsFields ==
  ASSUME form \in Form, NEW key, NEW c, NEW blanked, NEW fields \in Fields, Refuse(key, c, fields, blanked)
  PROVE  form'.fields = fields /\ form'.token = csrf'
<1> DEFINE b == form.blanked \/ blanked
           g == [fields EXCEPT !.status = ShownStatus(@)]
           f == [form EXCEPT !.fields = g, !.blanked = b]
<1>1. g = fields
  BY DEF ShownStatus, Fields
<1>2. RenderForm(c, f)
  BY DEF Refuse
<1> HIDE DEF g, b
<1>3. f.fields = g /\ f = [x \in DOMAIN form |-> f[x]] /\ {"fields", "token", "exposed"} \subseteq DOMAIN form
  BY DEF Form
<1> HIDE DEF f
<1>4. PICK t \in Tokens : csrf' = t /\ form' = [f EXCEPT !.token = t, !.exposed = bare' # 0]
  BY <1>2 DEF RenderForm
<1> QED
  BY <1>1, <1>3, <1>4

\* A refused form is a good one still, with the fields it came with, or blanked.
LEMMA RefusedIsGood ==
  ASSUME ArticleInv, FormsInv, form # None, NEW key, NEW c, NEW blanked \in BOOLEAN, NEW fields,
         \/ fields = form.fields /\ blanked = FALSE
         \/ fields = Blanked(form.fields) /\ blanked = TRUE,
         Refuse(key, c, fields, blanked)
  PROVE  Good(form') /\ form' # None
<1> DEFINE b == form.blanked \/ blanked
           g == [fields EXCEPT !.status = ShownStatus(@)]
           f == [form EXCEPT !.fields = g, !.blanked = b]
<1>1. Good(form) /\ form \in Form /\ form.fields \in Fields
  BY DEF FormsInv, Good, Form
<1>2. fields \in Fields /\ fields.sourcesText = form.fields.sourcesText /\ fields.relationsText = form.fields.relationsText
  BY <1>1, StringAssumption DEF Blanked, ShownStatus, Fields, Statuses
<1>3. g = fields
  BY <1>2 DEF ShownStatus, Fields
<1>4. b \in BOOLEAN
  BY <1>1 DEF Form
<1>5. RenderForm(c, f)
  BY DEF Refuse
<1> HIDE DEF g, b
<1>6. /\ f \in Unsent /\ f.id = form.id /\ f.born = form.born /\ f.shown = form.shown /\ f.touched = form.touched
      /\ f.fields = fields /\ f.blanked = b
  BY <1>1, <1>2, <1>3, <1>4 DEF Form, Unsent
<1> HIDE DEF f
<1>7. Shows(form) => Shows(f)
  <2> SUFFICES ASSUME Shows(form), NEW control \in Controls, Kept(f, control)
               PROVE  f.fields[control] = FieldsOf(f.shown)[control]
    BY DEF Shows
  <2>1. Kept(form, control)
    BY <1>6 DEF Kept, b
  <2>2. form.fields[control] = FieldsOf(form.shown)[control]
    BY <2>1 DEF Shows
  <2>3. fields[control] = form.fields[control]
    <3>1. CASE fields = form.fields
      BY <3>1
    <3>2. CASE blanked = TRUE
      <4>1. control \in {"sourcesText", "relationsText"}
        BY <1>6, <3>2 DEF Kept, b
      <4> QED
        BY <1>2, <4>1
    <3> QED
      BY <3>1, <3>2
  <2> QED
    BY <1>6, <2>2, <2>3
<1>8. f.id = f.born /\ f.id \in 0..created /\ (f.id # 0 => Stored(f.shown) /\ Shows(f))
  BY <1>1, <1>6, <1>7 DEF Good
<1> QED
  BY <1>5, <1>6, <1>8, RenderedIsGood

\* A change to a control marks it.
LEMMA TypedIsGood ==
  ASSUME FormsInv, TypeInto
  PROVE  Good(form') /\ form' # None
<1>1. PICK h \in Typed, control \in Controls :
        form # None /\ form' = [form EXCEPT !.fields[control] = h[control], !.touched = @ \cup {control}]
  BY DEF TypeInto
<1> DEFINE fs == [form.fields EXCEPT ![control] = h[control]]
           tc == form.touched \cup {control}
           f == [form EXCEPT !.fields = fs, !.touched = tc]
<1>2. form' = f
  BY <1>1
<1>3. Good(form) /\ form \in Form /\ form.fields \in Fields /\ h \in Fields
  BY <1>1, TypedAssumption DEF FormsInv, Good, Form
<1>4. fs \in Fields
  <2>1. CASE control = "body"
    BY <1>3, <2>1 DEF Fields
  <2>2. CASE control = "status"
    BY <1>3, <2>2 DEF Fields
  <2>3. CASE control = "cats"
    BY <1>3, <2>3 DEF Fields
  <2>4. CASE control = "sourcesText"
    BY <1>3, <2>4 DEF Fields
  <2>5. CASE control = "relationsText"
    BY <1>3, <2>5 DEF Fields
  <2> QED
    BY <2>1, <2>2, <2>3, <2>4, <2>5 DEF Controls
<1>5. tc \in SUBSET Controls
  BY <1>3 DEF Form
<1>6. \A c \in Controls : c # control => fs[c] = form.fields[c]
  BY <1>3 DEF Fields, Controls
<1> HIDE DEF fs
<1>7. /\ f \in Form /\ f.id = form.id /\ f.born = form.born /\ f.shown = form.shown
      /\ f.touched = tc /\ f.fields = fs /\ f.blanked = form.blanked
  <2> HIDE DEF tc
  <2> QED
    BY <1>3, <1>4, <1>5 DEF Form
<1> HIDE DEF f
<1>8. Shows(form) => Shows(f)
  BY <1>6, <1>7 DEF Shows, Kept
<1>9. Good(f) /\ f # None
  BY <1>3, <1>7, <1>8, FormAssumption DEF Good
<1> QED
  BY <1>2, <1>9

-----------------------------------------------------------------------------
(* Steps.                                                                  *)

\* A save that is not refused: what the form says is a valid article.
Saves == /\ form # None /\ form' = None
         /\ ReadableRelations(form.fields)
         /\ Store(form.id, ParseForm(form.fields))
         /\ form.id = 0 => created < MaxArticles

\* Deleting from the form.
Deletes == form # None /\ form' = None /\ article # None /\ article.id = form.id /\ Drop

\* The form is left alone, rendered or typed into as a good one, or sent with success.
LEMMA FormSteps ==
  ASSUME ArticleInv, FormsInv, [Next]_vars
  PROVE  \/ UNCHANGED form
         \/ Good(form') /\ form' # None /\ UNCHANGED <<article, created>>
         \/ form' = None /\ UNCHANGED <<article, created>> /\ form = None
         \/ Saves /\ UNCHANGED edits
         \/ Deletes /\ UNCHANGED edits
<1>1. CASE TypeInto
  BY <1>1, TypedIsGood DEF TypeInto
<1>2. ASSUME NEW c, LoginPages(c) /\ UNCHANGED <<article, created, form>>
      PROVE  UNCHANGED form
  BY <1>2
<1>3. ASSUME NEW c, NEW key, Logout(key, c) /\ UNCHANGED <<article, created, form>>
      PROVE  UNCHANGED form
  BY <1>3
<1>4. CASE Api
  BY <1>4 DEF Api, ApiWrite, ApiDelete
<1>5. CASE Surroundings
  <2>1. CASE form # None /\ form' = [form EXCEPT !.exposed = TRUE]
    <3> DEFINE f == [form EXCEPT !.exposed = TRUE]
    <3>1. Good(form) /\ form \in Form
      BY <2>1 DEF FormsInv, Good
    <3>2. /\ f \in Form /\ f.id = form.id /\ f.born = form.born /\ f.shown = form.shown
          /\ f.touched = form.touched /\ f.fields = form.fields /\ f.blanked = form.blanked
      BY <3>1 DEF Form
    <3>3. f = form'
      BY <2>1
    <3> HIDE DEF f
    <3>4. Good(f) /\ f # None
      BY <3>1, <3>2, FormAssumption DEF Good, Shows, Kept
    <3> QED
      BY <1>5, <3>3, <3>4 DEF Surroundings
  <2> QED
    BY <1>5, <2>1 DEF Surroundings
<1>6. ASSUME NEW key, TurnedAway(key)
      PROVE  UNCHANGED form
  BY <1>6 DEF TurnedAway
<1>7. ASSUME NEW key, NEW c, AdminNew(key, c)
      PROVE  Good(form') /\ form' # None /\ UNCHANGED <<article, created>>
  <2>1. RenderForm(c, Page(0, None, NewFields))
    BY <1>7 DEF AdminNew
  <2> QED
    BY <2>1, NewFormIsGood DEF RenderForm
<1>8. ASSUME NEW key, NEW c, NEW id, AdminEdit(key, c, id)
      PROVE  \/ UNCHANGED form
             \/ Good(form') /\ form' # None /\ UNCHANGED <<article, created>>
  <2>1. CASE article # None /\ article.id = id
    <3>1. RenderForm(c, Page(id, article.content, FieldsOf(article.content)))
      BY <1>8, <2>1 DEF AdminEdit
    <3> QED
      BY <2>1, <3>1, EditFormIsGood DEF RenderForm
  <2> QED
    BY <1>8, <2>1 DEF AdminEdit
<1>9. ASSUME NEW key, NEW c, AdminSave(key, c)
      PROVE  \/ Saves
             \/ Good(form') /\ form' # None /\ UNCHANGED <<article, created>>
  <2>1. ASSUME NEW fields, NEW blanked \in BOOLEAN, Refuse(key, c, fields, blanked),
               \/ fields = form.fields /\ blanked = FALSE
               \/ fields = Blanked(form.fields) /\ blanked = TRUE
        PROVE  Good(form') /\ form' # None /\ UNCHANGED <<article, created>>
    <3>1. form # None
      BY <1>9 DEF AdminSave
    <3>2. Good(form') /\ form' # None
      BY <2>1, <3>1, RefusedIsGood
    <3> QED
      BY <2>1, <3>2 DEF Refuse, RenderForm
  <2>2. CASE Refuse(key, c, Blanked(form.fields), TRUE)
    BY <2>1, <2>2
  <2>3. CASE Refuse(key, c, form.fields, FALSE)
    BY <2>1, <2>3
  <2> QED
    BY <1>9, <2>2, <2>3 DEF AdminSave, Saves
<1>10. ASSUME NEW key, NEW c, AdminDelete(key, c)
       PROVE  UNCHANGED form \/ Deletes
  BY <1>10 DEF AdminDelete, Deletes
<1>11. CASE UNCHANGED vars
  BY <1>11 DEF vars, formVars
<1>12. ASSUME NEW key, NEW c, Browser(key, c), UNCHANGED edits
       PROVE  \/ UNCHANGED form
              \/ Good(form') /\ form' # None /\ UNCHANGED <<article, created>>
              \/ Saves \/ Deletes
  BY <1>6, <1>7, <1>8, <1>9, <1>10, <1>12 DEF Browser, AdminArticles
<1> QED
  BY <1>1, <1>2, <1>3, <1>4, <1>5, <1>11, <1>12 DEF Next, Request

\* What a good form sends is an input.
LEMMA SavesTyped ==
  ASSUME FormsInv, Saves
  PROVE  ParseForm(form.fields) \in Input
<1>1. form.fields \in Fields
  BY DEF Saves, FormsInv, Good, Form
<1> QED
  BY <1>1, ParseFormTyped DEF Saves

\* Deleting keeps the invariant of the article.
LEMMA DropKeepsRows ==
  ASSUME ArticleInv, Drop, UNCHANGED edits
  PROVE  ArticleInv' /\ created <= created'
<1>1. created \in Nat /\ created' = created /\ article' = None /\ edits' = edits
  BY BoundsAssumption DEF Drop, ArticleInv
<1> QED
  BY <1>1 DEF ArticleInv

\* The article changes by valid writes and deletions only.
LEMMA ArticleSteps ==
  ASSUME ArticleInv, FormsInv, [Next]_vars
  PROVE  ArticleInv' /\ created <= created'
<1>0. created \in Nat /\ edits \in Nat
  BY BoundsAssumption DEF ArticleInv
<1>1. CASE UNCHANGED <<article, created, edits>>
  BY <1>0, <1>1 DEF ArticleInv
<1>2. CASE TypeInto
  <2>1. edits' \in 0..MaxEdits /\ UNCHANGED <<article, created>>
    BY <1>0, <1>2, BoundsAssumption DEF TypeInto
  <2> QED
    BY <1>0, <2>1 DEF ArticleInv
<1>3. CASE Api /\ UNCHANGED edits
  <2>1. ASSUME NEW key, NEW id, NEW in \in ApiInputs, ApiWrite(key, id, in)
        PROVE  ArticleInv' /\ created <= created'
    <3>1. in \in Input
      BY ApiAssumption
    <3>2. CASE Store(id, in)
      <4>1. id = 0 => created < MaxArticles
        BY <2>1 DEF ApiWrite
      <4> QED
        BY <1>3, <3>1, <3>2, <4>1, StoreMakesRows
    <3> QED
      BY <1>1, <1>3, <2>1, <3>2 DEF ApiWrite
  <2>2. ASSUME NEW key, NEW id, ApiDelete(key, id)
        PROVE  ArticleInv' /\ created <= created'
    BY <1>1, <1>3, <2>2, DropKeepsRows DEF ApiDelete
  <2> QED
    BY <1>3, <2>1, <2>2 DEF Api
<1>4. CASE Saves /\ UNCHANGED edits
  <2>1. Store(form.id, ParseForm(form.fields)) /\ (form.id = 0 => created < MaxArticles)
    BY <1>4 DEF Saves
  <2> QED
    BY <1>4, <2>1, SavesTyped, StoreMakesRows
<1>5. CASE Deletes /\ UNCHANGED edits
  BY <1>5, DropKeepsRows DEF Deletes
<1>6. ASSUME NEW key, NEW c, Browser(key, c), UNCHANGED edits
      PROVE  ArticleInv' /\ created <= created'
  <2>1. CASE UNCHANGED form
    <3>1. UNCHANGED <<article, created>>
      <4>1. CASE TurnedAway(key) \/ AdminArticles(key, c) \/ AdminNew(key, c) \/ \E id \in 1..created : AdminEdit(key, c, id)
        BY <2>1, <4>1 DEF TurnedAway, AdminArticles, AdminNew, AdminEdit, RenderForm
      <4>2. CASE AdminSave(key, c) \/ AdminDelete(key, c)
        BY <1>6, <2>1, <4>2 DEF AdminSave, Refuse, AdminDelete, RenderForm
      <4> QED
        BY <1>6, <4>1, <4>2 DEF Browser
    <3> QED
      BY <1>1, <1>6, <3>1
  <2> QED
    BY <1>1, <1>4, <1>5, <1>6, <2>1, FormSteps
<1>7. CASE Surroundings /\ UNCHANGED edits
  BY <1>1, <1>7 DEF Surroundings
<1>8. CASE UNCHANGED vars
  BY <1>1, <1>8 DEF vars, formVars
<1> QED
  BY <1>1, <1>2, <1>3, <1>6, <1>7, <1>8 DEF Next, Request

\* Every step keeps both invariants.
LEMMA FormsInvNext == ArticleInv /\ FormsInv /\ [Next]_vars => ArticleInv' /\ FormsInv'
<1> SUFFICES ASSUME ArticleInv, FormsInv, [Next]_vars
             PROVE  ArticleInv' /\ FormsInv'
  OBVIOUS
<1>1. ArticleInv' /\ created <= created'
  BY ArticleSteps
<1>2. created \in Nat /\ created' \in Nat
  BY <1>1, BoundsAssumption DEF ArticleInv
<1>3. \A i \in 0..created : i \in 0..created'
  BY <1>1, <1>2
<1>4. ASSUME Good(form'), form' # None
      PROVE  FormsInv'
  BY <1>3, <1>4 DEF FormsInv, Good, Stored, Shows, Kept
<1>5. CASE UNCHANGED form
  BY <1>1, <1>3, <1>5 DEF FormsInv, Good, Stored, Shows, Kept
<1>6. CASE form' = None
  BY <1>1, <1>6 DEF FormsInv
<1> QED
  BY <1>1, <1>4, <1>5, <1>6, FormSteps DEF Saves, Deletes

\* The invariant of the article and the form holds in every reachable state.
THEOREM FormInvariance == Spec => [](ArticleInv /\ FormsInv)
<1>1. Init => ArticleInv /\ FormsInv
  BY BoundsAssumption DEF Init, ArticleInv, FormsInv
<1> QED
  BY <1>1, FormsInvNext, PTL DEF Spec

-----------------------------------------------------------------------------
(* What a form does when it is sent.                                       *)

\* A form is closed only by saving or by deleting with it.
LEMMA ClosingSteps ==
  ASSUME ArticleInv, FormsInv, [Next]_vars, form # None, form' = None
  PROVE  (Saves \/ Deletes) /\ UNCHANGED edits
BY FormSteps

\* A step that closes a form has worked on the article it was made for.
LEMMA HitsNext == ArticleInv /\ FormsInv /\ [Next]_vars => HitsItsArticle
<1> SUFFICES ASSUME ArticleInv, FormsInv, [Next]_vars, form # None, form' = None, form.id # 0
             PROVE  article # None /\ article.born = form.born
  BY DEF HitsItsArticle
<1>1. article # None /\ article.id = form.id
  <2>1. CASE Saves /\ UNCHANGED edits
    <3>1. Store(form.id, ParseForm(form.fields)) /\ (form.id = 0 => created < MaxArticles)
      BY <2>1 DEF Saves
    <3> QED
      BY <2>1, <3>1, SavesTyped, StoreMakesRows
  <2>2. CASE Deletes
    BY <2>2 DEF Deletes
  <2> QED
    BY <2>1, <2>2, ClosingSteps
<1>2. article.id = article.born /\ form.id = form.born
  BY <1>1 DEF ArticleInv, FormsInv, Good
<1> QED
  BY <1>1, <1>2

\* A form saves or deletes the very article it was opened for, for any number of
\* articles created and deleted meanwhile under its slug.
THEOREM FormsAlwaysHit == Spec => FormsHitTheirArticle
  BY FormInvariance, HitsNext, PTL DEF Spec, FormsHitTheirArticle

\* A step that saves a form keeps what it still shows as it was.
LEMMA SaveKeepsNext == ArticleInv /\ FormsInv /\ [Next]_vars => SaveKeepsUntouched
<1> SUFFICES ASSUME ArticleInv, FormsInv, [Next]_vars, form # None, form' = None, article' # None, form.id # 0
             PROVE  SaveKeepsUntouched
  BY DEF SaveKeepsUntouched, SavesForm
<1> DEFINE f == form.fields
           in == ParseForm(f)
           old == form.shown
           new == article'.content
<1>1. Saves /\ UNCHANGED edits
  BY ClosingSteps DEF Deletes, Drop
<1>2. in \in Input
  BY <1>1, SavesTyped
<1>3. new = Normalize(in)
  <2>1. Store(form.id, in)
    BY <1>1 DEF Saves
  <2> HIDE DEF in
  <2> QED
    BY <1>1, <1>2, <2>1, StoreMakesRows
<1>4. Good(form) /\ form \in Form /\ f \in Fields /\ Stored(old) /\ old \in Input /\ Shows(form)
  BY DEF FormsInv, Good, Form, Stored
<1>5. in.body = f.body /\ in.status = f.status /\ in.cats = f.cats
  BY DEF ParseForm
<1> DEFINE Still(control) == Kept(form, control)
<1>6. /\ Still("body") => f.body = old.body
      /\ Still("status") => f.status = old.status
      /\ Still("cats") => f.cats = old.cats
      /\ Still("sourcesText") => f.sourcesText = SourcesText(old.sources)
      /\ Still("relationsText") => f.relationsText = RelationsText(old.relations)
  <2>1. \A control \in Controls : Still(control) => f[control] = FieldsOf(old)[control]
    BY <1>4 DEF Shows
  <2>2. /\ FieldsOf(old).body = old.body /\ FieldsOf(old).status = old.status /\ FieldsOf(old).cats = old.cats
        /\ FieldsOf(old).sourcesText = SourcesText(old.sources)
        /\ FieldsOf(old).relationsText = RelationsText(old.relations)
    BY DEF FieldsOf, ShownStatus
  <2> HIDE DEF f, old, Still
  <2> QED
    BY <2>1, <2>2 DEF Controls
<1> HIDE DEF in, new
<1>7. /\ new.body = in.body /\ new.cats = in.cats /\ new.sources = in.sources /\ new.relations = in.relations
      /\ in.status # "" => new.status = in.status
  BY <1>2, <1>3, NormalizeTyped
<1>8. old.status # ""
  BY <1>4 DEF Stored
<1>9. \A control \in {"body", "status", "cats"} : Still(control) => new[control] = old[control]
  <2> HIDE DEF Still, old, f
  <2>1. Still("body") => new.body = old.body
    BY <1>5, <1>6, <1>7
  <2>2. Still("status") => new.status = old.status
    BY <1>5, <1>6, <1>7, <1>8
  <2>3. Still("cats") => new.cats = old.cats
    BY <1>5, <1>6, <1>7
  <2> QED
    BY <2>1, <2>2, <2>3
<1>10. Still("relationsText") => new.relations = old.relations
  <2> SUFFICES ASSUME Still("relationsText")
               PROVE  new.relations = old.relations
    OBVIOUS
  <2>1. f.relationsText = RelationsText(old.relations)
    BY <1>6
  <2>2. \A i \in DOMAIN old.relations : Len(old.relations[i].relation) = 1
    BY <1>4 DEF Stored
  <2> HIDE DEF Still, old, f
  <2>3. ParseForm(f).relations = old.relations
    BY <1>4, <2>1, <2>2, RelationsComeBack
  <2> QED
    BY <1>7, <2>3 DEF in
<1>11. Still("sourcesText") =>
         /\ Len(new.sources) = Len(old.sources)
         /\ \A i \in DOMAIN new.sources : Plain(old.sources[i]) => new.sources[i] = old.sources[i]
  <2> SUFFICES ASSUME Still("sourcesText")
               PROVE  /\ Len(new.sources) = Len(old.sources)
                      /\ \A i \in DOMAIN new.sources : Plain(old.sources[i]) => new.sources[i] = old.sources[i]
    OBVIOUS
  <2>1. f.sourcesText = SourcesText(old.sources)
    BY <1>6
  <2> HIDE DEF Still, old, f
  <2>2. /\ Len(in.sources) = Len(old.sources)
        /\ \A i \in 1..Len(old.sources) : Plain(old.sources[i]) => in.sources[i] = old.sources[i]
    BY <1>4, <2>1, SourcesComeBack DEF in
  <2>3. DOMAIN in.sources = 1..Len(in.sources)
    BY <1>2 DEF Input
  <2> QED
    BY <1>7, <2>2, <2>3
<1> QED
  BY <1>9, <1>10, <1>11 DEF SaveKeepsUntouched, new

\* Whatever the editor leaves alone comes back from the form as it went in: the lines of
\* sources and relations lose nothing, for any number of them and of refusals.
THEOREM UntouchedPartsStay == Spec => UntouchedPartsAreKept
  BY FormInvariance, SaveKeepsNext, PTL DEF Spec, UntouchedPartsAreKept

\* The answers that are not 422, and those that leave the form alone.
LEMMA OnlySavesRefuse ==
  ASSUME [Next]_vars, last'.via = "browser", last'.code = 422, form' # form
  PROVE  /\ form # None
         /\ \E key, c : /\ c \in {csrf, None} /\ Brings(c)
                        /\ \/ ~ValidCSRF(c, form.token) /\ Refuse(key, c, Blanked(form.fields), TRUE)
                           \/ ValidCSRF(c, form.token) /\ Refuse(key, c, form.fields, FALSE)
<1>1. CASE TypeInto \/ Surroundings
  <2>1. last' = NoRequest
    BY <1>1 DEF TypeInto, Surroundings
  <2>2. NoRequest.code = 0
    BY DEF NoRequest
  <2> QED
    BY <2>1, <2>2
<1>2. CASE Api
  BY <1>2 DEF Api, ApiWrite, ApiDelete
<1>3. ASSUME NEW key, NEW c, \/ TurnedAway(key) \/ AdminArticles(key, c) \/ AdminNew(key, c) \/ AdminDelete(key, c)
                             \/ \E id \in 1..created : AdminEdit(key, c, id)
      PROVE  last'.code # 422
  BY <1>3 DEF TurnedAway, AdminArticles, AdminNew, AdminEdit, AdminDelete, AnswerPage, Answer
<1>4. ASSUME NEW key, NEW c, AdminSave(key, c)
      PROVE  \/ ~ValidCSRF(c, form.token) /\ Refuse(key, c, Blanked(form.fields), TRUE)
             \/ ValidCSRF(c, form.token) /\ Refuse(key, c, form.fields, FALSE)
  <2>1. ~AnswerPage(key, 303)
    BY DEF AnswerPage, Answer
  <2> QED
    BY <1>4, <2>1 DEF AdminSave
<1>5. ASSUME NEW key, NEW c, AdminSave(key, c)
      PROVE  form # None
  BY <1>5 DEF AdminSave
<1>6. ASSUME NEW key, NEW c \in {csrf, None}, Brings(c), Browser(key, c)
      PROVE  /\ form # None
             /\ \/ ~ValidCSRF(c, form.token) /\ Refuse(key, c, Blanked(form.fields), TRUE)
                \/ ValidCSRF(c, form.token) /\ Refuse(key, c, form.fields, FALSE)
  <2>1. AdminSave(key, c)
    BY <1>3, <1>6 DEF Browser
  <2> QED
    BY <1>4, <1>5, <2>1
<1> QED
  BY <1>1, <1>2, <1>6 DEF Next, Request, vars, formVars

\* A step that refuses a form gives it back.
LEMMA ComesBackNext == PagesInv /\ ArticleInv /\ FormsInv /\ [Next]_vars => RefusedFormComesBack
<1> SUFFICES ASSUME PagesInv, ArticleInv, FormsInv, [Next]_vars,
                    last'.via = "browser", last'.code = 422, form' # form
             PROVE  /\ form'.fields.sourcesText = form.fields.sourcesText
                    /\ form'.fields.relationsText = form.fields.relationsText
                    /\ form.token = csrf /\ UNCHANGED bare => form'.fields = form.fields
                    /\ form'.token = csrf'
  BY DEF RefusedFormComesBack
<1>1. form # None
  BY OnlySavesRefuse
<1>2. PICK key, c : /\ c \in {csrf, None} /\ Brings(c)
                    /\ \/ ~ValidCSRF(c, form.token) /\ Refuse(key, c, Blanked(form.fields), TRUE)
                       \/ ValidCSRF(c, form.token) /\ Refuse(key, c, form.fields, FALSE)
  BY OnlySavesRefuse
<1>3. form \in Form /\ form.fields \in Fields
  BY <1>1 DEF FormsInv, Good, Form
<1>4. CASE ~ValidCSRF(c, form.token) /\ Refuse(key, c, Blanked(form.fields), TRUE)
  <2> DEFINE fields == Blanked(form.fields)
             blanked == TRUE
  <2>1. fields \in Fields
    BY <1>3, StringAssumption DEF Blanked, ShownStatus, Fields, Statuses
  <2>2. fields.sourcesText = form.fields.sourcesText /\ fields.relationsText = form.fields.relationsText
    BY <1>3 DEF Blanked, Fields
  <2>3. Refuse(key, c, fields, blanked)
    BY <1>4
  <2>4. ~(form.token = csrf /\ UNCHANGED bare)
    <3> SUFFICES ASSUME form.token = csrf, bare' = bare
                 PROVE  FALSE
      OBVIOUS
    <3>1. bare \in Nat
      BY BareAssumption DEF PagesInv
    <3>2. c = csrf
      BY <1>2, <3>1 DEF Brings
    <3>3. form.token # None
      BY <1>3, NoneAssumption DEF Form
    <3> QED
      BY <1>4, <3>2, <3>3 DEF ValidCSRF, SecureEqual
  <2> HIDE DEF fields, blanked
  <2>5. form'.fields = fields /\ form'.token = csrf'
    BY <1>3, <2>1, <2>3, RefusedShowsFields
  <2> QED
    BY <2>2, <2>4, <2>5
<1>5. CASE ValidCSRF(c, form.token) /\ Refuse(key, c, form.fields, FALSE)
  <2> DEFINE fields == form.fields
             blanked == FALSE
  <2>1. Refuse(key, c, fields, blanked) /\ fields \in Fields
    BY <1>3, <1>5
  <2> HIDE DEF fields, blanked
  <2>2. form'.fields = fields /\ form'.token = csrf'
    BY <1>3, <2>1, RefusedShowsFields
  <2> QED
    BY <2>2 DEF fields
<1> QED
  BY <1>2, <1>4, <1>5

\* No refusal loses what was typed into the sources and relations, and one that is not
\* for the token loses nothing.
THEOREM RefusalsLoseNothing == Spec => RefusedFormsComeBack
<1>1. Init => PagesInv
  BY BareAssumption DEF Init, AccessInit, FormInv, PagesInv
<1> QED
  BY <1>1, FormInvariance, PagesInvNext, ComesBackNext, PTL DEF Spec, RefusedFormsComeBack

-----------------------------------------------------------------------------
(* Type correctness.                                                       *)

\* The rest of TypeOK.
CookiesInv ==
  /\ now \in 0..MaxTime
  /\ loginPage \in Tokens \cup {None}
  /\ session = None <=> login = None
  /\ login # None => login.at \in 0..MaxTime

\* The last answer is one that the handlers give.
LastInv ==
  /\ last.via \in {"nobody", "browser", "api"} /\ last.key \in Keys \cup {None}
  /\ last.code \in {0, 200, 201, 204, 303, 401, 403, 404, 409, 422, 502}

\* Logging in, with any password, keeps the log-in's types.
LEMMA LoginTyped ==
  ASSUME AccessInv, CookiesInv, NEW c, NEW password \in Keys, NEW held, AdminLogin(c, password, held)
  PROVE  CookiesInv'
<1>1. config.user \in Seq(STRING) /\ Len(config.user) = 1 /\ config.sessionSecret \in Secrets
  BY ConfigsAssumption DEF AccessInv, Validate, Config
<1>2. CASE LoginAnswer(c, password) = 303
  <2> DEFINE s == [payload |-> config.user \o <<now + TTL>>, secret |-> config.sessionSecret]
             l == [at |-> now, with |-> password, user |-> config.user, secret |-> config.sessionSecret]
  <2>1. session' = s /\ login' = l /\ loginPage' = None /\ now' = now
    BY <1>2 DEF AdminLogin, MakeEditorSession
  <2>2. now \in Nat /\ now + TTL \in Nat
    BY TimeAssumption DEF CookiesInv
  <2>3. l \in LogIn /\ l.at = now
    BY <1>1, <2>2 DEF LogIn
  <2>4. config.user \o <<now + TTL>> \in Seq(STRING \cup Nat)
    <3> DEFINE u == config.user
               v == <<now + TTL>>
               S == STRING \cup Nat
    <3>1. u \in Seq(S)
      <4>1. u \in Seq(STRING) /\ STRING \subseteq S
        BY <1>1
      <4> HIDE DEF u, S
      <4> QED
        BY <4>1, SeqMonotonic
    <3>2. v \in Seq(S)
      <4>1. now + TTL \in S
        BY <2>2
      <4> HIDE DEF S
      <4> QED
        BY <4>1, OnePart
    <3> HIDE DEF u, v, S
    <3>3. u \o v \in Seq(S)
      BY <3>1, <3>2, ConcatProperties
    <3> QED
      BY <3>3 DEF u, v, S
  <2>5. s \in Session
    BY <1>1, <2>4 DEF Session
  <2> HIDE DEF s, l
  <2>6. s # None /\ l # None
    BY <2>3, <2>5, LogInAssumption
  <2> QED
    BY <2>1, <2>3, <2>6 DEF CookiesInv
<1>3. CASE LoginAnswer(c, password) # 303
  <2>1. RenderLogin(c, held \cup {loginPage})
    BY <1>3 DEF AdminLogin
  <2> QED
    BY <2>1 DEF RenderLogin, CookiesInv
<1> QED
  BY <1>2, <1>3

\* So does every step.
LEMMA CookiesInvNext == AccessInv /\ CookiesInv /\ [Next]_vars => CookiesInv'
<1> SUFFICES ASSUME AccessInv, CookiesInv, [Next]_vars
             PROVE  CookiesInv'
  OBVIOUS
<1>1. CASE UNCHANGED <<now, loginPage, session, login>>
  BY <1>1 DEF CookiesInv
<1>2. CASE Surroundings
  <2>1. CASE Tick
    <3>1. now' \in 0..MaxTime
      BY <2>1, TimeAssumption DEF Tick, CookiesInv
    <3> QED
      BY <2>1, <3>1 DEF Tick, CookiesInv
  <2>2. CASE LoseSession
    BY <2>2 DEF LoseSession, CookiesInv
  <2>3. CASE Restart \/ LoseCSRF \/ SendBare \/ ForgetBare
    BY <1>1, <2>3 DEF Restart, LoseCSRF, SendBare, ForgetBare, handledVars
  <2> QED
    BY <1>2, <2>1, <2>2, <2>3 DEF Surroundings
<1>3. ASSUME NEW c, LoginPages(c)
      PROVE  CookiesInv'
  <2>1. ASSUME NEW held, RenderLogin(c, held)
        PROVE  CookiesInv'
    BY <2>1 DEF RenderLogin, CookiesInv
  <2> QED
    BY <1>3, <2>1, LoginTyped DEF LoginPages
<1>4. ASSUME NEW key, NEW c, Logout(key, c)
      PROVE  CookiesInv'
  <2>1. CASE AdminLogout(c, form.token)
    BY <2>1 DEF AdminLogout, CookiesInv
  <2> QED
    BY <1>1, <1>4, <2>1 DEF Logout, handledVars
<1>5. ASSUME NEW key, NEW c, Browser(key, c)
      PROVE  CookiesInv'
  <2>1. CASE TurnedAway(key) \/ AdminArticles(key, c) \/ AdminNew(key, c) \/ \E id \in 1..created : AdminEdit(key, c, id)
    BY <1>1, <2>1 DEF TurnedAway, AdminArticles, AdminNew, AdminEdit, RenderForm, handledVars
  <2>2. CASE AdminSave(key, c) \/ AdminDelete(key, c)
    BY <1>1, <2>2 DEF AdminSave, Refuse, AdminDelete, Drop, RenderForm, handledVars
  <2> QED
    BY <1>5, <2>1, <2>2 DEF Browser
<1>6. CASE Api \/ TypeInto \/ UNCHANGED vars
  <2>1. ASSUME NEW key, NEW id, NEW in, ApiWrite(key, id, in) \/ ApiDelete(key, id)
        PROVE  UNCHANGED <<now, loginPage, session, login>>
    BY <2>1 DEF ApiWrite, ApiDelete, Drop, handledVars
  <2> QED
    BY <1>1, <1>6, <2>1 DEF Api, TypeInto, vars, accessVars, handledVars
<1> QED
  BY <1>2, <1>3, <1>4, <1>5, <1>6 DEF Next, Request

\* Every step answers so.
LEMMA LastInvNext == LastInv /\ [Next]_vars => LastInv'
<1> SUFFICES ASSUME LastInv, [Next]_vars
             PROVE  LastInv'
  OBVIOUS
<1> DEFINE Codes == {0, 200, 201, 204, 303, 401, 403, 404, 409, 422, 502}
<1>1. ASSUME NEW via \in {"nobody", "browser", "api"}, NEW key \in Keys \cup {None}, NEW code \in Codes,
             Answer(via, key, code)
      PROVE  LastInv'
  BY <1>1 DEF Answer, LastInv
<1>2. ASSUME NEW key \in Keys \cup {None}, NEW code \in Codes, AnswerPage(key, code)
      PROVE  LastInv'
  <2> HIDE DEF Codes
  <2> QED
    BY <1>1, <1>2 DEF AnswerPage
<1>3. CASE last' = NoRequest
  BY <1>3 DEF NoRequest, LastInv
<1>4. ASSUME NEW c, LoginPages(c)
      PROVE  LastInv'
  <2>1. \A password : LoginAnswer(c, password) \in Codes
    BY DEF LoginAnswer
  <2>2. 200 \in Codes
    OBVIOUS
  <2> HIDE DEF Codes
  <2> QED
    BY <1>1, <1>4, <2>1, <2>2 DEF LoginPages
<1>5. ASSUME NEW key \in Keys \cup {None}, NEW c, Logout(key, c)
      PROVE  LastInv'
  BY <1>2, <1>5 DEF Logout
<1>6. ASSUME NEW key \in Keys \cup {None}, NEW c, Browser(key, c)
      PROVE  LastInv'
  <2>1. \E code \in {200, 303, 403, 404, 422, 502} : AnswerPage(key, code)
    <3>1. CASE TurnedAway(key) \/ AdminArticles(key, c) \/ AdminNew(key, c) \/ \E id \in 1..created : AdminEdit(key, c, id)
      BY <3>1 DEF TurnedAway, AdminArticles, AdminNew, AdminEdit
    <3>2. CASE AdminSave(key, c) \/ AdminDelete(key, c)
      BY <3>2 DEF AdminSave, Refuse, AdminDelete
    <3> QED
      BY <1>6, <3>1, <3>2 DEF Browser
  <2> QED
    BY <1>2, <2>1
<1>7. CASE Api
  <2>1. \A id, in : Refusal(id, in) \in {0, 404, 409, 422}
    BY DEF Refusal
  <2>2. ASSUME NEW key \in Keys, NEW id, NEW in, ApiWrite(key, id, in)
        PROVE  \E code \in Codes : Answer("api", key, code)
    <3> DEFINE role == RoleAnswer(FALSE, key)
               refusal == Refusal(id, in)
    <3>1. \/ Answer("api", key, role) \/ Answer("api", key, refusal)
          \/ Answer("api", key, 200) \/ Answer("api", key, 201)
      BY <2>2 DEF ApiWrite
    <3>2. role \in Codes
      BY DEF RoleAnswer
    <3>3. refusal \in Codes
      BY <2>1
    <3>4. 200 \in Codes /\ 201 \in Codes
      OBVIOUS
    <3> HIDE DEF role, refusal, Codes
    <3> QED
      BY <3>1, <3>2, <3>3, <3>4
  <2>3. ASSUME NEW key \in Keys, NEW id, ApiDelete(key, id)
        PROVE  \E code \in Codes : Answer("api", key, code)
    <3> DEFINE role == RoleAnswer(TRUE, key)
    <3>1. \/ Answer("api", key, role) \/ Answer("api", key, 204)
          \/ Answer("api", key, 404) \/ Answer("api", key, 502)
      <4> DEFINE found == article # None /\ article.id = id
                 refused == IF role # 200 THEN role ELSE 404
      <4>1. CASE role = 200 /\ found
        <5>1. PICK code \in {204, 502} : Answer("api", key, code)
          BY <2>3, <4>1 DEF ApiDelete
        <5>2. code = 204 \/ code = 502
          OBVIOUS
        <5> HIDE DEF role
        <5> QED
          BY <5>1, <5>2
      <4>2. CASE ~(role = 200 /\ found)
        <5>1. Answer("api", key, refused)
          BY <2>3, <4>2 DEF ApiDelete
        <5>2. refused = role \/ refused = 404
          OBVIOUS
        <5> HIDE DEF refused, role
        <5> QED
          BY <5>1, <5>2
      <4> QED
        BY <4>1, <4>2
    <3>2. role \in Codes
      BY DEF RoleAnswer
    <3>3. 204 \in Codes /\ 404 \in Codes /\ 502 \in Codes
      OBVIOUS
    <3> HIDE DEF role, Codes
    <3> QED
      BY <3>1, <3>2, <3>3
  <2> HIDE DEF Codes
  <2> QED
    BY <1>1, <1>7, <2>2, <2>3 DEF Api
<1>8. CASE TypeInto \/ Surroundings
  BY <1>3, <1>8 DEF TypeInto, Surroundings
<1>9. CASE UNCHANGED vars
  BY <1>9 DEF vars, formVars, LastInv
<1> QED
  BY <1>4, <1>5, <1>6, <1>7, <1>8, <1>9 DEF Next, Request

\* Every state of the form, the article, the cookies and the answers is of its type, for
\* any configurations, inputs and numbers of articles.
THEOREM FormTypeCorrect == Spec => []TypeOK
<1>1. Init => CookiesInv /\ LastInv
  BY TimeAssumption DEF Init, AccessInit, CookiesInv, LastInv, NoRequest
<1>2. Init => PagesInv
  BY BareAssumption DEF Init, AccessInit, FormInv, PagesInv
<1>3. ASSUME AccessInv, PagesInv, ArticleInv, FormsInv, CookiesInv, LastInv
      PROVE  TypeOK
  <2>1. AccessTypeOK
    <3>1. ASSUME session # None
          PROVE  session.secret \in Secrets /\ Len(session.payload) >= 2
      <4>1. login \in LogIn /\ Len(login.user) = 1
            /\ session = [payload |-> login.user \o <<login.at + TTL>>, secret |-> login.secret]
        BY <1>3, <3>1 DEF AccessInv
      <4>2. login.user \in Seq(STRING) /\ login.at + TTL \in Nat /\ login.secret \in Secrets
        BY <4>1, TimeAssumption DEF LogIn
      <4> DEFINE u == login.user
                 v == <<login.at + TTL>>
      <4>3. Len(u \o v) = 2
        <5>1. u \in Seq(STRING \cup Nat) /\ v \in Seq(STRING \cup Nat) /\ Len(u) = 1 /\ Len(v) = 1
          BY <4>1, <4>2
        <5> HIDE DEF u, v
        <5> QED
          BY <5>1, ConcatProperties
      <4> QED
        BY <4>1, <4>2, <4>3
    <3>2. config \in Configs /\ csrf \in Tokens \cup {None} /\ bare \in 0..MaxBare
      BY <1>3 DEF AccessInv, PagesInv
    <3>3. ASSUME login # None
          PROVE  login.at \in 0..MaxTime /\ login.with \in Keys
      BY <1>3, <3>3 DEF AccessInv, CookiesInv, LogIn
    <3> QED
      BY <1>3, <3>1, <3>2, <3>3 DEF AccessTypeOK, CookiesInv
  <2>2. article # None => article \in Row /\ {article.id, article.born} \subseteq 1..created /\ article.content.status # ""
    BY <1>3 DEF ArticleInv, Stored
  <2>3. form # None => form \in Form /\ {form.id, form.born} \subseteq 0..created
    BY <1>3 DEF FormsInv, Good
  <2> QED
    BY <1>3, <2>1, <2>2, <2>3 DEF TypeOK, ArticleInv, LastInv
<1>4. AccessInv /\ PagesInv /\ ArticleInv /\ FormsInv /\ CookiesInv /\ LastInv => TypeOK
  BY <1>3
<1>5. AccessInv /\ CookiesInv /\ [Next]_vars => CookiesInv'
  BY CookiesInvNext
<1> QED
  BY <1>1, <1>2, <1>4, <1>5, AccessInvariant, PagesInvNext, FormInvariance, LastInvNext, PTL DEF Spec
=============================================================================
