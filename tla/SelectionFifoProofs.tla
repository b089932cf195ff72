------------------------- MODULE SelectionFifoProofs --------------------------
(***************************************************************************)
(* Proofs about SelectionFifo for every set of writers and selections, any *)
(* number of starts and crashes, and every bound.                          *)
(***************************************************************************)
EXTENDS SelectionFifo, LeastElements, FiniteSetTheorems, SequenceTheorems

-----------------------------------------------------------------------------
(* Texts.                                                                  *)

\* Every field of a selection is a name, and there is one.
LEMMA SelectionType ==
  ASSUME NEW w \in Writers
  PROVE  Selection[w] \in Texts /\ Len(Selection[w]) \in Nat \ {0}
<1>1. Selection[w] \in Seq(STRING) /\ Selection[w] # << >>
  BY WritersAssumption
<1>2. \A i \in 1 .. Len(Selection[w]) : Selection[w][i] \in Names
  <2>1. \A i \in 1 .. Len(Selection[w]) : Selection[w][i] \in ToSet(Selection[w])
    BY <1>1, LenProperties DEF ToSet
  <2> QED BY <2>1 DEF Names
<1> QED BY <1>1, <1>2, EmptySeq, LenProperties DEF Texts

\* What a text is, position by position.
LEMMA TextShape ==
  ASSUME NEW s \in Texts
  PROVE  /\ s \in Seq(Names) /\ Len(s) \in Nat /\ DOMAIN s = 1 .. Len(s)
         /\ \A i \in 1 .. Len(s) : s[i] \in Names
         /\ s # << >> => Len(s) # 0
BY ElementOfSeq, EmptySeq, LenProperties DEF Texts

\* The fields in front of the n-th.
LEMMA FrontShape ==
  ASSUME NEW s \in Texts, NEW n \in 1 .. Len(s)
  PROVE  /\ SubSeq(s, 1, n - 1) \in Texts /\ Len(SubSeq(s, 1, n - 1)) = n - 1
         /\ \A i \in 1 .. n - 1 : SubSeq(s, 1, n - 1)[i] = s[i]
<1>1. PICK m \in Nat : m = n - 1
  BY TextShape
<1>2. m \in Int /\ \A i \in 1 .. m : s[i] \in Names
  BY <1>1, TextShape
<1>3. /\ SubSeq(s, 1, m) \in Seq(Names)
      /\ Len(SubSeq(s, 1, m)) = (IF 1 <= m THEN m - 1 + 1 ELSE 0)
      /\ \A i \in 1 .. m - 1 + 1 : SubSeq(s, 1, m)[i] = s[1 + i - 1]
  BY <1>2, SubSeqProperties
<1>4. Len(SubSeq(s, 1, m)) = m /\ \A i \in 1 .. m : SubSeq(s, 1, m)[i] = s[i]
  BY <1>1, <1>3
<1> QED BY <1>1, <1>3, <1>4 DEF Texts

\* A text and one more field.
LEMMA AppendShape ==
  ASSUME NEW s \in Texts, NEW f \in Names
  PROVE  /\ Append(s, f) \in Texts /\ Len(Append(s, f)) = Len(s) + 1
         /\ \A i \in 1 .. Len(s) : Append(s, f)[i] = s[i]
         /\ Append(s, f)[Len(s) + 1] = f
BY TextShape, AppendProperties DEF Texts

\* One text, then another.
LEMMA ConcatShape ==
  ASSUME NEW a \in Texts, NEW b \in Texts
  PROVE  /\ a \o b \in Texts /\ Len(a \o b) = Len(a) + Len(b)
         /\ \A i \in 1 .. Len(a) : (a \o b)[i] = a[i]
<1>1. a \in Seq(Names) /\ b \in Seq(Names) /\ Len(a) \in Nat /\ Len(b) \in Nat
  BY TextShape
<1>2. \A i \in 1 .. Len(a) : i \in 1 .. Len(a) + Len(b)
  BY <1>1
<1> QED BY <1>1, <1>2, ConcatProperties DEF Texts

LEMMA GlueType ==
  ASSUME NEW x \in Names, NEW y \in Names
  PROVE  Glue(x, y) \in Names
BY DEF Glue, Names

\* Two texts, one behind the other: what is in front of the field in which they meet
\* stays.
LEMMA JoinShape ==
  ASSUME NEW a \in Texts, NEW b \in Texts, a # << >>, b # << >>
  PROVE  /\ Join(a, b) \in Texts /\ Len(Join(a, b)) = Len(a) + Len(b) - 1
         /\ \A i \in 1 .. Len(a) - 1 : Join(a, b)[i] = a[i]
         /\ Join(a, b)[Len(a)] = Glue(a[Len(a)], b[1])
<1> DEFINE f == Front(a)
           g == Glue(a[Len(a)], b[1])
           h == f \o << g >>
<1>1. Len(a) \in Nat \ {0} /\ Len(b) \in Nat \ {0}
  BY TextShape
<1>2. Tail(b) \in Texts /\ Len(Tail(b)) = Len(b) - 1
  BY <1>1, HeadTailProperties, TextShape DEF Texts
<1>3. f \in Texts /\ Len(f) = Len(a) - 1 /\ \A i \in 1 .. Len(a) - 1 : f[i] = a[i]
  <2>1. Len(a) \in 1 .. Len(a)
    BY <1>1
  <2> QED BY <2>1, FrontShape DEF Front
<1>4. g \in Names
  BY <1>1, TextShape, GlueType
<1>5. Join(a, b) = h \o Tail(b)
  BY DEF Join, Last
<1> HIDE DEF f, g
<1>6. << g >> \in Seq(Names) /\ Len(<< g >>) = 1 /\ << g >>[1] = g
  BY <1>4
<1>7. /\ h \in Texts /\ Len(h) = Len(a) /\ h[Len(a)] = g
      /\ \A i \in 1 .. Len(a) - 1 : h[i] = a[i]
  <2>1. /\ h \in Seq(Names) /\ Len(h) = Len(f) + 1
        /\ \A i \in 1 .. Len(f) + 1 : h[i] = IF i <= Len(f) THEN f[i] ELSE << g >>[i - Len(f)]
    BY <1>3, <1>6, ConcatProperties, TextShape
  <2> QED BY <1>1, <1>3, <1>6, <2>1 DEF Texts
<1> HIDE DEF h
<1>8. /\ h \o Tail(b) \in Texts /\ Len(h \o Tail(b)) = Len(h) + Len(Tail(b))
      /\ \A i \in 1 .. Len(h) : (h \o Tail(b))[i] = h[i]
  BY <1>2, <1>7, ConcatShape
<1> QED BY <1>1, <1>2, <1>5, <1>7, <1>8 DEF g

LEMMA JoinType ==
  ASSUME NEW a \in Texts, NEW b \in Texts
  PROVE  Join(a, b) \in Texts
BY JoinShape DEF Join

\* What is left of a field is a name.
LEMMA PiecesType ==
  ASSUME NEW f \in Names
  PROVE  Pieces(f) \subseteq Names
BY DEF Pieces, Names

\* A text that is cut keeps the fields in front of the cut.
LEMMA CutShape ==
  ASSUME NEW text \in Texts, NEW n \in 1 .. Len(text), NEW part \in Cut(text, n)
  PROVE  /\ part \in Texts /\ Len(part) = n /\ part[n] \in Pieces(text[n])
         /\ \A i \in 1 .. n - 1 : part[i] = text[i]
<1>1. PICK f \in Pieces(text[n]) : part = Append(SubSeq(text, 1, n - 1), f)
  BY DEF Cut
<1>2. f \in Names
  BY TextShape, PiecesType
<1>3. n \in Nat
  BY TextShape
<1> QED BY <1>1, <1>2, <1>3, FrontShape, AppendShape

\* What a shorter text leaves of a longer one.
LEMMA OverlayType ==
  ASSUME NEW a \in Texts, NEW b \in Texts
  PROVE  Overlay(a, b) \subseteq Texts
<1> SUFFICES ASSUME NEW text \in Overlay(a, b) PROVE text \in Texts
  OBVIOUS
<1>1. CASE text = b
  BY <1>1
<1>2. CASE \E k \in DOMAIN a : \E f \in Pieces(a[k]) :
             text = Join(b, << f >> \o SubSeq(a, k + 1, Len(a)))
  <2>1. PICK k \in DOMAIN a : \E f \in Pieces(a[k]) :
             text = Join(b, << f >> \o SubSeq(a, k + 1, Len(a)))
    BY <1>2
  <2>2. PICK f \in Pieces(a[k]) : text = Join(b, << f >> \o SubSeq(a, k + 1, Len(a)))
    BY <2>1
  <2>3. k \in 1 .. Len(a) /\ Len(a) \in Nat /\ f \in Names
    BY TextShape, PiecesType
  <2>4. \A i \in k + 1 .. Len(a) : a[i] \in Names
    BY <2>3, TextShape
  <2>5. SubSeq(a, k + 1, Len(a)) \in Texts
    BY <2>3, <2>4, SubSeqProperties DEF Texts
  <2>6. << f >> \in Texts
    BY <2>3 DEF Texts
  <2> QED BY <2>2, <2>5, <2>6, ConcatShape, JoinType
<1> QED BY <1>1, <1>2 DEF Overlay

\* One sequence begins another.
LEMMA PrefixShape ==
  ASSUME NEW a \in Texts, NEW b \in Texts
  PROVE  IsPrefix(a, b) <=> Len(a) <= Len(b) /\ \A i \in 1 .. Len(a) : a[i] = b[i]
<1> DEFINE n == Len(a)
<1>1. n \in Nat /\ Len(b) \in Nat
  BY TextShape
<1>2. ASSUME NEW s \in Texts, n <= Len(s)
      PROVE  /\ SubSeq(s, 1, n) \in Seq(Names) /\ Len(SubSeq(s, 1, n)) = n
             /\ \A i \in 1 .. n : SubSeq(s, 1, n)[i] = s[i]
  <2> HIDE DEF n
  <2>1. Len(s) \in Nat
    BY TextShape
  <2>2. n \in Int /\ \A i \in 1 .. n : s[i] \in Names
    BY <1>1, <1>2, <2>1, TextShape
  <2>3. /\ SubSeq(s, 1, n) \in Seq(Names)
        /\ Len(SubSeq(s, 1, n)) = (IF 1 <= n THEN n - 1 + 1 ELSE 0)
        /\ \A i \in 1 .. n - 1 + 1 : SubSeq(s, 1, n)[i] = s[1 + i - 1]
    BY <2>2, SubSeqProperties
  <2> QED BY <1>1, <2>3
<1>3. ASSUME n <= Len(b)
      PROVE  SubSeq(a, 1, n) = SubSeq(b, 1, n) <=> \A i \in 1 .. n : a[i] = b[i]
  <2>1. n <= Len(a)
    BY <1>1
  <2> HIDE DEF n
  <2>2. SubSeq(a, 1, n) = SubSeq(b, 1, n) <=>
          \A i \in 1 .. n : SubSeq(a, 1, n)[i] = SubSeq(b, 1, n)[i]
    BY <1>2, <1>3, <2>1, SeqEqual
  <2> QED BY <1>2, <1>3, <2>1, <2>2
<1> QED BY <1>3 DEF IsPrefix

-----------------------------------------------------------------------------
(* The names in a text.                                                    *)

\* How many fields up to a position are names: it grows by one at each of them.
LEMMA RankShape ==
  ASSUME NEW s \in Texts
  PROVE  /\ Cardinality(Kept(s)) \in Nat /\ Rank(s, 0) = 0
         /\ \A i \in 0 .. Len(s) : Rank(s, i) \in Nat
         /\ Rank(s, Len(s)) = Cardinality(Kept(s))
         /\ \A i \in 1 .. Len(s) :
              Rank(s, i) = IF i \in Kept(s) THEN Rank(s, i - 1) + 1 ELSE Rank(s, i - 1)
         /\ \A i, j \in 0 .. Len(s) : i <= j => Rank(s, i) <= Rank(s, j)
<1> DEFINE K(i) == {j \in Kept(s) : j <= i}
<1>1. Len(s) \in Nat /\ Kept(s) \subseteq 1 .. Len(s)
  BY TextShape DEF Kept
<1>2. IsFiniteSet(Kept(s))
  <2>1. IsFiniteSet(1 .. Len(s))
    BY <1>1, FS_Interval
  <2> QED BY <1>1, <2>1, FS_Subset
<1>3. \A i \in 0 .. Len(s) : IsFiniteSet(K(i)) /\ Rank(s, i) = Cardinality(K(i))
  BY <1>2, FS_Subset DEF Rank
<1>4. \A i, j \in 0 .. Len(s) : i <= j => K(i) \subseteq K(j)
  BY <1>1
<1>5. K(0) = {} /\ K(Len(s)) = Kept(s)
  BY <1>1
<1>6. ASSUME NEW i \in 1 .. Len(s)
      PROVE  K(i) = IF i \in Kept(s) THEN K(i - 1) \cup {i} ELSE K(i - 1)
  <2>1. \A j \in Kept(s) : j <= i <=> j <= i - 1 \/ j = i
    BY <1>1
  <2> QED BY <2>1
<1>7. \A i \in 1 .. Len(s) : i \notin K(i - 1) /\ i - 1 \in 0 .. Len(s) /\ i \in 0 .. Len(s)
  BY <1>1
<1>8. 0 \in 0 .. Len(s) /\ Len(s) \in 0 .. Len(s)
  BY <1>1
<1> HIDE DEF K
<1>9. ASSUME NEW i \in 1 .. Len(s)
      PROVE  Rank(s, i) = IF i \in Kept(s) THEN Rank(s, i - 1) + 1 ELSE Rank(s, i - 1)
  <2>1. CASE i \in Kept(s)
    <3>1. K(i) = K(i - 1) \cup {i} /\ i \notin K(i - 1) /\ IsFiniteSet(K(i - 1))
      BY <1>3, <1>6, <1>7, <2>1
    <3>2. Cardinality(K(i)) = Cardinality(K(i - 1)) + 1
      BY <3>1, FS_AddElement
    <3> QED BY <1>3, <1>7, <2>1, <3>2
  <2>2. CASE i \notin Kept(s)
    BY <1>3, <1>6, <1>7, <2>2
  <2> QED BY <2>1, <2>2
<1>10. \A i \in 0 .. Len(s) : Rank(s, i) \in Nat
  BY <1>3, FS_CardinalityType
<1>11. ASSUME NEW i \in 0 .. Len(s), NEW j \in 0 .. Len(s), i <= j
       PROVE  Rank(s, i) <= Rank(s, j)
  <2>1. K(i) \in SUBSET K(j) /\ IsFiniteSet(K(j))
    BY <1>3, <1>4, <1>11
  <2>2. Cardinality(K(i)) <= Cardinality(K(j))
    BY <2>1, FS_Subset
  <2> QED BY <1>3, <2>2
<1>12. Rank(s, 0) = 0 /\ Rank(s, Len(s)) = Cardinality(Kept(s)) /\ Cardinality(Kept(s)) \in Nat
  BY <1>2, <1>3, <1>5, <1>8, FS_EmptySet, FS_CardinalityType
<1> QED BY <1>9, <1>10, <1>11, <1>12

\* The field with a name is the one of its rank.
LEMMA TokenAt ==
  ASSUME NEW s \in Texts, NEW i \in Kept(s)
  PROVE  /\ i \in 1 .. Len(s) /\ Rank(s, i) \in 1 .. Cardinality(Kept(s))
         /\ Tokens(s)[Rank(s, i)] = s[i]
<1>1. Len(s) \in Nat /\ Kept(s) \subseteq 1 .. Len(s)
  BY TextShape DEF Kept
<1>2. \A j \in Kept(s) : /\ Rank(s, j) = Rank(s, j - 1) + 1
                         /\ Rank(s, j) \in Nat /\ Rank(s, j - 1) \in Nat
  BY <1>1, RankShape
<1>3. \A j, k \in Kept(s) : j < k => Rank(s, j) < Rank(s, k)
  <2> SUFFICES ASSUME NEW j \in Kept(s), NEW k \in Kept(s), j < k
               PROVE  Rank(s, j) < Rank(s, k)
    OBVIOUS
  <2>1. j \in 0 .. Len(s) /\ k - 1 \in 0 .. Len(s) /\ j <= k - 1
    BY <1>1
  <2>2. Rank(s, j) <= Rank(s, k - 1)
    BY <2>1, RankShape
  <2> QED BY <1>2, <2>2
<1>4. \A j \in Kept(s) : Rank(s, j) = Rank(s, i) => j = i
  BY <1>1, <1>2, <1>3
<1>5. i \in 0 .. Len(s) /\ Len(s) \in 0 .. Len(s) /\ i <= Len(s)
  BY <1>1
<1>6. Rank(s, i) <= Cardinality(Kept(s)) /\ Cardinality(Kept(s)) \in Nat
  BY <1>5, RankShape
<1>7. Rank(s, i) \in 1 .. Cardinality(Kept(s))
  BY <1>2, <1>6
<1>8. (CHOOSE j \in Kept(s) : Rank(s, j) = Rank(s, i)) = i
  BY <1>4
<1> QED BY <1>1, <1>7, <1>8 DEF Tokens

\* Every rank up to the number of names is that of a field.
LEMMA RankExists ==
  ASSUME NEW s \in Texts, NEW n \in 1 .. Cardinality(Kept(s))
  PROVE  \E i \in Kept(s) : Rank(s, i) = n
<1> DEFINE T == {i \in 1 .. Len(s) : Rank(s, i) >= n}
<1>1. Len(s) \in Nat /\ Rank(s, 0) = 0 /\ Rank(s, Len(s)) = Cardinality(Kept(s))
      /\ Cardinality(Kept(s)) \in Nat
  BY TextShape, RankShape
<1>2. Len(s) \in T
  BY <1>1
<1>3. T \subseteq Nat
  BY <1>1
<1>4. PICK i \in T : \A j \in T : i <= j
  <2> HIDE DEF T
  <2> QED BY <1>2, <1>3, LeastExists
<1>5. i \in 1 .. Len(s) /\ i - 1 \in 0 .. Len(s) /\ i \in 0 .. Len(s)
  BY <1>1
<1>6. Rank(s, i) \in Nat /\ Rank(s, i - 1) \in Nat
  BY <1>5, RankShape
<1>7. Rank(s, i - 1) < n
  <2>1. CASE i = 1
    BY <1>1, <2>1
  <2>2. CASE i # 1
    <3>1. i - 1 \in 1 .. Len(s) /\ ~(i <= i - 1)
      BY <1>1, <1>5, <2>2
    <3>2. i - 1 \notin T
      BY <1>4, <3>1
    <3> QED BY <1>1, <1>6, <3>1, <3>2
  <2> QED BY <2>1, <2>2
<1>8. Rank(s, i) >= n
  OBVIOUS
<1>9. Rank(s, i) = IF i \in Kept(s) THEN Rank(s, i - 1) + 1 ELSE Rank(s, i - 1)
  BY <1>5, RankShape
<1> HIDE DEF T
<1>10. i \in Kept(s) /\ Rank(s, i) = n
  BY <1>1, <1>6, <1>7, <1>8, <1>9
<1> QED BY <1>10

\* What parse_metrics stores: names of the text, and no more than MAX_METRICS.
LEMMA ParseShape ==
  ASSUME NEW s \in Texts
  PROVE  /\ parse_metrics(s) \in Texts
         /\ Len(parse_metrics(s)) = IF Cardinality(Kept(s)) < MaxMetrics
                                    THEN Cardinality(Kept(s)) ELSE MaxMetrics
         /\ \A n \in 1 .. Len(parse_metrics(s)) : parse_metrics(s)[n] = Tokens(s)[n]
<1> DEFINE c == Cardinality(Kept(s))
           m == IF c < MaxMetrics THEN c ELSE MaxMetrics
<1>1. c \in Nat /\ MaxMetrics \in Nat
  BY RankShape, BoundsAssumption
<1>2. \A n \in 1 .. c : Tokens(s)[n] \in Names
  <2> SUFFICES ASSUME NEW n \in 1 .. c PROVE Tokens(s)[n] \in Names
    OBVIOUS
  <2>1. PICK i \in Kept(s) : Rank(s, i) = n
    BY RankExists
  <2> QED BY <2>1, TokenAt, TextShape
<1>3. m \in Nat /\ m <= c
  BY <1>1
<1>4. parse_metrics(s) = SubSeq(Tokens(s), 1, m)
  BY DEF parse_metrics
<1> HIDE DEF m
<1>5. m \in Int /\ \A i \in 1 .. m : Tokens(s)[i] \in Names
  BY <1>1, <1>2, <1>3
<1>6. /\ SubSeq(Tokens(s), 1, m) \in Seq(Names)
      /\ Len(SubSeq(Tokens(s), 1, m)) = (IF 1 <= m THEN m - 1 + 1 ELSE 0)
      /\ \A i \in 1 .. m - 1 + 1 : SubSeq(Tokens(s), 1, m)[i] = Tokens(s)[1 + i - 1]
  BY <1>5, SubSeqProperties
<1>7. /\ Len(SubSeq(Tokens(s), 1, m)) = m
      /\ \A i \in 1 .. m : SubSeq(Tokens(s), 1, m)[i] = Tokens(s)[i]
  BY <1>3, <1>6
<1> QED BY <1>4, <1>6, <1>7 DEF m, Texts

LEMMA ParseType ==
  ASSUME NEW s \in Texts
  PROVE  parse_metrics(s) \in Texts /\ Len(parse_metrics(s)) <= MaxMetrics
BY ParseShape, RankShape, BoundsAssumption

\* Two texts that agree up to p have the same names there; when the first has no other
\* that counts, what is parsed of it begins what is parsed of the second.
LEMMA SameNames ==
  ASSUME NEW s \in Texts, NEW t \in Texts, NEW p \in Nat, p <= Len(s), p <= Len(t),
         \A i \in 1 .. p : s[i] = t[i],
         \A i \in Kept(s) : Rank(s, i) <= MaxMetrics => i <= p
  PROVE  IsPrefix(parse_metrics(s), parse_metrics(t))
<1> DEFINE a == parse_metrics(s)
           b == parse_metrics(t)
<1>1. /\ Len(s) \in Nat /\ DOMAIN s = 1 .. Len(s) /\ Kept(s) \subseteq 1 .. Len(s)
      /\ Len(t) \in Nat /\ DOMAIN t = 1 .. Len(t) /\ Kept(t) \subseteq 1 .. Len(t)
      /\ MaxMetrics \in Nat
  BY TextShape, BoundsAssumption DEF Kept
<1>2. \A i \in 1 .. p : i \in Kept(s) <=> i \in Kept(t)
  <2> SUFFICES ASSUME NEW i \in 1 .. p PROVE i \in Kept(s) <=> i \in Kept(t)
    OBVIOUS
  <2>1. i \in DOMAIN s /\ i \in DOMAIN t /\ s[i] = t[i]
    BY <1>1
  <2> QED BY <2>1 DEF Kept
<1>3. \A i \in 1 .. p : Rank(s, i) = Rank(t, i)
  <2> SUFFICES ASSUME NEW i \in 1 .. p PROVE Rank(s, i) = Rank(t, i)
    OBVIOUS
  <2>1. {j \in Kept(s) : j <= i} = {j \in Kept(t) : j <= i}
    BY <1>1, <1>2
  <2> QED BY <2>1 DEF Rank
<1>4. a \in Texts /\ b \in Texts /\ Len(a) \in Nat /\ Len(b) \in Nat
  BY ParseShape, TextShape
<1>5. Cardinality(Kept(s)) \in Nat /\ Cardinality(Kept(t)) \in Nat
  BY RankShape
<1>6. ASSUME NEW n \in 1 .. Len(a)
      PROVE  n \in 1 .. Cardinality(Kept(t)) /\ Tokens(s)[n] = Tokens(t)[n]
  <2>1. n \in 1 .. Cardinality(Kept(s)) /\ n <= MaxMetrics
    BY <1>1, <1>4, <1>5, ParseShape
  <2>2. PICK i \in Kept(s) : Rank(s, i) = n
    BY <2>1, RankExists
  <2>3. i \in 1 .. p /\ i \in Kept(t) /\ Rank(t, i) = n
    BY <1>1, <1>2, <1>3, <2>1, <2>2
  <2> QED BY <2>2, <2>3, TokenAt
<1>7. Len(a) <= Len(b)
  <2>1. CASE Len(a) = 0
    BY <1>4, <2>1
  <2>2. CASE Len(a) # 0
    <3>1. Len(a) \in 1 .. Len(a)
      BY <1>4, <2>2
    <3>2. Len(a) <= Cardinality(Kept(t))
      BY <1>6, <3>1
    <3> QED BY <1>1, <1>5, <3>2, ParseShape
  <2> QED BY <2>1, <2>2
<1>8. \A n \in 1 .. Len(a) : n \in 1 .. Len(b) /\ a[n] = b[n]
  BY <1>4, <1>6, <1>7, ParseShape
<1> HIDE DEF a, b
<1>9. IsPrefix(a, b)
  BY <1>4, <1>7, <1>8, PrefixShape
<1> QED BY <1>9 DEF a, b

-----------------------------------------------------------------------------
(* Inodes.                                                                 *)

\* What is read leaves the buffer no longer than it may be.
LEMMA ReadShape ==
  ASSUME buf \in Texts, Len(buf) <= BufferFields, NEW text \in Texts,
         \/ Len(text) <= Room /\ buf' = Join(buf, text)
         \/ Len(text) >= Room /\ \E part \in Cut(text, Room) : buf' = Join(buf, part)
  PROVE  buf' \in Texts /\ Len(buf') <= BufferFields
<1>1. /\ BufferFields \in Nat /\ Len(buf) \in Nat /\ Len(text) \in Nat
      /\ Room = BufferFields - Len(buf) + (IF buf = << >> THEN 0 ELSE 1)
      /\ buf = << >> => Len(buf) = 0
  BY TextShape, EmptySeq, BoundsAssumption DEF Room
<1>2. ASSUME NEW b \in Texts, Len(b) <= Room
      PROVE  Join(buf, b) \in Texts /\ Len(Join(buf, b)) <= BufferFields
  <2>1. Len(b) \in Nat
    BY TextShape
  <2>2. CASE buf = << >>
    BY <1>1, <1>2, <2>1, <2>2 DEF Join
  <2>3. CASE b = << >>
    BY <2>3 DEF Join
  <2>4. CASE buf # << >> /\ b # << >>
    <3>1. Join(buf, b) \in Texts /\ Len(Join(buf, b)) = Len(buf) + Len(b) - 1
      BY <2>4, JoinShape
    <3> QED BY <1>1, <1>2, <2>1, <2>4, <3>1
  <2> QED BY <2>2, <2>3, <2>4
<1>3. CASE Len(text) <= Room /\ buf' = Join(buf, text)
  BY <1>2, <1>3
<1>4. CASE Len(text) >= Room /\ \E part \in Cut(text, Room) : buf' = Join(buf, part)
  <2>1. PICK part \in Cut(text, Room) : buf' = Join(buf, part)
    BY <1>4
  <2>2. Room \in 1 .. Len(text)
    BY <1>1, <1>4, BoundsAssumption
  <2>3. part \in Texts /\ Len(part) = Room
    BY <2>2, CutShape
  <2> QED BY <1>1, <1>2, <2>1, <2>3
<1> QED BY <1>3, <1>4

Inode == [kind : {"fifo", "file"}, data : Seq(Texts)]

\* Changing what one inode holds changes no other and adds none.
LEMMA HoldingType ==
  ASSUME inode \in Seq(Inode), NEW i \in 1 .. Len(inode), NEW texts \in Seq(Texts)
  PROVE  Holding(i, texts) \in Seq(Inode) /\ Len(Holding(i, texts)) = Len(inode)
<1> DEFINE e == [inode[i] EXCEPT !.data = texts]
<1>1. inode[i] \in Inode
  BY ElementOfSeq
<1>2. e \in Inode
  BY <1>1 DEF Inode
<1>3. [inode EXCEPT ![i] = e] \in Seq(Inode) /\ Len([inode EXCEPT ![i] = e]) = Len(inode)
  BY <1>2, ExceptSeq
<1> QED BY <1>3, Zenon DEF Holding

\* Losing the contents of a pipe changes no other inode and removes none.
LEMMA ContentsType ==
  ASSUME inode \in Seq(Inode), NEW i \in 0 .. Len(inode), NEW open
  PROVE  Contents(i, open) \in Seq(Inode) /\ Len(Contents(i, open)) = Len(inode)
<1>1. << >> \in Seq(Texts)
  BY EmptySeq
<1>2. CASE open \/ ~IsFifo(i)
  BY <1>2 DEF Contents
<1>3. CASE ~(open \/ ~IsFifo(i))
  <2>1. i \in 1 .. Len(inode)
    BY <1>3 DEF IsFifo
  <2> QED BY <1>1, <1>3, <2>1, HoldingType DEF Contents
<1> QED BY <1>2, <1>3

-----------------------------------------------------------------------------
(* Type correctness.                                                       *)

\* A writer that still polls has tries left, one that has opened its target has
\* an inode, and so has the program; only a program that serves has a selection.
FifoInv ==
  /\ TypeOK
  /\ \A w \in Writers : wpc[w] = "poll" => tries[w] < MaxTries
  /\ \A w \in Writers : wpc[w] \in {"blocked", "write", "written"} => wfd[w] # 0
  /\ app = "open" => path # 0
  /\ app \in {"opening", "reading"} => fd # 0
  /\ app # "serving" => served = << >>

\* The empty files and processes of the start.
LEMMA InitFifoInv == Init => FifoInv
<1>1. << >> \in Texts /\ << >> \in Seq(Inode) /\ Len(<< >>) = 0
  BY EmptySeq DEF Texts
<1> QED BY <1>1, BoundsAssumption DEF Init, FifoInv, TypeOK, Inode

\* A new inode is empty and the path names it.
LEMMA NewInodeType ==
  ASSUME inode \in Seq(Inode), NEW kind \in {"fifo", "file"}, NewInode(kind)
  PROVE  /\ inode' \in Seq(Inode) /\ Len(inode') = Len(inode) + 1
         /\ path' = Len(inode')
<1>1. [kind |-> kind, data |-> << >>] \in Inode
  BY EmptySeq DEF Inode
<1>2. inode' = Append(inode, [kind |-> kind, data |-> << >>]) /\ path' = Len(inode) + 1
  BY DEF NewInode
<1> QED BY <1>1, <1>2, AppendProperties

\* The end of the process keeps it, in a container and natively.
LEMMA DieFifoInv ==
  ASSUME FifoInv, Die, crashes' \in 0 .. MaxCrashes
  PROVE  FifoInv'
<1> USE DEF FifoInv, TypeOK, Goto
<1>1. << >> \in Texts /\ Len(<< >>) = 0 /\ << >> \in Seq(Inode) /\ inode \in Seq(Inode)
  BY EmptySeq DEF Texts, Inode
<1>2. CASE Container
  <2>1. inode' = << >> /\ Len(inode') = 0 /\ inode' \in Seq(Inode)
    BY <1>1, <1>2 DEF Die
  <2>2. wfd' = [w \in Writers |-> 0] /\ \A w \in Writers :
          /\ wpc'[w] \notin {"blocked", "write", "written"}
          /\ wpc'[w] = "poll" => wpc[w] = "poll"
    BY <1>2 DEF Die
  <2>3. wpc' \in [Writers -> {"poll", "open", "blocked", "write", "written", "done", "failed"}]
    BY <1>2 DEF Die
  <2>4. wfd' \in [Writers -> 0 .. Len(inode')]
    BY <2>1, <2>2
  <2>5. /\ app' = "down" /\ fd' = 0 /\ path' = 0 /\ buf' = << >> /\ served' = << >>
        /\ status' = "absent" /\ tries' = tries /\ boots' = boots
    BY <1>2 DEF Die
  <2> QED
    BY <1>1, <2>1, <2>2, <2>3, <2>4, <2>5, BoundsAssumption DEF Inode
<1>3. CASE ~Container
  <2>1. inode' \in Seq(Inode) /\ Len(inode') = Len(inode)
    BY <1>1, <1>3, ContentsType DEF Die
  <2> QED BY <1>1, <1>3, <2>1, BoundsAssumption DEF Die, Inode
<1> QED BY <1>2, <1>3

\* The steps of the program keep the invariant.
LEMMA ProgramFifoInv ==
  ASSUME FifoInv, Program
  PROVE  FifoInv'
<1> USE DEF FifoInv, TypeOK, Goto, writerVars
<1>1. << >> \in Texts /\ Len(<< >>) = 0 /\ inode \in Seq(Inode) /\ Len(inode) \in Nat
  BY EmptySeq, LenProperties DEF Texts, Inode
<1>2. CASE Boot
  BY <1>2, BoundsAssumption DEF Boot, update_status
<1>3. CASE MakeFifo
  <2>1. inode' \in Seq(Inode) /\ Len(inode') >= Len(inode) /\ path' \in 0 .. Len(inode')
    BY <1>1, <1>3, NewInodeType DEF MakeFifo
  <2>2. Len(inode') \in Nat
    BY <2>1, LenProperties
  <2>3. fd \in 0 .. Len(inode') /\ wfd \in [Writers -> 0 .. Len(inode')]
    BY <1>1, <2>1, <2>2
  <2>4. app' = "open" => path' # 0
    BY <1>1, <1>3, <2>1, NewInodeType DEF MakeFifo
  <2>5. /\ app' \in {"open", "exit"} /\ wpc' = wpc /\ wfd' = wfd /\ tries' = tries
        /\ fd' = fd /\ buf' = buf /\ served' = served /\ status' = status
        /\ boots' = boots /\ crashes' = crashes /\ app = "mkfifo"
    BY <1>3 DEF MakeFifo
  <2> QED BY <2>1, <2>3, <2>4, <2>5 DEF Inode
<1>4. CASE OpenFifo
  <2>1. \A w \in Blocked(path) : wfd[w] # 0
    BY <1>4 DEF OpenFifo, Blocked
  <2> QED BY <1>4, <2>1 DEF OpenFifo
<1>5. CASE ReadData
  <2> DEFINE text == Head(inode[fd].data)
  <2>1. fd \in 1 .. Len(inode) /\ inode[fd].data # << >>
    BY <1>5 DEF ReadData
  <2>2. /\ inode[fd].data \in Seq(Texts) /\ text \in Texts
        /\ Tail(inode[fd].data) \in Seq(Texts) /\ << >> \in Seq(Texts)
    <3>1. inode[fd] \in Inode
      BY <1>1, <2>1, ElementOfSeq
    <3>2. inode[fd].data \in Seq(Texts)
      BY <3>1 DEF Inode
    <3> QED BY <2>1, <3>2, HeadTailProperties, EmptySeq
  <2>3. \A texts \in Seq(Texts) :
          Holding(fd, texts) \in Seq(Inode) /\ Len(Holding(fd, texts)) = Len(inode)
    BY <1>1, <2>1, HoldingType
  <2>4. inode' \in Seq(Inode) /\ Len(inode') = Len(inode)
    BY <1>1, <1>5, <2>2, <2>3 DEF ReadData
  <2>5. \/ Len(text) <= Room /\ buf' = Join(buf, text)
        \/ Len(text) >= Room /\ \E part \in Cut(text, Room) : buf' = Join(buf, part)
    BY <1>5 DEF ReadData
  <2> HIDE DEF text
  <2>6. buf' \in Texts /\ Len(buf') <= BufferFields
    BY <2>2, <2>5, ReadShape, BoundsAssumption
  <2> QED BY <1>1, <1>5, <2>4, <2>6 DEF ReadData, Inode
<1>6. CASE ReadEnds
  BY <1>6 DEF ReadEnds
<1>7. CASE Select
  <2>1. parse_metrics(buf) \in Texts /\ Len(parse_metrics(buf)) <= MaxMetrics
    BY ParseType
  <2> QED BY <1>7, <2>1 DEF Select, Turn, Serve, update_status
<1>8. CASE CloseFifo
  BY <1>8, ContentsType DEF CloseFifo, Inode
<1>9. CASE Unlink
  BY <1>9 DEF Unlink
<1>10. CASE Exit
  BY <1>10, DieFifoInv DEF Exit
<1> QED
  BY <1>2, <1>3, <1>4, <1>5, <1>6, <1>7, <1>8, <1>9, <1>10 DEF Program

\* The steps of a writer keep the invariant.
LEMMA WriterFifoInv ==
  ASSUME FifoInv, NEW w \in Writers, Writer(w)
  PROVE  FifoInv'
<1> USE DEF FifoInv, TypeOK, Goto, appVars
<1>1. << >> \in Seq(Texts) /\ inode \in Seq(Inode) /\ Len(inode) \in Nat
  BY EmptySeq, LenProperties DEF Texts, Inode
<1>2. CASE Poll(w)
  <2>1. \/ wpc' = [wpc EXCEPT ![w] = "open"] /\ tries' = tries
        \/ /\ tries' = [tries EXCEPT ![w] = @ + 1] /\ tries[w] < MaxTries
           /\ \/ wpc' = [wpc EXCEPT ![w] = "failed"]
              \/ tries[w] + 1 < MaxTries /\ wpc' = [wpc EXCEPT ![w] = "poll"]
    <3>1. tries[w] \in Nat /\ tries[w] < MaxTries /\ MaxTries \in Nat
      BY <1>2, BoundsAssumption DEF Poll
    <3>2. CASE IsFifo(path)
      BY <1>2, <3>2 DEF Poll
    <3>3. CASE ~IsFifo(path)
      <4>1. tries' = [tries EXCEPT ![w] = @ + 1]
        BY <1>2, <3>3 DEF Poll
      <4>2. tries'[w] = tries[w] + 1
        BY <4>1
      <4>3. wpc' = [wpc EXCEPT ![w] = IF tries'[w] >= MaxTries THEN "failed" ELSE "poll"]
        BY <1>2, <3>3 DEF Poll
      <4>4. CASE tries'[w] >= MaxTries
        BY <3>1, <4>1, <4>3, <4>4
      <4>5. CASE ~(tries'[w] >= MaxTries)
        BY <3>1, <4>1, <4>2, <4>3, <4>5
      <4> QED BY <4>4, <4>5
    <3> QED BY <3>2, <3>3
  <2>2. tries' \in [Writers -> 0 .. MaxTries]
    <3>1. tries[w] \in Nat /\ MaxTries \in Nat
      BY BoundsAssumption
    <3>2. CASE tries' = tries
      BY <3>2
    <3>3. CASE tries' = [tries EXCEPT ![w] = @ + 1] /\ tries[w] < MaxTries
      <4>1. tries[w] + 1 \in 0 .. MaxTries
        BY <3>1, <3>3
      <4> QED BY <3>3, <4>1
    <3> QED BY <2>1, <3>2, <3>3
  <2> QED BY <1>2, <2>1, <2>2 DEF Poll
<1>3. CASE Open(w)
  <2>1. /\ inode' \in Seq(Inode) /\ Len(inode') >= Len(inode) /\ path' \in 0 .. Len(inode')
    <3>1. \/ inode' = inode /\ path' = path
          \/ NewInode("file")
          \/ path # 0 /\ inode' = Holding(path, << >>) /\ path' = path
      BY <1>3 DEF Open
    <3>2. ASSUME path # 0
          PROVE  Holding(path, << >>) \in Seq(Inode) /\ Len(Holding(path, << >>)) = Len(inode)
      <4>1. path \in 1 .. Len(inode)
        BY <1>1, <3>2
      <4> QED BY <1>1, <4>1, HoldingType
    <3>3. NewInode("file") => /\ inode' \in Seq(Inode) /\ Len(inode') = Len(inode) + 1
                              /\ path' = Len(inode')
      BY <1>1, NewInodeType
    <3> QED BY <1>1, <3>1, <3>2, <3>3
  <2>2. Len(inode') \in Nat
    BY <2>1, LenProperties
  <2>3. fd \in 0 .. Len(inode') /\ wfd \in [Writers -> 0 .. Len(inode')]
    BY <1>1, <2>1, <2>2
  <2>4. \/ wpc' = [wpc EXCEPT ![w] = "failed"] /\ wfd' = wfd
        \/ /\ \E label \in {"write", "blocked"} : wpc' = [wpc EXCEPT ![w] = label]
           /\ wfd' = [wfd EXCEPT ![w] = path'] /\ path' # 0
    <3>1. ASSUME NewInode("file") PROVE path' # 0
      BY <1>1, <3>1, NewInodeType, LenProperties
    <3> QED BY <1>1, <1>3, <3>1 DEF Open, IsFifo
  <2>5. app' = app \/ (app = "opening" /\ app' = "reading")
    BY <1>3 DEF Open
  <2>6. /\ app' = "open" => path' # 0
        /\ fd' = fd /\ buf' = buf /\ served' = served /\ status' = status
        /\ tries' = tries /\ boots' = boots /\ crashes' = crashes
    BY <1>3 DEF Open
  <2> QED BY <2>1, <2>3, <2>4, <2>5, <2>6 DEF Inode
<1>4. CASE Write(w)
  <2>1. wfd[w] \in 1 .. Len(inode)
    BY <1>4 DEF Write
  <2>2. Selection[w] \in Texts /\ inode[wfd[w]].data \in Seq(Texts)
    <3>1. inode[wfd[w]] \in Inode
      BY <1>1, <2>1, ElementOfSeq
    <3>2. inode[wfd[w]].data \in Seq(Texts)
      BY <3>1 DEF Inode
    <3> QED BY <3>2, SelectionType
  <2>3. inode' \in Seq(Inode) /\ Len(inode') = Len(inode)
    <3>1. \/ inode' = Contents(wfd[w], WritersOf(wfd[w]) # {w})
          \/ inode' = Holding(wfd[w], Append(inode[wfd[w]].data, Selection[w]))
          \/ inode' = Holding(wfd[w], << Selection[w] >>)
          \/ /\ inode[wfd[w]].data # << >>
             /\ \E text \in Overlay(Head(inode[wfd[w]].data), Selection[w]) :
                  inode' = Holding(wfd[w], << text >>)
      BY <1>4 DEF Write
    <3>2. Append(inode[wfd[w]].data, Selection[w]) \in Seq(Texts)
      BY <2>2, AppendProperties
    <3>3. inode[wfd[w]].data # << >> =>
            Overlay(Head(inode[wfd[w]].data), Selection[w]) \subseteq Texts
      BY <2>2, HeadTailProperties, OverlayType
    <3>4. \A text \in Texts : << text >> \in Seq(Texts)
      OBVIOUS
    <3>5. \A texts \in Seq(Texts) :
            Holding(wfd[w], texts) \in Seq(Inode) /\ Len(Holding(wfd[w], texts)) = Len(inode)
      BY <1>1, <2>1, HoldingType
    <3>6. \A open : /\ Contents(wfd[w], open) \in Seq(Inode)
                    /\ Len(Contents(wfd[w], open)) = Len(inode)
      BY <1>1, ContentsType
    <3> QED BY <2>2, <3>1, <3>2, <3>3, <3>4, <3>5, <3>6
  <2>4. \/ wpc' = [wpc EXCEPT ![w] = "failed"] /\ wfd' = [wfd EXCEPT ![w] = 0]
        \/ wpc' = [wpc EXCEPT ![w] = "written"] /\ wfd' = wfd
    BY <1>4 DEF Write
  <2>5. wpc[w] = "write" /\ wfd[w] # 0
    BY <1>4 DEF Write
  <2>6. /\ app' = app /\ path' = path /\ fd' = fd /\ buf' = buf /\ served' = served
        /\ status' = status /\ tries' = tries /\ boots' = boots /\ crashes' = crashes
    BY <1>4 DEF Write
  <2>7. wfd' \in [Writers -> 0 .. Len(inode')]
    <3>1. wfd \in [Writers -> 0 .. Len(inode')] /\ 0 \in 0 .. Len(inode')
      BY <1>1, <2>3
    <3> QED BY <2>4, <3>1
  <2> QED BY <2>3, <2>4, <2>5, <2>6, <2>7 DEF Inode
<1>5. CASE Close(w)
  <2>1. inode' \in Seq(Inode) /\ Len(inode') = Len(inode)
    BY <1>1, <1>5, ContentsType DEF Close
  <2>2. /\ wpc' = [wpc EXCEPT ![w] = "done"] /\ wfd' = [wfd EXCEPT ![w] = 0]
        /\ app' = app /\ path' = path /\ fd' = fd /\ buf' = buf /\ served' = served
        /\ status' = status /\ tries' = tries /\ boots' = boots /\ crashes' = crashes
    BY <1>5 DEF Close
  <2>3. wfd' \in [Writers -> 0 .. Len(inode')]
    BY <1>1, <2>1, <2>2
  <2> QED BY <2>1, <2>2, <2>3 DEF Inode
<1> QED BY <1>2, <1>3, <1>4, <1>5 DEF Writer

\* Every step keeps the invariant.
LEMMA StepFifoInv == FifoInv /\ [Next]_vars => FifoInv'
<1> SUFFICES ASSUME FifoInv, [Next]_vars PROVE FifoInv'
  OBVIOUS
<1>1. CASE Program
  BY <1>1, ProgramFifoInv
<1>2. CASE Crash
  <2>1. crashes' \in 0 .. MaxCrashes
    BY <1>2, BoundsAssumption DEF Crash, FifoInv, TypeOK
  <2> QED BY <1>2, <2>1, DieFifoInv DEF Crash
<1>3. CASE \E w \in Writers : Writer(w)
  BY <1>3, WriterFifoInv
<1>4. CASE UNCHANGED vars
  BY <1>4 DEF vars, appVars, writerVars, FifoInv, TypeOK
<1> QED BY <1>1, <1>2, <1>3, <1>4 DEF Next

\* Whatever the writers write and whenever the program ends, what it serves is
\* a text of at most MAX_METRICS names, and every file it or a writer has open
\* exists.
THEOREM FifoTypeCorrect == Spec => []TypeOK
<1>1. FifoInv => TypeOK
  BY DEF FifoInv
<1> QED BY <1>1, InitFifoInv, StepFifoInv, PTL DEF Spec, Safe

-----------------------------------------------------------------------------
(* Refinement.                                                             *)

\* What the program takes from the FIFO and serves is acceptable.
LEMMA AcceptedIsAcceptable ==
  ASSUME NEW sel \in Texts, ~NothingToServe(sel), ~RepeatsMetric(sel), Accepts(sel)
  PROVE  Board!Acceptable(sel)
<1>1. sel \in Seq(Names) /\ Len(sel) \in Nat /\ DOMAIN sel = 1 .. Len(sel)
  BY LenProperties DEF Texts
<1>2. \A i \in 1 .. Len(sel) : sel[i] \in KnownMetrics
  BY <1>1 DEF Accepts, ToSet
<1>3. sel \in Seq(KnownMetrics) /\ sel # << >>
  BY <1>1, <1>2 DEF NothingToServe
<1>4. \A i, j \in DOMAIN sel : sel[i] = sel[j] => i = j
  BY <1>1, <1>2 DEF RepeatsMetric
<1> QED BY <1>3, <1>4 DEF Board!Acceptable

\* Only Select adopts a selection, and only the end of the program drops it.
LEMMA StepBoard ==
  ASSUME FifoInv, [Next]_vars
  PROVE  [Board!Next]_served
<1>1. CASE Select
  <2>1. parse_metrics(buf) \in Texts
    BY <1>1, ParseShape DEF FifoInv, TypeOK
  <2>2. \/ served' = served
        \/ /\ served' = parse_metrics(buf) /\ ~NothingToServe(served')
           /\ ~RepeatsMetric(served') /\ Accepts(served')
    BY <1>1 DEF Select, Turn, Serve, update_status
  <2>3. served = << >>
    BY <1>1 DEF Select, FifoInv
  <2> QED BY <2>1, <2>2, <2>3, AcceptedIsAcceptable DEF Board!Next, Board!Adopt
<1>2. CASE Exit \/ Crash
  BY <1>2 DEF Exit, Crash, Die, Board!Next, Board!Lose
<1>3. CASE ~(Select \/ Exit \/ Crash)
  BY <1>3
     DEF Next, Program, Boot, MakeFifo, OpenFifo, ReadData, ReadEnds, CloseFifo,
         Unlink, Writer, Poll, Open, Write, Close, vars, appVars
<1> QED BY <1>1, <1>2, <1>3

\* The control plane implements Configuration: it adopts one acceptable
\* selection as a whole and drops it only when the program ends.
THEOREM FifoImplementsConfiguration == Spec => ImplementsConfiguration
<1>1. Init => Board!Init
  BY DEF Init, Board!Init
<1>2. FifoInv /\ [Next]_vars => [Board!Next]_served
  BY StepBoard
<1> QED
  BY <1>1, <1>2, InitFifoInv, StepFifoInv, PTL
     DEF Spec, Safe, ImplementsConfiguration, Board!Spec

-----------------------------------------------------------------------------
(* The status file.                                                        *)

\* What the program and its status file agree on.
StatusInv ==
  /\ app = "serving" => status = "started"
  /\ app \notin {"down", "serving"} => status # "started"

\* Only main, which resets the status, leads out of "down".
LEMMA StepStatusInv ==
  ASSUME StatusInv, [Next]_vars, "status" \notin Faults
  PROVE  StatusInv'
<1> USE DEF StatusInv, Goto
<1>1. CASE Boot
  BY <1>1 DEF Boot, update_status
<1>2. CASE MakeFifo
  BY <1>2 DEF MakeFifo
<1>3. CASE OpenFifo
  BY <1>3 DEF OpenFifo
<1>4. CASE ReadData
  BY <1>4 DEF ReadData
<1>5. CASE ReadEnds \/ CloseFifo \/ Unlink
  BY <1>5 DEF ReadEnds, CloseFifo, Unlink
<1>6. CASE Select
  BY <1>6 DEF Select, Turn, Serve, update_status
<1>7. CASE Exit \/ Crash
  BY <1>7 DEF Exit, Crash, Die
<1>8. CASE \E w \in Writers : Writer(w)
  <2>1. PICK w \in Writers : Writer(w)
    BY <1>8
  <2>2. status' = status /\ (app' = app \/ (app' = "reading" /\ app = "opening"))
    BY <2>1 DEF Writer, Poll, Open, Write, Close, appVars
  <2> QED BY <2>2
<1>9. CASE UNCHANGED vars
  BY <1>9 DEF vars, appVars
<1> QED
  BY <1>1, <1>2, <1>3, <1>4, <1>5, <1>6, <1>7, <1>8, <1>9 DEF Next, Program

\* The status file says "started" exactly while the program serves, whatever
\* the previous run left in it, if it can be written.
THEOREM StatusIsTrue ==
  ASSUME "status" \notin Faults
  PROVE  Spec => []StatusTellsTheTruth
<1>1. Init => StatusInv
  BY DEF Init, StatusInv
<1>2. StatusInv /\ [Next]_vars => StatusInv'
  BY StepStatusInv
<1>3. StatusInv => StatusTellsTheTruth
  BY DEF StatusInv, StatusTellsTheTruth
<1> QED BY <1>1, <1>2, <1>3, PTL DEF Spec, Safe

-----------------------------------------------------------------------------
(* One selection or a mixture.                                             *)

\* A text begins with the first p fields of what w writes.
Agrees(text, w, p) == /\ p \in Nat /\ p <= Len(text) /\ p <= Len(Selection[w])
                      /\ \A i \in 1 .. p : text[i] = Selection[w][i]

\* The whole text of w, or the beginning of it with names run together behind it.
WholeOrGarbled(text, w) ==
  \E p \in Nat : /\ Agrees(text, w, p)
                 /\ \/ p = Len(text) /\ p = Len(Selection[w])
                    \/ p < Len(text) /\ text[p + 1] = Garbled

\* The text of w without its end.
CutOff(text, w) == /\ Len(Selection[w]) >= BufferFields
                   /\ \E p \in Nat : /\ Agrees(text, w, p)
                                     /\ \A i \in 1 .. Len(text) : i > p => text[i] = ""

\* What can be in the buffer when the writers of W have written, and fread goes on,
\* or has returned.
Clean(text, W)    == text = << >> \/ \E w \in W : WholeOrGarbled(text, w)
CleanEnd(text, W) == Clean(text, W) \/ \E w \in W : CutOff(text, w)

\* A text that begins with a name, or is an empty piece of one.
BeginsWithName(text) == text[1] # Blank /\ (text[1] = "" => Len(text) = 1)

\* Names that meet run together.
LEMMA GlueShape ==
  /\ \A x, y : x \notin {"", Blank} /\ y \notin {"", Blank} => Glue(x, y) = Garbled
  /\ \A y : Glue(Garbled, y) = Garbled
  /\ \A x : Glue(x, "") = x
<1>1. \A x, y : x \notin {"", Blank} /\ y \notin {"", Blank} => Glue(x, y) = Garbled
  BY DEF Glue
<1>2. Garbled \notin {"", Blank}
  BY NamesAssumption
<1>3. \A y : Glue(Garbled, y) = Garbled
  BY <1>2 DEF Glue
<1>4. \A x : Glue(x, "") = x
  BY DEF Glue
<1> QED BY <1>1, <1>3, <1>4

\* The first field of a text.
LEMMA HeadOfText ==
  ASSUME NEW s \in Texts, s # << >>
  PROVE  Head(s) = s[1]
BY HeadTailProperties DEF Texts

\* A writer's own text is whole.
LEMMA SelectionIsWhole ==
  ASSUME NEW w \in Writers
  PROVE  WholeOrGarbled(Selection[w], w)
<1>1. Len(Selection[w]) \in Nat /\ Agrees(Selection[w], w, Len(Selection[w]))
  BY SelectionType DEF Agrees
<1> QED BY <1>1 DEF WholeOrGarbled

\* What is written behind the text of w runs together with its last name.
LEMMA JoinIsGarbled ==
  ASSUME NEW w \in Writers, NEW a \in Texts, NEW b \in Texts, a # << >>, b # << >>,
         WholeOrGarbled(a, w), Tight(Selection[w]),
         BeginsWithName(b)
  PROVE  WholeOrGarbled(Join(a, b), w)
<1>1. PICK n \in Nat, m \in Nat : n # 0 /\ m # 0 /\ n = Len(a) /\ m = Len(b)
  BY TextShape
<1>2. PICK j \in Texts : j = Join(a, b)
  BY JoinType
<1>3. /\ Len(j) = n + m - 1 /\ j[n] = Glue(a[n], b[1])
      /\ \A i \in 1 .. n - 1 : j[i] = a[i]
  BY <1>1, <1>2, JoinShape
<1>4. PICK p \in Nat : /\ Agrees(a, w, p)
                       /\ \/ p = Len(a) /\ p = Len(Selection[w])
                          \/ p < Len(a) /\ a[p + 1] = Garbled
  BY DEF WholeOrGarbled
<1>5. PICK c \in Nat : c # 0 /\ c = Len(Selection[w])
  BY SelectionType
<1>6. PICK l \in Nat : l = Len(j)
  BY TextShape
<1>11. l = n + m - 1 /\ n <= l
  BY <1>1, <1>3, <1>6
<1>7. p <= n /\ p <= c /\ \A i \in 1 .. p : a[i] = Selection[w][i]
  BY <1>1, <1>4, <1>5 DEF Agrees
<1>8. ASSUME NEW q \in Nat, q <= p, q < n PROVE Agrees(j, w, q)
  <2>1. \A i \in 1 .. q : i \in 1 .. n - 1 /\ i \in 1 .. p
    BY <1>8
  <2>2. \A i \in 1 .. q : j[i] = Selection[w][i]
    BY <1>3, <1>7, <2>1
  <2>3. q <= l /\ q <= c
    BY <1>7, <1>8, <1>11
  <2> QED BY <1>5, <1>6, <2>2, <2>3 DEF Agrees
<1>9. CASE p = n /\ p = c
  <2>1. a[n] \notin {"", Blank}
    <3>1. n \in 1 .. p
      BY <1>1, <1>9
    <3>2. a[n] = Selection[w][n]
      BY <1>7, <3>1
    <3>3. Last(Selection[w]) = Selection[w][n]
      BY <1>5, <1>9 DEF Last
    <3> QED BY <3>2, <3>3 DEF Tight
  <2>2. CASE b[1] = ""
    <3>1. m = 1
      BY <1>1, <2>2 DEF BeginsWithName
    <3>2. j[n] = a[n]
      BY <1>3, <2>2, GlueShape
    <3>6. l = n
      BY <1>11, <3>1
    <3>3. \A i \in 1 .. n : i \in 1 .. n - 1 \/ i = n
      OBVIOUS
    <3>4. \A i \in 1 .. n : j[i] = a[i]
      BY <1>3, <3>2, <3>3
    <3>5. Agrees(j, w, n)
      BY <1>5, <1>6, <1>7, <1>9, <3>4, <3>6 DEF Agrees
    <3> QED BY <1>2, <1>5, <1>6, <1>9, <3>5, <3>6 DEF WholeOrGarbled
  <2>3. CASE b[1] # ""
    <3>1. j[n] = Garbled
      BY <1>3, <2>1, <2>3, GlueShape DEF BeginsWithName
    <3>2. PICK q \in Nat : q = n - 1
      BY <1>1
    <3>5. n # 0 /\ p = n /\ n <= l
      BY <1>1, <1>9, <1>11
    <3>3. q <= p /\ q < n /\ q < l /\ q + 1 = n
      BY <3>2, <3>5
    <3>4. Agrees(j, w, q)
      BY <1>8, <3>3
    <3> QED BY <1>2, <1>6, <3>1, <3>3, <3>4 DEF WholeOrGarbled
  <2> QED BY <2>2, <2>3
<1>10. CASE p < n /\ a[p + 1] = Garbled
  <2>1. j[p + 1] = Garbled
    <3>1. CASE p + 1 = n
      BY <1>3, <1>10, <3>1, GlueShape
    <3>2. CASE p + 1 # n
      <4>1. p + 1 \in 1 .. n - 1
        BY <1>10, <3>2
      <4> QED BY <1>3, <1>10, <4>1
    <3> QED BY <3>1, <3>2
  <2>2. p < l
    BY <1>10, <1>11
  <2>3. Agrees(j, w, p)
    BY <1>8, <1>10
  <2> QED BY <1>2, <1>6, <2>1, <2>2, <2>3 DEF WholeOrGarbled
<1> QED BY <1>1, <1>4, <1>5, <1>9, <1>10

\* fread goes on with a whole text.
LEMMA JoinIsClean ==
  ASSUME NEW W \in SUBSET Writers, \A w \in W : Tight(Selection[w]),
         NEW a \in Texts, Clean(a, W), NEW v \in W
  PROVE  Clean(Join(a, Selection[v]), W)
<1>1. Selection[v] \in Texts /\ Selection[v] # << >>
  BY SelectionType, EmptySeq
<1>2. CASE a = << >>
  BY <1>2, SelectionIsWhole DEF Join, Clean
<1>3. CASE a # << >>
  <2>1. PICK w \in W : WholeOrGarbled(a, w)
    BY <1>3 DEF Clean
  <2>2. Selection[v][1] \notin {"", Blank}
    BY <1>1, HeadOfText DEF Tight
  <2>3. WholeOrGarbled(Join(a, Selection[v]), w)
    BY <1>1, <1>3, <2>1, <2>2, JoinIsGarbled DEF BeginsWithName
  <2> QED BY <2>3 DEF Clean
<1> QED BY <1>2, <1>3

\* fread returns with a part of a text.
LEMMA CutIsClean ==
  ASSUME NEW W \in SUBSET Writers, \A w \in W : Tight(Selection[w]),
         buf \in Texts, Len(buf) <= BufferFields, Clean(buf, W), NEW v \in W,
         Len(Selection[v]) >= Room, NEW part \in Cut(Selection[v], Room)
  PROVE  CleanEnd(Join(buf, part), W)
<1> DEFINE text == Selection[v]
<1>1. text \in Texts /\ Len(text) \in Nat \ {0} /\ text # << >>
  BY SelectionType, EmptySeq
<1>2. /\ BufferFields \in Nat \ {0, 1} /\ Len(buf) \in Nat
      /\ Room = BufferFields - Len(buf) + (IF buf = << >> THEN 0 ELSE 1)
      /\ buf = << >> => Len(buf) = 0
  BY TextShape, EmptySeq, BoundsAssumption DEF Room
<1>3. Room \in 1 .. Len(text) /\ Room \in Nat
  BY <1>1, <1>2
<1>8. PICK n \in Nat : n # 0 /\ n = Room
  BY <1>3
<1>4. /\ part \in Texts /\ Len(part) = Room /\ part[Room] \in Pieces(text[Room])
      /\ \A i \in 1 .. Room - 1 : part[i] = text[i]
  BY <1>1, <1>3, CutShape
<1>5. part # << >>
  BY <1>3, <1>4, EmptySeq
<1>6. CASE buf = << >>
  <2>1. Join(buf, part) = part /\ Room = BufferFields
    BY <1>2, <1>6 DEF Join
  <2>2. PICK q \in Nat : q = Room - 1
    BY <1>3
  <2>3. Agrees(part, v, q) /\ q < Len(part) /\ q + 1 = Room
    BY <1>1, <1>3, <1>4, <2>2 DEF Agrees
  <2>4. CASE part[Room] = Garbled
    BY <2>1, <2>3, <2>4 DEF WholeOrGarbled, Clean, CleanEnd
  <2>5. CASE part[Room] = ""
    <3>4. \A i \in 1 .. n : i > q => i = n
      BY <1>8, <2>2
    <3>1. \A i \in 1 .. Len(part) : i > q => part[i] = ""
      BY <1>4, <1>8, <2>5, <3>4
    <3>2. CutOff(part, v)
      BY <1>1, <1>2, <1>3, <2>1, <2>3, <3>1 DEF CutOff
    <3> QED BY <2>1, <3>2 DEF CleanEnd
  <2>6. CASE part[Room] = text[Room]
    <3>1. Agrees(part, v, Room)
      BY <1>1, <1>3, <1>4, <2>6 DEF Agrees
    <3>4. \A i \in 1 .. n : ~(i > n)
      OBVIOUS
    <3>2. \A i \in 1 .. Len(part) : i > Room => part[i] = ""
      BY <1>4, <1>8, <3>4
    <3>3. CutOff(part, v)
      BY <1>1, <1>2, <1>3, <2>1, <3>1, <3>2 DEF CutOff
    <3> QED BY <2>1, <3>3 DEF CleanEnd
  <2> QED BY <1>4, <2>4, <2>5, <2>6 DEF Pieces
<1>7. CASE buf # << >>
  <2>1. PICK w \in W : WholeOrGarbled(buf, w)
    BY <1>7 DEF Clean
  <2>2. text[1] \notin {"", Blank}
    BY <1>1, HeadOfText DEF Tight
  <2>3. BeginsWithName(part)
    <3>1. CASE Room = 1
      <4>1. part[1] \in Pieces(text[1])
        BY <1>4, <3>1
      <4>2. Blank # "" /\ Garbled # Blank
        BY NamesAssumption DEF Blank
      <4> QED BY <1>4, <2>2, <3>1, <4>1, <4>2 DEF Pieces, BeginsWithName
    <3>2. CASE Room # 1
      <4>1. part[1] = text[1]
        BY <1>3, <1>4, <3>2
      <4> QED BY <2>2, <4>1 DEF BeginsWithName
    <3> QED BY <3>1, <3>2
  <2>4. WholeOrGarbled(Join(buf, part), w)
    BY <1>4, <1>5, <1>7, <2>1, <2>3, JoinIsGarbled
  <2> QED BY <2>4 DEF Clean, CleanEnd
<1> QED BY <1>6, <1>7

\* A text that begins itself.
LEMMA PrefixOfItself == ASSUME NEW s \in Texts PROVE IsPrefix(s, s)
BY PrefixShape, TextShape

\* What is accepted of the text of w with names run together behind it, w asks for.
LEMMA GarbledIsAsked ==
  ASSUME NEW w \in Writers, NEW s \in Texts, NEW p \in Nat, Agrees(s, w, p),
         p < Len(s), s[p + 1] = Garbled, Accepts(parse_metrics(s))
  PROVE  parse_metrics(s) = Asks(w)
<1> DEFINE t == Selection[w]
           a == parse_metrics(s)
           b == parse_metrics(t)
<1>1. /\ t \in Texts /\ a \in Texts /\ b \in Texts /\ Len(a) \in Nat /\ Len(b) \in Nat
      /\ Len(b) <= MaxMetrics /\ MaxMetrics \in Nat
  BY SelectionType, ParseType, TextShape, BoundsAssumption
<1>2. Len(s) \in Nat /\ DOMAIN s = 1 .. Len(s) /\ p + 1 \in 1 .. Len(s)
  BY TextShape
<1>3. Garbled # "" /\ Garbled \notin KnownMetrics
  BY NamesAssumption
<1>4. p + 1 \in Kept(s)
  BY <1>2, <1>3 DEF Kept
<1>5. PICK r \in Nat : r = Rank(s, p + 1)
  BY <1>4, TokenAt
<1>6. r \in 1 .. Cardinality(Kept(s)) /\ Tokens(s)[r] = Garbled /\ Cardinality(Kept(s)) \in Nat
  BY <1>4, <1>5, TokenAt, RankShape
<1>7. r > MaxMetrics
  <2> SUFFICES ASSUME r <= MaxMetrics PROVE FALSE
    BY <1>1
  <2>1. r \in 1 .. Len(a)
    BY <1>1, <1>6, ParseShape
  <2>2. a[r] = Garbled
    BY <1>6, <2>1, ParseShape
  <2>3. r \in DOMAIN a
    BY <1>1, <2>1, TextShape
  <2>4. a[r] \in ToSet(a)
    BY <2>3 DEF ToSet
  <2> QED BY <1>3, <2>2, <2>4 DEF Accepts
<1>8. Len(a) = MaxMetrics
  BY <1>1, <1>6, <1>7, ParseShape
<1>9. ASSUME NEW i \in Kept(s), Rank(s, i) <= MaxMetrics PROVE i <= p
  <2>1. i \in 1 .. Len(s) /\ p + 1 \in 0 .. Len(s) /\ i \in 0 .. Len(s)
    BY <1>2, TokenAt
  <2>2. i \in Nat /\ Rank(s, i) \in Nat
    BY <1>2, <2>1, RankShape
  <2>3. p + 1 <= i => Rank(s, p + 1) <= Rank(s, i)
    BY <2>1, RankShape
  <2>4. ~(p + 1 <= i)
    BY <1>1, <1>5, <1>7, <1>9, <2>2, <2>3
  <2> QED BY <2>2, <2>4
<1>10. IsPrefix(a, b)
  BY <1>1, <1>9, SameNames DEF Agrees
<1> HIDE DEF a, b
<1>11. Len(a) <= Len(b) /\ \A i \in 1 .. Len(a) : a[i] = b[i]
  BY <1>1, <1>10, PrefixShape
<1>12. Len(a) = Len(b)
  BY <1>1, <1>8, <1>11
<1>13. a = b
  BY <1>1, <1>11, <1>12, SeqEqual DEF Texts
<1> QED BY <1>13 DEF a, b, Asks

\* What is accepted of the buffer is what one writer asks for.
LEMMA AcceptedIsAsked ==
  ASSUME NEW W \in SUBSET Writers, NEW s \in Texts, CleanEnd(s, W),
         ~NothingToServe(parse_metrics(s)), Accepts(parse_metrics(s))
  PROVE  \E w \in W : AsksFor(w, parse_metrics(s))
<1>1. \A w \in W : Asks(w) \in Texts /\ IsPrefix(Asks(w), Asks(w))
  BY SelectionType, ParseType, PrefixOfItself DEF Asks
<1>2. \A w \in W : parse_metrics(s) = Asks(w) => AsksFor(w, parse_metrics(s))
  BY <1>1 DEF AsksFor
<1>3. CASE s = << >>
  <2>1. Kept(s) = {}
    BY <1>3, TextShape, EmptySeq DEF Kept
  <2>2. Cardinality(Kept(s)) = 0
    BY <2>1, FS_EmptySet
  <2>3. Len(parse_metrics(s)) = 0 /\ parse_metrics(s) \in Texts
    BY <2>2, ParseShape, BoundsAssumption
  <2> QED BY <2>3, TextShape DEF NothingToServe
<1>4. ASSUME NEW w \in W, WholeOrGarbled(s, w) PROVE AsksFor(w, parse_metrics(s))
  <2>1. PICK p \in Nat : /\ Agrees(s, w, p)
                         /\ \/ p = Len(s) /\ p = Len(Selection[w])
                            \/ p < Len(s) /\ s[p + 1] = Garbled
    BY <1>4 DEF WholeOrGarbled
  <2>2. CASE p = Len(s) /\ p = Len(Selection[w])
    <3>1. s = Selection[w]
      BY <2>1, <2>2, SelectionType, SeqEqual DEF Agrees, Texts
    <3> QED BY <1>2, <3>1 DEF Asks
  <2>3. CASE p < Len(s) /\ s[p + 1] = Garbled
    BY <1>2, <2>1, <2>3, GarbledIsAsked
  <2> QED BY <2>1, <2>2, <2>3
<1>5. ASSUME NEW w \in W, CutOff(s, w) PROVE AsksFor(w, parse_metrics(s))
  <2>1. PICK p \in Nat : Agrees(s, w, p) /\ \A i \in 1 .. Len(s) : i > p => s[i] = ""
    BY <1>5 DEF CutOff
  <2>2. \A i \in Kept(s) : i <= p
    <3> SUFFICES ASSUME NEW i \in Kept(s) PROVE i <= p
      OBVIOUS
    <3>1. i \in 1 .. Len(s) /\ Len(s) \in Nat
      BY TextShape DEF Kept
    <3>2. s[i] # ""
      BY DEF Kept
    <3>3. i \in Nat
      BY <3>1
    <3>4. ~(i > p)
      BY <2>1, <3>1, <3>2
    <3> QED BY <3>3, <3>4
  <2>3. IsPrefix(parse_metrics(s), Asks(w))
    <3>1. /\ Selection[w] \in Texts /\ p <= Len(s) /\ p <= Len(Selection[w])
          /\ \A i \in 1 .. p : s[i] = Selection[w][i]
      BY <2>1, SelectionType DEF Agrees
    <3> QED BY <2>2, <3>1, SameNames DEF Asks
  <2>4. ~(Len(Selection[w]) < BufferFields)
    <3>1. PICK n \in Nat, m \in Nat : n = Len(Selection[w]) /\ m = BufferFields
      BY SelectionType, BoundsAssumption
    <3>2. n >= m
      BY <1>5, <3>1 DEF CutOff
    <3>3. ~(n < m)
      BY <3>2
    <3> QED BY <3>1, <3>3
  <2> QED BY <2>3, <2>4 DEF AsksFor
<1> QED BY <1>3, <1>4, <1>5 DEF CleanEnd, Clean

-----------------------------------------------------------------------------
(* What the program serves.                                                *)

Wrote == {w \in Writers : HasWritten(w)}

\* A pipe holds what the writers of W write and nothing else.
PipesHold(files, W) ==
  \A i \in 1 .. Len(files) : files[i].kind = "fifo" =>
    \A k \in 1 .. Len(files[i].data) : \E w \in W : files[i].data[k] = Selection[w]

\* No inode goes, and none changes its kind.
KindsStay(files) == /\ Len(files) >= Len(inode)
                    /\ \A i \in 1 .. Len(inode) : files[i].kind = inode[i].kind

\* What the program has read of a pipe is clean, and it serves what one writer asks for.
ReadingIsClean ==
  IsFifo(fd) /\ TextsAreTight =>
    /\ CleanEnd(buf, Wrote)
    /\ app \in {"opening", "reading"} => Clean(buf, Wrote)

OneInv ==
  /\ PipesHold(inode, Wrote)
  /\ app \in {"down", "mkfifo", "open"} => buf = << >>
  /\ ReadingIsClean
  /\ ServedFromOneWriter

\* More writers make nothing worse.
LEMMA MoreWriters ==
  ASSUME NEW W, NEW V, W \subseteq V
  PROVE  /\ \A files : PipesHold(files, W) => PipesHold(files, V)
         /\ \A text : Clean(text, W) => Clean(text, V)
         /\ \A text : CleanEnd(text, W) => CleanEnd(text, V)
BY DEF PipesHold, Clean, CleanEnd

\* New texts in an inode.
LEMMA HoldingHolds ==
  ASSUME inode \in Seq(Inode), NEW W, PipesHold(inode, W), NEW i \in 1 .. Len(inode),
         NEW texts,
         inode[i].kind = "fifo" =>
           \A k \in 1 .. Len(texts) : \E w \in W : texts[k] = Selection[w]
  PROVE  PipesHold(Holding(i, texts), W) /\ KindsStay(Holding(i, texts))
<1> DEFINE e == [inode[i] EXCEPT !.data = texts]
           h == [inode EXCEPT ![i] = e]
<1>1. inode[i] \in Inode /\ Len(inode) \in Nat /\ DOMAIN inode = 1 .. Len(inode)
  BY ElementOfSeq, LenProperties
<1>2. e.kind = inode[i].kind /\ e.data = texts
  BY <1>1 DEF Inode
<1>3. Holding(i, texts) = h
  BY Zenon DEF Holding
<1> HIDE DEF e
<1>4. DOMAIN h = 1 .. Len(inode) /\ h[i] = e /\ \A j \in 1 .. Len(inode) : j # i => h[j] = inode[j]
  BY <1>1
<1>5. Len(h) = Len(inode)
  BY <1>1, <1>4
<1> HIDE DEF h
<1>6. \A j \in 1 .. Len(inode) : h[j].kind = inode[j].kind
  BY <1>2, <1>4
<1>7. PipesHold(h, W)
  <2> SUFFICES ASSUME NEW j \in 1 .. Len(h), h[j].kind = "fifo"
               PROVE  \A k \in 1 .. Len(h[j].data) : \E w \in W : h[j].data[k] = Selection[w]
    BY DEF PipesHold
  <2>1. CASE j = i
    BY <1>2, <1>4, <2>1
  <2>2. CASE j # i
    <3>1. h[j] = inode[j] /\ j \in 1 .. Len(inode)
      BY <1>4, <1>5, <2>2
    <3> QED BY <3>1 DEF PipesHold
  <2> QED BY <2>1, <2>2
<1> QED BY <1>1, <1>3, <1>5, <1>6, <1>7 DEF KindsStay

\* A pipe that loses its contents.
LEMMA ContentsHold ==
  ASSUME inode \in Seq(Inode), NEW W, PipesHold(inode, W), NEW i \in 0 .. Len(inode), NEW open
  PROVE  PipesHold(Contents(i, open), W) /\ KindsStay(Contents(i, open))
<1>1. CASE open \/ ~IsFifo(i)
  BY <1>1, LenProperties DEF Contents, KindsStay
<1>2. CASE ~(open \/ ~IsFifo(i))
  <2>1. Len(<< >>) = 0 /\ i \in 1 .. Len(inode)
    BY <1>2, LenProperties, EmptySeq DEF IsFifo
  <2>2. \A k \in 1 .. Len(<< >>) : FALSE
    BY <2>1
  <2> QED BY <1>2, <2>1, <2>2, HoldingHolds DEF Contents
<1> QED BY <1>1, <1>2

\* A new inode.
LEMMA NewInodeHolds ==
  ASSUME inode \in Seq(Inode), NEW W, PipesHold(inode, W), NEW kind \in {"fifo", "file"},
         NewInode(kind)
  PROVE  PipesHold(inode', W) /\ KindsStay(inode')
<1> DEFINE e == [kind |-> kind, data |-> << >>]
<1>1. e \in Inode /\ e.data = << >> /\ Len(<< >>) = 0
  BY EmptySeq DEF Inode
<1>2. inode' = Append(inode, e)
  BY DEF NewInode
<1> HIDE DEF e
<1>3. /\ Len(inode') = Len(inode) + 1 /\ Len(inode) \in Nat /\ inode'[Len(inode) + 1] = e
      /\ \A i \in 1 .. Len(inode) : inode'[i] = inode[i]
  BY <1>1, <1>2, AppendProperties, LenProperties
<1>4. \A i \in 1 .. Len(inode') : i \in 1 .. Len(inode) \/ i = Len(inode) + 1
  BY <1>3
<1>5. \A k \in 1 .. Len(e.data) : FALSE
  BY <1>1
<1>6. KindsStay(inode')
  BY <1>3 DEF KindsStay
<1> QED BY <1>3, <1>4, <1>5, <1>6 DEF PipesHold

\* A step that leaves the program's data alone and loses no writer.
LEMMA OthersKeepOneInv ==
  ASSUME FifoInv, OneInv, Wrote \subseteq Wrote', PipesHold(inode', Wrote'),
         KindsStay(inode'), fd' = fd, buf' = buf, served' = served,
         \/ app' = app
         \/ app' = "reading" /\ app = "opening"
         \/ app' \in {"parse", "unlinking", "exit"}
         \/ app' \in {"mkfifo", "open"} /\ app \in {"down", "mkfifo"}
  PROVE  OneInv'
<1>1. IsFifo(fd)' => IsFifo(fd)
  <2>1. fd \in 0 .. Len(inode) /\ Len(inode) \in Nat
    BY LenProperties DEF FifoInv, TypeOK, Inode
  <2>2. fd # 0 => inode'[fd].kind = inode[fd].kind
    BY <2>1 DEF KindsStay
  <2> QED BY <2>2 DEF IsFifo
<1>2. \A w \in Writers : HasWritten(w) => HasWritten(w)'
  BY DEF Wrote
<1>3. TextsAreTight' => TextsAreTight
  BY <1>2 DEF TextsAreTight, Tight
<1>4. (app \in {"down", "mkfifo", "open"} => buf = << >>)'
  BY DEF OneInv
<1>5. ReadingIsClean'
  <2> SUFFICES ASSUME IsFifo(fd)', TextsAreTight'
               PROVE  /\ CleanEnd(buf', Wrote')
                      /\ app' \in {"opening", "reading"} => Clean(buf', Wrote')
    BY DEF ReadingIsClean, CleanEnd, Clean, WholeOrGarbled, CutOff, Agrees
  <2>1. /\ CleanEnd(buf, Wrote)
        /\ app \in {"opening", "reading"} => Clean(buf, Wrote)
    BY <1>1, <1>3 DEF OneInv, ReadingIsClean
  <2>2. CleanEnd(buf, Wrote') /\ (app \in {"opening", "reading"} => Clean(buf, Wrote'))
    BY <2>1, MoreWriters
  <2>3. app' \in {"opening", "reading"} => app \in {"opening", "reading"}
    OBVIOUS
  <2> QED BY <2>2, <2>3
<1>6. ServedFromOneWriter'
  <2> SUFFICES ASSUME app' = "serving", IsFifo(fd)', TextsAreTight'
               PROVE  \E w \in Writers : HasWritten(w)' /\ AsksFor(w, served)'
    BY DEF ServedFromOneWriter
  <2>1. app = "serving" /\ IsFifo(fd) /\ TextsAreTight
    BY <1>1, <1>3
  <2>2. PICK w \in Writers : HasWritten(w) /\ AsksFor(w, served)
    BY <2>1 DEF OneInv, ServedFromOneWriter
  <2>3. AsksFor(w, served)'
    BY <2>2 DEF AsksFor, Asks
  <2> QED BY <1>2, <2>2, <2>3
<1>7. PipesHold(inode, Wrote)'
  BY DEF PipesHold
<1> QED BY <1>4, <1>5, <1>6, <1>7 DEF OneInv

\* When no writer moves and nothing is served yet.
LEMMA NobodyWrites ==
  ASSUME wpc' = wpc
  PROVE  Wrote' = Wrote /\ TextsAreTight' = TextsAreTight
BY DEF Wrote, HasWritten, TextsAreTight, Tight

\* The end of the process.
LEMMA DieKeepsOneInv ==
  ASSUME FifoInv, OneInv, Die
  PROVE  OneInv'
<1>1. PipesHold(inode', Wrote')
  <2>1. CASE Container
    BY <2>1, EmptySeq DEF Die, PipesHold
  <2>2. CASE ~Container
    <3>1. Wrote' = Wrote
      BY <2>2, NobodyWrites DEF Die
    <3>2. inode \in Seq(Inode) /\ fd \in 0 .. Len(inode) /\ PipesHold(inode, Wrote)
      BY DEF FifoInv, TypeOK, Inode, OneInv
    <3> QED BY <2>2, <3>1, <3>2, ContentsHold DEF Die
  <2> QED BY <2>1, <2>2
<1>2. app' = "down" /\ fd' = 0 /\ buf' = << >>
  BY DEF Die, Goto
<1>3. PipesHold(inode, Wrote)'
  BY <1>1 DEF PipesHold
<1> QED BY <1>2, <1>3 DEF OneInv, ReadingIsClean, ServedFromOneWriter, IsFifo

\* fread keeps what it has read clean.
LEMMA ReadKeepsOneInv ==
  ASSUME FifoInv, OneInv, ReadData
  PROVE  OneInv'
<1>1. inode \in Seq(Inode) /\ Len(inode) \in Nat /\ fd \in 0 .. Len(inode) /\ buf \in Texts
      /\ Len(buf) <= BufferFields /\ PipesHold(inode, Wrote) /\ app = "reading"
  BY LenProperties DEF FifoInv, TypeOK, Inode, OneInv, ReadData
<1>2. /\ fd' = fd /\ app' \in {"reading", "parse"} /\ inode[fd].data # << >>
      /\ Wrote' = Wrote /\ TextsAreTight' = TextsAreTight
  BY NobodyWrites DEF ReadData, Goto, writerVars
<1>3. ServedFromOneWriter' /\ (app \in {"down", "mkfifo", "open"} => buf = << >>)'
  BY <1>2 DEF ServedFromOneWriter
<1>4. CASE IsFifo(fd)
  <2>1. /\ fd \in 1 .. Len(inode) /\ inode[fd].kind = "fifo" /\ inode[fd].data \in Seq(Texts)
    <3>1. fd \in 1 .. Len(inode) /\ inode[fd].kind = "fifo"
      BY <1>1, <1>4 DEF IsFifo
    <3>2. inode[fd] \in Inode
      BY <1>1, <3>1, ElementOfSeq
    <3> QED BY <3>1, <3>2 DEF Inode
  <2>2. PICK d \in Seq(Texts) : d = inode[fd].data /\ d # << >>
    BY <1>2, <2>1
  <2>3. /\ Len(d) \in Nat \ {0} /\ Head(d) = d[1] /\ Len(Tail(d)) = Len(d) - 1
        /\ \A i \in 1 .. Len(Tail(d)) : Tail(d)[i] = d[i + 1]
    BY <2>2, HeadTailProperties, EmptySeq, LenProperties
  <2>4. \A k \in 1 .. Len(d) : \E w \in Wrote : d[k] = Selection[w]
    BY <1>1, <2>1, <2>2 DEF PipesHold
  <2>5. PICK v \in Wrote : Head(d) = Selection[v]
    BY <2>3, <2>4
  <2>6. \A k \in 1 .. Len(Tail(d)) : \E w \in Wrote : Tail(d)[k] = Selection[w]
    <3> SUFFICES ASSUME NEW k \in 1 .. Len(Tail(d))
                 PROVE  \E w \in Wrote : Tail(d)[k] = Selection[w]
      OBVIOUS
    <3>1. k + 1 \in 1 .. Len(d)
      BY <2>3
    <3> QED BY <2>3, <2>4, <3>1
  <2>7. PipesHold(Holding(fd, Tail(d)), Wrote) /\ PipesHold(Holding(fd, << >>), Wrote)
    <3>1. \A k \in 1 .. Len(<< >>) : FALSE
      BY EmptySeq
    <3> QED BY <1>1, <2>1, <2>6, <3>1, HoldingHolds
  <2>8. inode' = Holding(fd, Tail(d)) \/ inode' = Holding(fd, << >>)
    BY <1>4, <2>2 DEF ReadData
  <2>9. PipesHold(inode, Wrote)'
    BY <1>2, <2>7, <2>8 DEF PipesHold
  <2>10. ASSUME TextsAreTight
         PROVE  CleanEnd(buf', Wrote) /\ (app' = "reading" => Clean(buf', Wrote))
    <3>1. Wrote \in SUBSET Writers /\ \A w \in Wrote : Tight(Selection[w])
      BY <2>10 DEF Wrote, TextsAreTight
    <3>2. Clean(buf, Wrote)
      BY <1>1, <1>4, <2>10 DEF OneInv, ReadingIsClean
    <3>3. \/ buf' = Join(buf, Selection[v])
          \/ /\ Len(Selection[v]) >= Room /\ app' = "parse"
             /\ \E part \in Cut(Selection[v], Room) : buf' = Join(buf, part)
      BY <2>2, <2>5 DEF ReadData, Goto
    <3>4. CASE buf' = Join(buf, Selection[v])
      BY <1>1, <3>1, <3>2, <3>4, JoinIsClean DEF CleanEnd
    <3>5. CASE /\ Len(Selection[v]) >= Room /\ app' = "parse"
               /\ \E part \in Cut(Selection[v], Room) : buf' = Join(buf, part)
      BY <1>1, <3>1, <3>2, <3>5, CutIsClean
    <3> QED BY <3>3, <3>4, <3>5
  <2>11. ReadingIsClean'
    <3> SUFFICES ASSUME TextsAreTight'
                 PROVE  /\ CleanEnd(buf', Wrote')
                        /\ app' \in {"opening", "reading"} => Clean(buf', Wrote')
      BY DEF ReadingIsClean, CleanEnd, Clean, WholeOrGarbled, CutOff, Agrees
    <3> QED BY <1>2, <2>10
  <2> QED BY <1>3, <2>9, <2>11 DEF OneInv
<1>5. CASE ~IsFifo(fd)
  <2>1. inode' = inode
    BY <1>5 DEF ReadData
  <2>2. ~IsFifo(fd)'
    BY <1>2, <1>5, <2>1 DEF IsFifo
  <2>3. PipesHold(inode, Wrote)'
    BY <1>1, <1>2, <2>1 DEF PipesHold
  <2> QED BY <1>3, <2>2, <2>3 DEF OneInv, ReadingIsClean
<1> QED BY <1>4, <1>5

\* The steps of the program.
LEMMA ProgramKeepsOneInv ==
  ASSUME FifoInv, OneInv, Program
  PROVE  OneInv'
<1>1. inode \in Seq(Inode) /\ Len(inode) \in Nat /\ fd \in 0 .. Len(inode) /\ buf \in Texts
      /\ PipesHold(inode, Wrote)
  BY LenProperties DEF FifoInv, TypeOK, Inode, OneInv
<1>2. wpc' = wpc => Wrote' = Wrote /\ TextsAreTight' = TextsAreTight
  BY NobodyWrites
<1>3. inode' = inode /\ Wrote' = Wrote => PipesHold(inode', Wrote') /\ KindsStay(inode')
  BY <1>1 DEF KindsStay
<1>4. CASE Boot \/ ReadEnds \/ Unlink
  <2>1. wpc' = wpc /\ inode' = inode /\ fd' = fd /\ buf' = buf /\ served' = served
    BY <1>4 DEF Boot, ReadEnds, Unlink, writerVars
  <2>2. \/ app' = "mkfifo" /\ app = "down"
        \/ app' = "parse" \/ app' = "exit"
    BY <1>4 DEF Boot, ReadEnds, Unlink, Goto
  <2> QED BY <1>2, <1>3, <2>1, <2>2, OthersKeepOneInv
<1>5. CASE MakeFifo
  <2>1. wpc' = wpc /\ fd' = fd /\ buf' = buf /\ served' = served
    BY <1>5 DEF MakeFifo, writerVars
  <2>2. app = "mkfifo" /\ app' \in {"open", "exit"}
    BY <1>5 DEF MakeFifo, Goto
  <2>3. inode' = inode \/ NewInode("fifo")
    BY <1>5 DEF MakeFifo
  <2>4. PipesHold(inode', Wrote') /\ KindsStay(inode')
    BY <1>1, <1>2, <1>3, <2>1, <2>3, NewInodeHolds
  <2> QED BY <1>2, <2>1, <2>2, <2>4, OthersKeepOneInv
<1>6. CASE OpenFifo
  <2>1. buf' = << >> /\ inode' = inode /\ app' \in {"opening", "reading", "exit"}
    BY <1>6 DEF OpenFifo, Goto, OneInv
  <2>2. Wrote' = Wrote
    BY <1>6 DEF OpenFifo, Wrote, HasWritten, Blocked
  <2>3. PipesHold(inode, Wrote)'
    BY <1>1, <2>1, <2>2 DEF PipesHold
  <2> QED BY <2>1, <2>3 DEF OneInv, ReadingIsClean, ServedFromOneWriter, Clean, CleanEnd
<1>7. CASE ReadData
  BY <1>7, ReadKeepsOneInv
<1>8. CASE Select
  <2>1. /\ fd' = fd /\ buf' = buf /\ inode' = inode /\ wpc' = wpc
        /\ app' \notin {"down", "mkfifo", "open", "opening", "reading"}
        /\ app' = "serving" => /\ served' = parse_metrics(buf)
                               /\ ~NothingToServe(served') /\ Accepts(served')
    BY <1>8 DEF Select, Turn, Serve, Goto, writerVars
  <2>2. IsFifo(fd)' <=> IsFifo(fd)
    BY <2>1 DEF IsFifo
  <2>3. ReadingIsClean'
    <3> SUFFICES ASSUME IsFifo(fd)', TextsAreTight' PROVE CleanEnd(buf', Wrote')
      BY <2>1 DEF ReadingIsClean
    <3> QED BY <1>2, <2>1, <2>2 DEF OneInv, ReadingIsClean
  <2>4. ServedFromOneWriter'
    <3> SUFFICES ASSUME app' = "serving", IsFifo(fd)', TextsAreTight'
                 PROVE  \E w \in Writers : HasWritten(w)' /\ AsksFor(w, served)'
      BY DEF ServedFromOneWriter
    <3>1. CleanEnd(buf, Wrote)
      BY <1>2, <2>1, <2>2 DEF OneInv, ReadingIsClean
    <3>2. Wrote \in SUBSET Writers
      BY DEF Wrote
    <3>3. PICK w \in Wrote : AsksFor(w, parse_metrics(buf))
      BY <1>1, <2>1, <3>1, <3>2, AcceptedIsAsked
    <3>4. HasWritten(w)'
      BY <2>1 DEF Wrote, HasWritten
    <3>5. AsksFor(w, served)'
      BY <2>1, <3>3 DEF AsksFor, Asks
    <3> QED BY <3>2, <3>4, <3>5
  <2>5. PipesHold(inode, Wrote)'
    BY <1>1, <1>2, <2>1 DEF PipesHold
  <2> QED BY <2>1, <2>3, <2>4, <2>5 DEF OneInv
<1>9. CASE CloseFifo
  <2>1. PipesHold(inode', Wrote) /\ wpc' = wpc
    BY <1>1, <1>9, ContentsHold DEF CloseFifo, writerVars
  <2>2. fd' = 0 /\ app' = "unlinking"
    BY <1>9 DEF CloseFifo, Goto
  <2>3. PipesHold(inode, Wrote)'
    BY <1>2, <2>1 DEF PipesHold
  <2> QED BY <2>2, <2>3 DEF OneInv, ReadingIsClean, ServedFromOneWriter, IsFifo
<1>10. CASE Exit
  BY <1>10, DieKeepsOneInv DEF Exit
<1> QED BY <1>4, <1>5, <1>6, <1>7, <1>8, <1>9, <1>10 DEF Program

\* The steps of a writer.
LEMMA WriterKeepsOneInv ==
  ASSUME FifoInv, OneInv, NEW w \in Writers, Writer(w)
  PROVE  OneInv'
<1>1. /\ inode \in Seq(Inode) /\ Len(inode) \in Nat /\ PipesHold(inode, Wrote)
      /\ path \in 0 .. Len(inode) /\ wfd[w] \in 0 .. Len(inode)
      /\ wpc \in [Writers -> {"poll", "open", "blocked", "write", "written", "done", "failed"}]
  BY LenProperties DEF FifoInv, TypeOK, Inode, OneInv
<1>2. fd' = fd /\ buf' = buf /\ served' = served
      /\ (app' = app \/ (app' = "reading" /\ app = "opening"))
  BY DEF Writer, Poll, Open, Write, Close, appVars, Goto
<1>3. /\ Wrote \subseteq Wrote'
      /\ wpc[w] = "write" /\ wpc'[w] = "written" => w \in Wrote'
  <2>1. \E label : /\ wpc' = [wpc EXCEPT ![w] = label] \/ wpc' = wpc
                   /\ wpc[w] = "written" => label = "done"
                   /\ wpc[w] # "done"
    BY DEF Writer, Poll, Open, Write, Close
  <2>2. \A v \in Writers : wpc[v] \in {"written", "done"} => wpc'[v] \in {"written", "done"}
    BY <1>1, <2>1
  <2> QED BY <2>2 DEF Wrote, HasWritten
<1>4. PipesHold(inode, Wrote')
  BY <1>1, <1>3, MoreWriters
<1>5. inode' = inode => PipesHold(inode', Wrote') /\ KindsStay(inode')
  BY <1>1, <1>4 DEF KindsStay
<1>6. PipesHold(inode', Wrote') /\ KindsStay(inode')
  <2>1. CASE Poll(w)
    BY <1>5, <2>1 DEF Poll
  <2>2. CASE Open(w)
    <3>1. CASE path # 0 /\ ~IsFifo(path) /\ inode' = Holding(path, << >>)
      <4>1. path \in 1 .. Len(inode) /\ inode[path].kind # "fifo"
        BY <1>1, <3>1 DEF IsFifo
      <4> QED BY <1>1, <1>4, <3>1, <4>1, HoldingHolds
    <3>2. CASE NewInode("file")
      BY <1>1, <1>4, <3>2, NewInodeHolds
    <3>3. \/ inode' = inode \/ NewInode("file")
          \/ path # 0 /\ ~IsFifo(path) /\ inode' = Holding(path, << >>)
      BY <2>2 DEF Open
    <3> QED BY <1>5, <3>1, <3>2, <3>3
  <2>3. CASE Write(w)
    <3>1. wfd[w] \in 1 .. Len(inode) /\ inode[wfd[w]] \in Inode /\ wpc[w] = "write"
      <4>1. wfd[w] \in 1 .. Len(inode) /\ wpc[w] = "write"
        BY <1>1, <2>3 DEF Write, FifoInv
      <4> QED BY <1>1, <4>1, ElementOfSeq
    <3>2. CASE inode' = Contents(wfd[w], WritersOf(wfd[w]) # {w})
      BY <1>1, <1>4, <3>2, ContentsHold
    <3>3. CASE /\ IsFifo(wfd[w]) /\ wpc' = [wpc EXCEPT ![w] = "written"]
               /\ inode' = Holding(wfd[w], Append(inode[wfd[w]].data, Selection[w]))
      <4>1. PICK d \in Seq(Texts) : d = inode[wfd[w]].data
        BY <3>1 DEF Inode
      <4>2. Selection[w] \in Texts
        BY SelectionType
      <4>3. /\ Len(d) \in Nat /\ Len(Append(d, Selection[w])) = Len(d) + 1
            /\ \A k \in 1 .. Len(d) : Append(d, Selection[w])[k] = d[k]
            /\ Append(d, Selection[w])[Len(d) + 1] = Selection[w]
        BY <4>2, AppendProperties, LenProperties
      <4>4. \A k \in 1 .. Len(d) + 1 : k \in 1 .. Len(d) \/ k = Len(d) + 1
        BY <4>3
      <4>5. w \in Wrote'
        BY <1>1, <1>3, <3>1, <3>3
      <4>6. \A k \in 1 .. Len(d) : \E v \in Wrote' : d[k] = Selection[v]
        BY <1>4, <3>1, <3>3, <4>1 DEF PipesHold, IsFifo
      <4>7. \A k \in 1 .. Len(Append(d, Selection[w])) :
              \E v \in Wrote' : Append(d, Selection[w])[k] = Selection[v]
        BY <4>3, <4>4, <4>5, <4>6
      <4>8. PICK texts : texts = Append(d, Selection[w])
        OBVIOUS
      <4>9. PipesHold(Holding(wfd[w], texts), Wrote') /\ KindsStay(Holding(wfd[w], texts))
        BY <1>1, <1>4, <3>1, <4>7, <4>8, HoldingHolds
      <4> QED BY <3>3, <4>1, <4>8, <4>9
    <3>4. ASSUME NEW texts, ~IsFifo(wfd[w]), inode' = Holding(wfd[w], texts)
          PROVE  PipesHold(inode', Wrote') /\ KindsStay(inode')
      <4>1. inode[wfd[w]].kind # "fifo"
        BY <3>1, <3>4 DEF IsFifo, Write
      <4> QED BY <1>1, <1>4, <3>1, <3>4, <4>1, HoldingHolds
    <3> QED BY <2>3, <3>2, <3>3, <3>4 DEF Write
  <2>4. CASE Close(w)
    BY <1>1, <1>4, <2>4, ContentsHold DEF Close
  <2> QED BY <2>1, <2>2, <2>3, <2>4 DEF Writer
<1> QED BY <1>2, <1>3, <1>6, OthersKeepOneInv

\* Every step keeps it.
LEMMA StepOneInv == FifoInv /\ OneInv /\ [Next]_vars => OneInv'
<1> SUFFICES ASSUME FifoInv, OneInv, [Next]_vars PROVE OneInv'
  OBVIOUS
<1>1. CASE Crash
  BY <1>1, DieKeepsOneInv DEF Crash
<1>2. CASE UNCHANGED vars
  <2>1. wpc' = wpc /\ inode' = inode /\ app' = app /\ fd' = fd /\ buf' = buf /\ served' = served
    BY <1>2 DEF vars, appVars, writerVars
  <2>2. Wrote' = Wrote
    BY <2>1, NobodyWrites
  <2>3. PipesHold(inode', Wrote') /\ KindsStay(inode')
    BY <2>1, <2>2, LenProperties DEF FifoInv, TypeOK, Inode, OneInv, KindsStay
  <2> QED BY <2>1, <2>2, <2>3, OthersKeepOneInv
<1> QED BY <1>1, <1>2, ProgramKeepsOneInv, WriterKeepsOneInv DEF Next

\* Nothing is written at the start.
LEMMA InitOneInv == Init => OneInv
<1>1. Init => PipesHold(inode, Wrote)
  BY EmptySeq DEF Init, PipesHold
<1> QED BY <1>1 DEF Init, OneInv, ReadingIsClean, IsFifo, ServedFromOneWriter

\* However many writers meet at the FIFO, in whatever order their texts arrive and
\* wherever the buffer cuts them, what is served from it is what one of them asks for,
\* or the beginning of it when it does not fit into the buffer; as long as none of the
\* texts begins or ends with a comma or a blank field.
THEOREM OneWriterIsServed == Spec => []ServedFromOneWriter
<1>1. OneInv => ServedFromOneWriter
  BY DEF OneInv
<1> QED BY <1>1, InitFifoInv, InitOneInv, StepFifoInv, StepOneInv, PTL DEF Spec, Safe
=============================================================================
