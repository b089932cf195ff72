------------------------- MODULE ParseMetricsProofs --------------------------
(***************************************************************************)
(* Proofs about ParseMetrics for texts of every length.                    *)
(***************************************************************************)
EXTENDS ParseMetrics, LeastElements, SequenceTheorems, FiniteSetTheorems

Chars == NameChars \cup {Comma, Space}

\* What is left of the text begins at p, behind a comma, or there is nothing left.
RestBegins(p) ==
  /\ p \in 1 .. Len(input) + 2 /\ rest = From(input, p)
  /\ p \in {1, Len(input) + 2} \/ (p - 1 \in 1 .. Len(input) /\ input[p - 1] = Comma)

FieldsBelow(p) == {g \in Fields : g[1] < p}

ParsedTo(p) == RestBegins(p) /\ Len(output) = Cardinality(FieldsBelow(p))

IsName(f, k) ==
  f \in Fields /\ Cardinality(FieldsBefore(f)) = k - 1 /\ IsTrimmed(f, output[k])

\* The names so far are the fields in front of what is left.
ParseInv ==
  /\ input \in Seq(Chars) /\ output \in Seq(Seq(Chars)) /\ Len(output) <= MaxNames
  /\ \E p \in 1 .. Len(input) + 2 : ParsedTo(p)
  /\ \A k \in 1 .. Len(output) : \E f \in Fields : IsName(f, k)

-----------------------------------------------------------------------------
(* What strtok and the pointers of trim_whitespace find.                   *)

\* A stretch of a sequence, by position.
LEMMA Stretch ==
  ASSUME NEW S, NEW s \in Seq(S), NEW i \in Int, NEW j \in Int,
         1 <= i, j <= Len(s), i <= j + 2
  PROVE  /\ SubSeq(s, i, j) \in Seq(S)
         /\ i <= j => Len(SubSeq(s, i, j)) = j - i + 1
         /\ i > j => Len(SubSeq(s, i, j)) = 0
         /\ \A k \in 1 .. j - i + 1 : SubSeq(s, i, j)[k] = s[i + k - 1]
<1>1. \A k \in i .. j : s[k] \in S
  <2>1. Len(s) \in Nat
    BY LenProperties
  <2>2. \A k \in i .. j : k \in 1 .. Len(s)
    BY <2>1
  <2> QED BY <2>2, ElementOfSeq
<1>2. /\ SubSeq(s, i, j) \in Seq(S)
      /\ Len(SubSeq(s, i, j)) = IF i <= j THEN j - i + 1 ELSE 0
      /\ \A k \in 1 .. j - i + 1 : SubSeq(s, i, j)[k] = s[i + k - 1]
  BY <1>1, SubSeqProperties
<1> QED BY <1>2

\* FirstAt finds what it looks for.
LEMMA FirstAtIsFirst ==
  ASSUME NEW S, NEW s \in Seq(S), NEW chars
  PROVE  /\ FirstAt(s, chars) \in 1 .. Len(s) + 1
         /\ FirstAt(s, chars) = Len(s) + 1 \/ s[FirstAt(s, chars)] \in chars
         /\ \A j \in 1 .. FirstAt(s, chars) - 1 : s[j] \notin chars
<1>1. Len(s) \in Nat
  BY LenProperties
<1> DEFINE T == {i \in 1 .. Len(s) + 1 : i = Len(s) + 1 \/ s[i] \in chars}
<1>2. T \subseteq Nat /\ Len(s) + 1 \in T
  BY <1>1
<1> HIDE DEF T
<1>3. PICK x \in T : \A y \in T : x <= y
  BY <1>2, LeastExists
<1>4. x \in 1 .. Len(s) + 1 /\ (x = Len(s) + 1 \/ s[x] \in chars)
  BY <1>3 DEF T
<1>5. ASSUME NEW j \in 1 .. x - 1 PROVE s[j] \notin chars
  <2>1. j \in 1 .. Len(s) + 1 /\ ~(x <= j)
    BY <1>1, <1>4
  <2> QED BY <1>3, <2>1 DEF T
<1>6. \E i \in 1 .. Len(s) + 1 : /\ i = Len(s) + 1 \/ s[i] \in chars
                                 /\ \A j \in 1 .. i - 1 : s[j] \notin chars
  BY <1>4, <1>5
<1> QED BY <1>6 DEF FirstAt

\* In a text every character is a comma or is skipped by neither of the two sets.
LEMMA CharactersDiffer ==
  \A c \in Chars : /\ c \in NoComma <=> c # Comma
                   /\ c \in NoBlank <=> c # Space
                   /\ c \in {Comma} <=> c = Comma
BY CharactersAssumption DEF Chars, NoComma, NoBlank, Comma, Space

\* trim_whitespace takes away the white space at both ends and nothing else.
LEMMA TrimIsTrimmed ==
  ASSUME NEW t \in Seq(Chars)
  PROVE  \/ trim_whitespace(t) = << >> /\ \A i \in 1 .. Len(t) : t[i] = Space
         \/ \E a, b \in 1 .. Len(t) :
              /\ a <= b /\ trim_whitespace(t) = SubSeq(t, a, b)
              /\ t[a] # Space /\ t[b] # Space
              /\ \A i \in 1 .. Len(t) : i \in a .. b \/ t[i] = Space
<1>1. PICK n \in Nat : n = Len(t)
  BY LenProperties
<1>2. \A i \in 1 .. n : t[i] \in Chars
  BY <1>1, ElementOfSeq
<1>3. PICK a \in 1 .. n + 1 : a = FirstAt(t, NoBlank)
  BY <1>1, FirstAtIsFirst
<1>4. a = n + 1 \/ t[a] \in NoBlank
  BY <1>1, <1>3, FirstAtIsFirst
<1>5. \A j \in 1 .. a - 1 : t[j] \notin NoBlank
  BY <1>1, <1>3, FirstAtIsFirst
<1>6. \A j \in 1 .. a - 1 : t[j] = Space
  <2> SUFFICES ASSUME NEW j \in 1 .. a - 1 PROVE t[j] = Space
    OBVIOUS
  <2>1. t[j] \in Chars
    BY <1>2
  <2> QED BY <1>5, <2>1, CharactersDiffer
<1>7. PICK str \in Seq(Chars) : str = From(t, a)
  <2>1. SubSeq(t, a, n) \in Seq(Chars)
    BY <1>1, Stretch
  <2> QED BY <1>1, <2>1 DEF From
<1>8. a <= n => Len(str) = n - a + 1
  BY <1>1, <1>7, Stretch DEF From
<1>9. a = n + 1 => Len(str) = 0
  BY <1>1, <1>7, Stretch DEF From
<1>10. \A k \in 1 .. n - a + 1 : str[k] = t[a + k - 1]
  BY <1>1, <1>7, Stretch DEF From
<1>11. PICK l \in Nat : l = Len(str) /\ l = n - a + 1
  BY <1>8, <1>9
<1> DEFINE E == {e \in 0 .. l : e = 0 \/ str[e] # Space}
<1>12. E \subseteq Nat /\ 0 \in E /\ \A e \in E : e <= l
  OBVIOUS
<1> HIDE DEF E
<1>13. PICK e \in E : \A d \in E : d <= e
  BY <1>12, GreatestExists
<1>14. e \in 0 .. l /\ (e = 0 \/ str[e] # Space)
  BY <1>13 DEF E
<1>15. \A j \in e + 1 .. l : str[j] = Space
  BY <1>13, <1>14 DEF E
<1> DEFINE IsEnd(x) == x \in 0 .. l /\ (x = 0 \/ str[x] # Space) /\ \A j \in x + 1 .. l : str[j] = Space
<1>16. PICK b : IsEnd(b) /\ trim_whitespace(t) = SubSeq(str, 1, b)
  <2>1. \E x \in 0 .. l : (x = 0 \/ str[x] # Space) /\ \A j \in x + 1 .. l : str[j] = Space
    BY <1>14, <1>15
  <2> DEFINE end == CHOOSE x \in 0 .. l : (x = 0 \/ str[x] # Space) /\ \A j \in x + 1 .. l : str[j] = Space
  <2>2. IsEnd(end)
    BY <2>1
  <2>3. trim_whitespace(t) = SubSeq(str, 1, end)
    BY <1>3, <1>7, <1>11 DEF trim_whitespace
  <2> QED BY <2>2, <2>3
<1>17. CASE a = n + 1
  <2>1. b = 0 /\ l = 0
    BY <1>11, <1>16, <1>17
  <2>2. trim_whitespace(t) = << >>
    BY <1>16, <2>1, SubSeqEmpty
  <2> QED BY <1>1, <1>6, <1>17, <2>2
<1>18. CASE a # n + 1
  <2>1. a \in 1 .. n /\ t[a] \in NoBlank /\ t[a] \in Chars
    BY <1>2, <1>3, <1>4, <1>18
  <2>2. t[a] # Space
    BY <2>1, CharactersDiffer
  <2>3. 1 \in 1 .. l /\ str[1] = t[a]
    BY <1>10, <1>11, <2>1
  <2>4. b \in 1 .. l
    BY <1>16, <2>2, <2>3
  <2>5. PICK z \in 1 .. n : z = a + b - 1 /\ a <= z
    BY <1>11, <2>1, <2>4
  <2>6. t[z] # Space
    BY <1>10, <1>11, <1>16, <2>4, <2>5
  <2>7. ASSUME NEW i \in 1 .. n PROVE i \in a .. z \/ t[i] = Space
    <3>1. CASE i < a
      BY <1>6, <3>1
    <3>2. CASE i > z
      <4>1. PICK k \in 1 .. l : k = i - a + 1
        BY <1>11, <2>1, <2>4, <2>5, <3>2
      <4>2. k \in b + 1 .. l
        BY <2>1, <2>4, <2>5, <3>2, <4>1
      <4>3. str[k] = t[i]
        <5>1. a + k - 1 = i /\ k \in 1 .. n - a + 1
          BY <1>11, <2>1, <4>1
        <5> QED BY <1>10, <5>1
      <4> QED BY <1>16, <4>2, <4>3
    <3> QED BY <2>1, <3>1, <3>2
  <2>8. trim_whitespace(t) = SubSeq(t, a, z)
    <3>1. SubSeq(SubSeq(t, a, n), 1, b) = SubSeq(t, a + 1 - 1, a + b - 1)
      BY <1>1, <1>11, <2>1, <2>4, SubSeqOfSubSeq
    <3>2. a + 1 - 1 = a
      BY <2>1
    <3> QED BY <1>1, <1>7, <1>16, <2>5, <3>1, <3>2 DEF From
  <2> QED BY <1>1, <2>1, <2>2, <2>5, <2>6, <2>7, <2>8
<1> QED BY <1>17, <1>18

-----------------------------------------------------------------------------
(* The token is the next field.                                            *)

\* The rest of the text, by position.
LEMMA RestByPosition ==
  ASSUME input \in Seq(Chars), NEW p \in Int, RestBegins(p)
  PROVE  /\ rest \in Seq(Chars)
         /\ p <= Len(input) + 1 => Len(rest) = Len(input) - p + 1
         /\ p = Len(input) + 2 => Len(rest) = 0
         /\ \A k \in 1 .. Len(input) - p + 1 : rest[k] = input[p + k - 1]
<1>1. PICK n \in Nat : n = Len(input)
  BY LenProperties
<1>2. rest = SubSeq(input, p, n) /\ p \in 1 .. n + 2
  BY <1>1 DEF RestBegins, From
<1>3. /\ rest \in Seq(Chars)
      /\ p <= n => Len(rest) = n - p + 1
      /\ p > n => Len(rest) = 0
      /\ \A k \in 1 .. n - p + 1 : rest[k] = input[p + k - 1]
  BY <1>1, <1>2, Stretch
<1>4. p = n + 1 => n - p + 1 = 0
  OBVIOUS
<1> QED BY <1>1, <1>2, <1>3, <1>4

\* The token of one turn: empty if only commas are left, else the longest stretch
\* without a comma that begins behind the commas.
LEMMA TokenIsNext ==
  ASSUME input \in Seq(Chars), NEW p \in Int, RestBegins(p)
  PROVE  \/ token = << >> /\ \A i \in p .. Len(input) : input[i] = Comma
         \/ \E q, r \in p .. Len(input) :
              /\ q <= r /\ token = SubSeq(input, q, r) /\ token # << >>
              /\ start = q - p + 1 /\ Len(token) = r - q + 1
              /\ \A i \in p .. q - 1 : input[i] = Comma
              /\ \A i \in q .. r : input[i] # Comma
              /\ r = Len(input) \/ input[r + 1] = Comma
<1>1. PICK n \in Nat : n = Len(input)
  BY LenProperties
<1>2. PICK m \in Nat : m = Len(rest)
  BY RestByPosition, LenProperties
<1>3. p \in 1 .. n + 2 /\ (p <= n + 1 => m = n - p + 1) /\ (p = n + 2 => m = 0)
  BY <1>1, <1>2, RestByPosition DEF RestBegins
<1>4. \A k \in 1 .. n - p + 1 : rest[k] = input[p + k - 1]
  BY <1>1, RestByPosition
<1>5. \A k \in 1 .. m : rest[k] \in Chars
  BY <1>2, RestByPosition, ElementOfSeq
<1>6. PICK st \in 1 .. m + 1 : st = start
  BY <1>2, RestByPosition, FirstAtIsFirst DEF start
<1>7. st = m + 1 \/ rest[st] \in NoComma
  BY <1>2, <1>6, RestByPosition, FirstAtIsFirst DEF start
<1>8. \A j \in 1 .. st - 1 : rest[j] = Comma
  <2>1. \A j \in 1 .. st - 1 : rest[j] \notin NoComma
    BY <1>2, <1>6, RestByPosition, FirstAtIsFirst DEF start
  <2>2. \A j \in 1 .. st - 1 : rest[j] \in Chars
    BY <1>5
  <2> QED BY <2>1, <2>2, CharactersDiffer
<1>9. \A i \in p .. p + st - 2 : input[i] = Comma
  <2> SUFFICES ASSUME NEW i \in p .. p + st - 2 PROVE input[i] = Comma
    OBVIOUS
  <2>1. PICK k \in 1 .. st - 1 : k = i - p + 1
    BY <1>3, <1>6
  <2>2. k \in 1 .. n - p + 1 /\ p + k - 1 = i
    BY <1>3, <1>6, <2>1
  <2> QED BY <1>4, <1>8, <2>2
<1>10. PICK tail \in Seq(Chars) : tail = From(rest, st)
  <2>1. SubSeq(rest, st, m) \in Seq(Chars)
    BY <1>2, RestByPosition, Stretch
  <2> QED BY <1>2, <2>1 DEF From
<1>11. PICK l \in Nat : l = Len(tail)
  BY LenProperties
<1>12. /\ st <= m => l = m - st + 1
       /\ st = m + 1 => l = 0
       /\ \A k \in 1 .. m - st + 1 : tail[k] = rest[st + k - 1]
  BY <1>2, <1>10, <1>11, RestByPosition, Stretch DEF From
<1>13. \A k \in 1 .. l : tail[k] \in Chars
  BY <1>11, ElementOfSeq
<1>14. PICK e \in 1 .. l + 1 : e = FirstAt(tail, {Comma})
  BY <1>11, FirstAtIsFirst
<1>15. e = l + 1 \/ tail[e] = Comma
  BY <1>11, <1>14, FirstAtIsFirst
<1>16. \A j \in 1 .. e - 1 : tail[j] # Comma
  BY <1>11, <1>14, FirstAtIsFirst
<1>17. token = SubSeq(tail, 1, e - 1)
  BY <1>6, <1>10, <1>14 DEF token
<1>18. CASE st = m + 1
  <2>1. e - 1 < 1
    BY <1>12, <1>18
  <2>2. token = << >>
    BY <1>17, <2>1, SubSeqEmpty
  <2>3. n <= p + st - 2
    BY <1>3, <1>18
  <2>4. \A i \in p .. n : input[i] = Comma
    BY <1>3, <1>9, <2>3
  <2> QED BY <1>1, <2>2, <2>4
<1>19. CASE st # m + 1
  <2>1. st \in 1 .. m /\ l = m - st + 1 /\ m = n - p + 1
    BY <1>3, <1>6, <1>12, <1>19
  <2>2. \A k \in 1 .. l : tail[k] = input[p + st + k - 2]
    <3> SUFFICES ASSUME NEW k \in 1 .. l PROVE tail[k] = input[p + st + k - 2]
      OBVIOUS
    <3>1. PICK j \in 1 .. m : j = st + k - 1
      BY <2>1
    <3>2. p + j - 1 = p + st + k - 2
      BY <1>3, <2>1, <3>1
    <3>3. rest[j] = input[p + j - 1] /\ tail[k] = rest[st + k - 1]
      BY <1>4, <1>12, <2>1
    <3> QED BY <3>1, <3>2, <3>3
  <2>3. tail[1] # Comma
    <3>1. rest[st] \in NoComma /\ rest[st] \in Chars
      BY <1>5, <1>7, <1>19, <2>1
    <3>2. tail[1] = rest[st]
      BY <1>12, <2>1
    <3> QED BY <3>1, <3>2, CharactersDiffer
  <2>4. e >= 2
    BY <1>14, <1>15, <2>1, <2>3
  <2>5. PICK q \in p .. n, r \in p .. n : q = p + st - 1 /\ r = q + e - 2 /\ q <= r
    <3>1. p + st - 1 \in p .. n
      BY <1>3, <2>1
    <3>2. p + st - 1 + e - 2 \in p .. n /\ p + st - 1 <= p + st - 1 + e - 2
      BY <1>3, <1>14, <2>1, <2>4
    <3> QED BY <3>1, <3>2
  <2>6. token \in Seq(Chars) /\ Len(token) = e - 1 /\ \A k \in 1 .. e - 1 : token[k] = tail[k]
    <3>1. PICK j \in Int : j = e - 1 /\ 1 <= j /\ j <= l
      BY <1>14, <2>4
    <3>2. /\ SubSeq(tail, 1, j) \in Seq(Chars) /\ Len(SubSeq(tail, 1, j)) = j - 1 + 1
          /\ \A k \in 1 .. j - 1 + 1 : SubSeq(tail, 1, j)[k] = tail[1 + k - 1]
      BY <1>11, <3>1, Stretch
    <3>3. j - 1 + 1 = j /\ \A k \in 1 .. j : 1 + k - 1 = k
      BY <3>1
    <3> QED BY <1>17, <3>1, <3>2, <3>3
  <2>7. /\ SubSeq(input, q, r) \in Seq(Chars) /\ Len(SubSeq(input, q, r)) = r - q + 1
        /\ \A k \in 1 .. r - q + 1 : SubSeq(input, q, r)[k] = input[q + k - 1]
    BY <1>1, <1>3, <2>5, Stretch
  <2>8. r - q + 1 = e - 1
    BY <1>3, <2>1, <2>5
  <2>9. \A k \in 1 .. e - 1 : token[k] = input[q + k - 1]
    <3> SUFFICES ASSUME NEW k \in 1 .. e - 1 PROVE token[k] = input[q + k - 1]
      OBVIOUS
    <3>1. k \in 1 .. l /\ p + st + k - 2 = q + k - 1
      BY <1>3, <2>1, <2>5
    <3> QED BY <2>2, <2>6, <3>1
  <2>10. token = SubSeq(input, q, r)
    <3>1. Len(token) = Len(SubSeq(input, q, r))
      BY <2>6, <2>7, <2>8
    <3>2. \A k \in 1 .. Len(token) : token[k] = SubSeq(input, q, r)[k]
      BY <2>6, <2>7, <2>8, <2>9
    <3> QED BY <2>6, <2>7, <3>1, <3>2, SeqEqual
  <2>11. \A i \in q .. r : input[i] # Comma
    <3> SUFFICES ASSUME NEW i \in q .. r PROVE input[i] # Comma
      OBVIOUS
    <3>1. PICK k \in 1 .. e - 1 : k = i - q + 1
      BY <1>3, <2>5
    <3>2. q + k - 1 = i
      BY <1>3, <2>5, <3>1
    <3> QED BY <1>16, <2>6, <2>9, <3>2
  <2>12. r = n \/ input[r + 1] = Comma
    <3>1. CASE e = l + 1
      BY <1>3, <2>1, <2>5, <3>1
    <3>2. CASE e # l + 1
      <4>1. tail[e] = input[p + st + e - 2] /\ tail[e] = Comma
        BY <1>14, <1>15, <2>2, <3>2
      <4>2. p + st + e - 2 = r + 1
        BY <1>3, <2>1, <2>5
      <4> QED BY <4>1, <4>2
    <3> QED BY <3>1, <3>2
  <2>13. token # << >>
    BY <2>4, <2>6
  <2>14. start = q - p + 1 /\ Len(token) = r - q + 1
    BY <1>3, <1>6, <2>5, <2>6, <2>8
  <2>15. \A i \in p .. q - 1 : input[i] = Comma
    BY <1>3, <1>9, <2>5
  <2> QED BY <1>1, <2>5, <2>10, <2>11, <2>12, <2>13, <2>14, <2>15
<1> QED BY <1>18, <1>19

-----------------------------------------------------------------------------
(* The fields in front of a position.                                      *)

\* There are finitely many fields, of two positions each.
LEMMA FieldsAreFinite ==
  ASSUME input \in Seq(Chars)
  PROVE  /\ IsFiniteSet(Fields)
         /\ \A p : IsFiniteSet(FieldsBelow(p)) /\ Cardinality(FieldsBelow(p)) \in Nat
         /\ \A p : Cardinality(FieldsBelow(p)) <= Cardinality(Fields)
<1>1. PICK n \in Nat : n = Len(input)
  BY LenProperties
<1>2. IsFiniteSet((1 .. n) \X (1 .. n))
  <2>1. IsFiniteSet(1 .. n)
    BY FS_Interval
  <2> QED BY <2>1, FS_Product
<1>3. Fields \subseteq (1 .. n) \X (1 .. n)
  BY <1>1 DEF Fields
<1>4. IsFiniteSet(Fields)
  BY <1>2, <1>3, FS_Subset
<1>5. \A p : FieldsBelow(p) \in SUBSET Fields
  BY DEF FieldsBelow
<1> QED BY <1>4, <1>5, FS_Subset, FS_CardinalityType

\* The token of a turn is a field, and the only one up to the comma behind it.
LEMMA TokenIsField ==
  ASSUME input \in Seq(Chars), NEW p \in Int, RestBegins(p),
         NEW q \in p .. Len(input), NEW r \in p .. Len(input), q <= r,
         \A i \in p .. q - 1 : input[i] = Comma,
         \A i \in q .. r : input[i] # Comma,
         r = Len(input) \/ input[r + 1] = Comma
  PROVE  /\ << q, r >> \in Fields /\ << q, r >> \notin FieldsBelow(p)
         /\ FieldsBefore(<< q, r >>) = FieldsBelow(p)
         /\ FieldsBelow(r + 2) = FieldsBelow(p) \cup {<< q, r >>}
<1>1. PICK n \in Nat : n = Len(input)
  BY LenProperties
<1>2. /\ p \in 1 .. n + 2 /\ q \in 1 .. n /\ r \in 1 .. n
      /\ p \in {1, n + 2} \/ (p - 1 \in 1 .. n /\ input[p - 1] = Comma)
  BY <1>1 DEF RestBegins
<1>3. q = 1 \/ input[q - 1] = Comma
  <2>1. CASE q = p
    BY <1>1, <1>2, <2>1
  <2>2. CASE q # p
    <3>1. q - 1 \in p .. q - 1
      BY <1>2, <2>2
    <3> QED BY <3>1
  <2> QED BY <2>1, <2>2
<1>4. << q, r >> \in Fields
  BY <1>1, <1>2, <1>3 DEF Fields
<1>5. ASSUME NEW g \in Fields, p <= g[1], g[1] < r + 2
      PROVE  g = << q, r >>
  <2>1. PICK a \in 1 .. n, b \in 1 .. n : g = << a, b >>
    BY <1>1 DEF Fields
  <2>2. /\ a <= b /\ \A i \in a .. b : input[i] # Comma
        /\ a = 1 \/ input[a - 1] = Comma
        /\ b = n \/ input[b + 1] = Comma
    BY <1>1, <2>1 DEF Fields
  <2>3. p <= a /\ a < r + 2
    BY <1>5, <2>1
  <2>4. input[a] # Comma /\ input[b] # Comma
    BY <2>2
  <2>5. a \notin p .. q - 1
    BY <2>4
  <2>6. a # r + 1
    BY <1>1, <2>4
  <2>7. a \notin q + 1 .. r
    <3> SUFFICES ASSUME a \in q + 1 .. r PROVE FALSE
      OBVIOUS
    <3>1. a - 1 \in q .. r /\ a # 1
      BY <1>2
    <3> QED BY <2>2, <3>1
  <2>8. a = q
    BY <1>2, <2>3, <2>5, <2>6, <2>7
  <2>9. ~(b < r)
    <3> SUFFICES ASSUME b < r PROVE FALSE
      OBVIOUS
    <3>1. b + 1 \in q .. r /\ b # n
      BY <1>2, <2>2, <2>8
    <3> QED BY <2>2, <3>1
  <2>10. ~(b > r)
    <3> SUFFICES ASSUME b > r PROVE FALSE
      OBVIOUS
    <3>1. r + 1 \in a .. b /\ r # n
      BY <1>2, <2>8
    <3> QED BY <1>1, <2>2, <3>1
  <2>11. b = r
    BY <1>2, <2>9, <2>10
  <2> QED BY <2>1, <2>8, <2>11
<1>6. \A g \in Fields : g[1] \in Int
  BY DEF Fields
<1>7. << q, r >>[1] = q /\ p <= q /\ q < r + 2 /\ p < r + 2
  BY <1>2
<1>8. FieldsBelow(r + 2) = FieldsBelow(p) \cup {<< q, r >>}
  <2>1. ASSUME NEW g \in Fields
        PROVE  g[1] < r + 2 <=> g[1] < p \/ g = << q, r >>
    <3>1. PICK a \in Int : a = g[1]
      BY <1>6
    <3>2. CASE a < p
      BY <1>2, <1>7, <3>1, <3>2
    <3>3. CASE p <= a
      BY <1>2, <1>5, <1>7, <3>1, <3>3
    <3> QED BY <3>2, <3>3
  <2> QED BY <1>4, <2>1 DEF FieldsBelow
<1>9. FieldsBefore(<< q, r >>) = FieldsBelow(p)
  <2>1. ASSUME NEW g \in Fields
        PROVE  g[1] < q <=> g[1] < p
    <3>1. PICK a \in Int : a = g[1]
      BY <1>6
    <3>2. CASE a < p
      BY <1>2, <1>7, <3>1, <3>2
    <3>3. CASE p <= a
      <4>1. a < q => g = << q, r >>
        BY <1>2, <1>5, <3>1, <3>3
      <4> QED BY <1>2, <1>7, <3>1, <3>3, <4>1
    <3> QED BY <3>2, <3>3
  <2> QED BY <1>7, <2>1 DEF FieldsBelow, FieldsBefore
<1>10. << q, r >> \notin FieldsBelow(p)
  BY <1>2, <1>7 DEF FieldsBelow
<1> QED BY <1>4, <1>8, <1>9, <1>10

\* What is trimmed of a token is what is trimmed of its field.
LEMMA TokenIsTrimmed ==
  ASSUME input \in Seq(Chars), NEW q \in 1 .. Len(input), NEW r \in 1 .. Len(input), q <= r,
         NEW t, t = SubSeq(input, q, r), NEW f, f[1] = q, f[2] = r
  PROVE  IsTrimmed(f, trim_whitespace(t)) /\ trim_whitespace(t) \in Seq(Chars)
<1>1. PICK n \in Nat : n = Len(input)
  BY LenProperties
<1>2. /\ t \in Seq(Chars) /\ Len(t) = r - q + 1
      /\ \A k \in 1 .. r - q + 1 : t[k] = input[q + k - 1]
  BY <1>1, Stretch
<1>3. \A i \in q .. r : i - q + 1 \in 1 .. r - q + 1 /\ input[i] = t[i - q + 1]
  <2> SUFFICES ASSUME NEW i \in q .. r
               PROVE  i - q + 1 \in 1 .. r - q + 1 /\ input[i] = t[i - q + 1]
    OBVIOUS
  <2>1. PICK k \in 1 .. r - q + 1 : k = i - q + 1 /\ q + k - 1 = i
    BY <1>1
  <2> QED BY <1>2, <2>1
<1>4. CASE trim_whitespace(t) = << >> /\ \A i \in 1 .. Len(t) : t[i] = Space
  <2>1. \A i \in q .. r : input[i] = Space
    BY <1>2, <1>3, <1>4
  <2>2. << >> \in Seq(Chars)
    BY EmptySeq
  <2> QED BY <1>4, <2>1, <2>2 DEF IsTrimmed
<1>5. ASSUME NEW a \in 1 .. Len(t), NEW b \in 1 .. Len(t),
             a <= b, trim_whitespace(t) = SubSeq(t, a, b), t[a] # Space, t[b] # Space,
             \A i \in 1 .. Len(t) : i \in a .. b \/ t[i] = Space
      PROVE  IsTrimmed(f, trim_whitespace(t)) /\ trim_whitespace(t) \in Seq(Chars)
  <2>1. PICK c \in q .. r, d \in q .. r : c = q + a - 1 /\ d = q + b - 1 /\ c <= d
    <3>1. q + a - 1 \in q .. r /\ q + b - 1 \in q .. r /\ q + a - 1 <= q + b - 1
      BY <1>1, <1>2, <1>5
    <3> QED BY <3>1
  <2>2. trim_whitespace(t) = SubSeq(input, c, d)
    <3>1. a \in 1 .. r - q + 1 /\ b \in 1 .. r - q + 1
      BY <1>2
    <3> QED BY <1>5, <2>1, <3>1, SubSeqOfSubSeq
  <2>3. input[c] # Space /\ input[d] # Space
    BY <1>2, <1>5, <2>1
  <2>4. ASSUME NEW i \in q .. r PROVE i \in c .. d \/ input[i] = Space
    <3>1. PICK k \in 1 .. Len(t) : k = i - q + 1 /\ input[i] = t[k]
      BY <1>2, <1>3
    <3>2. k \in a .. b => i \in c .. d
      BY <1>1, <1>2, <2>1, <3>1
    <3> QED BY <1>5, <3>1, <3>2
  <2>5. SubSeq(t, a, b) \in Seq(Chars)
    BY <1>2, <1>5, Stretch
  <2>6. PICK name : name = trim_whitespace(t) /\ name = SubSeq(input, c, d)
    BY <2>2
  <2>7. IsTrimmed(f, name)
    BY <2>1, <2>3, <2>4, <2>6 DEF IsTrimmed
  <2> QED BY <1>5, <2>5, <2>6, <2>7
<1> QED BY <1>2, <1>4, <1>5, TrimIsTrimmed

-----------------------------------------------------------------------------
(* The parser.                                                             *)

\* One turn handles one field.
LEMMA TurnKeepsParseInv ==
  ASSUME ParseInv, NextToken
  PROVE  ParseInv'
<1>1. PICK n \in Nat : n = Len(input)
  BY LenProperties DEF ParseInv
<1>2. PICK p \in 1 .. n + 2 : RestBegins(p) /\ Len(output) = Cardinality(FieldsBelow(p))
  BY <1>1 DEF ParseInv, ParsedTo
<1>3. PICK q \in p .. n, r \in p .. n :
        /\ q <= r /\ token = SubSeq(input, q, r) /\ token # << >>
        /\ start = q - p + 1 /\ Len(token) = r - q + 1
        /\ \A i \in p .. q - 1 : input[i] = Comma
        /\ \A i \in q .. r : input[i] # Comma
        /\ r = n \/ input[r + 1] = Comma
  <2>1. input \in Seq(Chars) /\ p \in Int /\ RestBegins(p) /\ token # << >>
    BY <1>2 DEF ParseInv, NextToken
  <2>2. \E q, r \in p .. Len(input) :
          /\ q <= r /\ token = SubSeq(input, q, r) /\ token # << >>
          /\ start = q - p + 1 /\ Len(token) = r - q + 1
          /\ \A i \in p .. q - 1 : input[i] = Comma
          /\ \A i \in q .. r : input[i] # Comma
          /\ r = Len(input) \/ input[r + 1] = Comma
    BY <2>1, TokenIsNext
  <2> QED BY <1>1, <2>2
<1>4. p \in 1 .. n + 2 /\ q \in 1 .. n /\ r \in 1 .. n /\ p <= n /\ rest = SubSeq(input, p, n)
  BY <1>1, <1>2 DEF RestBegins, From
<1>5. /\ << q, r >> \in Fields /\ << q, r >> \notin FieldsBelow(p)
      /\ FieldsBefore(<< q, r >>) = FieldsBelow(p)
      /\ FieldsBelow(r + 2) = FieldsBelow(p) \cup {<< q, r >>}
  <2>1. q \in p .. Len(input) /\ r \in p .. Len(input) /\ (r = Len(input) \/ input[r + 1] = Comma)
    BY <1>1, <1>3
  <2>2. input \in Seq(Chars)
    BY DEF ParseInv
  <2> QED BY <1>2, <1>3, <2>1, <2>2, TokenIsField
<1>6. Cardinality(FieldsBelow(r + 2)) = Len(output) + 1
  <2>1. input \in Seq(Chars)
    BY DEF ParseInv
  <2>2. IsFiniteSet(FieldsBelow(p))
    BY <2>1, FieldsAreFinite
  <2>3. Cardinality(FieldsBelow(p) \cup {<< q, r >>}) = Cardinality(FieldsBelow(p)) + 1
    BY <1>5, <2>2, FS_AddElement
  <2> QED BY <1>2, <1>5, <2>3
<1>7. PICK name \in Seq(Chars) : name = trim_whitespace(token) /\ IsTrimmed(<< q, r >>, name)
  <2>1. PICK f : f = << q, r >>
    OBVIOUS
  <2>2. IsTrimmed(f, trim_whitespace(token)) /\ trim_whitespace(token) \in Seq(Chars)
    <3>1. f[1] = q /\ f[2] = r
      BY <2>1
    <3> QED BY <1>1, <1>3, <1>4, <3>1, TokenIsTrimmed DEF ParseInv
  <2> QED BY <2>1, <2>2
<1>8. /\ output' = Append(output, name) /\ input' = input /\ Len(output) < MaxNames
      /\ rest' = From(rest, start + Len(token) + 1)
  BY <1>7 DEF NextToken
<1>9. PICK k \in Nat : k = Len(output)
  BY LenProperties DEF ParseInv
<1>10. /\ output' \in Seq(Seq(Chars)) /\ Len(output') = k + 1
       /\ output'[k + 1] = name /\ \A i \in 1 .. k : output'[i] = output[i]
  BY <1>8, <1>9, AppendProperties DEF ParseInv
<1>11. Fields' = Fields
  BY <1>8 DEF Fields
<1>12. rest' = From(input, r + 2)
  <2>1. PICK m \in Nat : m = Len(rest) /\ m = n - p + 1
    <3>1. input \in Seq(Chars) /\ p \in Int /\ RestBegins(p)
      BY <1>2 DEF ParseInv
    <3>2. p <= Len(input) + 1 => Len(rest) = Len(input) - p + 1
      BY <3>1, RestByPosition
    <3>3. n - p + 1 \in Nat /\ p <= n + 1
      BY <1>4
    <3> QED BY <1>1, <3>2, <3>3
  <2>2. PICK j \in 1 .. m + 2 : j = start + Len(token) + 1 /\ j = r - p + 3
    BY <1>3, <1>4, <2>1
  <2>3. rest' = SubSeq(rest, j, m)
    BY <1>8, <2>1, <2>2 DEF From
  <2>4. From(input, r + 2) = SubSeq(input, r + 2, n)
    BY <1>1 DEF From
  <2>5. CASE r + 2 <= n
    <3>1. j \in 1 .. n - p + 1 /\ m \in 1 .. n - p + 1
      BY <1>4, <2>1, <2>2, <2>5
    <3>2. SubSeq(SubSeq(input, p, n), j, m) = SubSeq(input, p + j - 1, p + m - 1)
      BY <1>1, <1>4, <3>1, SubSeqOfSubSeq DEF ParseInv
    <3>3. p + j - 1 = r + 2 /\ p + m - 1 = n
      BY <1>4, <2>1, <2>2
    <3> QED BY <1>4, <2>3, <2>4, <3>2, <3>3
  <2>6. CASE ~(r + 2 <= n)
    <3>1. m < j /\ n < r + 2
      BY <1>4, <2>1, <2>2, <2>6
    <3>2. SubSeq(rest, j, m) = << >> /\ SubSeq(input, r + 2, n) = << >>
      BY <1>4, <2>1, <3>1, SubSeqEmpty
    <3> QED BY <2>3, <2>4, <3>2
  <2> QED BY <2>5, <2>6
<1>13. RestBegins(r + 2)'
  <2>1. r + 2 \in 1 .. n + 2 /\ r + 2 - 1 = r + 1
    BY <1>4
  <2>2. r + 2 \in {1, n + 2} \/ (r + 1 \in 1 .. n /\ input[r + 1] = Comma)
    BY <1>3, <1>4
  <2>3. /\ r + 2 \in 1 .. Len(input') + 2 /\ rest' = From(input', r + 2)
        /\ r + 2 \in {1, Len(input') + 2}
           \/ (r + 2 - 1 \in 1 .. Len(input') /\ input'[r + 2 - 1] = Comma)
    BY <1>1, <1>8, <1>12, <2>1, <2>2
  <2> QED BY <2>3 DEF RestBegins, From
<1>14. ParsedTo(r + 2)' /\ r + 2 \in 1 .. Len(input') + 2
  <2>1. FieldsBelow(r + 2)' = FieldsBelow(r + 2)
    BY <1>11 DEF FieldsBelow
  <2>2. Len(output') = Cardinality(FieldsBelow(r + 2)')
    BY <1>6, <1>9, <1>10, <2>1
  <2>3. r + 2 \in 1 .. Len(input') + 2
    BY <1>1, <1>4, <1>8
  <2> QED BY <1>13, <2>2, <2>3 DEF ParsedTo
<1>15. \A f, nm : IsTrimmed(f, nm)' <=> IsTrimmed(f, nm)
  BY <1>8 DEF IsTrimmed
<1>16. \A f : FieldsBefore(f)' = FieldsBefore(f)
  BY <1>11 DEF FieldsBefore
<1>17. ASSUME NEW i \in 1 .. k + 1, NEW nm, nm = output'[i]
       PROVE  \E f \in Fields : Cardinality(FieldsBefore(f)) = i - 1 /\ IsTrimmed(f, nm)
  <2>1. CASE i = k + 1
    <3>1. Cardinality(FieldsBefore(<< q, r >>)) = i - 1
      BY <1>2, <1>5, <1>9, <2>1
    <3> QED BY <1>5, <1>7, <1>10, <1>17, <2>1, <3>1
  <2>2. CASE i # k + 1
    <3>1. i \in 1 .. k
      BY <2>2
    <3>2. PICK f \in Fields : IsName(f, i)
      BY <1>9, <3>1 DEF ParseInv
    <3> QED BY <1>10, <1>17, <3>1, <3>2 DEF IsName
  <2> QED BY <2>1, <2>2
<1>18. ASSUME NEW i \in 1 .. k + 1
       PROVE  \E f \in Fields : IsName(f, i)'
  <2>1. PICK nm : nm = output'[i]
    OBVIOUS
  <2>2. PICK f \in Fields : Cardinality(FieldsBefore(f)) = i - 1 /\ IsTrimmed(f, nm)
    BY <1>17, <2>1
  <2>3. IsTrimmed(f, nm)' /\ Cardinality(FieldsBefore(f)') = i - 1
    BY <1>15, <1>16, <2>2
  <2>4. IsName(f, i)'
    BY <1>11, <2>1, <2>2, <2>3 DEF IsName
  <2> QED BY <2>4
<1>19. Len(output') <= MaxNames
  BY <1>8, <1>9, <1>10, BoundsAssumption
<1>20. input' \in Seq(Chars)
  BY <1>8 DEF ParseInv
<1> QED BY <1>10, <1>11, <1>14, <1>18, <1>19, <1>20 DEF ParseInv

\* The text as fread left it; nothing is parsed.
LEMMA InitParseInv == ParseInit => ParseInv
<1> SUFFICES ASSUME NEW text \in BoundedTexts, ParseStart(text) PROVE ParseInv
  BY DEF ParseInit
<1>1. PICK n \in Nat : text \in [1 .. n -> Chars]
  BY BoundsAssumption DEF BoundedTexts, Chars
<1>2. text \in Seq(Chars) /\ Len(text) = n
  BY <1>1, SeqDef
<1>3. input = text /\ rest = text /\ output = << >>
  BY DEF ParseStart
<1>4. rest = From(input, 1)
  BY <1>2, <1>3, SubSeqFull DEF From
<1>5. RestBegins(1)
  BY <1>2, <1>3, <1>4 DEF RestBegins
<1>6. FieldsBelow(1) = {}
  BY DEF FieldsBelow, Fields
<1>7. output \in Seq(Seq(Chars)) /\ Len(output) = 0
  BY <1>3, EmptySeq
<1>8. ParsedTo(1) /\ 1 \in 1 .. Len(input) + 2
  <2>1. Cardinality(FieldsBelow(1)) = 0
    BY <1>6, FS_EmptySet
  <2>2. 1 \in 1 .. Len(input) + 2
    BY <1>2, <1>3
  <2> QED BY <1>5, <1>7, <2>1, <2>2 DEF ParsedTo
<1> QED BY <1>2, <1>3, <1>7, <1>8, BoundsAssumption DEF ParseInv

\* The invariant says of the finished parse that no field is left.
LEMMA ParseInvNames ==
  ASSUME ParseInv
  PROVE  NamesAreFields
<1>1. PICK k \in Nat : k = Len(output) /\ DOMAIN output = 1 .. k
  BY LenProperties DEF ParseInv
<1>2. PICK p \in Int : RestBegins(p) /\ k = Cardinality(FieldsBelow(p))
  <2>1. Len(input) \in Nat
    BY LenProperties DEF ParseInv
  <2> QED BY <1>1, <2>1 DEF ParseInv, ParsedTo
<1>3. PICK c \in Nat : c = Cardinality(Fields) /\ k <= c
  BY <1>2, FieldsAreFinite, FS_CardinalityType DEF ParseInv
<1>4. ASSUME token = << >> PROVE k = c
  <2>1. \A i \in p .. Len(input) : input[i] = Comma
    BY <1>2, <1>4, TokenIsNext DEF ParseInv
  <2>2. ASSUME NEW g \in Fields PROVE g[1] < p
    <3>1. g[1] \in 1 .. Len(input) /\ g[1] \in g[1] .. g[2] /\ g[1] \in Int
      BY DEF Fields
    <3>2. input[g[1]] # Comma
      BY <3>1 DEF Fields
    <3>3. Len(input) \in Nat
      BY LenProperties DEF ParseInv
    <3> QED BY <2>1, <3>1, <3>2, <3>3
  <2>3. FieldsBelow(p) = Fields
    BY <2>2 DEF FieldsBelow
  <2> QED BY <1>2, <1>3, <2>3
<1>5. k <= MaxNames /\ MaxNames \in Nat
  BY <1>1, BoundsAssumption DEF ParseInv
<1>6. token = << >> \/ k = MaxNames => k = IF c < MaxNames THEN c ELSE MaxNames
  BY <1>3, <1>4, <1>5
<1>7. ASSUME NEW i \in 1 .. k
      PROVE  \E f \in Fields : Cardinality(FieldsBefore(f)) = i - 1 /\ IsTrimmed(f, output[i])
  BY <1>1 DEF ParseInv, IsName
<1> QED BY <1>1, <1>3, <1>6, <1>7 DEF NamesAreFields

\* The k-th name is the k-th field of the text, trimmed, and none is left out before
\* MAX_METRICS are found, for texts of every length and every MAX_METRICS.
THEOREM ParsedNamesAreFields == ParseSafe => []NamesAreFields
<1>1. ParseInv /\ [ParseNext]_parseVars => ParseInv'
  <2> SUFFICES ASSUME ParseInv, [ParseNext]_parseVars PROVE ParseInv'
    OBVIOUS
  <2>1. CASE NextToken
    BY <2>1, TurnKeepsParseInv
  <2>2. CASE UNCHANGED parseVars
    <3>1. input' = input /\ rest' = rest /\ output' = output
      BY <2>2 DEF parseVars
    <3>2. Fields' = Fields
      BY <3>1 DEF Fields
    <3>3. ASSUME NEW p, ParsedTo(p) PROVE ParsedTo(p)'
      BY <3>1, <3>2, <3>3 DEF ParsedTo, RestBegins, From, FieldsBelow
    <3>4. ASSUME NEW f, NEW k, IsName(f, k) PROVE IsName(f, k)'
      BY <3>1, <3>2, <3>4 DEF IsName, FieldsBefore, IsTrimmed
    <3> QED BY <3>1, <3>2, <3>3, <3>4 DEF ParseInv
  <2> QED BY <2>1, <2>2 DEF ParseNext
<1> QED BY <1>1, InitParseInv, ParseInvNames, PTL DEF ParseSafe
=============================================================================
