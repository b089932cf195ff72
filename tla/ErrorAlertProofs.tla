-------------------------- MODULE ErrorAlertProofs ---------------------------
(***************************************************************************)
(* Proofs about ErrorAlert for every window and every set of readings.     *)
(***************************************************************************)
EXTENDS ErrorAlert, LeastElements, SequenceTheorems, FiniteSetTheorems

Arrived(i) == samples[i] # Missed

\* The expression was true m evaluations ago.
HeldBefore(m) ==
  \E g \in Gauges : \E i, j \in 1 .. Len(samples) :
    /\ Len(samples) - m - Window < i /\ i <= Len(samples) - m
    /\ Len(samples) - m - Window < j /\ j <= Len(samples) - m
    /\ Arrived(i) /\ Arrived(j) /\ samples[i][g] > samples[j][g]

Shown == [Gauges -> Readings]

AlertInv ==
  /\ counter \in Shown
  /\ samples \in Seq(Shown \cup {Missed}) /\ Len(samples) <= 2 * Window
  /\ pending \in 0 .. Window + 1
  /\ \A m \in 0 .. pending - 1 : HeldBefore(m)

\* What Recent leaves of a sequence: its end.
LEMMA RecentIsTheEnd ==
  ASSUME NEW S, NEW s \in Seq(S), NEW n \in Nat,
         NEW d \in Nat, Len(s) > n => d = Len(s) - n, ~(Len(s) > n) => d = 0
  PROVE  /\ Recent(s, n) \in Seq(S)
         /\ Len(Recent(s, n)) = Len(s) - d
         /\ \A i \in 1 .. Len(s) - d : Recent(s, n)[i] = s[i + d]
<1>1. Len(s) \in Nat /\ d <= Len(s)
  BY LenProperties
<1>2. PICK m \in Int, l \in Int : m = d + 1 /\ l = Len(s)
  BY <1>1
<1>3. \A i \in m .. l : s[i] \in S
  BY <1>1, <1>2, ElementOfSeq
<1>4. PICK r : r = SubSeq(s, m, l)
  OBVIOUS
<1>5. /\ r \in Seq(S)
      /\ Len(r) = IF m <= l THEN l - m + 1 ELSE 0
      /\ \A i \in 1 .. l - m + 1 : r[i] = s[m + i - 1]
  BY <1>3, <1>4, SubSeqProperties
<1>6. Recent(s, n) = r
  BY <1>2, <1>4 DEF Recent
<1>7. Len(r) = l - d /\ \A i \in 1 .. l - d : r[i] = s[i + d]
  <2>1. l - m + 1 = l - d /\ d <= l /\ d \in Int
    BY <1>1, <1>2
  <2>2. ASSUME NEW i \in 1 .. l - d PROVE r[i] = s[i + d]
    <3>1. m + i - 1 = i + d
      BY <1>1, <1>2
    <3> QED BY <1>5, <2>1, <3>1
  <2>3. Len(r) = l - d
    <3>1. Len(r) = IF m <= l THEN l - m + 1 ELSE 0
      BY <1>5
    <3>2. CASE m <= l
      BY <2>1, <3>1, <3>2
    <3>3. CASE ~(m <= l)
      <4>1. l = d
        BY <1>2, <2>1, <3>3
      <4> QED BY <2>1, <3>1, <3>3, <4>1
    <3> QED BY <3>2, <3>3
  <2> QED BY <2>2, <2>3
<1> QED BY <1>2, <1>5, <1>6, <1>7

\* The samples by position.
LEMMA SamplesByPosition ==
  ASSUME AlertInv
  PROVE  /\ Len(samples) \in 0 .. 2 * Window /\ DOMAIN samples = 1 .. Len(samples)
         /\ \A i \in 1 .. Len(samples) : samples[i] \in Shown \cup {Missed}
         /\ pending \in 0 .. Window + 1 /\ pending \in Int
BY LenProperties, ElementOfSeq, WindowAssumption DEF AlertInv

\* A scrape that finds the expression true leaves one more evaluation behind that did.
LEMMA ScrapeKeepsAlertInv ==
  ASSUME AlertInv, ScrapeAndEvaluate
  PROVE  AlertInv'
<1> DEFINE S == Shown \cup {Missed}
<1>1. PICK v \in S : samples' = Recent(Append(samples, v), 2 * Window)
  BY DEF AlertInv, ScrapeAndEvaluate
<1>2. PICK a : a = Append(samples, v)
  OBVIOUS
<1>3. PICK d : d = IF Len(a) > 2 * Window THEN Len(a) - 2 * Window ELSE 0
  OBVIOUS
<1>4. /\ a \in Seq(S) /\ Len(a) = Len(samples) + 1
      /\ \A i \in 1 .. Len(samples) : a[i] = samples[i]
  BY <1>2, AppendProperties DEF AlertInv
<1> HIDE DEF S
<1>5. d \in {0, 1} /\ Len(a) <= 2 * Window + d /\ (d = 1 => Len(samples) = 2 * Window)
  <2>1. Len(samples) \in Int /\ Len(samples) <= 2 * Window
    BY SamplesByPosition, WindowAssumption
  <2>2. PICK w \in Int : w = 2 * Window
    BY WindowAssumption
  <2> QED BY <1>3, <1>4, <2>1, <2>2
<1>6. /\ samples' \in Seq(S) /\ Len(samples') = Len(a) - d
      /\ \A i \in 1 .. Len(samples') : samples'[i] = a[i + d]
  <2>1. PICK w \in Nat : w = 2 * Window
    BY WindowAssumption
  <2>2. a \in Seq(S) /\ d \in Nat /\ (Len(a) > w => d = Len(a) - w) /\ (~(Len(a) > w) => d = 0)
    BY <1>3, <1>4, <1>5, <2>1
  <2>3. /\ Recent(a, w) \in Seq(S) /\ Len(Recent(a, w)) = Len(a) - d
        /\ \A i \in 1 .. Len(a) - d : Recent(a, w)[i] = a[i + d]
    BY <2>2, RecentIsTheEnd
  <2> QED BY <1>1, <1>2, <2>1, <2>3
<1>7. \A i \in 1 .. Len(samples) : i > d => i - d \in 1 .. Len(samples') /\ samples'[i - d] = samples[i]
  <2> SUFFICES ASSUME NEW i \in 1 .. Len(samples), i > d
               PROVE  i - d \in 1 .. Len(samples') /\ samples'[i - d] = samples[i]
    OBVIOUS
  <2>1. PICK n \in Nat : n = Len(samples)
    BY LenProperties DEF AlertInv
  <2>2. PICK k \in 1 .. n + 1 - d : k = i - d /\ k + d = i
    BY <1>5, <2>1
  <2>3. Len(samples') = n + 1 - d
    <3>1. Len(a) = n + 1
      BY <1>4, <2>1
    <3>2. n + 1 \in Int /\ d \in Int
      BY <1>5, <2>1
    <3> QED BY <1>6, <3>1, <3>2
  <2>4. samples'[k] = a[i]
    BY <1>6, <2>2, <2>3
  <2>5. a[i] = samples[i]
    BY <1>4
  <2> QED BY <2>2, <2>3, <2>4, <2>5
<1>8. ASSUME NEW m \in 0 .. Window - 1, HeldBefore(m)
      PROVE  HeldBefore(m + 1)'
  <2>1. PICK g \in Gauges, i \in 1 .. Len(samples), j \in 1 .. Len(samples) :
           /\ Len(samples) - m - Window < i /\ i <= Len(samples) - m
           /\ Len(samples) - m - Window < j /\ j <= Len(samples) - m
           /\ Arrived(i) /\ Arrived(j) /\ samples[i][g] > samples[j][g]
    BY <1>8 DEF HeldBefore
  <2>2. Len(samples) \in Nat /\ Len(samples') = Len(samples) + 1 - d /\ Len(samples) + 1 <= 2 * Window + d
    BY <1>4, <1>5, <1>6, SamplesByPosition
  <2>3. i > d /\ j > d
    <3>1. /\ Window \in Int /\ m \in Int /\ m <= Window - 1 /\ Len(samples) \in Int
          /\ i \in Int /\ j \in Int /\ i >= 1 /\ j >= 1
      BY <2>2, WindowAssumption
    <3>2. CASE d = 0
      BY <3>1, <3>2
    <3>3. CASE d = 1
      <4>1. Len(samples) = 2 * Window
        BY <1>5, <3>3
      <4>2. Len(samples) - m - Window >= 1
        BY <3>1, <4>1
      <4> QED BY <2>1, <3>1, <3>3, <4>2
    <3> QED BY <1>5, <3>2, <3>3
  <2>4. PICK k, l \in 1 .. Len(samples') :
           k = i - d /\ l = j - d /\ samples'[k] = samples[i] /\ samples'[l] = samples[j]
    BY <1>7, <2>1, <2>3
  <2>5. /\ Len(samples') - (m + 1) - Window < k /\ k <= Len(samples') - (m + 1)
        /\ Len(samples') - (m + 1) - Window < l /\ l <= Len(samples') - (m + 1)
    BY <1>5, <2>1, <2>2, <2>4, WindowAssumption
  <2> QED BY <2>1, <2>4, <2>5 DEF HeldBefore, Arrived
<1>9. Expr(samples)' => HeldBefore(0)'
  <2> SUFFICES ASSUME Expr(samples)' PROVE HeldBefore(0)'
    OBVIOUS
  <2>1. PICK r : r = Recent(samples', Window)
    OBVIOUS
  <2>2. PICK e : e = IF Len(samples') > Window THEN Len(samples') - Window ELSE 0
    OBVIOUS
  <2>3. /\ e \in Nat /\ Len(samples') - Window <= e /\ Len(r) = Len(samples') - e
        /\ r \in Seq(S) /\ \A i \in 1 .. Len(r) : r[i] = samples'[i + e]
    <3>1. Len(samples') \in Nat
      BY <1>6, LenProperties
    <3>2. /\ e \in Nat /\ (Len(samples') > Window => e = Len(samples') - Window)
          /\ (~(Len(samples') > Window) => e = 0)
      BY <2>2, <3>1, WindowAssumption
    <3>3. PICK s \in Seq(S) : s = samples'
      BY <1>6
    <3>4. /\ r \in Seq(S) /\ Len(r) = Len(s) - e
          /\ \A i \in 1 .. Len(s) - e : r[i] = s[i + e]
      BY <2>1, <3>2, <3>3, RecentIsTheEnd, WindowAssumption
    <3>5. Len(samples') - Window <= e
      BY <3>1, <3>2, WindowAssumption
    <3> QED BY <3>2, <3>3, <3>4, <3>5
  <2>4. PICK g \in Gauges, i \in 1 .. Len(r), j \in 1 .. Len(r) :
           r[i] # Missed /\ r[j] # Missed /\ r[i][g] > r[j][g]
    <3>1. DOMAIN r = 1 .. Len(r)
      BY <2>3, LenProperties
    <3> QED BY <2>1, <3>1 DEF Expr
  <2>5. Len(samples') \in Nat /\ Len(r) \in Nat
    BY <1>6, <2>3, LenProperties
  <2>6. PICK k, l \in 1 .. Len(samples') :
           k = i + e /\ l = j + e /\ samples'[k] = r[i] /\ samples'[l] = r[j]
    BY <2>3, <2>4, <2>5
  <2>7. /\ Len(samples') - 0 - Window < k /\ k <= Len(samples') - 0
        /\ Len(samples') - 0 - Window < l /\ l <= Len(samples') - 0
    BY <2>3, <2>4, <2>5, <2>6, WindowAssumption
  <2> QED BY <2>4, <2>6, <2>7 DEF HeldBefore, Arrived
<1>10. pending' = IF ~Expr(samples') THEN 0 ELSE IF pending > Window THEN pending ELSE pending + 1
  BY DEF ScrapeAndEvaluate, HoldFor
<1>11. pending' \in 0 .. Window + 1
  BY <1>10, WindowAssumption, SamplesByPosition
<1>12. ASSUME NEW np \in 0 .. Window + 1, np <= pending + 1, Expr(samples)',
              NEW m \in 0 .. np - 1
       PROVE  HeldBefore(m)'
  <2>2. CASE m = 0
    BY <1>9, <1>12, <2>2
  <2>3. CASE m > 0
    <3>1. PICK l \in 0 .. Window - 1 : l = m - 1 /\ l <= pending - 1
      <4>1. pending \in Int /\ Window \in Int /\ np \in Int
        BY SamplesByPosition, WindowAssumption
      <4>2. m \in Int /\ m <= np - 1
        BY <4>1
      <4>3. m - 1 \in 0 .. Window - 1 /\ m - 1 <= pending - 1
        BY <1>12, <2>3, <4>1, <4>2
      <4> QED BY <4>3
    <3>2. HeldBefore(l)
      BY <3>1, SamplesByPosition DEF AlertInv
    <3>3. HeldBefore(l + 1)' /\ l + 1 = m
      BY <1>8, <3>1, <3>2
    <3> QED BY <3>3
  <2> QED BY <2>2, <2>3
<1>13. \A m \in 0 .. pending' - 1 : HeldBefore(m)'
  <2>1. CASE Expr(samples')
    <3>1. pending' <= pending + 1
      BY <1>10, <2>1, WindowAssumption, SamplesByPosition
    <3>2. PICK np \in 0 .. Window + 1 : np = pending'
      BY <1>11
    <3>3. \A m \in 0 .. np - 1 : HeldBefore(m)'
      BY <1>12, <2>1, <3>1, <3>2
    <3> QED BY <3>2, <3>3
  <2>2. CASE ~Expr(samples')
    <3>1. pending' = 0
      BY <1>10, <2>2
    <3> QED BY <3>1
  <2> QED BY <2>1, <2>2
<1>14. Len(samples') <= 2 * Window
  <2>1. Len(samples') = Len(a) - d
    BY <1>6
  <2>2. PICK w \in Int : w = 2 * Window
    BY WindowAssumption
  <2>3. Len(a) \in Int /\ d \in Int /\ Len(a) <= w + d
    BY <1>4, <1>5, <2>2, SamplesByPosition
  <2> QED BY <2>1, <2>2, <2>3
<1> QED BY <1>6, <1>11, <1>13, <1>14 DEF S, AlertInv, ScrapeAndEvaluate

\* Every step keeps it.
LEMMA StepAlertInv == AlertInv /\ [AlertNext]_alertVars => AlertInv'
<1> SUFFICES ASSUME AlertInv, [AlertNext]_alertVars PROVE AlertInv'
  OBVIOUS
<1>1. CASE ScrapeAndEvaluate
  BY <1>1, ScrapeKeepsAlertInv
<1>2. CASE CounterChanges \/ UNCHANGED alertVars
  <2>1. samples' = samples /\ pending' = pending /\ counter' \in Shown
    BY <1>2 DEF CounterChanges, alertVars, AlertInv, Shown
  <2>2. \A m : HeldBefore(m)' = HeldBefore(m)
    BY <2>1 DEF HeldBefore, Arrived
  <2> QED BY <2>1, <2>2 DEF AlertInv
<1> QED BY <1>1, <1>2 DEF AlertNext

\* Between two samples that arrived and differ lies a change.
LEMMA ChangeBetween ==
  ASSUME AlertInv, NEW p \in DOMAIN samples, NEW q \in DOMAIN samples, p < q,
         Arrived(p), Arrived(q), samples[p] # samples[q]
  PROVE  \E j \in Changes : p < j /\ j <= q
<1>1. DOMAIN samples = 1 .. Len(samples) /\ Len(samples) \in Nat
  BY SamplesByPosition
<1> DEFINE T == {j \in p + 1 .. q : Arrived(j) /\ samples[j] # samples[p]}
<1>2. T \subseteq Nat /\ q \in T
  BY <1>1
<1> HIDE DEF T
<1>3. PICK j \in T : \A k \in T : j <= k
  BY <1>2, LeastExists
<1> DEFINE U == {i \in p .. j - 1 : Arrived(i)}
<1>4. j \in p + 1 .. q /\ Arrived(j) /\ samples[j] # samples[p]
  BY <1>3 DEF T
<1>5. U \subseteq Nat /\ p \in U /\ \A i \in U : i <= q
  BY <1>1, <1>4
<1> HIDE DEF U
<1>6. PICK i \in U : \A k \in U : k <= i
  <2>1. q \in Nat
    BY <1>1
  <2> QED BY <1>5, <2>1, GreatestExists
<1>7. i \in p .. j - 1 /\ Arrived(i)
  BY <1>6 DEF U
<1>8. samples[i] = samples[p]
  <2>1. i \notin T
    BY <1>1, <1>3, <1>4, <1>7
  <2> QED BY <1>1, <1>4, <1>7, <2>1 DEF T
<1>9. \A k \in i + 1 .. j - 1 : samples[k] = Missed
  BY <1>1, <1>4, <1>6, <1>7 DEF U, Arrived
<1>10. j \in Changes
  BY <1>1, <1>4, <1>7, <1>8, <1>9 DEF Changes, Arrived
<1> QED BY <1>1, <1>4, <1>10

\* A window in which the expression was true holds a change.
LEMMA ChangeInWindow ==
  ASSUME AlertInv, NEW m \in Nat, HeldBefore(m)
  PROVE  \E j \in Changes : j > Len(samples) - m - Window + 1 /\ j <= Len(samples) - m
<1>1. PICK g \in Gauges, i \in 1 .. Len(samples), j \in 1 .. Len(samples) :
         /\ Len(samples) - m - Window < i /\ i <= Len(samples) - m
         /\ Len(samples) - m - Window < j /\ j <= Len(samples) - m
         /\ Arrived(i) /\ Arrived(j) /\ samples[i][g] > samples[j][g]
  BY DEF HeldBefore
<1>2. samples[i][g] \in Int /\ samples[j][g] \in Int /\ i \in Int /\ j \in Int /\ Len(samples) \in Nat
  <2>1. samples[i] \in Shown /\ samples[j] \in Shown
    BY <1>1, SamplesByPosition DEF Arrived
  <2>2. Len(samples) \in Nat
    BY SamplesByPosition
  <2>3. samples[i][g] \in Int /\ samples[j][g] \in Int
    BY <2>1, ReadingsAssumption DEF Shown
  <2> QED BY <2>2, <2>3
<1>3. samples[i] # samples[j] /\ i # j
  BY <1>1, <1>2
<1>4. Len(samples) - m \in Int /\ Len(samples) - m - Window \in Int
  BY <1>2, WindowAssumption
<1> DEFINE top == Len(samples) - m
<1> DEFINE n == Len(samples) - m - Window
<1>5. n < i /\ i <= top /\ n < j /\ j <= top /\ n \in Int /\ top \in Int
  BY <1>1, <1>4
<1> HIDE DEF n, top
<1>6. CASE i < j
  <2>1. PICK c \in Changes : i < c /\ c <= j
    BY <1>1, <1>3, <1>6, ChangeBetween, SamplesByPosition
  <2>2. c \in Int
    BY SamplesByPosition DEF Changes
  <2>3. c > n + 1 /\ c <= top
    BY <1>2, <1>5, <2>1, <2>2
  <2> QED BY <2>1, <2>3 DEF n, top
<1>7. CASE j < i
  <2>1. PICK c \in Changes : j < c /\ c <= i
    BY <1>1, <1>3, <1>7, ChangeBetween, SamplesByPosition
  <2>2. c \in Int
    BY SamplesByPosition DEF Changes
  <2>3. c > n + 1 /\ c <= top
    BY <1>2, <1>5, <2>1, <2>2
  <2> QED BY <2>1, <2>3 DEF n, top
<1> QED BY <1>2, <1>3, <1>6, <1>7

\* What changes at one scrape never fires the rule: for every set of gauges and every
\* window, when it fires, the samples of the last two windows show changes at two
\* scrapes at least, of the same gauge or of two.
THEOREM AlertNeedsTwoChanges == AlertSafe => []FiringNeedsTwoChanges
<1>1. AlertInit => AlertInv
  BY WindowAssumption DEF AlertInit, AlertStart, AlertInv, Shown
<1>2. AlertInv => FiringNeedsTwoChanges
  <2> SUFFICES ASSUME AlertInv, Firing PROVE Cardinality(Changes) >= 2
    BY DEF FiringNeedsTwoChanges
  <2>1. HeldBefore(0) /\ HeldBefore(Window)
    BY WindowAssumption DEF Firing, HoldFor, AlertInv
  <2>2. PICK c \in Changes : c > Len(samples) - Window + 1
    BY <2>1, ChangeInWindow, SamplesByPosition
  <2>3. PICK d \in Changes : d <= Len(samples) - Window
    BY <2>1, ChangeInWindow, WindowAssumption
  <2>4. c # d
    BY <2>2, <2>3, SamplesByPosition, WindowAssumption DEF Changes
  <2>5. IsFiniteSet(Changes)
    <3>1. Changes \subseteq 1 .. Len(samples) /\ Len(samples) \in Nat
      BY SamplesByPosition, WindowAssumption DEF Changes
    <3>2. IsFiniteSet(1 .. Len(samples))
      BY <3>1, FS_Interval
    <3> QED BY <3>1, <3>2, FS_Subset
  <2>6. Cardinality({c, d}) = 2
    <3>1. Cardinality({c}) = 1 /\ IsFiniteSet({c}) /\ {c} \cup {d} = {c, d}
      BY FS_Singleton
    <3> QED BY <2>4, <3>1, FS_AddElement
  <2>7. Cardinality({c, d}) <= Cardinality(Changes) /\ Cardinality(Changes) \in Nat
    BY <2>5, FS_Subset, FS_CardinalityType
  <2> QED BY <2>6, <2>7
<1> QED BY <1>1, <1>2, StepAlertInv, PTL DEF AlertSafe
=============================================================================
