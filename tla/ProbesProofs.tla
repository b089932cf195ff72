---------------------------- MODULE ProbesProofs -----------------------------
(***************************************************************************)
(* Proofs about the probes of metrics.c: CpuUsage for every word size,     *)
(* NetworkTraffic for every set of interfaces, ProcessScan for every set   *)
(* of processes, MemoryProbes for every size of the memory, Sensors for    *)
(* all contents of their files.                                            *)
(***************************************************************************)
EXTENDS CpuUsage, NetworkTraffic, ProcessScan, MemoryProbes, Sensors,
        FiniteSetTheorems, TLAPS

-----------------------------------------------------------------------------
(* get_cpu_usage: the counters of /proc/stat.                              *)

\* The counters are those of the last successful sample, moved by what was spent
\* since, modulo Word.
Anchored ==
  /\ idle = IF spentIdle >= 0 THEN Plus(prev_idle, spentIdle)
                              ELSE Minus(prev_idle, -spentIdle)
  /\ busy = Plus(prev_busy, spentBusy)

CpuInv == CpuTypeOK /\ Anchored /\ ShareIsTrue

\* Before the first sample the counters saved are the zeros of the statics.
LEMMA InitCpuInv == CpuInit => CpuInv
BY WordAssumption DEF CpuInit, CpuInv, CpuTypeOK, Anchored, ShareIsTrue, Plus, RETURN_ERROR

\* The ticks of the kernel move the counters and the history together.
LEMMA TicksKeepCpuInv ==
  ASSUME CpuInv, TickIdle \/ TickBusy \/ IowaitDrops
  PROVE  CpuInv'
<1> USE WordAssumption DEF CpuInv, CpuTypeOK, statics, Plus, Minus
<1>1. CASE TickIdle
  <2>1. CpuTypeOK' /\ ShareIsTrue'
    BY <1>1 DEF TickIdle, ShareIsTrue
  <2>2. Anchored'
    BY <1>1 DEF TickIdle, Anchored
  <2> QED BY <2>1, <2>2
<1>2. CASE TickBusy
  <2>1. CpuTypeOK' /\ ShareIsTrue'
    BY <1>2 DEF TickBusy, ShareIsTrue
  <2>2. Anchored'
    BY <1>2 DEF TickBusy, Anchored
  <2> QED BY <2>1, <2>2
<1>3. CASE IowaitDrops
  <2>1. CpuTypeOK' /\ ShareIsTrue'
    BY <1>3 DEF IowaitDrops, ShareIsTrue
  <2>2. Anchored'
    BY <1>3 DEF IowaitDrops, Anchored
  <2> QED BY <2>1, <2>2
<1> QED BY <1>1, <1>2, <1>3

\* The two unsigned differences are the ticks that were spent, wherever the
\* counters and their sums wrapped.
LEMMA DifferencesAreSpent ==
  ASSUME CpuInv, spentIdle >= 0
  PROVE  /\ idled = spentIdle
         /\ totald = spentIdle + spentBusy
         /\ Minus(totald, idled) = spentBusy
<1> USE WordAssumption DEF CpuInv, CpuTypeOK, Anchored
<1>1. idled = spentIdle
  BY DEF idled, Plus, Minus
<1>2. totald = spentIdle + spentBusy
  BY DEF totald, Plus, Minus
<1> QED BY <1>1, <1>2 DEF Minus

\* A successful sample saves both counters.
LEMMA SampleKeepsCpuInv ==
  ASSUME CpuInv, Sample
  PROVE  CpuInv'
<1> USE WordAssumption DEF CpuInv, CpuTypeOK
<1>1. totald \in 1 .. Word - 1 /\ Minus(totald, idled) \in Int
  BY DEF Sample, totald, idled, Plus, Minus
<1>2. CpuTypeOK'
  BY <1>1 DEF Sample, counters
<1>3. Anchored'
  BY DEF Sample, counters, Anchored, Plus
<1>4. ShareIsTrue'
  <2> SUFFICES ASSUME interval'.idle >= 0
               PROVE  share' = [used |-> spentBusy, of |-> spentIdle + spentBusy]
    BY DEF ShareIsTrue, Sample
  <2>1. spentIdle >= 0
    BY DEF Sample
  <2> QED BY <2>1, DifferencesAreSpent DEF Sample
<1> QED BY <1>2, <1>3, <1>4

\* Every step keeps it: calls, failures, ticks.
LEMMA StepCpuInv == CpuInv /\ [CpuNext]_cpuVars => CpuInv'
<1> SUFFICES ASSUME CpuInv, [CpuNext]_cpuVars PROVE CpuInv'
  OBVIOUS
<1>1. CASE TickIdle \/ TickBusy \/ IowaitDrops
  BY <1>1, TicksKeepCpuInv
<1>2. CASE Sample
  BY <1>2, SampleKeepsCpuInv
<1>3. CASE FailedSample
  BY <1>3 DEF FailedSample, counters, statics, spent, CpuInv, CpuTypeOK, Anchored,
              ShareIsTrue, RETURN_ERROR
<1>4. CASE UNCHANGED cpuVars
  BY <1>4 DEF cpuVars, counters, statics, spent, CpuInv, CpuTypeOK, Anchored, ShareIsTrue
<1> QED BY <1>1, <1>2, <1>3, <1>4 DEF CpuNext, get_cpu_usage

\* The invariant of get_cpu_usage.
LEMMA AlwaysCpuInv == CpuSafe => []CpuInv
BY InitCpuInv, StepCpuInv, PTL DEF CpuSafe

\* Whatever the word size, the failed calls and the wraps, get_cpu_usage returns
\* the busy share of the interval since the last call that succeeded
\* (metrics.c:119-176).
THEOREM CpuShareIsTrue == CpuSafe => []ShareIsTrue
<1>1. CpuInv => ShareIsTrue
  BY DEF CpuInv
<1> QED BY <1>1, AlwaysCpuInv, PTL

\* ... and so a number between 0 and 100 percent, or the error
\* (include/metrics.h:75), as long as the idle sum does not fall behind.
InRange ==
  share # RETURN_ERROR /\ interval.idle >= 0 => share.used \in 0 .. share.of

\* For every word size, get_cpu_usage returns between 0 and 100 percent or the error,
\* unless the idle sum fell behind (metrics.c:155-164).
THEOREM CpuShareInRange == CpuSafe => []InRange
<1>1. CpuInv => InRange
  BY DEF CpuInv, CpuTypeOK, ShareIsTrue, InRange
<1> QED BY <1>1, AlwaysCpuInv, PTL

-----------------------------------------------------------------------------
(* get_network_traffic: the interface.                                     *)

Links == Interfaces \cup {Loopback}

\* The interfaces that may have been read so far.
Readable ==
  IF env_iface # Unset THEN {env_iface}
  ELSE {detected_iface} \cup (IF fellBack THEN {NETWORK_INTERFACE} ELSE {})

\* A call that has chosen, and every call before it, stays with them; once an
\* interface is detected, it does not change.
NetInv ==
  /\ listed \in Seq(Links)
  /\ detected_iface \in Interfaces \cup {Unset}
  /\ fellBack \in BOOLEAN
  /\ sources \subseteq Readable \ {Unset}
  /\ call = "chosen" => monitored_iface \in Readable \ {Unset}

\* Nothing is read at the start.
LEMMA InitNetInv == NetInit => NetInv
<1> SUFFICES ASSUME NetInit PROVE NetInv
  OBVIOUS
<1>1. listed \in Seq(Links)
  <2>1. listed = << Loopback >> /\ Loopback \in Links
    BY DEF NetInit, NetStart, Links
  <2> QED BY <2>1
<1> QED BY <1>1 DEF NetInit, NetStart, NetInv

\* Links that come and go do not touch the choice.
LEMMA KernelKeepsNetInv ==
  ASSUME NetInv, Kernel
  PROVE  NetInv'
<1>1. PICK i \in Interfaces : LinkAdded(i) \/ LinkRemoved(i)
  BY DEF Kernel
<1>2. listed' \in Seq(Links)
  <2>1. CASE LinkAdded(i)
    BY <2>1 DEF LinkAdded, NetInv, Links
  <2>2. CASE LinkRemoved(i)
    <3>1. PICK k \in DOMAIN listed : listed' = RemoveAt(listed, k)
      BY <2>2 DEF LinkRemoved
    <3>2. listed \in Seq(Links) /\ k \in 1 .. Len(listed)
      BY DEF NetInv
    <3>3. SubSeq(listed, 1, k - 1) \in Seq(Links) /\ SubSeq(listed, k + 1, Len(listed)) \in Seq(Links)
      BY <3>2
    <3> QED BY <3>1, <3>3 DEF RemoveAt
  <2> QED BY <1>1, <2>1, <2>2
<1>3. UNCHANGED << env_iface, program, sources, fellBack >>
  BY <1>1 DEF LinkAdded, LinkRemoved
<1> QED BY <1>2, <1>3 DEF NetInv, program, Readable

\* The choice of an interface stays among those that may be read.
LEMMA ChoiceKeepsNetInv ==
  ASSUME NetInv, get_monitored_interface
  PROVE  NetInv'
<1> USE InterfacesAssumption DEF NetInv, Readable
<1>1. UNCHANGED << env_iface, listed, sources >>
  BY DEF get_monitored_interface
<1>2. CASE env_iface # Unset
  BY <1>1, <1>2 DEF get_monitored_interface
<1>3. CASE env_iface = Unset /\ detected_iface # Unset
  BY <1>1, <1>3 DEF get_monitored_interface
<1>4. CASE env_iface = Unset /\ detected_iface = Unset
  <2>1. CASE FallBack
    BY <1>1, <1>4, <2>1 DEF FallBack
  <2>2. CASE \E i \in Interfaces : Detect(i)
    <3>1. PICK i \in Interfaces : Detect(i)
      BY <2>2
    <3> QED BY <1>1, <1>4, <3>1 DEF Detect
  <2> QED BY <1>4, <2>1, <2>2 DEF get_monitored_interface
<1> QED BY <1>2, <1>3, <1>4

\* Every step keeps it: calls, and links that come and go.
LEMMA StepNetInv == NetInv /\ [NetNext]_netVars => NetInv'
<1> SUFFICES ASSUME NetInv, [NetNext]_netVars PROVE NetInv'
  OBVIOUS
<1>1. CASE Kernel
  BY <1>1, KernelKeepsNetInv
<1>2. CASE OpenDev
  BY <1>2 DEF OpenDev, NetInv, Readable
<1>3. CASE get_monitored_interface
  BY <1>3, ChoiceKeepsNetInv
<1>4. CASE ReadDev
  BY <1>4 DEF ReadDev, NetInv, Readable
<1>5. CASE UNCHANGED netVars
  BY <1>5 DEF netVars, program, NetInv, Readable
<1> QED BY <1>1, <1>2, <1>3, <1>4, <1>5 DEF NetNext, get_network_traffic

\* The invariant of get_network_traffic.
LEMMA AlwaysNetInv == NetSafe => []NetInv
BY InitNetInv, StepNetInv, PTL DEF NetSafe

\* Whatever interfaces come and go, and between whichever two calls, the five
\* network gauges are about one interface (metrics.c:11-58, 369-412).
THEOREM NetworkOneInterface == NetSafe => []OneInterface
<1>1. NetInv => OneInterface
  BY InterfacesAssumption DEF NetInv, Readable, OneInterface
<1> QED BY <1>1, AlwaysNetInv, PTL

-----------------------------------------------------------------------------
(* get_process_states: the walk over /proc.                                *)

Numbers == {"total", "suspended", "ready", "blocked"}

\* The bounds of ScanIsBounded, for the processes that the walk has passed.
Visited   == Pids \ left
Stayed    == {p \in Visited : Gone \notin seen[p]}
There     == {p \in Visited : seen[p] # {Gone}}
Always(s) == {p \in Visited \cap Plain : seen[p] = {s}}
Ever(s)   == {p \in Visited : p \in Plain => s \in seen[p]}

ScanTypes ==
  /\ proc \in [Pids -> Letters \cup {Gone}]
  /\ seen \in [Pids -> SUBSET (Letters \cup {Gone})]
  /\ scan \in {"walking", "returned"} /\ left \subseteq Pids
  /\ count \in [Numbers -> Nat]

ScanInv ==
  /\ ScanTypes
  /\ scan = "walking" =>
       /\ \A p \in Pids : proc[p] \in seen[p]
       /\ Cardinality(Stayed) <= count.total /\ count.total <= Cardinality(There)
       /\ \A s \in DOMAIN Counted : /\ Cardinality(Always(s)) <= count[Counted[s]]
                                    /\ count[Counted[s]] <= Cardinality(Ever(s))

-----------------------------------------------------------------------------
(* Sizes of finite sets.                                                   *)

\* A subset has no more elements.
LEMMA FewerInSubset ==
  ASSUME NEW A, NEW B, IsFiniteSet(B), A \subseteq B
  PROVE  IsFiniteSet(A) /\ Cardinality(A) \in Nat /\ Cardinality(B) \in Nat
         /\ Cardinality(A) <= Cardinality(B)
BY FS_Subset, FS_CardinalityType

\* A set that grows by one element at most.
LEMMA OneMoreAtMost ==
  ASSUME NEW A, NEW B, NEW p, IsFiniteSet(A), B \subseteq A \cup {p}
  PROVE  Cardinality(B) <= Cardinality(A) + 1
<1>1. IsFiniteSet(A \cup {p}) /\ Cardinality(A \cup {p}) <= Cardinality(A) + 1
  <2>1. Cardinality(A) \in Nat
    BY FS_CardinalityType
  <2>2. \/ Cardinality(A \cup {p}) = Cardinality(A)
        \/ Cardinality(A \cup {p}) = Cardinality(A) + 1
    BY FS_AddElement
  <2> QED BY <2>1, <2>2, FS_AddElement
<1>2. /\ Cardinality(B) \in Nat /\ Cardinality(A \cup {p}) \in Nat
      /\ Cardinality(B) <= Cardinality(A \cup {p})
  BY <1>1, FewerInSubset
<1>3. Cardinality(A) \in Nat
  BY FS_CardinalityType
<1> QED BY <1>1, <1>2, <1>3

\* A set that grows by one element at least.
LEMMA OneMoreAtLeast ==
  ASSUME NEW A, NEW B, NEW p, IsFiniteSet(B), A \subseteq B, p \in B, p \notin A
  PROVE  Cardinality(A) + 1 <= Cardinality(B)
<1>1. IsFiniteSet(A)
  BY FewerInSubset
<1>2. Cardinality(A \cup {p}) = Cardinality(A) + 1
  BY <1>1, FS_AddElement
<1>3. A \cup {p} \subseteq B
  OBVIOUS
<1> QED BY <1>2, <1>3, FewerInSubset

\* There are finitely many processes.
LEMMA BoundsAreFinite ==
  /\ IsFiniteSet(Stayed) /\ IsFiniteSet(There)
  /\ \A s : IsFiniteSet(Always(s)) /\ IsFiniteSet(Ever(s))
BY PidsAssumption, FS_Subset DEF Stayed, There, Always, Ever, Visited

-----------------------------------------------------------------------------
(* The steps.                                                              *)

\* No walk at the start.
LEMMA InitScanInv == ScanInit => ScanInv
BY DEF ScanInit, ScanInv, ScanTypes, None, Numbers, Letters

\* What was so all the time becomes less, what was so at some time more.
LEMMA ChangeKeepsScanInv ==
  ASSUME ScanInv, NEW p \in Pids, ProcessChanges(p)
  PROVE  ScanInv'
<1>1. PICK s \in Letters \cup {Gone} :
         /\ proc' = [proc EXCEPT ![p] = s]
         /\ seen' = IF scan = "walking" THEN [seen EXCEPT ![p] = @ \cup {s}] ELSE seen
  BY DEF ProcessChanges
<1>2. scan' = scan /\ left' = left /\ count' = count
  BY DEF ProcessChanges
<1>3. ScanTypes'
  BY <1>1, <1>2 DEF ScanInv, ScanTypes
<1>4. ASSUME scan = "walking"
      PROVE  /\ \A q \in Pids : proc'[q] \in seen'[q]
             /\ Cardinality(Stayed') <= count.total /\ count.total <= Cardinality(There')
             /\ \A t \in DOMAIN Counted : /\ Cardinality(Always(t)') <= count[Counted[t]]
                                          /\ count[Counted[t]] <= Cardinality(Ever(t)')
  <2>1. \A q \in Pids : /\ seen[q] \subseteq seen'[q] /\ proc[q] \in seen[q]
                        /\ seen'[q] \subseteq seen[q] \cup {s}
    BY <1>1, <1>4 DEF ScanInv, ScanTypes
  <2>2. \A q \in Pids : proc'[q] \in seen'[q]
    BY <1>1, <1>4 DEF ScanInv, ScanTypes
  <2>3. Stayed' \subseteq Stayed /\ There \subseteq There'
    BY <1>2, <2>1 DEF Stayed, There, Visited
  <2>4. \A t : Always(t)' \subseteq Always(t) /\ Ever(t) \subseteq Ever(t)'
    BY <1>2, <2>1 DEF Always, Ever, Visited, Plain
  <2>5. \A q \in Numbers : count[q] \in Nat
    BY DEF ScanInv, ScanTypes
  <2>6. \A t \in DOMAIN Counted : Counted[t] \in Numbers
    BY DEF Counted, Numbers
  <2>7. /\ IsFiniteSet(There') /\ \A t : IsFiniteSet(Ever(t)')
    BY PidsAssumption, FS_Subset DEF There, Ever, Visited
  <2>8. Cardinality(Stayed') <= count.total /\ count.total <= Cardinality(There')
    BY <1>4, <2>3, <2>5, <2>7, BoundsAreFinite, FewerInSubset DEF ScanInv, Numbers
  <2>9. ASSUME NEW t \in DOMAIN Counted
        PROVE  /\ Cardinality(Always(t)') <= count[Counted[t]]
               /\ count[Counted[t]] <= Cardinality(Ever(t)')
    BY <1>4, <2>4, <2>5, <2>6, <2>7, BoundsAreFinite, FewerInSubset DEF ScanInv
  <2> QED BY <2>2, <2>8, <2>9
<1> QED BY <1>2, <1>3, <1>4 DEF ScanInv

\* Nothing is counted when the walk begins.
LEMMA OpenKeepsScanInv ==
  ASSUME ScanInv, OpenProc
  PROVE  ScanInv'
<1>1. /\ scan' = "walking" /\ left' = Pids /\ count' = None /\ proc' = proc
      /\ seen' = [p \in Pids |-> {proc[p]}]
  BY DEF OpenProc
<1>2. ScanTypes'
  BY <1>1 DEF ScanInv, ScanTypes, None, Numbers
<1>3. \A p \in Pids : proc'[p] \in seen'[p]
  BY <1>1
<1>4. Stayed' = {} /\ There' = {} /\ \A s : Always(s)' = {} /\ Ever(s)' = {}
  BY <1>1 DEF Stayed, There, Always, Ever, Visited
<1>5. count'.total = 0 /\ \A s \in DOMAIN Counted : count'[Counted[s]] = 0
  BY <1>1 DEF None, Counted
<1>6. Cardinality({}) = 0
  BY FS_EmptySet
<1> QED BY <1>2, <1>3, <1>4, <1>5, <1>6 DEF ScanInv

\* A process that is counted is there, and one that is not was not there all
\* the time; the same for its state.
LEMMA ReadKeepsScanInv ==
  ASSUME ScanInv, ReadStat
  PROVE  ScanInv'
<1>1. PICK p \in left :
        /\ left' = left \ {p}
        /\ count' = IF proc[p] = Gone THEN count ELSE Tally(StateRead(p))
  BY DEF ReadStat
<1>2. scan = "walking" /\ scan' = scan /\ proc' = proc /\ seen' = seen
  BY DEF ReadStat
<1>3. p \in Pids /\ p \notin Visited /\ Visited' = Visited \cup {p} /\ proc[p] \in seen[p]
  BY <1>1, <1>2 DEF ScanInv, ScanTypes, Visited
<1>4. DOMAIN count = Numbers /\ \A k \in Numbers : count[k] \in Nat
  BY DEF ScanInv, ScanTypes
<1>5. \A s \in DOMAIN Counted : Counted[s] \in Numbers /\ Counted[s] # "total" /\ s # Gone
  BY CommAssumption DEF Counted, Numbers, Letters
<1>6. \A s \in DOMAIN Counted :
        count'[Counted[s]] = count[Counted[s]] +
          IF proc[p] # Gone /\ StateRead(p) = s THEN 1 ELSE 0
  <2>1. \A s, t \in DOMAIN Counted : Counted[s] = Counted[t] => s = t
    BY DEF Counted
  <2> QED BY <1>1, <1>4, <1>5, <2>1 DEF Tally
<1>7. count'.total = count.total + IF proc[p] # Gone THEN 1 ELSE 0
  BY <1>1, <1>4 DEF Tally, Numbers
<1>8. count' \in [Numbers -> Nat]
  BY <1>1, <1>4 DEF Tally, ScanInv, ScanTypes
<1>9. ScanTypes'
  BY <1>1, <1>2, <1>8 DEF ScanInv, ScanTypes
<1>10. /\ IsFiniteSet(There') /\ IsFiniteSet(Stayed')
       /\ \A s : IsFiniteSet(Ever(s)') /\ IsFiniteSet(Always(s)')
  BY PidsAssumption, FS_Subset, <1>3 DEF There, Stayed, Ever, Always, Visited
<1>11. /\ Stayed \subseteq Stayed' /\ Stayed' \subseteq Stayed \cup {p}
       /\ There \subseteq There' /\ p \notin There
       /\ proc[p] = Gone => Stayed' = Stayed
       /\ proc[p] # Gone => p \in There'
  BY <1>2, <1>3 DEF Stayed, There
<1>12. Cardinality(Stayed') <= count'.total /\ count'.total <= Cardinality(There')
  <2>1. /\ Cardinality(Stayed) \in Nat /\ Cardinality(There) \in Nat
        /\ Cardinality(Stayed') \in Nat /\ Cardinality(There') \in Nat /\ count.total \in Nat
    BY <1>4, <1>10, BoundsAreFinite, FS_CardinalityType DEF Numbers
  <2>2. Cardinality(Stayed) <= count.total /\ count.total <= Cardinality(There)
    BY <1>2 DEF ScanInv
  <2>3. CASE proc[p] = Gone
    <3>1. Cardinality(There) <= Cardinality(There')
      BY <1>10, <1>11, FewerInSubset
    <3> QED BY <1>7, <1>11, <2>1, <2>2, <2>3, <3>1
  <2>4. CASE proc[p] # Gone
    <3>1. Cardinality(Stayed') <= Cardinality(Stayed) + 1
      BY <1>11, BoundsAreFinite, OneMoreAtMost
    <3>2. Cardinality(There) + 1 <= Cardinality(There')
      BY <1>10, <1>11, <2>4, OneMoreAtLeast
    <3> QED BY <1>7, <2>1, <2>2, <2>4, <3>1, <3>2
  <2> QED BY <2>3, <2>4
<1>13. ASSUME NEW s \in DOMAIN Counted
       PROVE  /\ Cardinality(Always(s)') <= count'[Counted[s]]
              /\ count'[Counted[s]] <= Cardinality(Ever(s)')
  <2>1. /\ Always(s) \subseteq Always(s)' /\ Always(s)' \subseteq Always(s) \cup {p}
        /\ Ever(s) \subseteq Ever(s)' /\ p \notin Ever(s)
    BY <1>2, <1>3 DEF Always, Ever, Plain
  <2>2. /\ Cardinality(Always(s)) \in Nat /\ Cardinality(Ever(s)) \in Nat
        /\ Cardinality(Always(s)') \in Nat /\ Cardinality(Ever(s)') \in Nat
        /\ count[Counted[s]] \in Nat
    BY <1>4, <1>5, <1>10, BoundsAreFinite, FS_CardinalityType
  <2>3. Cardinality(Always(s)) <= count[Counted[s]] /\ count[Counted[s]] <= Cardinality(Ever(s))
    BY <1>2 DEF ScanInv
  <2>4. CASE proc[p] # Gone /\ StateRead(p) = s
    <3>1. p \in Ever(s)'
      BY <1>2, <1>3, <2>4 DEF Ever, Plain, StateRead
    <3>2. Cardinality(Always(s)') <= Cardinality(Always(s)) + 1
      BY <2>1, BoundsAreFinite, OneMoreAtMost
    <3>3. Cardinality(Ever(s)) + 1 <= Cardinality(Ever(s)')
      BY <1>10, <2>1, <3>1, OneMoreAtLeast
    <3> QED BY <1>6, <2>2, <2>3, <2>4, <3>2, <3>3
  <2>5. CASE ~(proc[p] # Gone /\ StateRead(p) = s)
    <3>1. p \notin Always(s)'
      BY <1>2, <1>3, <1>5, <2>5 DEF Always, Plain, StateRead
    <3>2. Always(s)' = Always(s)
      BY <2>1, <3>1
    <3>3. Cardinality(Ever(s)) <= Cardinality(Ever(s)')
      BY <1>10, <2>1, FewerInSubset
    <3> QED BY <1>6, <2>2, <2>3, <2>5, <3>2, <3>3
  <2> QED BY <2>4, <2>5
<1>14. \A q \in Pids : proc'[q] \in seen'[q]
  BY <1>2 DEF ScanInv
<1> QED BY <1>9, <1>12, <1>13, <1>14 DEF ScanInv

\* Every step keeps it: of the walk and of the processes.
LEMMA StepScanInv == ScanInv /\ [ScanNext]_scanVars => ScanInv'
<1> SUFFICES ASSUME ScanInv, [ScanNext]_scanVars PROVE ScanInv'
  OBVIOUS
<1>1. CASE CloseProc
  BY <1>1 DEF CloseProc, ScanInv, ScanTypes
<1>2. CASE UNCHANGED scanVars
  <2>1. /\ Stayed' = Stayed /\ There' = There
        /\ \A s : Always(s)' = Always(s) /\ Ever(s)' = Ever(s)
    BY <1>2 DEF scanVars, Stayed, There, Always, Ever, Visited, Plain
  <2> QED BY <1>2, <2>1 DEF scanVars, ScanInv, ScanTypes
<1> QED BY <1>1, <1>2, ChangeKeepsScanInv, OpenKeepsScanInv, ReadKeepsScanInv DEF ScanNext

-----------------------------------------------------------------------------
\* For every set of processes, however they start, end and change state during the
\* walk, the total lies between the number of those that were there all the time and
\* of those that were there at some time, and so does the number in each state as far
\* as processes without a blank in their name go: the others are left out of these
\* bounds, because metrics.c:261 takes their state from a letter of the name.
THEOREM CountsAreBounded == ScanSafe => []ScanIsBounded
<1>1. ScanInv => ScanIsBounded
  <2> SUFFICES ASSUME ScanInv, scan = "walking", left = {} PROVE ScanIsBounded
    BY DEF ScanIsBounded, WalkIsOver
  <2>1. Visited = Pids
    BY DEF Visited
  <2>2. /\ Stayed = {p \in Pids : Gone \notin seen[p]}
        /\ There = {p \in Pids : seen[p] # {Gone}}
    BY <2>1 DEF Stayed, There
  <2>3. \A s : /\ Always(s) = {p \in Plain : seen[p] = {s}}
               /\ Ever(s) = {p \in Pids : p \in Plain => s \in seen[p]}
    BY <2>1 DEF Always, Ever, Plain
  <2>4. \A k \in Numbers : count[k] \in Nat
    BY DEF ScanInv, ScanTypes
  <2> QED BY <2>2, <2>3, <2>4 DEF ScanInv, ScanIsBounded, StatesWithin
<1> QED BY <1>1, InitScanInv, StepScanInv, PTL DEF ScanSafe

\* Where no name has a blank, the number in each state holds for all processes, as the
\* header says: the blank is the only cause of the miscount.
THEOREM PlainNamesAreCounted ==
  ASSUME Plain = Pids
  PROVE  ScanSafe => []EveryStateIsCounted
<1>1. ScanIsBounded => EveryStateIsCounted
  BY DEF ScanIsBounded, EveryStateIsCounted
<1> QED BY <1>1, CountsAreBounded, PTL

-----------------------------------------------------------------------------
(* Sizes.                                                                  *)

\* A number below 2^64 is itself as an unsigned one.
LEMMA UnsignedSmall == \A a \in 0 .. Word64 - 1 : Unsigned(a) = a
BY SizesAssumption DEF Unsigned

Probes == {"total", "used", "available", "memory_usage", "disk_usage"}
IsShare(v) == v = ErrorPercent \/ v.used \in 0 .. v.of

MemoryInv == /\ DOMAIN reported = Probes
             /\ reported = [p \in Probes |-> reported[p]]
             /\ WithinTotals

\* Used memory is the total less what the lines say, at least 0: neither the sum
\* of three lines nor the difference wraps.
LEMMA UsedIsBounded ==
  ASSUME NEW m \in Meminfo, get_used_memory(m)
  PROVE  \E v \in {Error} \cup 0 .. MemTotal : Report("used", v)
<1> DEFINE lines == m.MemFree + m.Buffers + m.Cached
           sum == Unsigned(lines)
           reclaimable == IF sum > m.MemTotal THEN m.MemTotal ELSE sum
           v == IF m.MemTotal = 0 THEN Error ELSE Unsigned(m.MemTotal - reclaimable)
<1>1. m.MemTotal \in 0 .. MemTotal /\ lines \in 0 .. Word64 - 1
  BY SizesAssumption DEF Meminfo
<1>2. sum = lines
  BY <1>1, UnsignedSmall
<1>3. m.MemTotal - reclaimable \in 0 .. m.MemTotal
  BY <1>1, <1>2
<1>4. m.MemTotal - reclaimable \in 0 .. Word64 - 1
  BY <1>1, <1>3, SizesAssumption
<1>5. Unsigned(m.MemTotal - reclaimable) = m.MemTotal - reclaimable
  BY <1>4, UnsignedSmall
<1>6. v \in {Error} \cup 0 .. MemTotal
  <2> HIDE DEF reclaimable
  <2>1. m.MemTotal - reclaimable \in 0 .. MemTotal
    BY <1>1, <1>3, SizesAssumption
  <2> QED BY <1>5, <2>1
<1>7. Report("used", v)
  BY DEF get_used_memory
<1> QED BY <1>6, <1>7

\* What is available, when it is there, is not above the total.
LEMMA MemoryShare ==
  ASSUME NEW m \in Meminfo, get_memory_usage(m)
  PROVE  \E v : IsShare(v) /\ Report("memory_usage", v)
<1>1. m.MemTotal \in 0 .. MemTotal /\ m.MemAvailable \in 0 .. MemTotal + 1
  BY SizesAssumption DEF Meminfo
<1>2. CASE m.MemTotal = 0 \/ m.MemAvailable = 0 \/ m.MemAvailable > m.MemTotal
  BY <1>2 DEF get_memory_usage, IsShare
<1>3. CASE ~(m.MemTotal = 0 \/ m.MemAvailable = 0 \/ m.MemAvailable > m.MemTotal)
  <2>1. m.MemTotal - m.MemAvailable \in 0 .. Word64 - 1
    BY <1>1, <1>3, SizesAssumption
  <2>2. Unsigned(m.MemTotal - m.MemAvailable) = m.MemTotal - m.MemAvailable
    BY <2>1, UnsignedSmall
  <2>3. IsShare([used |-> Unsigned(m.MemTotal - m.MemAvailable), of |-> m.MemTotal])
    BY <1>1, <1>3, <2>2 DEF IsShare
  <2> QED BY <1>3, <2>3 DEF get_memory_usage
<1> QED BY <1>2, <1>3

\* statvfs never offers more blocks than there are.
LEMMA DiskShare ==
  ASSUME NEW s \in Statvfs, get_disk_usage(s)
  PROVE  \E v : IsShare(v) /\ Report("disk_usage", v)
<1>1. s.blocks \in 0 .. MemTotal /\ s.bavail \in 0 .. s.blocks
  BY SizesAssumption DEF Statvfs
<1>2. s.blocks - s.bavail \in 0 .. Word64 - 1
  BY <1>1, SizesAssumption
<1>3. Unsigned(s.blocks - s.bavail) = s.blocks - s.bavail
  BY <1>2, UnsignedSmall
<1>4. IsShare([used |-> Unsigned(s.blocks - s.bavail), of |-> s.blocks])
  BY <1>1, <1>3 DEF IsShare
<1>5. IsShare(ErrorPercent)
  BY DEF IsShare
<1> QED BY <1>4, <1>5 DEF get_disk_usage

\* One report keeps the invariant if its value is in range.
LEMMA ReportKeepsMemoryInv ==
  ASSUME MemoryInv, NEW p \in Probes, NEW v, Report(p, v),
         p = "used" => v \in {Error} \cup 0 .. MemTotal,
         p \in {"memory_usage", "disk_usage"} => IsShare(v)
  PROVE  MemoryInv'
BY DEF MemoryInv, WithinTotals, Report, IsShare, Probes

\* Every probe reports in range, or its error.
LEMMA StepMemoryInv == MemoryInv /\ [MemoryNext]_reported => MemoryInv'
<1> SUFFICES ASSUME MemoryInv, [MemoryNext]_reported PROVE MemoryInv'
  OBVIOUS
<1>1. CASE UNCHANGED reported
  BY <1>1 DEF MemoryInv, WithinTotals
<1>2. ASSUME NEW m \in Meminfo, get_total_memory(m) \/ get_available_memory(m)
      PROVE  MemoryInv'
  BY <1>2, ReportKeepsMemoryInv DEF get_total_memory, get_available_memory, Probes
<1>3. ASSUME NEW m \in Meminfo, get_used_memory(m) PROVE MemoryInv'
  BY <1>3, UsedIsBounded, ReportKeepsMemoryInv DEF Probes
<1>4. ASSUME NEW m \in Meminfo, get_memory_usage(m) PROVE MemoryInv'
  BY <1>4, MemoryShare, ReportKeepsMemoryInv DEF Probes
<1>5. ASSUME NEW s \in Statvfs, get_disk_usage(s) PROVE MemoryInv'
  BY <1>5, DiskShare, ReportKeepsMemoryInv DEF Probes
<1>6. CASE ProbeFails
  <2>1. IsShare(ErrorPercent)
    BY DEF IsShare
  <2> QED BY <1>6, <2>1, ReportKeepsMemoryInv DEF ProbeFails, Probes
<1> QED BY <1>1, <1>2, <1>3, <1>4, <1>5, <1>6 DEF MemoryNext

\* For every size of the memory and whatever the lines of /proc/meminfo say, used
\* memory stays within the memory of the host and the percentages within 0 and 100.
THEOREM SizesStayWithinTotals == MemorySafe => []WithinTotals
<1>1. MemoryInit => MemoryInv
  BY DEF MemoryInit, MemoryInv, WithinTotals, Probes
<1>2. MemoryInv => WithinTotals
  BY DEF MemoryInv
<1> QED BY <1>1, <1>2, StepMemoryInv, PTL DEF MemorySafe

-----------------------------------------------------------------------------
(* Sensors.                                                                *)

SensorInv == /\ shown \in [Followed -> Int \cup {NoValue}]
             /\ measured \in [Followed -> Int \cup {NoValue}]
             /\ GaugeInItsUnit

\* A file that cannot be read gives a negative number after either conversion.
LEMMA UnreadableIsNegative ==
  \A s \in Sensors : get_sensor(s, Unreadable) \in Int /\ get_sensor(s, Unreadable) < 0
BY DEF get_sensor, read_value, UNIT_CONVERSION

\* A number keeps its sign, and its value in the unit of the gauge.
LEMMA NumberIsConverted ==
  ASSUME NEW s \in Sensors, NEW c \in Contents
  PROVE  /\ get_sensor(s, c) = c * (IF s \in Fans THEN UNIT_CONVERSION ELSE 1)
         /\ get_sensor(s, c) \in Int /\ (get_sensor(s, c) >= 0 <=> c >= 0)
BY SensorsAssumption DEF get_sensor, read_value, UNIT_CONVERSION

\* Every update of a sensor keeps it, and every failure.
LEMMA StepSensorInv == SensorInv /\ [SensorNext]_sensorVars => SensorInv'
<1> SUFFICES ASSUME SensorInv, [SensorNext]_sensorVars PROVE SensorInv'
  OBVIOUS
<1>1. CASE UNCHANGED sensorVars
  BY <1>1 DEF sensorVars, SensorInv, GaugeInItsUnit
<1>2. ASSUME NEW s \in Followed, update_sensor(s, Unreadable) PROVE SensorInv'
  <2>1. UNCHANGED << shown, measured >>
    BY <1>2, UnreadableIsNegative, SensorsAssumption DEF update_sensor
  <2> QED BY <2>1 DEF SensorInv, GaugeInItsUnit
<1>3. ASSUME NEW s \in Followed, NEW c \in Contents, update_sensor(s, c) PROVE SensorInv'
  <2>1. c \in Int /\ c # Unreadable /\ s \in Sensors
    BY SensorsAssumption
  <2>2. measured' = [measured EXCEPT ![s] = c]
    BY <1>3, <2>1 DEF update_sensor
  <2>3. CASE c >= 0
    <3>1. shown' = [shown EXCEPT ![s] = get_sensor(s, c)]
      BY <1>3, <2>1, <2>3, NumberIsConverted DEF update_sensor
    <3>2. shown'[s] = c * (IF s \in Fans THEN UNIT_CONVERSION ELSE 1) /\ measured'[s] = c
      BY <2>1, <2>2, <3>1, NumberIsConverted DEF SensorInv
    <3>3. \A q \in Followed \ {s} : shown'[q] = shown[q] /\ measured'[q] = measured[q]
      BY <2>2, <3>1 DEF SensorInv
    <3>4. GaugeInItsUnit'
      BY <2>1, <3>2, <3>3, SensorsAssumption DEF SensorInv, GaugeInItsUnit
    <3> QED BY <2>1, <2>2, <3>1, <3>4, NumberIsConverted DEF SensorInv
  <2>4. CASE ~(c >= 0)
    <3>1. shown' = shown
      BY <1>3, <2>1, <2>4, NumberIsConverted DEF update_sensor
    <3>2. measured'[s] < 0 /\ measured'[s] # NoValue
      BY <2>1, <2>2, <2>4, SensorsAssumption DEF SensorInv
    <3>3. \A q \in Followed \ {s} : shown'[q] = shown[q] /\ measured'[q] = measured[q]
      BY <2>2, <3>1 DEF SensorInv
    <3>4. GaugeInItsUnit'
      BY <3>2, <3>3 DEF SensorInv, GaugeInItsUnit
    <3> QED BY <2>1, <2>2, <3>1, <3>4 DEF SensorInv
  <2> QED BY <2>3, <2>4
<1> QED BY <1>1, <1>2, <1>3 DEF SensorNext

\* For all contents of the files and all failures in between, a gauge shows the last
\* number of its sensor in its unit, unless that number was below zero.
THEOREM GaugesAreInTheirUnits == SensorSafe => []GaugeInItsUnit
<1>1. SensorInit => SensorInv
  BY DEF SensorInit, SensorInv, GaugeInItsUnit
<1>2. SensorInv => GaugeInItsUnit
  BY DEF SensorInv
<1> QED BY <1>1, <1>2, StepSensorInv, PTL DEF SensorSafe
=============================================================================
