------------------------------ MODULE CpuUsage -------------------------------
(***************************************************************************)
(* get_cpu_usage and the static counters it keeps from one call to the     *)
(* next.  The kernel counts the time the processors were idle and busy; a  *)
(* call reads both counters and returns the share of busy ticks since the  *)
(* last call that succeeded.                                               *)
(*                                                                         *)
(* The eight columns of the cpu line enter the computation through two     *)
(* sums: idle + iowait, here `idle', and the other six, here `busy'.       *)
(* Arithmetic is that of unsigned words, modulo Word.  A percentage is the *)
(* fraction used / of.                                                     *)
(***************************************************************************)
EXTENDS Integers

CONSTANTS
  Word,     \* 2^64
  MaxDrop   \* bound on how far the idle sum falls behind the last sample

ASSUME WordAssumption ==
  Word \in Nat /\ Word > 1 /\ MaxDrop \in Nat /\ MaxDrop < Word

VARIABLES
  idle, busy,            \* the kernel's counters
  prev_idle, prev_busy,  \* the static variables
  share,                 \* what the last call returned
  spentIdle, spentBusy,  \* history: ticks since the last sample that succeeded
  interval               \* history: the ticks behind the last such sample

counters == << idle, busy >>
statics  == << prev_idle, prev_busy >>
spent    == << spentIdle, spentBusy >>
cpuVars  == << counters, statics, share, spent, interval >>

RETURN_ERROR == [used |-> -1, of |-> 1]

\* Unsigned addition and subtraction.
Plus(a, b)  == IF a + b < Word THEN a + b ELSE a + b - Word
Minus(a, b) == IF b <= a THEN a - b ELSE a - b + Word

CpuInit ==
  /\ idle = 0 /\ busy = 0
  /\ prev_idle = 0 /\ prev_busy = 0
  /\ share = RETURN_ERROR
  /\ spentIdle = 0 /\ spentBusy = 0
  /\ interval = [idle |-> 0, busy |-> 0]

-----------------------------------------------------------------------------
(* The kernel.  Fewer than Word ticks pass between two samples.            *)

TickIdle ==
  /\ spentIdle + spentBusy < Word - 1
  /\ idle' = Plus(idle, 1) /\ spentIdle' = spentIdle + 1
  /\ UNCHANGED << busy, statics, share, spentBusy, interval >>

TickBusy ==
  /\ spentIdle + spentBusy < Word - 1 /\ spentBusy < Word - 1
  /\ busy' = Plus(busy, 1) /\ spentBusy' = spentBusy + 1
  /\ UNCHANGED << idle, statics, share, spentIdle, interval >>

\* The iowait column is not monotonic.
IowaitDrops ==
  /\ idle > 0 /\ spentIdle > -MaxDrop
  /\ idle' = idle - 1 /\ spentIdle' = spentIdle - 1
  /\ UNCHANGED << busy, statics, share, spentBusy, interval >>

-----------------------------------------------------------------------------
(* The calls.                                                              *)

totald == Minus(Plus(idle, busy), Plus(prev_idle, prev_busy))
idled  == Minus(idle, prev_idle)

\* A call that parses the line and finds that time has passed.
Sample ==
  /\ totald # 0
  /\ share' = [used |-> Minus(totald, idled), of |-> totald]
  /\ prev_idle' = idle /\ prev_busy' = busy
  /\ interval' = [idle |-> spentIdle, busy |-> spentBusy]
  /\ spentIdle' = 0 /\ spentBusy' = 0
  /\ UNCHANGED counters

\* A mutated form: the statics are overwritten before the result of sscanf is
\* tested.
FailedSample_Saves ==
  /\ share' = RETURN_ERROR
  /\ prev_idle' = idle /\ prev_busy' = busy
  /\ UNCHANGED << counters, spent, interval >>

\* No file, a short line, or no tick since the last sample: nothing is saved.
FailedSample ==
  /\ share' = RETURN_ERROR
  /\ UNCHANGED << counters, statics, spent, interval >>

get_cpu_usage == Sample \/ FailedSample

CpuNext == TickIdle \/ TickBusy \/ IowaitDrops \/ get_cpu_usage

CpuSafe == CpuInit /\ [][CpuNext]_cpuVars

-----------------------------------------------------------------------------
(* Properties.                                                             *)

CpuTypeOK ==
  /\ idle \in 0 .. Word - 1 /\ busy \in 0 .. Word - 1
  /\ prev_idle \in 0 .. Word - 1 /\ prev_busy \in 0 .. Word - 1
  /\ share \in [used : Int, of : Nat \ {0}]
  /\ spentIdle \in -MaxDrop .. Word - 1 /\ spentBusy \in 0 .. Word - 1
  /\ spentIdle + spentBusy < Word
  /\ interval \in [idle : -MaxDrop .. Word - 1, busy : 0 .. Word - 1]

\* What get_cpu_usage returns is the share of busy ticks among all ticks since
\* the last call that succeeded, however many calls failed in between and
\* wherever the counters wrapped, unless the idle sum fell behind its value at
\* that call: then the unsigned difference wraps (metrics.c:156).
ShareIsTrue ==
  share # RETURN_ERROR /\ interval.idle >= 0 =>
    share = [used |-> interval.busy, of |-> interval.idle + interval.busy]
=============================================================================
