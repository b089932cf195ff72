---------------------------- MODULE MemoryProbes -----------------------------
(***************************************************************************)
(* The probes that turn sizes into a number: get_total_memory,             *)
(* get_used_memory, get_available_memory and get_memory_usage on           *)
(* /proc/meminfo, get_disk_usage on statvfs.  Each call opens its file     *)
(* anew, so that the numbers of one cycle come from different moments: the *)
(* file is an input of the call.                                           *)
(*                                                                         *)
(* Sizes stay in the unit of the file; a percentage is a fraction.         *)
(***************************************************************************)
EXTENDS Integers

CONSTANTS
  MemTotal,   \* memory of the host
  Word64      \* 2^64

ASSUME SizesAssumption ==
  MemTotal \in Nat \ {0} /\ Word64 \in Nat /\ 3 * (MemTotal + 1) < Word64

VARIABLE reported  \* what each probe returned last

\* -1, as a size and as a percentage.
Error == -1
ErrorPercent == [used |-> -1, of |-> 1]

\* The lines of /proc/meminfo; 0 stands for a line that is not there, too.
\* Nothing makes the reclaimable parts, or MemAvailable in a guest, stay within
\* MemTotal.
Meminfo == [MemTotal : {0, MemTotal}, MemAvailable : 0 .. MemTotal + 1,
            MemFree : 0 .. MemTotal, Buffers : 0 .. MemTotal, Cached : 0 .. MemTotal]

\* f_blocks and f_bavail.
Statvfs == {v \in [blocks : 0 .. MemTotal, bavail : 0 .. MemTotal] : v.bavail <= v.blocks}

Unsigned(a) == a % Word64

MemoryInit ==
  reported = [total |-> Error, used |-> Error, available |-> Error,
              memory_usage |-> ErrorPercent, disk_usage |-> ErrorPercent]

-----------------------------------------------------------------------------
Report(probe, value) == reported' = [reported EXCEPT ![probe] = value]

get_total_memory(m)     == Report("total", m.MemTotal)
get_available_memory(m) == Report("available", m.MemAvailable)

\* A mutated form: the reclaimable sum is not cut to the total.
get_used_memory_Wraps(m) ==
  Report("used", IF m.MemTotal = 0 THEN Error
                 ELSE Unsigned(m.MemTotal - (m.MemFree + m.Buffers + m.Cached)))

get_used_memory(m) ==
  LET sum == Unsigned(m.MemFree + m.Buffers + m.Cached)
      reclaimable == IF sum > m.MemTotal THEN m.MemTotal ELSE sum
  IN  Report("used", IF m.MemTotal = 0 THEN Error ELSE Unsigned(m.MemTotal - reclaimable))

get_memory_usage(m) ==
  Report("memory_usage",
    IF m.MemTotal = 0 \/ m.MemAvailable = 0 \/ m.MemAvailable > m.MemTotal
      THEN ErrorPercent
      ELSE [used |-> Unsigned(m.MemTotal - m.MemAvailable), of |-> m.MemTotal])

get_disk_usage(v) ==
  Report("disk_usage",
    IF v.blocks = 0 THEN ErrorPercent
    ELSE [used |-> Unsigned(v.blocks - v.bavail), of |-> v.blocks])

\* The file cannot be opened, the call fails.
ProbeFails ==
  \/ \E probe \in {"total", "used", "available"} : Report(probe, Error)
  \/ \E probe \in {"memory_usage", "disk_usage"} : Report(probe, ErrorPercent)

MemoryNext ==
  \/ \E m \in Meminfo : get_total_memory(m) \/ get_used_memory(m)
                        \/ get_available_memory(m) \/ get_memory_usage(m)
  \/ \E v \in Statvfs : get_disk_usage(v)
  \/ ProbeFails

MemorySafe == MemoryInit /\ [][MemoryNext]_reported

-----------------------------------------------------------------------------
(* Properties.                                                             *)

\* Whatever the lines say, used memory stays within the memory of the host and
\* the percentages within 0 and 100 (include/metrics.h:65), so the gauges of
\* different moments never contradict each other about the total.
WithinTotals ==
  /\ reported.used \in {Error} \cup 0 .. MemTotal
  /\ \A p \in {"memory_usage", "disk_usage"} :
       reported[p] = ErrorPercent \/ reported[p].used \in 0 .. reported[p].of
=============================================================================
