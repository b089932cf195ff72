--------------------------- MODULE NetworkTraffic ----------------------------
(***************************************************************************)
(* get_network_traffic and get_monitored_interface: which interface the    *)
(* five network gauges are about.  The choice is made by the environment   *)
(* variable, by a detection whose result is kept for the life of the       *)
(* process, or by a compiled-in default; meanwhile the kernel adds and     *)
(* removes interfaces, between two calls and in the middle of one.         *)
(*                                                                         *)
(* A reading is represented by the interface whose line was read.          *)
(***************************************************************************)
EXTENDS Integers, Sequences, SequencesExt

CONSTANTS
  Interfaces,         \* the interfaces the host may have, without loopback
  Loopback,           \* "lo"
  NETWORK_INTERFACE,  \* the compiled-in default, "wlp4s0"
  Settings,           \* values of the environment variable
  Unset,              \* ... when it is unset or empty, and no interface detected
  Zeros,              \* a reading that found no line of the interface
  Failed              \* a reading that could not open the file

ASSUME InterfacesAssumption ==
  /\ Loopback \notin Interfaces /\ Unset \notin Interfaces \cup {Loopback, NETWORK_INTERFACE}
  /\ {Zeros, Failed} \cap (Interfaces \cup {Loopback}) = {}

VARIABLES
  env_iface,       \* the environment variable
  listed,          \* the interfaces, in the order of /proc/net/dev
  call,            \* where get_network_traffic is
  detected_iface,  \* the static cache
  monitored_iface, \* the interface this call asks for
  traffic,         \* the last reading, as the update function publishes it
  sources,         \* history: the interfaces that were read
  fellBack         \* history: the default was used for want of a detection

program  == << call, detected_iface, monitored_iface, traffic >>
netVars  == << env_iface, listed, program, sources, fellBack >>

NetStart(setting) ==
  /\ env_iface = setting
  /\ listed = << Loopback >>
  /\ call = "returned" /\ detected_iface = Unset /\ monitored_iface = Unset
  /\ traffic = Zeros /\ sources = {} /\ fellBack = FALSE

NetInit == \E setting \in Settings : NetStart(setting)

-----------------------------------------------------------------------------
(* The kernel.  A new interface is listed after those that are there.      *)

LinkAdded(i) ==
  /\ i \notin ToSet(listed)
  /\ listed' = Append(listed, i)
  /\ UNCHANGED << env_iface, program, sources, fellBack >>

LinkRemoved(i) ==
  /\ \E k \in DOMAIN listed : listed[k] = i /\ listed' = RemoveAt(listed, k)
  /\ UNCHANGED << env_iface, program, sources, fellBack >>

Kernel == \E i \in Interfaces : LinkAdded(i) \/ LinkRemoved(i)

-----------------------------------------------------------------------------
(* The calls.                                                              *)

OpenDev ==
  /\ call = "returned"
  /\ \/ call' = "opened" /\ UNCHANGED traffic
     \/ traffic' = Failed /\ UNCHANGED call
  /\ UNCHANGED << env_iface, listed, detected_iface, monitored_iface, sources, fellBack >>

\* The interface of the first line that is not loopback.
First(i) ==
  \E k \in DOMAIN listed :
    /\ listed[k] = i /\ i # Loopback
    /\ \A j \in 1 .. k - 1 : listed[j] = Loopback

\* A mutated form: the detected interface is not kept.
Detect_Uncached(i) ==
  /\ First(i)
  /\ monitored_iface' = i /\ UNCHANGED << detected_iface, fellBack >>

\* It is the monitored one from now on.
Detect(i) ==
  /\ First(i)
  /\ detected_iface' = i /\ monitored_iface' = i
  /\ UNCHANGED fellBack

\* The file could not be opened, or has no other line: nothing is cached.
FallBack ==
  /\ monitored_iface' = NETWORK_INTERFACE /\ fellBack' = TRUE
  /\ UNCHANGED detected_iface

get_monitored_interface ==
  /\ call = "opened" /\ call' = "chosen"
  /\ \/ /\ env_iface # Unset
        /\ monitored_iface' = env_iface /\ UNCHANGED << detected_iface, fellBack >>
     \/ /\ env_iface = Unset /\ detected_iface # Unset
        /\ monitored_iface' = detected_iface /\ UNCHANGED << detected_iface, fellBack >>
     \/ /\ env_iface = Unset /\ detected_iface = Unset
        /\ FallBack \/ \E i \in Interfaces : Detect(i)
  /\ UNCHANGED << env_iface, listed, traffic, sources >>

\* The lines are read after the interface was chosen.
ReadDev ==
  /\ call = "chosen" /\ call' = "returned"
  /\ IF monitored_iface \in ToSet(listed)
       THEN traffic' = monitored_iface /\ sources' = sources \cup {monitored_iface}
       ELSE traffic' = Zeros /\ UNCHANGED sources
  /\ UNCHANGED << env_iface, listed, detected_iface, monitored_iface, fellBack >>

get_network_traffic == OpenDev \/ get_monitored_interface \/ ReadDev

NetNext == Kernel \/ get_network_traffic

NetSafe == NetInit /\ [][NetNext]_netVars

-----------------------------------------------------------------------------
(* Properties.                                                             *)

\* The counters published under one name are those of one interface for the life
\* of the process, wherever interfaces come and go: the forced one if there is one
\* (README.md:105), never loopback (README.md:104).  Only a default that was used
\* for want of a detection may have been another (metrics.c:28, 54).
OneInterface ==
  \A i, j \in sources :
    /\ env_iface # Unset => i = env_iface
    /\ i = j \/ (fellBack /\ NETWORK_INTERFACE \in {i, j})
    /\ i = Loopback => Loopback \in {env_iface, NETWORK_INTERFACE}
=============================================================================
