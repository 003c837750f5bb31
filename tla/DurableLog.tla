------------------------------- MODULE DurableLog -------------------------------
(***************************************************************************)
(* What an append-only journal promises: a log that grows at its end, of   *)
(* which some first records are safe.  A crash loses records from the end  *)
(* of the log only, and none of those that are safe.  While the journal is *)
(* being compacted, another log may take its place that ends alike and is  *)
(* safe as a whole.                                                        *)
(***************************************************************************)
EXTENDS Naturals, Sequences

CONSTANT Records

VARIABLES log,        \* the records written, in order
          safe,       \* how many of them no crash can lose
          compacting  \* another log is about to take its place

vars == <<log, safe, compacting>>

Init == log = <<>> /\ safe = 0 /\ compacting = FALSE

Write == /\ \E r \in Records : log' = Append(log, r)
         /\ UNCHANGED safe

Sync == /\ safe' \in safe .. Len(log)
        /\ UNCHANGED log

Crash == \E n \in safe .. Len(log) : /\ log' = SubSeq(log, 1, n)
                                     /\ safe' \in safe .. n

Compact == /\ compacting
           /\ log # <<>> => log' # <<>> /\ log'[Len(log')] = log[Len(log)]
           /\ log = <<>> => log' = <<>>
           /\ safe' = Len(log')

Next == (Write \/ Sync \/ Crash \/ Compact) /\ compacting' \in BOOLEAN

Spec == Init /\ [][Next]_vars
===============================================================================
