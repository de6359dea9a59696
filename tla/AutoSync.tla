------------------------------- MODULE AutoSync -------------------------------
(***************************************************************************)
(* What a battery auto-sync cycle promises the device: cycles are numbered *)
(* and never numbered back, a cycle waits for one report of every producer *)
(* made for that cycle, and then the device is told once, or not at all,   *)
(* that the synchronisation is complete.  A cycle that is replaced is      *)
(* forgotten.  SyncCycle implements this over four bounded channels.       *)
(***************************************************************************)
EXTENDS Naturals

CONSTANT Producers

VARIABLES
    phase,      \* "idle", "collecting" or "completing"
    cycle,      \* the latest cycle started, 0 before the first
    waiting,    \* producers whose report the cycle still waits for
    reported,   \* <<cycle, producer>> pairs reported so far
    served      \* cycles whose completion the device was told

vars == <<phase, cycle, waiting, reported, served>>

Init ==
    /\ phase = "idle"
    /\ cycle = 0
    /\ waiting = {}
    /\ reported = {}
    /\ served = {}

Start ==
    /\ phase \in {"idle", "collecting"}
    /\ cycle' = cycle + 1
    /\ waiting' = Producers
    /\ phase' = "collecting"
    /\ UNCHANGED <<reported, served>>

\* A producer may report late, for a cycle that was replaced meanwhile.
Report(p) ==
    /\ \E c \in 1..cycle : reported' = reported \cup {<<c, p>>}
    /\ UNCHANGED <<phase, cycle, waiting, served>>

Count(p) ==
    /\ phase = "collecting"
    /\ <<cycle, p>> \in reported
    /\ waiting' = waiting \ {p}
    /\ phase' = IF waiting' = {} THEN "completing" ELSE "collecting"
    /\ UNCHANGED <<cycle, reported, served>>

Tell ==
    /\ phase = "completing"
    /\ cycle \notin served
    /\ served' = served \cup {cycle}
    /\ phase' = "idle"
    /\ UNCHANGED <<cycle, waiting, reported>>

\* The device is away.
GiveUp ==
    /\ phase = "completing"
    /\ phase' = "idle"
    /\ UNCHANGED <<cycle, waiting, reported, served>>

Next ==
    \/ Start \/ Tell \/ GiveUp
    \/ \E p \in Producers : Report(p) \/ Count(p)

Spec == Init /\ [][Next]_vars

=============================================================================
