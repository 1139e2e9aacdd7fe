----------------------------- MODULE AlarmClock -----------------------------
(***************************************************************************)
(* What the timing wheel of the fiber scheduler promises: every sleeper    *)
(* wakes at the tick it asked for, neither earlier nor later, unless it is *)
(* interrupted or killed.                                                  *)
(***************************************************************************)
EXTENDS Integers

CONSTANTS Sleepers, TickMod

VARIABLES
    now,         \* the tick, which wraps
    remaining    \* the ticks a sleeper still has to sleep, 0 when it is awake

Init ==
    /\ now = 0
    /\ remaining = [f \in Sleepers |-> 0]

\* A tick wakes exactly the sleepers whose time has come.
Tick ==
    /\ now' = (now + 1) % TickMod
    /\ remaining' = [f \in Sleepers |->
                        IF remaining[f] = 0 THEN 0 ELSE remaining[f] - 1]

Sleep(f) ==
    /\ remaining[f] = 0
    /\ \E n \in 1 .. TickMod : remaining' = [remaining EXCEPT ![f] = n]
    /\ UNCHANGED now

\* Interrupted or killed.
Disturb(S) ==
    /\ remaining' = [f \in Sleepers |-> IF f \in S THEN 0 ELSE remaining[f]]
    /\ UNCHANGED now

Next ==
    \/ Tick
    \/ \E f \in Sleepers : Sleep(f)
    \/ \E S \in SUBSET Sleepers : Disturb(S)

Spec == Init /\ [][Next]_<<now, remaining>>

=============================================================================
