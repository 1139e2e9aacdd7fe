-------------------------- MODULE MCFiberScheduler --------------------------
(* Small programs and instances of FiberScheduler for TLC. *)
EXTENDS FiberScheduler

Key == "k"

Ins(op) ==
    [op |-> op, target |-> 0, ticks |-> {}, key |-> Key, level |-> 0, flag |-> FALSE]

Program(s) == [p \in 0 .. Len(s) - 1 |-> s[p + 1]]

\* A root forks a child, calls the host, waits for an event and calls again; the
\* child sleeps, longer than a turn of the wheel or not, in an unbreakable
\* section and dies.
FamilyProgram == Program(<<
    [Ins("Fork") EXCEPT !.target = 4],
    Ins("HostCommand"),
    [Ins("Wait") EXCEPT !.level = 1],
    [Ins("Jump") EXCEPT !.target = 1],
    [Ins("SetUnbreakable") EXCEPT !.flag = TRUE],
    [Ins("Yield") EXCEPT !.ticks = {0, 3}],
    Ins("Kill") >>)

\* Calls, one of them too deep, a loop that exhausts its slice, and sleeps of up
\* to a turn and a half of the wheel.
SleepProgram == Program(<<
    [Ins("Call") EXCEPT !.target = 3],
    [Ins("Yield") EXCEPT !.ticks = {1, 3}],
    [Ins("Jump") EXCEPT !.target = 0],
    [Ins("Call") EXCEPT !.target = 3],
    [Ins("Branch") EXCEPT !.target = 6],
    Ins("Return"),
    Ins("Nop"),
    [Ins("Jump") EXCEPT !.target = 6] >>)

\* Dead fibers keep their contexts, and contexts their last wake tick and wait,
\* but nothing reads them again: states that differ in them only are one state.
Observable ==
    <<count, status,
      [f \in LiveIds |-> <<parent[f], pc[f], callStack[f], unbreakable[f]>>],
      [f \in {g \in Ids : status[g] = "Sleeping"} |-> wakeTick[f]],
      [f \in {g \in Ids : status[g] = "Waiting"} |-> waitFor[f]],
      freeIds, queueVars, tick, sliceVars>>

=============================================================================
