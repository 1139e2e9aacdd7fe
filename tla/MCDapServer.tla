---------------------------- MODULE MCDapServer ----------------------------
(* A function of two statements in a loop that calls itself at the first   *)
(* and may return after the second.  Line 3 holds no code: a breakpoint on *)
(* it binds to line 4.                                                     *)
EXTENDS DapServer

MCFollows == [p \in {1, 4} |-> IF p = 1 THEN {4} ELSE {1}]
MCCalls == [p \in {1, 4} |-> IF p = 1 THEN {1} ELSE {}]
MCLineSets == {{}, {3}}
=============================================================================
