------------------------------- MODULE Frontend -------------------------------
(***************************************************************************)
(* The way of a module from bound trees to a linked program: flow analysis *)
(* (which the binder calls for every function), the lowering to MIR, the   *)
(* verifier of MIR and the lowering to bytecode (Compilation.cpp, the loop *)
(* over the modules; BytecodeLowerer.cpp).  What comes out is linked and   *)
(* interpreted.  The first two passes are parameters.                      *)
(***************************************************************************)
EXTENDS Interpreter, MirVerifier

CONSTANTS
    Accepts(_),     \* does flow analysis accept a function?  (Flow)
    Lower(_, _)     \* a function of a module, lowered to MIR  (Lowering)

VARIABLE
    source      \* name -> bound function

fvars == <<vars, source>>

IdsUnique(s) == \A i, j \in DOMAIN s.blocks : s.blocks[i].id = s.blocks[j].id => i = j

\* Bytecode keeps what MIR says, one for one; blocks are numbered by their place.
ToBytecode(f, s) ==
    LET known(id) == \E i \in DOMAIN s.blocks : s.blocks[i].id = id
        place(id) == IF known(id) THEN CHOOSE i \in DOMAIN s.blocks : s.blocks[i].id = id ELSE 0
        moved(b) == [params |-> b.params, code |-> b.code,
                     term |-> [b.term EXCEPT !.to = [k \in DOMAIN @ |-> <<place(@[k][1]), @[k][2]>>]]]
    IN  [params |-> f.params, ret |-> f.ret, locals |-> f.locals, regs |-> s.regs,
         blocks |-> [i \in DOMAIN s.blocks |-> moved(s.blocks[i])],
         handlers |-> [k \in DOMAIN s.handlers |->
             [s.handlers[k] EXCEPT !.target = place(@), !.protect = {place(id) : id \in @}]]]

Lowered == [f \in DOMAIN source |-> Lower(program, source[f])]

\* "errors": diagnostics; "crashed": a logic_error; "invalid": refused MIR.
Compile ==
    /\ status = "compile"
    /\ LET lowered == Lowered IN
       IF \E f \in DOMAIN source : ~Accepts(source[f]) THEN status' = "errors" /\ UNCHANGED program
       ELSE IF \E f \in DOMAIN source : lowered[f].crash THEN status' = "crashed" /\ UNCHANGED program
       ELSE IF \E f \in DOMAIN source : ~IdsUnique(lowered[f]) THEN status' = "invalid" /\ UNCHANGED program
       ELSE /\ program' = [program EXCEPT !.functions = [f \in DOMAIN source |-> ToBytecode(source[f], lowered[f])]]
            /\ status' = "verify"
    /\ UNCHANGED <<shaped, input, mode, frames, arena, heap, pending, executed, cache, outcome, source>>

VerifyLowered ==
    /\ status = "verify"
    /\ status' = IF VerifyMir THEN "link" ELSE "invalid"
    /\ UNCHANGED <<program, shaped, input, mode, frames, arena, heap, pending, executed, cache, outcome, source>>

Over == {"errors", "crashed", "invalid", "rejected", "done"}

Finished == status \in Over /\ UNCHANGED fvars

FrontendNext ==
    \/ Compile \/ VerifyLowered
    \/ (Link \/ Start \/ Interpret) /\ UNCHANGED source
    \/ Finished
=============================================================================
