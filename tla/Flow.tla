--------------------------------- MODULE Flow ---------------------------------
(***************************************************************************)
(* Definite assignment and reachable ends of functions (FlowAnalysis.cpp), *)
(* over the bound trees of Lowering.  A state has the locals that are      *)
(* assigned, how control leaves ("None" when it goes on) and the locals    *)
(* that were read too early, each of which is an error RS2300.             *)
(***************************************************************************)
EXTENDS Lowering

At(assigned, exit, early) == [assigned |-> assigned, exit |-> exit, early |-> early]
Going(st) == st.exit = "None"
Assign(st, l) == [st EXCEPT !.assigned = @ \cup {l}]
AssignAny(st, l) == IF l = 0 THEN st ELSE Assign(st, l)
Leaving(st, exit) == [st EXCEPT !.exit = exit]
\* What `inner` read too early is reported whatever becomes of its state.
Noting(st, inner) == [st EXCEPT !.early = inner.early]
Meet(a, b) == [a EXCEPT !.assigned = @ \cap b.assigned, !.early = b.early]
\* A second path of the same state, taken after `a` reported what it has.
Again(st, a) == [st EXCEPT !.exit = "None", !.early = a.early]

RECURSIVE ExprFlow(_, _), StmtFlow(_, _), BlockFlow(_, _)

EachFlow(es, st) == FoldLeft(LAMBDA acc, e : ExprFlow(e, acc), st, es)
InitArguments(inits) == FlattenSeq([i \in DOMAIN inits |-> inits[i].args])

\* The operands of an expression in the order they are analysed; the analyser
\* does not look into struct fields, property assignments or literals.
Analysed(e) ==
    CASE e.k \in {"Conversion", "Unary", "TypeTest", "Member", "ArrayLength", "Assignment"} -> <<e.e>>
      [] e.k \in {"Binary", "Combination"} -> <<e.a, e.b>>
      [] e.k = "DelegateCreation"  -> (IF Given(e.e) THEN <<e.e>> ELSE <<>>) \o e.captures
      [] e.k = "EventInvocation"   -> <<e.e>> \o e.args
      [] e.k \in {"NewObject", "NewStruct"} -> e.args \o InitArguments(e.inits)
      [] e.k = "NewArray"          -> <<e.len>> \o e.items
      [] e.k = "MemberAssignment"  -> <<e.e, e.x>>
      [] e.k = "Element"           -> <<e.a, e.i>>
      [] e.k = "ElementAssignment" -> <<e.a, e.i, e.e>>
      [] OTHER                     -> <<>>

\* The arguments after a conditional receiver may not be evaluated.
CallFlow(e, st) ==
    IF ~e.cond THEN EachFlow(e.args, st)
    ELSE FoldLeft(LAMBDA acc, a : Noting(acc, ExprFlow(a, acc)), ExprFlow(Head(e.args), st), Tail(e.args))

\* A `ref` or `out` argument assigns the variable its record names, which is the
\* first local when it goes to a field or an element.
ReferenceFlow(e, st) ==
    LET direct(arg) == arg.mode = "value" \/ arg.target \in {"Variable", "None"}
        argument(acc, arg) ==
            LET read == IF direct(arg) /\ arg.mode # "out" THEN ExprFlow(arg.e, acc) ELSE acc IN
            IF arg.mode = "value" THEN read ELSE Assign(read, arg.l)
    IN  FoldLeft(argument, st, e.args)

\* A delegate's `out` variable is read before it is assigned.
DelegateFlow(e, st) ==
    FoldLeft(LAMBDA acc, arg : LET read == ExprFlow(arg.e, acc) IN
                               IF arg.mode = "out" THEN Assign(read, arg.l) ELSE read,
             ExprFlow(e.e, st), e.args)

ArmFlow(arm, st) ==
    LET labelled == IF arm.pat = VoidT /\ ~arm.default THEN ExprFlow(arm.label, st) ELSE st
        named == AssignAny(labelled, arm.l)
    IN  IF Given(arm.guard) THEN ExprFlow(arm.guard, named) ELSE named

SwitchFlow(e, st) ==
    LET on == ExprFlow(e.e, st)
        path(before, arm) == ExprFlow(arm.value, ArmFlow(arm, Again(on, before)))
    IN  IF e.arms = <<>> THEN on
        ELSE FoldLeft(LAMBDA acc, arm : Meet(acc, path(acc, arm)), path(on, Head(e.arms)), Tail(e.arms))

ExprFlow(e, st) ==
    CASE e.k = "Variable"      -> IF e.l \in st.assigned THEN st ELSE [st EXCEPT !.early = @ \cup {e.l}]
      [] e.k = "Assignment"    -> Assign(ExprFlow(e.e, st), e.l)
      [] e.k = "TypeTest"      -> AssignAny(ExprFlow(e.e, st), e.l)
      [] e.k = "Call"          -> CallFlow(e, st)
      [] e.k = "ReferenceCall" -> IF e.del = NoId THEN ReferenceFlow(e, st) ELSE DelegateFlow(e, st)
      [] e.k \in {"ShortCircuit", "Coalesce"} -> LET a == ExprFlow(e.a, st) IN Noting(a, ExprFlow(e.b, a))
      [] e.k = "Conditional"   -> LET c == ExprFlow(e.c, st)  a == ExprFlow(e.a, c) IN
                                  Meet(a, ExprFlow(e.b, Again(c, a)))
      [] e.k = "Switch"        -> SwitchFlow(e, st)
      [] OTHER                 -> EachFlow(Analysed(e), st)

(* ------------------------------ statements ---------------------------- *)

\* Fault: a statement after one that leaves is analysed as well.
BlockGoesOn(body, st) == FoldLeft(LAMBDA acc, child : StmtFlow(child, acc), st, body)
BlockFlow(body, st) == FoldLeft(LAMBDA acc, child : IF Going(acc) THEN StmtFlow(child, acc) ELSE acc, st, body)

\* Fault: the branch that leaves decides what is assigned after an if.
IfLeaves(s, st) ==
    LET c == ExprFlow(s.c, st)  a == StmtFlow(s.a, c)
        b == IF Given(s.b) THEN StmtFlow(s.b, Again(c, a)) ELSE Again(c, a)
    IN  [Meet(a, b) EXCEPT !.assigned = a.assigned \cup b.assigned, !.exit = IF Going(a) THEN b.exit ELSE a.exit]

\* Two ways that leave alike leave; of two that do not, the one that goes on.
IfFlow(s, st) ==
    LET c == ExprFlow(s.c, st)  a == StmtFlow(s.a, c)
        b == IF Given(s.b) THEN StmtFlow(s.b, Again(c, a)) ELSE Again(c, a)
    IN  CASE a.exit = b.exit /\ ~Going(a) -> At({}, a.exit, b.early)
          [] Going(a) /\ Going(b)         -> Meet(a, b)
          [] OTHER                        -> IF Going(a) THEN Noting(a, b) ELSE b

\* A path of a try that leaves counts as one that goes on when another leaves
\* otherwise; what is assigned is then what the first path assigned.
TryFlow(s, st) ==
    LET join(acc, p) == CASE Going(acc) /\ Going(p) -> Meet(acc, p)
                          [] acc.exit # p.exit      -> Noting(Leaving(acc, "None"), p)
                          [] OTHER                  -> Noting(acc, p)
        merged == FoldLeft(LAMBDA acc, c : join(acc, StmtFlow(c.body, Assign(Again(st, acc), c.l))),
                           StmtFlow(s.body, st), s.catches)
        final == StmtFlow(s.final, Leaving(merged, "None"))
    IN  IF ~Given(s.final) THEN merged
        ELSE IF ~Going(final) THEN final
        ELSE Leaving(final, merged.exit)

Endless(s) == LiteralTrue(s.c) /\ ~BreaksHere(s.body)
AfterLoop(s, st) == Leaving(st, IF Endless(s) THEN "Return" ELSE "None")

WhileFlow(s, st) == LET c == ExprFlow(s.c, st) IN AfterLoop(s, Noting(c, StmtFlow(s.body, c)))

ForFlow(s, st) ==
    LET init == IF Given(s.init) THEN StmtFlow(s.init, st) ELSE st
        c == ExprFlow(s.c, init)
        body == StmtFlow(s.body, c)
        step == IF Given(s.step) /\ body.exit # "Return" THEN ExprFlow(s.step, body) ELSE body
    IN  IF ~Going(init) THEN init ELSE AfterLoop(s, Noting(c, step))

ForeachFlow(s, st) ==
    LET coll == Assign(Assign(ExprFlow(s.e, st), s.l), s.at)
        element == ExprFlow(s.element, ExprFlow(s.count, coll))
    IN  Noting(coll, StmtFlow(s.body, Assign(element, s.x)))

\* What the body assigns is assigned after the loop.
DoWhileFlow(s, st) ==
    LET body == StmtFlow(s.body, st) IN
    IF body.exit = "Return" THEN body ELSE AfterLoop(s, ExprFlow(s.c, Leaving(body, "None")))

\* A section that breaks goes on after the switch.
SwitchStatementFlow(s, st) ==
    LET on == ExprFlow(s.e, st)
        reaches(p) == p.exit \in {"None", "Break"}
        section(acc, sec) ==
            LET p == BlockFlow(sec.body, ArmFlow(sec, Again(on, acc.last))) IN
            [last |-> p, ways |-> IF reaches(p) THEN Append(acc.ways, p.assigned) ELSE acc.ways]
        all == FoldLeft(section, [last |-> on, ways |-> <<>>], s.sections)
        ways == IF Defaults(s.sections) = {} THEN Append(all.ways, on.assigned) ELSE all.ways
    IN  IF ways = <<>> THEN At({}, "Return", all.last.early)
        ELSE At(FoldLeft(LAMBDA a, b : a \cap b, Head(ways), Tail(ways)), "None", all.last.early)

StmtFlow(s, st) ==
    IF ~Going(st) THEN st ELSE
    CASE s.k = "Block"       -> BlockFlow(s.body, st)
      [] s.k = "Return"      -> Leaving(IF Given(s.e) THEN ExprFlow(s.e, st) ELSE st, "Return")
      [] s.k = "Throw"       -> Leaving(ExprFlow(s.e, st), "Return")
      [] s.k \in {"Break", "Continue"} -> Leaving(st, s.k)
      [] s.k = "Try"         -> TryFlow(s, st)
      [] s.k = "Subscribe"   -> ExprFlow(s.x, ExprFlow(s.e, st))
      [] s.k = "Declaration" -> IF Given(s.e) THEN Assign(ExprFlow(s.e, st), s.l)
                                ELSE [st EXCEPT !.assigned = @ \ {s.l}]
      [] s.k = "Expression"  -> ExprFlow(s.e, st)
      [] s.k = "If"          -> IfFlow(s, st)
      [] s.k = "While"       -> WhileFlow(s, st)
      [] s.k = "For"         -> ForFlow(s, st)
      [] s.k = "Foreach"     -> ForeachFlow(s, st)
      [] s.k = "DoWhile"     -> DoWhileFlow(s, st)
      [] s.k = "SwitchStatement" -> SwitchStatementFlow(s, st)

\* The flow of a function whose parameters are assigned; a function that returns
\* a value must not reach its end (RS2001).
FunctionFlow(f) == StmtFlow(f.body, At(DOMAIN f.params, "None", {}))
FlowAccepts(f) == f.ret = VoidT \/ (LET end == FunctionFlow(f) IN end.early = {} /\ ~Going(end))
=============================================================================
