------------------------------- MODULE Meaning -------------------------------
(***************************************************************************)
(* What a bound tree means, evaluated directly: the reference that the     *)
(* front end's output, interpreted, is compared with.  A state `m` has the *)
(* locals of the running function, the heap, how control goes on ("next",  *)
(* "break", "continue", "return", "throw" or "error") and the value that   *)
(* is returned, thrown or names the error.                                 *)
(***************************************************************************)
EXTENDS Frontend, Flow

RECURSIVE Eval(_, _), Exec(_, _), ExecAll(_, _), Invoked(_, _, _)

On(m) == m.how = "next"
Out(m, how, v) == [m EXCEPT !.how = how, !.val = v]
Failed(m, code) == [m |-> Out(m, "error", code), v |-> Unset]
Yields(m, v) == [m |-> m, v |-> v]
\* The next step of an evaluation, unless control has left.
Then(r, F(_, _)) == IF On(r.m) THEN F(r.v, r.m) ELSE r
Bind(m, l, v) == [m EXCEPT !.loc = (l :> v) @@ @]
BindAny(m, l, v) == IF l = 0 THEN m ELSE Bind(m, l, v)
Alloc(m, obj) == Yields([m EXCEPT !.heap = Append(@, obj)], Ref(Len(m.heap) + 1))
FieldsOf(t) == [k \in DOMAIN Types[t].fields |-> DefaultValue(Types[t].fields[k])]
SetField(m, v, k, x) == [m EXCEPT !.heap[v[2]].fields[k] = x]
NullOf(ty) == IF ty[1] = "Array" THEN NullArray ELSE NullObject

EvalIn(es, order, m) ==
    FoldLeft(LAMBDA acc, i : IF ~On(acc.m) THEN acc
                             ELSE LET r == Eval(es[i], acc.m) IN Yields(r.m, (i :> r.v) @@ acc.v),
             Yields(m, [i \in DOMAIN es |-> Unset]), order)
EvalEach(es, m) == EvalIn(es, [i \in DOMAIN es |-> i], m)

EvalUnary(e, m) ==
    Then(Eval(e.e, m), LAMBDA v, n :
        CASE e.op = "Identity"   -> Yields(n, v)
          [] e.op = "LogicalNot" -> Yields(n, BoolV(~v[2]))
          [] OTHER -> IF InRange(-v[2]) \/ ~e.checked THEN Yields(n, IntV(Wrap(-v[2])))
                      ELSE Failed(n, "IntegerOverflow"))

IntResult(op, checked, a, b, m) ==
    LET exact == CASE op = "AddInt" -> a + b [] op = "SubtractInt" -> a - b [] op = "MultiplyInt" -> a * b
                   [] op = "DivideInt" -> Quotient(a, b) [] OTHER -> Remainder(a, b)
    IN  IF op \in {"DivideInt", "RemainderInt"} /\ b = 0 THEN Failed(m, "DivisionByZero")
        ELSE IF InRange(exact) \/ (~checked /\ op # "DivideInt") THEN Yields(m, IntV(Wrap(exact)))
        ELSE Failed(m, "IntegerOverflow")

EvalPair(e, m) ==
    Then(EvalEach(<<e.a, e.b>>, m), LAMBDA v, n :
        LET a == v[1][2]  b == v[2][2] IN
        CASE e.op \in IntOps             -> IntResult(e.op, e.checked, a, b, n)
          [] e.op = "LessInt"            -> Yields(n, BoolV(a < b))
          [] e.op = "LessOrEqualInt"     -> Yields(n, BoolV(a <= b))
          [] e.op = "GreaterInt"         -> Yields(n, BoolV(a > b))
          [] e.op = "GreaterOrEqualInt"  -> Yields(n, BoolV(a >= b))
          [] e.op = "Equal"              -> Yields(n, BoolV(v[1] = v[2]))
          [] e.op = "NotEqual"           -> Yields(n, BoolV(v[1] # v[2])))

IsA(v, ty, m) == /\ v[1] = "Ref"
                 /\ IF ty[1] = "Array" THEN m.heap[v[2]].type = ty[2]
                    ELSE ~m.heap[v[2]].array /\ Assignable(m.heap[v[2]].type, ty[2])

\* Does a case take the value?  Its variable is set on the way.
Takes(c, v, m) ==
    Then(IF c.default THEN Yields(m, BoolV(TRUE))
         ELSE IF c.pat # VoidT
         THEN Yields(BindAny(m, c.l, IF IsA(v, c.pat, m) THEN v ELSE NullOf(c.pat)), BoolV(IsA(v, c.pat, m)))
         ELSE Then(Eval(c.label, m), LAMBDA x, n : Yields(n, BoolV(x = v))),
         LAMBDA yes, n : IF yes[2] /\ Given(c.guard) THEN Eval(c.guard, n) ELSE Yields(n, yes))

\* The first case that takes the value, the default last; 0 for none.
RECURSIVE Chosen(_, _, _, _)
Chosen(cases, i, v, m) ==
    IF i > Len(cases)
    THEN IF Defaults(cases) = {} THEN Yields(m, 0)
         ELSE Then(Takes(cases[LastDefault(cases)], v, m),
                   LAMBDA yes, n : Yields(n, IF yes[2] THEN LastDefault(cases) ELSE 0))
    ELSE IF cases[i].default THEN Chosen(cases, i + 1, v, m)
    ELSE Then(Takes(cases[i], v, m), LAMBDA yes, n : IF yes[2] THEN Yields(n, i) ELSE Chosen(cases, i + 1, v, n))

EvalNewArray(e, m) ==
    Then(Eval(e.len, m), LAMBDA n, m1 :
        IF n[2] < 0 THEN Failed(m1, "IndexOutOfRange")
        ELSE Then(EvalEach(e.items, Alloc(m1, Unset).m), LAMBDA xs, m2 :
             LET at == Len(m1.heap) + 1
                 obj == [type |-> e.ty[2], array |-> TRUE,
                         fields |-> [k \in 1..n[2] |-> IF k \in DOMAIN xs THEN xs[k] ELSE DefaultValue(e.el)]]
             IN  Yields([m2 EXCEPT !.heap[at] = obj], Ref(at))))

EvalElement(e, m) ==
    Then(EvalEach(IF e.k = "Element" THEN <<e.a, e.i>> ELSE <<e.a, e.i, e.e>>, m), LAMBDA v, n :
        IF v[1] = NullArray THEN Failed(n, "NullReference")
        ELSE IF v[2][2] + 1 \notin DOMAIN n.heap[v[1][2]].fields THEN Failed(n, "IndexOutOfRange")
        ELSE IF e.k = "Element" THEN Yields(n, n.heap[v[1][2]].fields[v[2][2] + 1])
        ELSE Yields(SetField(n, v[1], v[2][2] + 1, v[3]), v[3]))

\* An object is there while its arguments are evaluated and constructed.
EvalNewObject(e, m) ==
    LET struct == e.k = "NewStruct"  t == e.ty[2]
        fresh == IF struct THEN Yields(m, StructV(t, FieldsOf(t)))
                 ELSE Alloc(m, [type |-> t, array |-> FALSE, fields |-> FieldsOf(t)])
        built == Then(EvalIn(e.args, e.order, fresh.m), LAMBDA xs, n :
                     IF e.ctor = NoId THEN Yields(n, fresh.v)
                     ELSE LET r == Invoked(References[e.ctor].symbol, <<fresh.v>> \o xs, n) IN
                          IF struct THEN r ELSE [r EXCEPT !.v = fresh.v])
        init(acc, i) == Then(acc, LAMBDA obj, n :
            Then(EvalEach(i.args, n), LAMBDA xs, n1 :
                IF struct THEN Yields(n1, StructV(t, [obj[2][2] EXCEPT ![i.field] = xs[1]]))
                ELSE IF i.ref = NoId THEN Yields(SetField(n1, obj, i.field, xs[1]), obj)
                ELSE [Invoked(References[i.ref].symbol, <<obj>> \o xs, n1) EXCEPT !.v = obj]))
    IN  FoldLeft(init, built, e.inits)

EvalMember(e, m) ==
    Then(Eval(e.e, m), LAMBDA v, n :
        IF v = NullObject THEN IF e.cond THEN Yields(n, IF e.nullable = NoId THEN NullOf(e.ty)
                                                        ELSE StructV(e.nullable, FieldsOf(e.nullable)))
                               ELSE Failed(n, "NullReference")
        ELSE LET x == n.heap[v[2]].fields[e.f] IN
             Yields(n, IF e.cond /\ e.nullable # NoId THEN StructV(e.nullable, <<BoolV(TRUE), x>>) ELSE x))

EvalMemberAssignment(e, m) ==
    Then(Eval(e.e, m), LAMBDA v, n :
        IF v = NullObject THEN Failed(n, "NullReference")
        ELSE Then(Eval(e.x, n), LAMBDA x, n1 : Yields(SetField(n1, v, e.f, x), x)))

\* Only the field changes, in the struct as it is when the value is known.
EvalStructFieldAssignment(e, m) ==
    Then(Eval(e.x, m), LAMBDA x, n :
        LET cell == n.loc[e.l]
            old == IF e.cell = NoId THEN n.loc[e.l] ELSE n.heap[cell[2]].fields[1]
            new == StructV(e.owner, [old[2][2] EXCEPT ![e.f] = x])
        IN  Yields(IF e.cell = NoId THEN Bind(n, e.l, new) ELSE SetField(n, cell, 1, new), x))

(* -------------------------------- calls ------------------------------- *)

\* What a call leaves behind: the caller's locals, and a value, an exception or
\* an error.
Invoked(symbol, args, m) ==
    LET f == source[symbol]
        entry == [m EXCEPT !.loc = [i \in DOMAIN args |-> args[i]]]
        left == Exec(f.body, entry)
        back == [left EXCEPT !.loc = m.loc]
    IN  IF left.how \in {"throw", "error"} THEN Yields(back, Unset)
        ELSE Yields([back EXCEPT !.how = "next", !.val = m.val], IF left.how = "return" THEN left.val ELSE Unset)

Dispatch(ref, args, m) ==
    IF ref.mode = "direct" THEN Invoked(ref.symbol, args, m)
    ELSE IF args[1] = NullObject THEN Failed(m, "NullReference")
    ELSE Invoked(Dispatched(ref, m.heap[args[1][2]].type), args, m)

\* A receiver that is null stops the call before its other arguments.
EvalArguments(e, m) ==
    FoldLeft(LAMBDA acc, i :
                Then(acc, LAMBDA vs, n :
                    Then(Eval(e.args[i], n), LAMBDA v, n1 :
                        IF i = 1 /\ e.owner # NoId /\ v = NullObject THEN Failed(n1, "NullReference")
                        ELSE Yields(n1, (i :> v) @@ vs))),
             Yields(m, [i \in DOMAIN e.args |-> Unset]), e.order)

EvalCall(e, m) ==
    LET rest == SelectSeq(e.order, LAMBDA i : i # 1)
        member(v, n) == Then(EvalIn(e.args, rest, n), LAMBDA xs, n1 :
                            Then(Dispatch(References[e.ref], (1 :> v) @@ xs, n1), LAMBDA x, n2 :
                                Yields(n2, IF e.nullable = NoId THEN x ELSE StructV(e.nullable, <<BoolV(TRUE), x>>))))
    IN  IF ~e.cond THEN Then(EvalArguments(e, m), LAMBDA xs, n : Dispatch(References[e.ref], xs, n))
        ELSE Then(Eval(e.args[1], m), LAMBDA v, n :
             IF v # NullObject THEN member(v, n)
             ELSE Yields(n, IF e.nullable = NoId THEN NullOf(e.ty) ELSE StructV(e.nullable, FieldsOf(e.nullable))))

EvalPropertyAssignment(e, m) ==
    Then(EvalArguments(e, m), LAMBDA xs, n :
        Then(Eval(e.x, n), LAMBDA x, n1 :
            Then(Dispatch(References[e.ref], Append(xs, x), n1), LAMBDA none, n2 : Yields(n2, x))))

\* A delegate is the list of what it calls.
Delegation(leaves) == IF leaves = <<>> THEN NullObject ELSE <<"Delegation", leaves>>
CallsOf(v) == IF v = NullObject THEN <<>> ELSE v[2]

EvalDelegateCreation(e, m) ==
    LET made(target, n) == Yields(n, Delegation(<<[ref |-> e.ref, bound |-> target]>>)) IN
    IF e.closure # NoId
    THEN Then(EvalEach(e.captures, Alloc(m, Unset).m), LAMBDA xs, n :
             LET at == Len(m.heap) + 1 IN
             made(<<Ref(at)>>, [n EXCEPT !.heap[at] = [type |-> e.closure, array |-> FALSE, fields |-> xs]]))
    ELSE IF Given(e.e) THEN Then(Eval(e.e, m), LAMBDA v, n : made(<<v>>, n))
    ELSE made(<<>>, m)

RECURSIVE CallEach(_, _, _)
CallEach(leaves, args, m) ==
    LET first == Dispatch(References[Head(leaves).ref], Head(leaves).bound \o args, m) IN
    IF Len(leaves) = 1 THEN first ELSE Then(first, LAMBDA v, n : CallEach(Tail(leaves), args, n))

\* The last run of calls that equals the one taken away.
Removed(l, r) ==
    LET starts == {k \in 0..(Len(l) - Len(r)) : SubSeq(l, k + 1, k + Len(r)) = r} IN
    IF r = <<>> \/ starts = {} THEN l
    ELSE LET k == MaxOf(starts) IN SubSeq(l, 1, k) \o SubSeq(l, k + Len(r) + 1, Len(l))
Combined(op, a, b) ==
    Delegation(IF op = "CombineDelegate" THEN CallsOf(a) \o CallsOf(b) ELSE Removed(CallsOf(a), CallsOf(b)))

EvalEventInvocation(e, m) ==
    Then(Eval(e.e, m), LAMBDA v, n :
        IF v = NullObject THEN Failed(n, "NullReference")
        ELSE Then(EvalEach(e.args, n), LAMBDA xs, n1 :
             LET stored == n1.heap[v[2]].fields[e.f] IN
             IF stored = NullObject THEN Yields(n1, Unset) ELSE CallEach(CallsOf(stored), xs, n1)))

\* A `ref` or `out` place is a wrapper for the time of the call, copied in and
\* copied back.
Place(arg, m) ==
    LET known == [value |-> Unset, obj |-> Unset, at |-> Unset]
        with(v, o, i, n) == Yields(n, [known EXCEPT !.value = v, !.obj = o, !.at = i])
    IN  CASE arg.mode = "value"  -> Then(Eval(arg.e, m), LAMBDA v, n : with(v, Unset, Unset, n))
          [] arg.mode # "value" /\ arg.target \in {"Variable", "None"} ->
                IF arg.mode = "out" THEN with(Unset, Unset, Unset, m)
                ELSE Then(Eval(arg.e, m), LAMBDA v, n : with(v, Unset, Unset, n))
          [] arg.target = "Element" -> Then(EvalEach(<<arg.e, arg.i>>, m), LAMBDA v, n :
                IF arg.mode = "out" THEN with(Unset, v[1], v[2], n)
                ELSE IF v[1] = NullArray THEN Failed(n, "NullReference")
                ELSE IF v[2][2] + 1 \notin DOMAIN n.heap[v[1][2]].fields THEN Failed(n, "IndexOutOfRange")
                ELSE with(n.heap[v[1][2]].fields[v[2][2] + 1], v[1], v[2], n))
          [] arg.target = "Field" -> Then(Eval(arg.e, m), LAMBDA v, n :
                IF v = NullObject THEN Failed(n, "NullReference")
                ELSE with(n.heap[v[2]].fields[arg.f], v, Unset, n))
          [] OTHER -> Then(Eval(arg.e, m), LAMBDA v, n : with(v[2][2][arg.f], v, Unset, n))

Wrapper(arg, p, m) ==
    IF arg.mode = "value" THEN Yields(m, p.value)
    ELSE Alloc(m, [type |-> arg.cell, array |-> FALSE,
                   fields |-> IF arg.mode = "ref" THEN <<p.value>> ELSE FieldsOf(arg.cell)])

CopiedBack(arg, p, cell, m) ==
    LET x == m.heap[cell[2]].fields[1] IN
    CASE arg.mode = "value" \/ arg.target = "None" -> Yields(m, Unset)
      [] arg.target = "Variable" -> Yields(Bind(m, arg.l, x), Unset)
      [] arg.target = "Field"    -> Yields(SetField(m, p.obj, arg.f, x), Unset)
      [] arg.target = "Element"  ->
            IF p.obj = NullArray THEN Failed(m, "NullReference")
            ELSE IF p.at[2] + 1 \notin DOMAIN m.heap[p.obj[2]].fields THEN Failed(m, "IndexOutOfRange")
            ELSE Yields(SetField(m, p.obj, p.at[2] + 1, x), Unset)
      [] OTHER -> Yields(Bind(m, arg.l, StructV(arg.owner, [p.obj[2][2] EXCEPT ![arg.f] = x])), Unset)

EvalReferenceCall(e, m) ==
    LET pass(acc, arg) == Then(acc, LAMBDA vs, n :
            Then(Place(arg, n), LAMBDA p, n1 :
                Then(Wrapper(arg, p, n1), LAMBDA v, n2 : Yields(n2, Append(vs, [p |-> p, v |-> v])))))
        first == IF e.del = NoId THEN Yields(m, NullObject) ELSE Eval(e.e, m)
    IN  Then(first, LAMBDA del, m1 :
        Then(FoldLeft(pass, Yields(m1, <<>>), e.args), LAMBDA ps, n :
            LET vs == [i \in DOMAIN ps |-> ps[i].v]
                call == IF e.del = NoId THEN Dispatch(References[e.ref], vs, n)
                        ELSE IF del = NullObject THEN Failed(n, "NullReference")
                        ELSE CallEach(CallsOf(del), vs, n)
            IN  Then(call, LAMBDA x, n1 :
                Then(FoldLeft(LAMBDA acc, i : Then(acc, LAMBDA none, n2 : CopiedBack(e.args[i], ps[i].p, ps[i].v, n2)),
                              Yields(n1, Unset), [i \in DOMAIN ps |-> i]),
                     LAMBDA none, n2 : Yields(n2, x)))))

(* ----------------------------- expressions ---------------------------- *)

Eval(e, m) ==
    CASE e.k = "Literal"   -> Yields(m, IF e.ty = IntT THEN IntV(e.n) ELSE IF e.ty = BoolT THEN BoolV(e.n) ELSE Unset)
      [] e.k = "Variable"  -> Yields(m, m.loc[e.l])
      [] e.k = "Assignment" -> Then(Eval(e.e, m), LAMBDA v, n : Yields(Bind(n, e.l, v), v))
      [] e.k = "Conversion" -> Then(Eval(e.e, m), LAMBDA v, n : Yields(n, IF e.how = "Identity" THEN v ELSE NullOf(e.ty)))
      [] e.k = "Unary"     -> EvalUnary(e, m)
      [] e.k = "Binary"    -> EvalPair(e, m)
      [] e.k = "ShortCircuit" -> Then(Eval(e.a, m), LAMBDA v, n : IF v[2] = e.and THEN Eval(e.b, n) ELSE Yields(n, v))
      [] e.k = "Conditional" -> Then(Eval(e.c, m), LAMBDA v, n : Eval(IF v[2] THEN e.a ELSE e.b, n))
      [] e.k = "Coalesce"  -> Then(Eval(e.a, m), LAMBDA v, n :
                                  IF e.nullable = NoId THEN IF v = NullOf(e.ty) THEN Eval(e.b, n) ELSE Yields(n, v)
                                  ELSE IF v[2][2][1][2] THEN Yields(n, v[2][2][2]) ELSE Eval(e.b, n))
      [] e.k = "Switch"    -> Then(Eval(e.e, m), LAMBDA v, n :
                                  Then(Chosen(e.arms, 1, v, n), LAMBDA i, n1 : Eval(e.arms[i].value, n1)))
      [] e.k = "TypeTest"  -> Then(Eval(e.e, m), LAMBDA v, n :
                                  LET is == IsA(v, e.el, n)  as == IF is THEN v ELSE NullOf(e.el) IN
                                  Yields(BindAny(n, e.l, as), IF e.safe THEN as ELSE BoolV(is)))
      [] e.k = "NewArray"  -> EvalNewArray(e, m)
      [] e.k = "ArrayLength" -> Then(Eval(e.e, m), LAMBDA v, n :
                                    IF v = NullArray THEN Failed(n, "NullReference")
                                    ELSE Yields(n, IntV(Len(n.heap[v[2]].fields))))
      [] e.k \in {"Element", "ElementAssignment"} -> EvalElement(e, m)
      [] e.k \in {"NewObject", "NewStruct"} -> EvalNewObject(e, m)
      [] e.k = "Member"    -> EvalMember(e, m)
      [] e.k = "MemberAssignment" -> EvalMemberAssignment(e, m)
      [] e.k = "StructField" -> Then(Eval(e.e, m), LAMBDA v, n : Yields(n, v[2][2][e.f]))
      [] e.k = "StructFieldAssignment" -> EvalStructFieldAssignment(e, m)
      [] e.k = "PropertyAssignment" -> EvalPropertyAssignment(e, m)
      [] e.k = "Call"      -> EvalCall(e, m)
      [] e.k = "ReferenceCall" -> EvalReferenceCall(e, m)
      [] e.k = "DelegateCreation" -> EvalDelegateCreation(e, m)
      [] e.k = "Combination" -> Then(EvalEach(<<e.a, e.b>>, m), LAMBDA v, n : Yields(n, Combined(e.op, v[1], v[2])))
      [] e.k = "EventInvocation" -> EvalEventInvocation(e, m)

(* ------------------------------ statements ---------------------------- *)

ExecAll(body, m) == FoldLeft(LAMBDA acc, st : IF On(acc) THEN Exec(st, acc) ELSE acc, m, body)

\* The first clause that takes the exception, then the finalizer: it runs once,
\* whichever way control goes, and its own way out replaces the one before.
ExecTry(st, m) ==
    LET body == Exec(st.body, m)
        taking == {i \in DOMAIN st.catches : body.how = "throw"
                                             /\ (st.catches[i].ty = NoId \/ IsA(body.val, Ty("Object", st.catches[i].ty), body))}
        clause == st.catches[CHOOSE i \in taking : \A j \in taking : i <= j]
        handled == IF taking = {} THEN body
                   ELSE Exec(clause.body, [Bind(body, clause.l, body.val) EXCEPT !.how = "next"])
        final == Exec(st.final, [handled EXCEPT !.how = "next"])
    IN  IF ~Given(st.final) \/ handled.how = "error" THEN handled
        ELSE IF On(final) THEN [final EXCEPT !.how = handled.how, !.val = handled.val] ELSE final

\* A do loop is entered without a test.
RECURSIVE Loop(_, _, _, _, _)
Loop(c, body, step, tested, m) ==
    LET ask == IF tested THEN Eval(c, m) ELSE Yields(m, BoolV(TRUE))
        ran == Exec(body, ask.m)
        next == IF Given(step) THEN Eval(step, [ran EXCEPT !.how = "next"]).m ELSE [ran EXCEPT !.how = "next"]
    IN  IF ~On(ask.m) \/ ~ask.v[2] THEN ask.m
        ELSE IF ran.how = "break" THEN [ran EXCEPT !.how = "next"]
        ELSE IF ran.how \notin {"next", "continue"} THEN ran
        ELSE IF ~On(next) THEN next
        ELSE Loop(c, body, step, TRUE, next)

RECURSIVE Each(_, _)
Each(st, m) ==
    LET more == Eval(st.count, m)
        go == IF st.enumerator THEN more.v[2] ELSE m.loc[st.at][2] < more.v[2]
        x == Eval(st.element, more.m)
        ran == Exec(st.body, Bind(x.m, st.x, x.v))
        index == [ran EXCEPT !.how = "next", !.loc[st.at] = IntV(@[2] + 1)]
    IN  IF ~On(more.m) \/ ~go THEN more.m
        ELSE IF ~On(x.m) THEN x.m
        ELSE IF ran.how = "break" THEN [ran EXCEPT !.how = "next"]
        ELSE IF ran.how \notin {"next", "continue"} THEN ran
        ELSE Each(st, IF st.enumerator THEN [ran EXCEPT !.how = "next"] ELSE index)

ExecSwitch(st, m) ==
    LET v == Eval(st.e, m)
        i == Chosen(st.sections, 1, v.v, Bind(v.m, st.l, v.v))
        ran == ExecAll(st.sections[i.v].body, i.m)
    IN  IF ~On(v.m) THEN v.m ELSE IF ~On(i.m) \/ i.v = 0 THEN i.m
        ELSE IF ran.how = "break" THEN [ran EXCEPT !.how = "next"] ELSE ran

ExecSubscription(st, m) ==
    LET r == Eval(st.e, m)
        x == Eval(st.x, r.m)
        old == r.m.heap[r.v[2]].fields[st.f]
    IN  IF ~On(r.m) THEN r.m ELSE IF r.v = NullObject THEN Failed(r.m, "NullReference").m
        ELSE IF ~On(x.m) THEN x.m
        ELSE SetField(x.m, r.v, st.f, Combined(st.op, old, x.v))

Declare(st, m) ==
    LET x == Eval(st.e, m)
        cell == Alloc(x.m, [type |-> st.cell, array |-> FALSE, fields |-> <<x.v>>])
    IN  IF ~Given(st.e) THEN m
        ELSE IF ~On(x.m) THEN x.m
        ELSE IF st.cell = NoId THEN Bind(x.m, st.l, x.v) ELSE Bind(cell.m, st.l, cell.v)

Exec(st, m) ==
    CASE st.k = "Block"       -> ExecAll(st.body, m)
      [] st.k = "Return"      -> IF ~Given(st.e) THEN Out(m, "return", Unset)
                                 ELSE LET r == Eval(st.e, m) IN IF On(r.m) THEN Out(r.m, "return", r.v) ELSE r.m
      [] st.k = "Break"       -> Out(m, "break", Unset)
      [] st.k = "Continue"    -> Out(m, "continue", Unset)
      [] st.k = "Throw"       -> LET r == Eval(st.e, m) IN
                                 IF ~On(r.m) THEN r.m
                                 ELSE IF r.v = NullObject THEN Failed(r.m, "NullReference").m
                                 ELSE Out(r.m, "throw", r.v)
      [] st.k = "Try"         -> ExecTry(st, m)
      [] st.k = "Subscribe"   -> ExecSubscription(st, m)
      [] st.k = "Declaration" -> Declare(st, m)
      [] st.k = "Expression"  -> Eval(st.e, m).m
      [] st.k = "If"          -> LET c == Eval(st.c, m) IN
                                 IF ~On(c.m) THEN c.m
                                 ELSE IF c.v[2] THEN Exec(st.a, c.m) ELSE IF Given(st.b) THEN Exec(st.b, c.m) ELSE c.m
      [] st.k = "While"       -> Loop(st.c, st.body, Absent, TRUE, m)
      [] st.k = "For"         -> LET i == IF Given(st.init) THEN Exec(st.init, m) ELSE m IN
                                 IF On(i) THEN Loop(st.c, st.body, st.step, TRUE, i) ELSE i
      [] st.k = "Foreach"     -> LET c == Eval(st.e, m) IN
                                 IF On(c.m) THEN Each(st, Bind(Bind(c.m, st.l, c.v), st.at, IntV(0))) ELSE c.m
      [] st.k = "DoWhile"     -> Loop(st.c, st.body, Absent, FALSE, m)
      [] st.k = "SwitchStatement" -> ExecSwitch(st, m)

\* What the invocation of `main` on `args` comes to.
Meant(main, args) ==
    LET start == [loc |-> [l \in {} |-> Unset], heap |-> <<>>, how |-> "next", val |-> Unset]
        r == Invoked(main, args, start)
    IN  CASE r.m.how = "throw" -> [code |-> "ScriptException", value |-> Unset]
          [] r.m.how = "error" -> [code |-> r.m.val, value |-> Unset]
          [] OTHER             -> [code |-> "None", value |-> r.v]
(* ------------------- what the lowering is known to fail on ------------ *)

Parts(st) ==
    CASE st.k = "Block" -> st.body
      [] st.k = "If"    -> IF Given(st.b) THEN <<st.a, st.b>> ELSE <<st.a>>
      [] st.k \in {"While", "For", "DoWhile", "Foreach"} -> <<st.body>>
      [] st.k = "Try"   -> <<st.body>> \o [i \in DOMAIN st.catches |-> st.catches[i].body]
                           \o (IF Given(st.final) THEN <<st.final>> ELSE <<>>)
      [] st.k = "SwitchStatement" -> FlattenSeq([i \in DOMAIN st.sections |-> st.sections[i].body])
      [] OTHER          -> <<>>

\* How control may leave a statement, whatever its conditions say.
RECURSIVE Ways(_)
InTurn(ways, more) == IF "next" \in ways THEN (ways \ {"next"}) \cup more ELSE ways
WaysOfAll(body) == FoldLeft(LAMBDA ways, st : IF "next" \in ways THEN InTurn(ways, Ways(st)) ELSE ways, {"next"}, body)
Around1(body, endless) ==
    (body \ {"next", "break", "continue"}) \cup (IF endless /\ "break" \notin body THEN {} ELSE {"next"})
Ways(st) ==
    CASE st.k = "Block"    -> WaysOfAll(st.body)
      [] st.k = "Return"   -> {"return"}
      [] st.k = "Throw"    -> {"throw"}
      [] st.k = "Break"    -> {"break"}
      [] st.k = "Continue" -> {"continue"}
      [] st.k = "If"       -> Ways(st.a) \cup (IF Given(st.b) THEN Ways(st.b) ELSE {"next"})
      [] st.k = "Try"      ->
            LET tried == Ways(st.body) \cup UNION {Ways(st.catches[i].body) : i \in DOMAIN st.catches}
                final == IF Given(st.final) THEN Ways(st.final) ELSE {"next"}
            IN  IF "next" \in final THEN tried \cup (final \ {"next"}) ELSE final
      [] st.k \in {"While", "For", "DoWhile"} -> Around1(Ways(st.body), LiteralTrue(st.c))
      [] st.k = "Foreach"  -> Around1(Ways(st.body), FALSE)
      [] st.k = "SwitchStatement" ->
            LET all == UNION {WaysOfAll(st.sections[i].body) : i \in DOMAIN st.sections} IN
            (all \ {"break"}) \cup (IF "break" \in all \/ Defaults(st.sections) = {} THEN {"next"} ELSE {})
      [] OTHER             -> {"next"}

\* A statement the lowering brings into verified MIR.  `last` says that no
\* block is made after it.  A loop that ends with a test or a step has to reach
\* it; an endless loop has an exit exactly when a break outside a try needs it;
\* a block dropped because nothing reaches it must be the last that is made.
RECURSIVE Delivered(_, _)
Delivered(st, last) ==
    CASE st.k = "Block" -> \A i \in DOMAIN st.body : Delivered(st.body[i], last)
      [] st.k = "If"    -> Delivered(st.a, last /\ ~Given(st.b)) /\ (Given(st.b) => Delivered(st.b, last))
      [] st.k \in {"While", "For", "DoWhile", "Foreach"} ->
            /\ Delivered(st.body, last)
            /\ st.k \in {"For", "DoWhile"} => Ways(st.body) \cap {"next", "continue"} # {}
            /\ st.k # "Foreach" /\ LiteralTrue(st.c) => ("break" \in Ways(st.body) <=> BreaksHere(st.body))
      [] st.k = "Try"   ->
            /\ Delivered(st.body, FALSE)
            /\ \A i \in DOMAIN st.catches :
                  Delivered(st.catches[i].body, last /\ i = Len(st.catches) /\ ~Given(st.final))
            /\ Given(st.final) => Delivered(st.final, FALSE)
            /\ last \/ "next" \in Ways(st)
      [] st.k = "SwitchStatement" ->
            /\ \A i \in DOMAIN Parts(st) : Delivered(Parts(st)[i], FALSE)
            /\ last \/ "next" \in Ways(st)
      [] OTHER          -> TRUE

\* A statement and all the statements in it.
RECURSIVE Statements(_)
Statements(st) == FoldLeft(LAMBDA all, part : all \o Statements(part), <<st>>, Parts(st))
Every(st, Holds(_)) == LET all == Statements(st) IN \A i \in DOMAIN all : Holds(all[i])

\* A finalizer that throws is run again by the handlers of its own try.
FinallyGoesOn(body) == Every(body, LAMBDA st : st.k = "Try" /\ Given(st.final) => Ways(st.final) = {"next"})

\* Flow analysis lets a do loop assign what a break or continue skips.
NoDoIsLeft(body) == Every(body, LAMBDA st : st.k = "DoWhile" => Ways(st.body) \cap {"break", "continue"} = {})
=============================================================================
