------------------------------- MODULE Lowering -------------------------------
(***************************************************************************)
(* The lowering of bound trees to MIR (MirLowerer.cpp,                     *)
(* MirExpressions.cpp).  The lowerer is a state record `s` that every      *)
(* operator takes and returns; an expression returns the state and the     *)
(* register `v` of its value.  Blocks have an identity, which is their     *)
(* place when they are created and need not stay it.                       *)
(***************************************************************************)
EXTENDS Bytecode, SequencesExt

Absent == [k |-> "Absent"]        \* an expression or statement that is not there
Given(x) == x.k # "Absent"

RECURSIVE LowerExpr(_, _), LowerStmt(_, _), LowerAll(_, _)

(* --------------------------- blocks and values ------------------------ *)

OpenTerm == [kind |-> "None", reg |-> NoReg, to |-> <<>>]
NewBlock(id) == [id |-> id, params |-> <<>>, code |-> <<>>, term |-> OpenTerm]

\* block(id): a block is found only at its own place.
Found(s, id) == id \in DOMAIN s.blocks /\ s.blocks[id].id = id
HasCurrent(s) == s.cur # 0 /\ ~s.crash
Opened(s) == HasCurrent(s) /\ s.blocks[s.cur].term.kind = "None"
Crashed(s) == [s EXCEPT !.crash = TRUE]

CreateBlock(s) == [s EXCEPT !.blocks = Append(@, NewBlock(Len(@) + 1))]
LastBlock(s) == s.blocks[Len(s.blocks)].id
CreateBlocks(s, n) == [s EXCEPT !.blocks = @ \o [i \in 1..n |-> NewBlock(Len(@) + i)]]
SetCurrent(s, id) == IF Found(s, id) THEN [s EXCEPT !.cur = id] ELSE Crashed(s)
ClearCurrent(s) == [s EXCEPT !.cur = 0]
\* Fault: the blocks that follow keep their places.
KeepErased(s, id) == s
EraseBlock(s, id) == [s EXCEPT !.blocks = SelectSeq(@, LAMBDA b : b.id # id)]

BlockParameter(s, id, ty) ==
    [s EXCEPT !.regs = Append(@, ty), !.blocks[id].params = Append(@, Len(s.regs) + 1)]

Put(s, ins) == IF Opened(s) THEN [s EXCEPT !.blocks[s.cur].code = Append(@, ins)] ELSE Crashed(s)
Instr(op, res, args, idx, el, checked) ==
    [op |-> op, res |-> res, args |-> args, idx |-> idx, el |-> el, checked |-> checked]
Fresh(s) == Len(s.regs) + 1

\* emitValue: the register is the next one.
ValueOf(s, ins, ty) ==
    [s |-> Put([s EXCEPT !.regs = Append(@, ty)], [ins EXCEPT !.res = Fresh(s)]), v |-> Fresh(s)]
Value(s, op, ty, args, idx) == ValueOf(s, Instr(op, NoReg, args, idx, VoidT, TRUE), ty)
Tested(s, op, ty, args, el) == ValueOf(s, Instr(op, NoReg, args, 0, el, TRUE), ty)
Effect(s, op, args, idx) == Put(s, Instr(op, NoReg, args, idx, VoidT, TRUE))
StoreLocal(s, l, v) == Effect(s, "StoreLocal", <<v>>, l)
StoreField(s, obj, owner, f, v) == Effect(s, "StoreField", <<obj, v>>, <<owner, f>>)

Terminate(s, term) == IF Opened(s) THEN [s EXCEPT !.blocks[s.cur].term = term] ELSE Crashed(s)
JumpTo(s, id, args) == Terminate(s, [kind |-> "Jump", reg |-> NoReg, to |-> <<<<id, args>>>>])
BranchTo(s, v, yes, no) == Terminate(s, [kind |-> "Branch", reg |-> v, to |-> <<yes, no>>])
JumpIfOpen(s, id) == IF Opened(s) THEN JumpTo(s, id, <<>>) ELSE s

(* ----------------------- pieces of an expression ---------------------- *)

NullAs(s, ty) ==
    LET raw == Value(s, "ConstantNull", NullT, <<>>, 0) IN
    Value(raw.s, IF ty[1] = "Array" THEN "ConvertNullToArray" ELSE "ConvertNullToObject", ty, <<raw.v>>, 0)
DefaultStruct(s, t) == Value(s, "NewStruct", Ty("Struct", t), <<>>, t)
ConstInt(s, n) == Value(s, "ConstantInt", IntT, <<>>, n)
LoadVar(s, l, ty) == Value(s, "LoadLocal", ty, <<>>, l)
NotNull(s, v, owner) == Value(s, "CheckNotNull", Ty("Object", owner), <<v>>, owner)
SetStruct(s, t, f, struct, v) == Value(s, "StoreStructField", Ty("Struct", t), <<struct, v>>, <<t, f>>)

\* A nullable struct has its flag first and its value second.
Wrapped(s, t, v) ==
    LET empty == DefaultStruct(s, t)
        yes == Value(empty.s, "ConstantBool", BoolT, <<>>, TRUE)
        flagged == SetStruct(yes.s, t, 1, empty.v, yes.v)
    IN  SetStruct(flagged.s, t, 2, flagged.v, v)

\* The call instruction has a result unless its reference returns nothing.
Called(s, ref, args) ==
    LET ins == Instr("Call", NoReg, args, ref, VoidT, TRUE)  ret == s.module.references[ref].ret IN
    IF ret = VoidT THEN [s |-> Put(s, ins), v |-> NoReg] ELSE ValueOf(s, ins, ret)

\* Expressions in the order `order` of their places; values by place.
LowerInOrder(es, order, s) ==
    FoldLeft(LAMBDA acc, i : LET r == LowerExpr(es[i], acc.s) IN [s |-> r.s, vs |-> (i :> r.v) @@ acc.vs],
             [s |-> s, vs |-> [i \in DOMAIN es |-> NoReg]], order)
LowerEach(es, s) == LowerInOrder(es, [i \in DOMAIN es |-> i], s)

LowerLiteral(e, s) ==
    Value(s, IF e.ty = IntT THEN "ConstantInt" ELSE IF e.ty = BoolT THEN "ConstantBool" ELSE "ConstantNull",
          e.ty, <<>>, e.n)

LowerAssignment(e, s) == LET r == LowerExpr(e.e, s) IN [s |-> StoreLocal(r.s, e.l, r.v), v |-> r.v]

LowerConversion(e, s) ==
    LET r == LowerExpr(e.e, s) IN
    IF e.how = "Identity" THEN r ELSE Value(r.s, e.how, e.ty, <<r.v>>, 0)

LowerUnary(e, s) ==
    LET r == LowerExpr(e.e, s) IN
    CASE e.op = "Identity" -> r
      [] e.op = "LogicalNot" -> Value(r.s, "LogicalNot", e.ty, <<r.v>>, 0)
      [] OTHER -> ValueOf(r.s, Instr("NegateInt", NoReg, <<r.v>>, 0, VoidT, e.checked), e.ty)

LowerBinary(e, s) ==
    LET a == LowerExpr(e.a, s)  b == LowerExpr(e.b, a.s) IN
    ValueOf(b.s, Instr(e.op, NoReg, <<a.v, b.v>>, 0, VoidT, IF e.op \in IntOps THEN e.checked ELSE TRUE), e.ty)

(* ------------------- expressions with blocks of their own ------------- *)

\* The two ways of a choice meet in a block that takes the value.
LowerShortCircuit(e, s) ==
    LET a == LowerExpr(e.a, s)
        made == CreateBlocks(a.s, 2)
        rhs == LastBlock(made) - 1  merge == LastBlock(made)
        taken == BlockParameter(made, merge, BoolT)
        short == Value(taken, "ConstantBool", BoolT, <<>>, ~e.and)
        way(id, args) == <<id, args>>
        branched == IF e.and THEN BranchTo(short.s, a.v, way(rhs, <<>>), way(merge, <<short.v>>))
                    ELSE BranchTo(short.s, a.v, way(merge, <<short.v>>), way(rhs, <<>>))
        b == LowerExpr(e.b, SetCurrent(branched, rhs))
    IN  [s |-> SetCurrent(JumpTo(b.s, merge, <<b.v>>), merge), v |-> Fresh(made)]

LowerConditional(e, s) ==
    LET c == LowerExpr(e.c, s)
        made == CreateBlocks(c.s, 3)
        yes == LastBlock(made) - 2  no == LastBlock(made) - 1  merge == LastBlock(made)
        branched == BranchTo(BlockParameter(made, merge, e.ty), c.v, <<yes, <<>>>>, <<no, <<>>>>)
        a == LowerExpr(e.a, SetCurrent(branched, yes))
        b == LowerExpr(e.b, SetCurrent(JumpTo(a.s, merge, <<a.v>>), no))
    IN  [s |-> SetCurrent(JumpTo(b.s, merge, <<b.v>>), merge), v |-> Fresh(made)]

\* `nullable` names the struct of a nullable value, NoId for a reference.
CoalesceNullable(e, left) ==
    LET has == Value(left.s, "LoadStructField", BoolT, <<left.v>>, <<e.nullable, 1>>)
        made == CreateBlocks(has.s, 3)
        present == LastBlock(made) - 2  fallback == LastBlock(made) - 1  merge == LastBlock(made)
        branched == BranchTo(BlockParameter(made, merge, e.ty), has.v, <<present, <<>>>>, <<fallback, <<>>>>)
        value == Value(SetCurrent(branched, present), "LoadStructField", e.ty, <<left.v>>, <<e.nullable, 2>>)
        right == LowerExpr(e.b, SetCurrent(JumpTo(value.s, merge, <<value.v>>), fallback))
    IN  [s |-> SetCurrent(JumpTo(right.s, merge, <<right.v>>), merge), v |-> Fresh(made)]

LowerNullCoalescing(e, s) ==
    LET left == LowerExpr(e.a, s)
        null == NullAs(left.s, e.ty)
        has == Value(null.s, "NotEqual", BoolT, <<left.v, null.v>>, 0)
        made == CreateBlocks(has.s, 2)
        fallback == LastBlock(made) - 1  merge == LastBlock(made)
        branched == BranchTo(BlockParameter(made, merge, e.ty), has.v, <<merge, <<left.v>>>>, <<fallback, <<>>>>)
        right == LowerExpr(e.b, SetCurrent(branched, fallback))
    IN  IF e.nullable # NoId THEN CoalesceNullable(e, left)
        ELSE [s |-> SetCurrent(JumpTo(right.s, merge, <<right.v>>), merge), v |-> Fresh(made)]

\* `receiver?.member`: `Present(s)` gives the member of a receiver that is there.
NullConditional(e, recv, owner, Present(_)) ==
    LET null == NullAs(recv.s, Ty("Object", owner))
        has == Value(null.s, "NotEqual", BoolT, <<recv.v, null.v>>, 0)
        made == CreateBlocks(has.s, 3)
        present == LastBlock(made) - 2  missing == LastBlock(made) - 1  merge == LastBlock(made)
        branched == BranchTo(BlockParameter(made, merge, e.ty), has.v, <<present, <<>>>>, <<missing, <<>>>>)
        got == Present(SetCurrent(branched, present))
        value == IF e.nullable = NoId THEN got ELSE Wrapped(got.s, e.nullable, got.v)
        lost == SetCurrent(JumpTo(value.s, merge, <<value.v>>), missing)
        none == IF e.nullable = NoId THEN NullAs(lost, e.ty) ELSE DefaultStruct(lost, e.nullable)
    IN  [s |-> SetCurrent(JumpTo(none.s, merge, <<none.v>>), merge), v |-> Fresh(made)]

\* What a section or an arm asks of the value: a type, or equality with a label.
PatternMatch(p, v, s) ==
    IF p.pat = VoidT
    THEN LET label == LowerExpr(p.label, s) IN Value(label.s, "Equal", BoolT, <<v, label.v>>, 0)
    ELSE LET is == Tested(s, "IsType", BoolT, <<v>>, p.pat)
             as == Tested(is.s, "AsType", p.pat, <<v>>, p.pat)
         IN  IF p.l = 0 THEN is ELSE [s |-> StoreLocal(as.s, p.l, as.v), v |-> is.v]

\* One test of a switch: to `hit` when the pattern and its guard hold.
TestCase(p, v(_), hit, s) ==
    LET made == CreateBlock(s)
        next == LastBlock(made)
        input == v(made)
        match == PatternMatch(p, input.v, input.s)
        guarded == CreateBlock(match.s)
        entered == SetCurrent(BranchTo(guarded, match.v, <<LastBlock(guarded), <<>>>>, <<next, <<>>>>), LastBlock(guarded))
        guard == LowerExpr(p.guard, entered)
    IN  SetCurrent(IF Given(p.guard) THEN BranchTo(guard.s, guard.v, <<hit, <<>>>>, <<next, <<>>>>)
                   ELSE BranchTo(match.s, match.v, <<hit, <<>>>>, <<next, <<>>>>), next)

Defaults(cases) == {i \in DOMAIN cases : cases[i].default}
LastDefault(cases) == CHOOSE i \in Defaults(cases) : \A j \in Defaults(cases) : j <= i

\* The last arm of a switch expression is its discard.
LowerSwitchExpression(e, s) ==
    LET input == LowerExpr(e.e, s)
        n == Len(e.arms)
        made == CreateBlocks(input.s, n + 1)
        merge == LastBlock(made) - n
        arm(i) == merge + i
        tested == FoldLeft(LAMBDA acc, i : IF e.arms[i].default THEN acc
                                           ELSE TestCase(e.arms[i], LAMBDA t : [s |-> t, v |-> input.v], arm(i), acc),
                           BlockParameter(made, merge, e.ty), [i \in 1..n |-> i])
        fallback == LastDefault(e.arms)
        guard == LowerExpr(e.arms[fallback].guard, tested)
        ended == IF Given(e.arms[fallback].guard)
                 THEN BranchTo(guard.s, guard.v, <<arm(fallback), <<>>>>, <<merge, <<>>>>)
                 ELSE JumpTo(tested, arm(fallback), <<>>)
        valued == FoldLeft(LAMBDA acc, i : LET r == LowerExpr(e.arms[i].value, SetCurrent(acc, arm(i))) IN
                                           JumpTo(r.s, merge, <<r.v>>),
                           ended, [i \in 1..n |-> i])
    IN  IF Defaults(e.arms) = {} THEN [s |-> Crashed(s), v |-> NoReg]
        ELSE [s |-> SetCurrent(valued, merge), v |-> Fresh(made)]

LowerTypeTest(e, s) ==
    LET r == LowerExpr(e.e, s)
        test == Tested(r.s, IF e.safe THEN "AsType" ELSE "IsType", e.ty, <<r.v>>, e.el)
        as == Tested(test.s, "AsType", e.el, <<r.v>>, e.el)
    IN  IF e.l = 0 THEN test ELSE [s |-> StoreLocal(as.s, e.l, as.v), v |-> test.v]

(* -------------------------- objects and arrays ------------------------ *)

LowerNewArray(e, s) ==
    LET len == LowerExpr(e.len, s)
        arr == Tested(len.s, "NewArray", e.ty, <<len.v>>, e.el)
        filled == FoldLeft(LAMBDA acc, i :
                      LET at == ConstInt(acc, i - 1)  x == LowerExpr(e.items[i], at.s) IN
                      Put(x.s, Instr("StoreElement", NoReg, <<arr.v, at.v, x.v>>, 0, e.el, TRUE)),
                      arr.s, [i \in DOMAIN e.items |-> i])
    IN  [s |-> filled, v |-> arr.v]

LowerElement(e, s) ==
    LET a == LowerExpr(e.a, s)  i == LowerExpr(e.i, a.s) IN
    IF e.k = "Element" THEN Tested(i.s, "LoadElement", e.ty, <<a.v, i.v>>, e.ty)
    ELSE LET x == LowerExpr(e.e, i.s) IN
         [s |-> Put(x.s, Instr("StoreElement", NoReg, <<a.v, i.v, x.v>>, 0, e.ty, TRUE)), v |-> x.v]

\* The object stands before its arguments are evaluated; a struct's
\* constructor returns the struct.
LowerNew(e, s) ==
    LET struct == e.k = "NewStruct"
        fresh == Value(s, e.k, e.ty, <<>>, e.ty[2])
        args == LowerInOrder(e.args, e.order, fresh.s)
        built == IF e.ctor = NoId THEN fresh
                 ELSE LET c == Called(args.s, e.ctor, <<fresh.v>> \o args.vs) IN
                      [s |-> c.s, v |-> IF struct THEN c.v ELSE fresh.v]
        initialized(acc, init) ==
            LET xs == LowerEach(init.args, acc.s) IN
            IF struct THEN SetStruct(xs.s, e.ty[2], init.field, acc.v, xs.vs[1])
            ELSE [s |-> IF init.ref = NoId THEN StoreField(xs.s, acc.v, e.ty[2], init.field, xs.vs[1])
                        ELSE Called(xs.s, init.ref, <<acc.v>> \o xs.vs).s,
                  v |-> acc.v]
    IN  FoldLeft(initialized, built, e.inits)

LowerMember(e, s) ==
    LET r == LowerExpr(e.e, s)
        load(t, obj) == Value(t, "LoadField", s.module.types[e.owner].fields[e.f], <<obj>>, <<e.owner, e.f>>)
        checked == NotNull(r.s, r.v, e.owner)
    IN  IF e.cond THEN NullConditional(e, r, e.owner, LAMBDA t : load(t, r.v))
        ELSE load(checked.s, checked.v)

\* The receiver is checked before the value is computed.
LowerMemberAssignment(e, s) ==
    LET r == LowerExpr(e.e, s)
        checked == NotNull(r.s, r.v, e.owner)
        x == LowerExpr(e.x, checked.s)
    IN  [s |-> StoreField(x.s, checked.v, e.owner, e.f, x.v), v |-> x.v]

LowerStructField(e, s) ==
    LET r == LowerExpr(e.e, s) IN Value(r.s, "LoadStructField", e.ty, <<r.v>>, <<e.owner, e.f>>)

\* The struct is read first, from the variable or from the cell that holds it.
LowerStructFieldAssignment(e, s) ==
    LET cell == LoadVar(s, e.l, Ty("Object", e.cell))
        struct == IF e.cell = NoId THEN LoadVar(s, e.l, Ty("Struct", e.owner))
                  ELSE Value(cell.s, "LoadField", Ty("Struct", e.owner), <<cell.v>>, <<e.cell, 1>>)
        x == LowerExpr(e.x, struct.s)
        new == SetStruct(x.s, e.owner, e.f, struct.v, x.v)
    IN  [s |-> IF e.cell = NoId THEN StoreLocal(new.s, e.l, new.v) ELSE StoreField(new.s, cell.v, e.cell, 1, new.v),
         v |-> x.v]

(* -------------------------------- calls ------------------------------- *)

\* The receiver of a method is checked where it is evaluated.
LowerArguments(e, s) ==
    FoldLeft(LAMBDA acc, i :
                LET r == LowerExpr(e.args[i], acc.s)
                    checked == IF i = 1 /\ e.owner # NoId THEN NotNull(r.s, r.v, e.owner) ELSE r
                IN  [s |-> checked.s, vs |-> (i :> checked.v) @@ acc.vs],
             [s |-> s, vs |-> [i \in DOMAIN e.args |-> NoReg]], e.order)

LowerCall(e, s) ==
    LET args == LowerArguments(e, s)
        r == LowerExpr(e.args[1], s)
        present(t) ==
            LET rest == LowerInOrder(e.args, SelectSeq(e.order, LAMBDA i : i # 1), t) IN
            Called(rest.s, e.ref, (1 :> r.v) @@ rest.vs)
    IN  IF e.cond THEN NullConditional(e, r, e.owner, present)
        ELSE Called(args.s, e.ref, args.vs)

LowerPropertyAssignment(e, s) ==
    LET args == LowerArguments(e, s)
        x == LowerExpr(e.x, args.s)
    IN  [s |-> Called(x.s, e.ref, Append(args.vs, x.v)).s, v |-> x.v]

\* A `ref` or `out` argument stands in a wrapper object; `target` says where it
\* comes from and where it goes back: a variable, a field, an element, a struct,
\* or "None" for a copy that does not go back.
Passed(arg, s) ==
    LET direct == LowerExpr(arg.e, s)
        obj == LowerExpr(arg.e, s)
        held == IF arg.target = "Field" THEN NotNull(obj.s, obj.v, arg.owner) ELSE obj
        at == LowerExpr(arg.i, held.s)
        init == CASE arg.target \in {"Variable", "None"} -> direct
                  [] arg.target = "Field"    -> Value(held.s, "LoadField", arg.ty, <<held.v>>, <<arg.owner, arg.f>>)
                  [] arg.target = "Element"  -> Tested(at.s, "LoadElement", arg.ty, <<held.v, at.v>>, arg.ty)
                  [] OTHER                   -> Value(held.s, "LoadStructField", arg.ty, <<held.v>>, <<arg.owner, arg.f>>)
        ready == IF arg.mode = "ref" THEN init.s
                 ELSE CASE arg.target \in {"Variable", "None"} -> s
                        [] arg.target = "Element" -> at.s
                        [] OTHER -> held.s
        cell == Value(ready, "NewObject", Ty("Object", arg.cell), <<>>, arg.cell)
    IN  IF arg.mode = "value" THEN [s |-> direct.s, v |-> direct.v, at |-> NoReg, obj |-> NoReg]
        ELSE [s |-> IF arg.mode = "ref" THEN StoreField(cell.s, cell.v, arg.cell, 1, init.v) ELSE cell.s,
              v |-> cell.v,
              obj |-> IF arg.target \in {"Variable", "None"} THEN NoReg ELSE held.v,
              at |-> IF arg.target = "Element" THEN at.v ELSE NoReg]

\* A delegate takes variables only, and its wrapper is made first.
PassedToDelegate(arg, s) ==
    LET direct == LowerExpr(arg.e, s)
        cell == Value(s, "NewObject", Ty("Object", arg.cell), <<>>, arg.cell)
        init == LowerExpr(arg.e, cell.s)
    IN  IF arg.mode = "value" THEN [s |-> direct.s, v |-> direct.v, at |-> NoReg, obj |-> NoReg]
        ELSE [s |-> IF arg.mode = "ref" THEN StoreField(init.s, cell.v, arg.cell, 1, init.v) ELSE cell.s,
              v |-> cell.v, at |-> NoReg, obj |-> NoReg]

WrittenBack(arg, p, s) ==
    LET new == Value(s, "LoadField", arg.ty, <<p.v>>, <<arg.cell, 1>>)
        struct == SetStruct(new.s, arg.owner, arg.f, p.obj, new.v)
    IN  CASE arg.mode = "value" \/ arg.target = "None" -> s
          [] arg.target = "Variable"   -> StoreLocal(new.s, arg.l, new.v)
          [] arg.target = "Field"      -> StoreField(new.s, p.obj, arg.owner, arg.f, new.v)
          [] arg.target = "Element"    ->
                Put(new.s, Instr("StoreElement", NoReg, <<p.obj, p.at, new.v>>, 0, arg.ty, TRUE))
          [] OTHER                     -> StoreLocal(struct.s, arg.l, struct.v)

LowerReferenceCall(e, s) ==
    LET first == IF e.del = NoId THEN [s |-> s, v |-> NoReg] ELSE LowerExpr(e.e, s)
        pass(arg, t) == IF e.del = NoId THEN Passed(arg, t) ELSE PassedToDelegate(arg, t)
        passed == FoldLeft(LAMBDA acc, arg : LET p == pass(arg, acc.s) IN [s |-> p.s, ps |-> Append(acc.ps, p)],
                           [s |-> first.s, ps |-> <<>>], e.args)
        vs == [i \in DOMAIN e.args |-> passed.ps[i].v]
        invoke == Instr("InvokeDelegate", NoReg, <<first.v>> \o vs, 0, Ty("Object", e.del), TRUE)
        call == IF e.del = NoId THEN Called(passed.s, e.ref, vs)
                ELSE IF e.ty = VoidT THEN [s |-> Put(passed.s, invoke), v |-> NoReg]
                ELSE ValueOf(passed.s, invoke, e.ty)
    IN  [s |-> FoldLeft(LAMBDA acc, i : WrittenBack(e.args[i], passed.ps[i], acc), call.s, [i \in DOMAIN e.args |-> i]),
         v |-> call.v]

\* The register of a delegate is taken before its receiver or its closure.
LowerDelegateCreation(e, s) ==
    LET me == Ty("Object", e.del)
        held == [s EXCEPT !.regs = Append(@, me)]
        closure == Value(held, "NewObject", Ty("Object", e.closure), <<>>, e.closure)
        captured == FoldLeft(LAMBDA acc, i : LET x == LowerExpr(e.captures[i], acc) IN
                                             StoreField(x.s, closure.v, e.closure, i, x.v),
                             closure.s, [i \in DOMAIN e.captures |-> i])
        receiver == LowerExpr(e.e, held)
        bound == IF e.closure # NoId THEN <<captured, <<closure.v>>>>
                 ELSE IF Given(e.e) THEN <<receiver.s, <<receiver.v>>>> ELSE <<held, <<>>>>
    IN  [s |-> Put(bound[1], Instr("NewDelegate", Fresh(s), bound[2], e.ref, me, TRUE)), v |-> Fresh(s)]

LowerCombination(e, s) ==
    LET a == LowerExpr(e.a, s)  b == LowerExpr(e.b, a.s) IN Tested(b.s, e.op, e.ty, <<a.v, b.v>>, e.ty)

\* An event is raised when it has handlers; the arguments come first.
LowerEventInvocation(e, s) ==
    LET r == LowerExpr(e.e, s)
        checked == NotNull(r.s, r.v, e.owner)
        args == LowerEach(e.args, checked.s)
        stored == Value(args.s, "LoadField", e.del, <<checked.v>>, <<e.owner, e.f>>)
        null == NullAs(stored.s, e.del)
        empty == Value(null.s, "Equal", BoolT, <<stored.v, null.v>>, 0)
        made == CreateBlocks(empty.s, 2)
        next == LastBlock(made) - 1  invoke == LastBlock(made)
        branched == SetCurrent(BranchTo(made, empty.v, <<next, <<>>>>, <<invoke, <<>>>>), invoke)
        called == Put(branched, Instr("InvokeDelegate", NoReg, <<stored.v>> \o args.vs, 0, e.del, TRUE))
    IN  [s |-> SetCurrent(JumpTo(called, next, <<>>), next), v |-> NoReg]

LowerExpr(e, s) ==
    IF s.crash THEN [s |-> s, v |-> NoReg] ELSE
    CASE e.k = "Literal"       -> LowerLiteral(e, s)
      [] e.k = "Variable"      -> LoadVar(s, e.l, e.ty)
      [] e.k = "Assignment"    -> LowerAssignment(e, s)
      [] e.k = "Conversion"    -> LowerConversion(e, s)
      [] e.k = "Unary"         -> LowerUnary(e, s)
      [] e.k = "Binary"        -> LowerBinary(e, s)
      [] e.k = "ShortCircuit"  -> LowerShortCircuit(e, s)
      [] e.k = "Conditional"   -> LowerConditional(e, s)
      [] e.k = "Coalesce"      -> LowerNullCoalescing(e, s)
      [] e.k = "Switch"        -> LowerSwitchExpression(e, s)
      [] e.k = "TypeTest"      -> LowerTypeTest(e, s)
      [] e.k = "NewArray"      -> LowerNewArray(e, s)
      [] e.k = "ArrayLength"   -> LET a == LowerExpr(e.e, s) IN Value(a.s, "ArrayLength", IntT, <<a.v>>, 0)
      [] e.k \in {"Element", "ElementAssignment"} -> LowerElement(e, s)
      [] e.k \in {"NewObject", "NewStruct"} -> LowerNew(e, s)
      [] e.k = "Member"        -> LowerMember(e, s)
      [] e.k = "MemberAssignment" -> LowerMemberAssignment(e, s)
      [] e.k = "StructField"   -> LowerStructField(e, s)
      [] e.k = "StructFieldAssignment" -> LowerStructFieldAssignment(e, s)
      [] e.k = "PropertyAssignment" -> LowerPropertyAssignment(e, s)
      [] e.k = "Call"          -> LowerCall(e, s)
      [] e.k = "ReferenceCall" -> LowerReferenceCall(e, s)
      [] e.k = "DelegateCreation" -> LowerDelegateCreation(e, s)
      [] e.k = "Combination"   -> LowerCombination(e, s)
      [] e.k = "EventInvocation" -> LowerEventInvocation(e, s)

(* ------------------------------ statements ---------------------------- *)

LiteralTrue(e) == e.k = "Literal" /\ e.ty = BoolT /\ e.n = TRUE

\* Only blocks and ifs are looked into: a break inside a try is not seen.
RECURSIVE BreaksHere(_)
BreaksHere(st) ==
    CASE st.k = "Break" -> TRUE
      [] st.k = "Block" -> \E i \in DOMAIN st.body : BreaksHere(st.body[i])
      [] st.k = "If"    -> BreaksHere(st.a) \/ (Given(st.b) /\ BreaksHere(st.b))
      [] OTHER          -> FALSE

\* Statements one after the other, until one of them closes the block.
LowerAll(body, s) ==
    FoldLeft(LAMBDA acc, st : IF Opened(acc) THEN LowerStmt(st, acc) ELSE acc, s, body)

\* The finalizers above `depth`, innermost first, in a block of their own which
\* no enclosing try protects; the blocks they make themselves are not listed.
Finalizers(depth, s) ==
    IF Len(s.fin) <= depth \/ ~Opened(s) THEN s
    ELSE LET made == CreateBlock(s)
             cleanup == LastBlock(made)
             inside == [SetCurrent(JumpTo(made, cleanup, <<>>), cleanup) EXCEPT !.cleanup = Append(@, cleanup)]
         IN  FoldLeft(LAMBDA acc, st : IF Opened(acc) THEN LowerStmt(st, acc) ELSE acc,
                      inside, Reverse(SubSeq(s.fin, depth + 1, Len(s.fin))))

\* The value of a return is computed before the finalizers run.
LowerReturn(st, s) ==
    LET x == LowerExpr(st.e, s)
        done == Finalizers(0, IF Given(st.e) THEN x.s ELSE s)
    IN  IF ~Opened(done) THEN done
        ELSE Terminate(done, IF Given(st.e) THEN [kind |-> "ReturnValue", reg |-> x.v, to |-> <<>>]
                             ELSE [kind |-> "ReturnVoid", reg |-> NoReg, to |-> <<>>])

\* Fault: leaving a loop runs the finalizers of the trys around it as well.
LeaveAll(targets, s) ==
    IF targets = <<>> THEN Crashed(s)
    ELSE JumpIfOpen(Finalizers(0, s), Last(targets).id)

Leave(targets, s) ==
    IF targets = <<>> THEN Crashed(s)
    ELSE JumpIfOpen(Finalizers(Last(targets).depth, s), Last(targets).id)

LowerThrow(st, s) ==
    LET x == LowerExpr(st.e, s) IN Terminate(x.s, [kind |-> "Throw", reg |-> x.v, to |-> <<>>])

WithFinalizer(st, s) == IF Given(st.final) THEN [s EXCEPT !.fin = Append(@, st.final)] ELSE s
WithoutFinalizer(st, s) == IF Given(st.final) THEN [s EXCEPT !.fin = Front(@)] ELSE s

\* The blocks made since `from`, but for those of a leaving jump's finalizers.
ProtectedSince(from, cleanups, s) ==
    {s.blocks[i].id : i \in from..Len(s.blocks)} \ {s.cleanup[j] : j \in (cleanups + 1)..Len(s.cleanup)}

AddHandler(s, protect, catch, local, target) ==
    [s EXCEPT !.handlers = Append(@, [protect |-> protect, catch |-> catch, local |-> local, target |-> target])]

\* The normal way out of a try or a catch: the finalizer, then the block after.
NormalExit(st, after, acc) ==
    IF ~Opened(acc.s) THEN acc
    ELSE LET t == IF Given(st.final) THEN LowerStmt(st.final, acc.s) ELSE acc.s IN
         IF Opened(t) THEN [acc EXCEPT !.s = JumpTo(t, after, <<>>), !.reached = TRUE] ELSE [acc EXCEPT !.s = t]

LowerCatch(st, clause, tryBlocks, after, acc) ==
    LET made == CreateBlock(acc.s)
        id == LastBlock(made)
        listed == AddHandler(made, tryBlocks, clause.ty, clause.l, id)
        body == WithoutFinalizer(st, LowerStmt(clause.body, WithFinalizer(st, SetCurrent(listed, id))))
        guarded == ProtectedSince(Len(made.blocks), Len(acc.s.cleanup), body)
    IN  NormalExit(st, after, [acc EXCEPT !.s = body, !.caught = Append(@, guarded)])

\* Whatever leaves the try or a catch as an exception runs the finalizer and is
\* thrown again.
LowerExceptionalFinally(st, tryBlocks, caught, s) ==
    LET made == CreateBlock(s)
        id == LastBlock(made)
        listed == FoldLeft(LAMBDA acc, blocks : AddHandler(acc, blocks, NoId, st.pending, id),
                           AddHandler(made, tryBlocks, NoId, st.pending, id), caught)
        body == LowerStmt(st.final, SetCurrent(listed, id))
        again == LoadVar(body, st.pending, Ty("Object", NoId))
    IN  IF ~Given(st.final) THEN s
        ELSE IF Opened(body) THEN Terminate(again.s, [kind |-> "Throw", reg |-> again.v, to |-> <<>>])
        ELSE body

LowerTry(st, s) ==
    LET made == CreateBlock(s)
        entry == LastBlock(made)
        body == WithoutFinalizer(st,
                    LowerStmt(st.body, WithFinalizer(st, SetCurrent(JumpTo(made, entry, <<>>), entry))))
        tryBlocks == ProtectedSince(Len(made.blocks), Len(s.cleanup), body)
        closed == CreateBlock(body)
        after == LastBlock(closed)
        normal == NormalExit(st, after, [s |-> closed, reached |-> FALSE, caught |-> <<>>])
        tried == FoldLeft(LAMBDA acc, clause : LowerCatch(st, clause, tryBlocks, after, acc), normal, st.catches)
        whole == LowerExceptionalFinally(st, tryBlocks, tried.caught, tried.s)
    IN  IF tried.reached THEN SetCurrent(whole, after) ELSE EraseBlock(ClearCurrent(whole), after)

LowerSubscription(st, s) ==
    LET r == LowerExpr(st.e, s)
        obj == NotNull(r.s, r.v, st.owner)
        old == Value(obj.s, "LoadField", st.del, <<obj.v>>, <<st.owner, st.f>>)
        handler == LowerExpr(st.x, old.s)
        new == Tested(handler.s, st.op, st.del, <<old.v, handler.v>>, st.del)
    IN  StoreField(new.s, obj.v, st.owner, st.f, new.v)

\* A captured variable lives in a cell.
LowerDeclaration(st, s) ==
    LET x == LowerExpr(st.e, s)
        cell == Value(x.s, "NewObject", Ty("Object", st.cell), <<>>, st.cell)
    IN  IF ~Given(st.e) THEN s
        ELSE IF st.cell = NoId THEN StoreLocal(x.s, st.l, x.v)
        ELSE StoreLocal(StoreField(cell.s, cell.v, st.cell, 1, x.v), st.l, cell.v)

LowerIf(st, s) ==
    LET c == LowerExpr(st.c, s)
        made == CreateBlocks(c.s, 2)
        yes == LastBlock(made) - 1  other == LastBlock(made)
        branched == BranchTo(made, c.v, <<yes, <<>>>>, <<other, <<>>>>)
        a == LowerStmt(st.a, SetCurrent(branched, yes))
        b == LowerStmt(st.b, SetCurrent(a, other))
        merged == CreateBlock(b)
        merge == LastBlock(merged)
        joined(open, end, t) == IF open THEN JumpTo(SetCurrent(t, end), merge, <<>>) ELSE t
    IN  IF ~Given(st.b) THEN SetCurrent(JumpIfOpen(a, other), other)
        ELSE IF ~Opened(a) /\ ~Opened(b) THEN ClearCurrent(b)
        ELSE SetCurrent(joined(Opened(b), b.cur, joined(Opened(a), a.cur, merged)), merge)

\* The exit of a loop is made when its condition or a break can reach it.
NeedsExit(st) == ~LiteralTrue(st.c) \/ BreaksHere(st.body)

\* Condition, then the body or the exit.
LowerTest(st, body, exit, s) ==
    LET c == LowerExpr(st.c, s) IN
    IF LiteralTrue(st.c) THEN JumpTo(c.s, body, <<>>) ELSE BranchTo(c.s, c.v, <<body, <<>>>>, <<exit, <<>>>>)

EnterLoop(exits, exit, next, s) ==
    LET at(id) == [id |-> id, depth |-> Len(s.fin)] IN
    [s EXCEPT !.breaks = IF exits THEN Append(@, at(exit)) ELSE @, !.continues = Append(@, at(next))]
LeaveLoop(exits, exit, s) ==
    LET t == [s EXCEPT !.breaks = IF exits THEN Front(@) ELSE @, !.continues = Front(@)] IN
    IF exits THEN SetCurrent(t, exit) ELSE ClearCurrent(t)

LowerWhile(st, s) ==
    LET exits == NeedsExit(st)
        made == CreateBlocks(s, IF exits THEN 3 ELSE 2)
        cond == Len(s.blocks) + 1  body == cond + 1  exit == cond + 2
        tested == LowerTest(st, body, exit, SetCurrent(JumpTo(made, cond, <<>>), cond))
        run == LowerStmt(st.body, SetCurrent(EnterLoop(exits, exit, cond, tested), body))
    IN  LeaveLoop(exits, exit, JumpIfOpen(run, cond))

\* The increment has a block whether or not something leads to it.
LowerFor(st, s) ==
    LET init == IF Given(st.init) THEN LowerStmt(st.init, s) ELSE s
        exits == NeedsExit(st)
        made == CreateBlocks(init, IF exits THEN 4 ELSE 3)
        cond == Len(init.blocks) + 1  body == cond + 1  step == cond + 2  exit == cond + 3
        tested == LowerTest(st, body, exit, SetCurrent(JumpTo(made, cond, <<>>), cond))
        run == LowerStmt(st.body, SetCurrent(EnterLoop(exits, exit, step, tested), body))
        stepped == SetCurrent(JumpIfOpen(run, step), step)
    IN  IF ~Opened(init) THEN init
        ELSE LeaveLoop(exits, exit, JumpTo(IF Given(st.step) THEN LowerExpr(st.step, stepped).s ELSE stepped, cond, <<>>))

LowerDoWhile(st, s) ==
    LET exits == NeedsExit(st)
        made == CreateBlocks(s, IF exits THEN 3 ELSE 2)
        body == Len(s.blocks) + 1  cond == body + 1  exit == body + 2
        inside == EnterLoop(exits, exit, cond, SetCurrent(JumpTo(made, body, <<>>), body))
        run == SetCurrent(JumpIfOpen(LowerStmt(st.body, inside), cond), cond)
    IN  LeaveLoop(exits, exit, LowerTest(st, body, exit, run))

\* `st.l`, `st.at`, `st.x` are the locals of the collection, the index and the
\* element; a collection with an enumerator has no use for the index.
LowerForeach(st, s) ==
    LET coll == LowerExpr(st.e, s)
        zero == ConstInt(StoreLocal(coll.s, st.l, coll.v), 0)
        started == StoreLocal(zero.s, st.at, zero.v)
        made == CreateBlocks(started, 4)
        cond == Len(started.blocks) + 1  body == cond + 1  step == cond + 2  exit == cond + 3
        asked == SetCurrent(JumpTo(made, cond, <<>>), cond)
        index == LoadVar(asked, st.at, IntT)
        count == LowerExpr(st.count, IF st.enumerator THEN asked ELSE index.s)
        more == IF st.enumerator THEN count ELSE Value(count.s, "LessInt", BoolT, <<index.v, count.v>>, 0)
        branched == BranchTo(more.s, more.v, <<body, <<>>>>, <<exit, <<>>>>)
        element == LowerExpr(st.element, SetCurrent(EnterLoop(TRUE, exit, step, branched), body))
        run == LowerStmt(st.body, StoreLocal(element.s, st.x, element.v))
        stepped == SetCurrent(JumpIfOpen(run, step), step)
        now == LoadVar(stepped, st.at, IntT)
        one == ConstInt(now.s, 1)
        next == Value(one.s, "AddInt", IntT, <<now.v, one.v>>, 0)
    IN  LeaveLoop(TRUE, exit,
            JumpTo(IF st.enumerator THEN stepped ELSE StoreLocal(next.s, st.at, next.v), cond, <<>>))

LowerSection(section, id, exit, acc) ==
    LET body == FoldLeft(LAMBDA a, st : IF ~a.open THEN a
                                        ELSE LET t == LowerStmt(st, a.s) IN
                                             [s |-> t, open |-> Opened(t), reached |-> a.reached \/ BreaksHere(st)],
                         [s |-> SetCurrent(acc.s, id), open |-> TRUE, reached |-> acc.reached], section.body)
    IN  IF body.open THEN [s |-> JumpTo(body.s, exit, <<>>), reached |-> TRUE]
        ELSE [s |-> body.s, reached |-> body.reached]

LowerSwitch(st, s) ==
    LET value == LowerExpr(st.e, s)
        n == Len(st.sections)
        made == CreateBlocks(StoreLocal(value.s, st.l, value.v), n + 1)
        exit == LastBlock(made) - n
        at(i) == exit + i
        tested == FoldLeft(LAMBDA acc, i : IF st.sections[i].default THEN acc
                                           ELSE TestCase(st.sections[i], LAMBDA t : LoadVar(t, st.l, st.e.ty), at(i), acc),
                           made, [i \in 1..n |-> i])
        default == IF Defaults(st.sections) = {} THEN 0 ELSE LastDefault(st.sections)
        guarded == default # 0 /\ Given(st.sections[default].guard)
        guard == LowerExpr(st.sections[default].guard, tested)
        ended == IF guarded THEN BranchTo(guard.s, guard.v, <<at(default), <<>>>>, <<exit, <<>>>>)
                 ELSE JumpTo(tested, IF default = 0 THEN exit ELSE at(default), <<>>)
        inside == [ended EXCEPT !.breaks = Append(@, [id |-> exit, depth |-> Len(s.fin)])]
        all == FoldLeft(LAMBDA acc, i : LowerSection(st.sections[i], at(i), exit, acc),
                        [s |-> inside, reached |-> guarded \/ default = 0], [i \in 1..n |-> i])
        out == [all.s EXCEPT !.breaks = Front(@)]
    IN  IF all.reached THEN SetCurrent(out, exit) ELSE EraseBlock(ClearCurrent(out), exit)

LowerStmt(st, s) ==
    IF ~Opened(s) THEN s ELSE
    CASE st.k = "Block"       -> LowerAll(st.body, s)
      [] st.k = "Return"      -> LowerReturn(st, s)
      [] st.k = "Break"       -> Leave(s.breaks, s)
      [] st.k = "Continue"    -> Leave(s.continues, s)
      [] st.k = "Throw"       -> LowerThrow(st, s)
      [] st.k = "Try"         -> LowerTry(st, s)
      [] st.k = "Subscribe"   -> LowerSubscription(st, s)
      [] st.k = "Declaration" -> LowerDeclaration(st, s)
      [] st.k = "Expression"  -> LowerExpr(st.e, s).s
      [] st.k = "If"          -> LowerIf(st, s)
      [] st.k = "While"       -> LowerWhile(st, s)
      [] st.k = "For"         -> LowerFor(st, s)
      [] st.k = "Foreach"     -> LowerForeach(st, s)
      [] st.k = "DoWhile"     -> LowerDoWhile(st, s)
      [] st.k = "SwitchStatement" -> LowerSwitch(st, s)

(* --------------------------- whole functions -------------------------- *)

Nothing(module) ==
    [module |-> module, blocks |-> <<>>, cur |-> 0, regs |-> <<>>, fin |-> <<>>, breaks |-> <<>>,
     continues |-> <<>>, cleanup |-> <<>>, handlers |-> <<>>, crash |-> FALSE]

\* Every parameter moves to the local of its own number; `f.locals` is what
\* collectLocalTypes finds, `module` has the types and the call references.
LowerFunction(module, f) ==
    LET entry == SetCurrent(CreateBlock(Nothing(module)), 1)
        ready == FoldLeft(LAMBDA acc, i : LET p == Value(acc, "LoadParameter", f.params[i], <<>>, i) IN
                                          StoreLocal(p.s, i, p.v),
                          entry, [i \in DOMAIN f.params |-> i])
        body == LowerStmt(f.body, ready)
    IN  IF Opened(body) /\ f.ret = VoidT THEN Terminate(body, [kind |-> "ReturnVoid", reg |-> NoReg, to |-> <<>>])
        ELSE body
=============================================================================
