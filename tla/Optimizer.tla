------------------------------ MODULE Optimizer ------------------------------
(***************************************************************************)
(* The optimizer (Optimizer.cpp) over the functions of a module.  MIR and  *)
(* bytecode have the same instructions, blocks and handlers (the lowering  *)
(* between them is one to one), so the functions are those of Bytecode;    *)
(* blocks are renumbered where the code keeps the identities of those that *)
(* are left.                                                               *)
(***************************************************************************)
EXTENDS Bytecode
LOCAL INSTANCE SequencesExt

CONSTANTS
    Aggressive,         \* Options.level: dead instructions go too
    MaximumIterations   \* Options.maximumIterations

(* --------------------------- constant folding ------------------------- *)

NotConstant == <<"NotConstant", 0>>

Literal(ins) ==
    CASE ins.op = "ConstantInt"  -> <<"Int", ins.idx>>
      [] ins.op = "ConstantBool" -> <<"Bool", ins.idx>>
      [] ins.op = "ConstantNull" -> <<"Null", 0>>
      [] OTHER                   -> NotConstant

MakeConstant(ins, v) ==
    [ins EXCEPT !.op = CASE v[1] = "Int" -> "ConstantInt" [] v[1] = "Bool" -> "ConstantBool"
                         [] OTHER -> "ConstantNull",
                !.args = <<>>, !.idx = v[2], !.el = VoidT, !.checked = TRUE]

\* An overflow is left to the instruction itself, whatever its mode.
FoldedIntegers(op, a, b) ==
    LET exact == CASE op = "AddInt" -> a + b [] op = "SubtractInt" -> a - b [] op = "MultiplyInt" -> a * b
                   [] op = "NegateInt" -> -a [] OTHER -> 0
    IN  CASE op \in {"AddInt", "SubtractInt", "MultiplyInt", "NegateInt"} ->
                IF InRange(exact) THEN <<"Int", exact>> ELSE NotConstant
          [] op \in {"DivideInt", "RemainderInt"} ->
                IF b = 0 \/ (a = IntMin /\ b = -1) THEN NotConstant
                ELSE <<"Int", IF op = "DivideInt" THEN Quotient(a, b) ELSE Remainder(a, b)>>
          [] op = "LessInt"           -> <<"Bool", a < b>>
          [] op = "LessOrEqualInt"    -> <<"Bool", a <= b>>
          [] op = "GreaterInt"        -> <<"Bool", a > b>>
          [] op = "GreaterOrEqualInt" -> <<"Bool", a >= b>>

FoldInstruction(ins, known) ==
    LET x == [k \in DOMAIN ins.args |-> IF ins.args[k] \in DOMAIN known THEN known[ins.args[k]] ELSE NotConstant]
        all(prim) == \A k \in DOMAIN x : x[k][1] = prim
    IN  IF ins.op \notin ArithmeticOps \/ \E k \in DOMAIN x : x[k] = NotConstant THEN NotConstant
        ELSE IF ins.op \in {"Equal", "NotEqual"} THEN <<"Bool", (x[1] = x[2]) = (ins.op = "Equal")>>
        ELSE IF ins.op = "LogicalNot" THEN IF all("Bool") THEN <<"Bool", ~x[1][2]>> ELSE NotConstant
        ELSE IF ~all("Int") THEN NotConstant
        ELSE FoldedIntegers(ins.op, x[1][2], IF Len(x) = 2 THEN x[2][2] ELSE 0)

Forget(known, key) == [k \in DOMAIN known \ {key} |-> known[k]]

\* The constants known of registers and, within the block, of locals: `locals` are what
\* `ins` leaves known, `v` is its value.
Known(s, ins, locals, v) ==
    [code |-> Append(s.code, IF v = NotConstant THEN ins ELSE MakeConstant(ins, v)),
     known |-> IF ~Defines(ins) THEN s.known
               ELSE IF v # NotConstant THEN (ins.res :> v) @@ s.known
               ELSE IF Literal(ins) = NotConstant THEN Forget(s.known, ins.res)
               ELSE (ins.res :> Literal(ins)) @@ s.known,
     locals |-> locals, changed |-> s.changed \/ v # NotConstant]

LocalsAfter(s, ins) ==
    IF ins.op \in {"Call", "StoreField", "StoreElement", "StoreStructField"}
    THEN [k \in {} |-> NotConstant] ELSE s.locals

FoldValue(s, ins) ==
    LET locals == LocalsAfter(s, ins) IN
    Known(s, ins, locals, IF ins.op = "LoadLocal" /\ ins.idx \in DOMAIN locals THEN locals[ins.idx]
                          ELSE FoldInstruction(ins, s.known))

\* A store of an unknown value makes its local unknown.
FoldOne(s, ins) ==
    IF ins.op # "StoreLocal" THEN FoldValue(s, ins)
    ELSE [s EXCEPT !.code = Append(@, ins),
                   !.locals = IF ins.args[1] \in DOMAIN s.known
                              THEN (ins.idx :> s.known[ins.args[1]]) @@ @ ELSE Forget(@, ins.idx)]

\* A branch on a constant is a jump.
Decided(s, block, done) ==
    LET t == block.term
        decided == t.kind = "Branch" /\ t.reg \in DOMAIN done.known /\ done.known[t.reg][1] = "Bool"
        jump == [kind |-> "Jump", reg |-> NoReg, to |-> <<t.to[IF done.known[t.reg][2] THEN 1 ELSE 2]>>]
    IN  [blocks |-> Append(s.blocks, [block EXCEPT !.code = done.code, !.term = IF decided THEN jump ELSE t]),
         known |-> done.known, changed |-> done.changed \/ decided]

\* One block, in the order they are stored.
FoldBlock(s, block) ==
    Decided(s, block, FoldLeft(FoldOne, [code |-> <<>>, known |-> s.known, locals |-> [k \in {} |-> NotConstant],
                                         changed |-> s.changed], block.code))

\* The result of a pass: the function and whether it has changed.
FoldedInto(f, done) == <<[f EXCEPT !.blocks = done.blocks], done.changed>>
FoldConstants(f) ==
    FoldedInto(f, FoldLeft(FoldBlock, [blocks |-> <<>>, known |-> [k \in {} |-> NotConstant], changed |-> FALSE],
                           f.blocks))

(* -------------------- unreachable blocks, dead values ----------------- *)

RemoveUnreachableBlocks(f) ==
    LET live == ReachedAvoiding(f, {})
        left == SelectSeq([b \in DOMAIN f.blocks |-> b], LAMBDA b : b \in live)
        place(b) == CHOOSE k \in DOMAIN left : left[k] = b
        moved(t) == [t EXCEPT !.to = [k \in DOMAIN t.to |-> <<place(t.to[k][1]), t.to[k][2]>>]]
        pruned(h) == [h EXCEPT !.protect = {place(b) : b \in @ \cap live}, !.target = place(@)]
        guarding == SelectSeq(f.handlers, LAMBDA h : h.protect \cap live # {})
    IN  <<[f EXCEPT !.blocks = [k \in DOMAIN left |->
                                  [f.blocks[left[k]] EXCEPT !.term = moved(f.blocks[left[k]].term)]],
                    !.handlers = [k \in DOMAIN guarding |-> pruned(guarding[k])]],
          live # DOMAIN f.blocks>>

\* isRemovableWhenUnused: cannot fail and changes nothing but its register.
Removable(ins) ==
    ins.op \in ConstantOps \cup {"LoadParameter", "LoadLocal", "LogicalNot", "Equal", "NotEqual"}
               \cup ConvertOps \cup IntTests

AllCode(f) == UNION {{f.blocks[b].code[k] : k \in DOMAIN f.blocks[b].code} : b \in DOMAIN f.blocks}
ArgsOf(ins) == {ins.args[k] : k \in DOMAIN ins.args}
TermArgs(t) == {t.reg} \cup UNION {{t.to[k][2][j] : j \in DOMAIN t.to[k][2]} : k \in DOMAIN t.to}

\* Fault: what terminators use does not count as used.
UsedByInstructions(f) == UNION {ArgsOf(ins) : ins \in AllCode(f)}

UsedRegisters(f) ==
    LET roots == UNION {ArgsOf(ins) : ins \in {i \in AllCode(f) : ~Removable(i)}} \cup
                 UNION {TermArgs(f.blocks[b].term) : b \in DOMAIN f.blocks}
        grow[n \in 0..Len(f.regs)] ==
            IF n = 0 THEN roots
            ELSE LET used == grow[n - 1] IN
                 used \cup UNION {ArgsOf(ins) : ins \in {i \in AllCode(f) : Defines(i) /\ i.res \in used}}
    IN  grow[Len(f.regs)]

EliminateDeadInstructions(f) ==
    LET used == UsedRegisters(f)
        kept(ins) == ~(Defines(ins) /\ Removable(ins) /\ ins.res \notin used)
    IN  <<[f EXCEPT !.blocks = [b \in DOMAIN @ |-> [@[b] EXCEPT !.code = SelectSeq(@, kept)]]],
          \E ins \in AllCode(f) : ~kept(ins)>>

\* Registers are numbered again in the order of their definitions.
CompactValueIds(f) ==
    LET results(b) == LET defining == SelectSeq(f.blocks[b].code, Defines) IN
                      f.blocks[b].params \o [k \in DOMAIN defining |-> defining[k].res]
        order == FlattenSeq([b \in DOMAIN f.blocks |-> results(b)])
        new(r) == IF \E k \in DOMAIN order : order[k] = r THEN CHOOSE k \in DOMAIN order : order[k] = r ELSE NoReg
        all(rs) == [k \in DOMAIN rs |-> new(rs[k])]
        renamed(ins) == [ins EXCEPT !.args = all(@), !.res = new(@)]
    IN  [f EXCEPT !.regs = [k \in DOMAIN order |-> f.regs[order[k]]],
                  !.blocks = [b \in DOMAIN @ |->
                     [params |-> all(@[b].params),
                      code |-> [k \in DOMAIN @[b].code |-> renamed(@[b].code[k])],
                      term |-> [@[b].term EXCEPT !.reg = new(@),
                                !.to = [k \in DOMAIN @ |-> <<@[k][1], all(@[k][2])>>]]]]]

Sweep(f) == IF Aggressive THEN EliminateDeadInstructions(f) ELSE <<f, FALSE>>
\* One more pass over what the passes before it have made.
Pass(Of(_), done) == LET made == Of(done[1]) IN <<made[1], done[2] \/ made[2]>>
Round(f) == Pass(Sweep, Pass(RemoveUnreachableBlocks, FoldConstants(f)))

RECURSIVE OptimizeRounds(_, _)
MoreRounds(round, n) == IF round[2] /\ n > 1 THEN <<OptimizeRounds(round[1], n - 1)[1], TRUE>> ELSE round
\* The function after at most `n` rounds, and whether any changed it.
OptimizeRounds(f, n) == MoreRounds(Round(f), n)

Compacted(done) == IF done[2] THEN CompactValueIds(done[1]) ELSE done[1]
OptimizeFunction(f) == Compacted(OptimizeRounds(f, MaximumIterations))

OptimizeModule(p) == [p EXCEPT !.functions = [s \in DOMAIN @ |-> OptimizeFunction(@[s])]]
=============================================================================
