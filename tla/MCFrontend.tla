------------------------------ MODULE MCFrontend ------------------------------
(***************************************************************************)
(* The functions the front end is checked on: loops, switches and tries    *)
(* around a statement that leaves them, and expressions whose parts leave  *)
(* a mark when they are evaluated.  `main` writes its marks into a log,    *)
(* which `entry` reads when `main` is over, one way or the other.          *)
(***************************************************************************)
EXTENDS Meaning

ObjT(t) == Ty("Object", t)

(* ---------------------------- bound trees ----------------------------- *)

Num(n) == [k |-> "Literal", ty |-> IntT, n |-> n]
Truth(b) == [k |-> "Literal", ty |-> BoolT, n |-> b]
NullLit == [k |-> "Literal", ty |-> NullT, n |-> 0]
Var(l, ty) == [k |-> "Variable", l |-> l, ty |-> ty]
Set(l, e) == [k |-> "Assignment", l |-> l, e |-> e]
Op(op, a, b, ty) == [k |-> "Binary", op |-> op, a |-> a, b |-> b, ty |-> ty, checked |-> TRUE]
Plus(a, b) == Op("AddInt", a, b, IntT)
Compare(op, a, b) == Op(op, a, b, BoolT)
Dot(e, t, f, ty) == [k |-> "Member", e |-> e, owner |-> t, f |-> f, cond |-> FALSE, nullable |-> NoId, ty |-> ty]
SetDot(e, t, f, x) == [k |-> "MemberAssignment", e |-> e, owner |-> t, f |-> f, x |-> x]
New(t) == [k |-> "NewObject", ty |-> ObjT(t), ctor |-> NoId, args |-> <<>>, order |-> <<>>, inits |-> <<>>]
CallOf(ref, args, ty) ==
    [k |-> "Call", ref |-> ref, args |-> args, order |-> [i \in DOMAIN args |-> i], owner |-> NoId,
     cond |-> FALSE, nullable |-> NoId, ty |-> ty]

Seq1(body) == [k |-> "Block", body |-> body]
Do(e) == [k |-> "Expression", e |-> e]
Let(l, e) == [k |-> "Declaration", l |-> l, e |-> e, cell |-> NoId]
When(c, a) == [k |-> "If", c |-> c, a |-> a, b |-> Absent]
WhenElse(c, a, b) == [k |-> "If", c |-> c, a |-> a, b |-> b]
Give(e) == [k |-> "Return", e |-> e]
Jump(k) == [k |-> k]
Raise(t) == [k |-> "Throw", e |-> New(t)]

(* ------------------------------ the driver ---------------------------- *)

Log(l) == Var(l, ObjT("Log"))
Marked(l, e) == Do(SetDot(Log(l), "Log", 1, Plus(Op("MultiplyInt", Dot(Log(l), "Log", 1, IntT), Num(8), IntT), e)))
Mark(n) == Marked(1, Num(n))

MCClass(base, fields) ==
    [kind |-> "class", base |-> base, fields |-> fields, vtable |-> <<>>, ifaces |-> [i \in {} |-> <<>>],
     methods |-> <<>>, abstract |-> FALSE, sealed |-> FALSE, invoke |-> <<>>]
Bare(kind) == [MCClass(NoId, <<>>) EXCEPT !.kind = kind]
Sig(params, ret) == [params |-> params, ret |-> ret]
\* A and B have a method, an interface and an event; P is a struct, N an `int?`,
\* C the cell of an int, L a closure over a cell.
MCTypes ==
    [Log |-> MCClass(NoId, <<IntT>>), E |-> MCClass(NoId, <<>>), F |-> MCClass("E", <<>>),
     A |-> [MCClass(NoId, <<IntT, ObjT("A"), ObjT("V")>>) EXCEPT !.vtable = <<"A.m">>, !.ifaces = [I |-> <<"A.m">>]],
     B |-> [MCClass("A", <<IntT, ObjT("A"), ObjT("V")>>) EXCEPT !.vtable = <<"B.m">>, !.ifaces = [I |-> <<"B.m">>]],
     I |-> [Bare("interface") EXCEPT !.methods = <<Sig(<<ObjT("Log"), IntT>>, IntT)>>, !.abstract = TRUE],
     D |-> [Bare("delegate") EXCEPT !.invoke = Sig(<<IntT>>, IntT)],
     V |-> [Bare("delegate") EXCEPT !.invoke = Sig(<<IntT>>, VoidT)],
     P |-> [Bare("struct") EXCEPT !.fields = <<IntT, IntT>>],
     N |-> [Bare("struct") EXCEPT !.fields = <<BoolT, IntT>>],
     C |-> MCClass(NoId, <<IntT>>), L |-> MCClass(NoId, <<ObjT("C")>>)]

MCRef(symbol, params, ret) ==
    [symbol |-> symbol, params |-> params, ret |-> ret, mode |-> "direct", slot |-> 0, iface |-> NoId]
LogInt(first) == <<first, ObjT("Log"), IntT>>
MCReferences ==
    [main |-> MCRef("main", <<ObjT("Log"), IntT>>, IntT),
     say  |-> MCRef("say", <<ObjT("Log"), IntT, IntT>>, IntT),
     vm   |-> [MCRef("A.m", LogInt(ObjT("A")), IntT) EXCEPT !.mode = "virtual", !.slot = 1],
     im   |-> [MCRef("I.m", LogInt(ObjT("I")), IntT) EXCEPT !.mode = "interface", !.slot = 1, !.iface = "I"],
     set  |-> MCRef("A.set", <<ObjT("A"), IntT>>, VoidT),
     new  |-> MCRef("A.new", LogInt(ObjT("A")), VoidT),
     bump |-> MCRef("bump", <<ObjT("C"), ObjT("C"), IntT>>, IntT),
     inner |-> MCRef("L.run", <<ObjT("L"), IntT>>, IntT),
     add |-> MCRef("L.add", <<ObjT("L"), IntT>>, VoidT),
     next |-> MCRef("A.next", <<ObjT("A")>>, BoolT),
     half |-> MCRef("A.half", <<ObjT("A"), IntT>>, IntT)]

Entry ==
    [params |-> <<IntT>>, ret |-> IntT, locals |-> <<IntT, ObjT("Log"), IntT, ObjT(NoId)>>,
     body |-> Seq1(<<Let(2, New("Log")),
        [k |-> "Try", final |-> Absent, pending |-> 0,
         body |-> Seq1(<<Let(3, CallOf("main", <<Log(2), Var(1, IntT)>>, IntT)), Marked(2, Var(3, IntT))>>),
         catches |-> <<[ty |-> NoId, l |-> 4, body |-> Marked(2, Num(7))]>>],
        Give(Dot(Log(2), "Log", 1, IntT))>>)]

(* ----------------- ways out of loops, switches and tries -------------- *)

I == Var(3, IntT)

\* What leaves, always or in the second round.
Exits == <<"none", "Break", "Continue", "Return", "E", "F">>
Leaver(x) ==
    CASE x = "none" -> Seq1(<<>>)
      [] x \in {"Break", "Continue"} -> Jump(x)
      [] x = "Return" -> Give(Plus(I, Num(1)))
      [] OTHER -> Raise(x)
Core(x, always) ==
    Seq1(<<Mark(1), IF always THEN Leaver(x) ELSE When(Compare("Equal", I, Num(2)), Leaver(x))>>)

\* The statements around it; the n-th from inside has locals of its own.
Tries == {"catch", "finally", "both", "base", "catch leaves", "finally throws"}
Loops == {"while", "do", "for", "forever", "endless"}
Shapes == <<"none", "catch", "finally", "both", "base", "catch leaves", "finally throws",
            "while", "do", "for", "forever", "endless", "switch", "then", "else">>

Trying(t, n, body) ==
    [k |-> "Try", body |-> body, pending |-> 3 * n + 2,
     catches |-> IF t = "finally" THEN <<>>
                 ELSE <<[ty |-> IF t = "base" THEN "E" ELSE "F", l |-> 3 * n + 1,
                         body |-> IF t = "catch leaves" THEN Seq1(<<Mark(3), Give(I)>>) ELSE Mark(3)]>>,
     final |-> CASE t \in {"finally", "both", "catch leaves"} -> Mark(3 + n)
                 [] t = "finally throws" -> Seq1(<<Mark(3 + n), Raise("F")>>)
                 [] OTHER -> Absent]

Looping(l, body) ==
    LET count == Do(Set(3, Plus(I, Num(1))))
        more == Compare("LessInt", I, Num(3))
        round == Seq1(<<count, body>>)
        over(x) == When(Compare("GreaterInt", I, Num(3)), x)
    IN  CASE l = "while"   -> [k |-> "While", c |-> more, body |-> round]
          [] l = "do"      -> [k |-> "DoWhile", c |-> more, body |-> round]
          [] l = "for"     -> [k |-> "For", init |-> Absent, c |-> more, step |-> Set(3, Plus(I, Num(1))), body |-> body]
          [] l = "forever" -> [k |-> "While", c |-> Truth(TRUE), body |-> Seq1(<<count, over(Jump("Break")), body>>)]
          [] l = "endless" -> [k |-> "While", c |-> Truth(TRUE), body |-> Seq1(<<count, over(Give(I)), body>>)]

Case(label, body) ==
    [pat |-> VoidT, l |-> 0, label |-> label, guard |-> Absent, default |-> ~Given(label), body |-> body]
Around(s, n, body) ==
    CASE s = "none"   -> body
      [] s \in Tries  -> Trying(s, n, body)
      [] s \in Loops  -> Looping(s, body)
      [] s = "switch" -> [k |-> "SwitchStatement", e |-> I, l |-> 3 * n + 3,
                          sections |-> <<Case(Num(1), <<body>>), Case(Absent, <<Mark(6), Jump("Break")>>)>>]
      [] s = "then"   -> WhenElse(Compare("LessInt", I, Num(3)), body, Mark(6))
      [] s = "else"   -> WhenElse(Compare("GreaterInt", I, Num(3)), Give(I), body)

LocalsOf(shapes) ==
    <<ObjT("Log"), IntT, IntT>> \o
    FlattenSeq([n \in DOMAIN shapes |-> <<ObjT(IF shapes[n] = "base" THEN "E" ELSE "F"), ObjT(NoId), IntT>>])

\* From the inside out.
Nested(shapes, core) ==
    FoldLeft(LAMBDA body, n : Around(shapes[n], n, body), core, [n \in DOMAIN shapes |-> n])

Main(shapes, core) ==
    [params |-> <<ObjT("Log"), IntT>>, ret |-> IntT, locals |-> LocalsOf(shapes),
     body |-> Seq1(<<Let(3, Var(2, IntT)), Nested(shapes, core), Mark(2), Give(I)>>)]

\* A jump has something to leave.
MayLeave(shapes, x) ==
    CASE x = "Break"    -> \E n \in DOMAIN shapes : shapes[n] \in Loops \cup {"switch"}
      [] x = "Continue" -> \E n \in DOMAIN shapes : shapes[n] \in Loops
      [] OTHER          -> TRUE

ControlInit ==
    \E i, j \in DOMAIN Shapes, x \in DOMAIN Exits, always \in BOOLEAN :
        LET shapes == <<Shapes[i], Shapes[j]>> IN
        /\ MayLeave(shapes, Exits[x])
        /\ source = [entry |-> Entry, main |-> Main(shapes, Core(Exits[x], always))]

(* --------------------- a local that is assigned late ------------------ *)

X == 10
Late(x, first) ==
    LET leave == When(Compare("Equal", Var(2, IntT), Num(1)), Leaver(x))  assign == Do(Set(X, Num(5))) IN
    Seq1(IF first THEN <<leave, assign>> ELSE <<assign, leave>>)
Assigning(shapes, x, first) ==
    [params |-> <<ObjT("Log"), IntT>>, ret |-> IntT, locals |-> Append(LocalsOf(shapes), IntT),
     body |-> Seq1(<<Let(3, Var(2, IntT)), Let(X, Absent), Nested(shapes, Late(x, first)), Give(Var(X, IntT))>>)]

AssignInit ==
    \E i, j \in DOMAIN Shapes, x \in DOMAIN Exits, first \in BOOLEAN :
        LET shapes == <<Shapes[i], Shapes[j]>> IN
        /\ MayLeave(shapes, Exits[x])
        /\ source = [entry |-> Entry, main |-> Assigning(shapes, Exits[x], first)]

(* ------------------- what expressions evaluate, in order -------------- *)

N == Var(2, IntT)
Is(n) == Compare("Equal", N, Num(n))
Say(k, e) == CallOf("say", <<Log(1), Num(k), e>>, IntT)
Either(op, a, b) == [k |-> "ShortCircuit", and |-> op = "and", a |-> a, b |-> b]
Choice(c, a, b) == [k |-> "Conditional", c |-> c, a |-> a, b |-> b, ty |-> IntT]
Ask(k, e) == Compare("Equal", Say(k, Num(1)), Choice(e, Num(1), Num(0)))
ChoiceOf(c, a, b, ty) == [k |-> "Conditional", c |-> c, a |-> a, b |-> b, ty |-> ty]
Null(ty) == [k |-> "Conversion", e |-> NullLit, ty |-> ty,
             how |-> IF ty[1] = "Array" THEN "ConvertNullToArray" ELSE "ConvertNullToObject"]
A0 == Var(4, ObjT("A"))
Made(ctor, args, order) == [New("A") EXCEPT !.ctor = ctor, !.args = args, !.order = order]
MaybeA == Let(4, ChoiceOf(Is(1), New("A"), Null(ObjT("A")), ObjT("A")))
Maybe(e) == [e EXCEPT !.cond = TRUE, !.nullable = "N", !.ty = Ty("Struct", "N")]
OrElse(a, b, nullable) == [k |-> "Coalesce", a |-> a, b |-> b, ty |-> IF nullable THEN IntT ELSE ObjT("A"),
                           nullable |-> IF nullable THEN "N" ELSE NoId]
Method(ref, recv, x, order) == [CallOf(ref, <<recv, Log(1), x>>, IntT) EXCEPT !.owner = "A", !.order = order]
AsI(e) == [Method("im", e, Say(2, N), <<1, 2, 3>>) EXCEPT !.owner = "I"]
Test(e, t, l, safe) == [k |-> "TypeTest", e |-> e, el |-> ObjT(t), safe |-> safe, l |-> l,
                        ty |-> IF safe THEN ObjT(t) ELSE BoolT]
Pattern(t, l, guard) == [Case(Absent, <<>>) EXCEPT !.pat = t, !.l = l, !.guard = guard, !.default = FALSE]
Arm(case, value) == [value |-> value] @@ case
Switch(e, arms) == [k |-> "Switch", e |-> e, arms |-> arms, ty |-> IntT]
Ints(len, items) == [k |-> "NewArray", len |-> len, el |-> IntT, items |-> items, ty |-> ArrayOf(IntT)]
Arr == Var(4, ArrayOf(IntT))
At1(i) == [k |-> "Element", a |-> Arr, i |-> i, ty |-> IntT]
SetAt(i, e) == [k |-> "ElementAssignment", a |-> Arr, i |-> i, e |-> e, ty |-> IntT]
Length(a) == [k |-> "ArrayLength", e |-> a]
Pt == Var(4, Ty("Struct", "P"))
Px(e, f) == [k |-> "StructField", e |-> e, owner |-> "P", f |-> f, ty |-> IntT]
SetPx(f, x) == [k |-> "StructFieldAssignment", l |-> 4, owner |-> "P", f |-> f, cell |-> NoId, x |-> x]
NewP(x, y) == [k |-> "NewStruct", ty |-> Ty("Struct", "P"), ctor |-> NoId, args |-> <<>>, order |-> <<>>,
               inits |-> <<[field |-> 1, ref |-> NoId, args |-> <<x>>], [field |-> 2, ref |-> NoId, args |-> <<y>>]>>]
Pass(how, target, e) == [mode |-> how, target |-> target, e |-> e, i |-> Absent, owner |-> NoId, f |-> 0,
                          ty |-> IntT, cell |-> "C", l |-> 1]
Bump(a, b) == [k |-> "ReferenceCall", del |-> NoId, e |-> Absent, ref |-> "bump", ty |-> IntT,
               args |-> <<a, b, Pass("value", "None", Say(1, N))>>]
Delegated(del, ref, e, closure, captures) ==
    [k |-> "DelegateCreation", del |-> del, ref |-> ref, e |-> e, closure |-> closure, captures |-> captures]
Both(op, a, b) == [k |-> "Combination", op |-> op, a |-> a, b |-> b, ty |-> ObjT("D")]
Invoke(e, x) == [k |-> "ReferenceCall", del |-> "D", e |-> e, ref |-> NoId, ty |-> IntT,
                 args |-> <<Pass("value", "None", x)>>]
Counter(del, ref) == Delegated(del, ref, Absent, "L", <<Var(4, ObjT("C"))>>)
Cell(e) == [Let(4, e) EXCEPT !.cell = "C"]
Del(l) == Var(l, ObjT("D"))

\* Functions the samples call.
Fn(params, ret, body) == [params |-> params, ret |-> ret, locals |-> params, body |-> Seq1(body)]
This(t) == Var(1, ObjT(t))
Helpers ==
    ("say" :> Fn(<<ObjT("Log"), IntT, IntT>>, IntT, <<Marked(1, N), Give(I)>>)) @@
    ("A.m" :> Fn(LogInt(ObjT("A")), IntT, <<Marked(2, Num(6)), Give(Plus(I, Dot(This("A"), "A", 1, IntT)))>>)) @@
    ("B.m" :> Fn(LogInt(ObjT("B")), IntT, <<When(Compare("Equal", I, Num(1)), Raise("F")), Give(Num(7))>>)) @@
    ("A.set" :> Fn(<<ObjT("A"), IntT>>, VoidT, <<Do(SetDot(This("A"), "A", 1, N))>>)) @@
    ("A.new" :> Fn(LogInt(ObjT("A")), VoidT, <<Marked(2, Num(4)), Do(SetDot(This("A"), "A", 1, I))>>)) @@
    ("A.half" :> Fn(<<ObjT("A"), IntT>>, IntT, <<Give(Plus(Dot(This("A"), "A", 1, IntT), N))>>)) @@
    ("A.next" :> Fn(<<ObjT("A")>>, BoolT,
        <<Do(SetDot(This("A"), "A", 1, Plus(Dot(This("A"), "A", 1, IntT), Num(1)))),
          Give(Compare("LessInt", Dot(This("A"), "A", 1, IntT), Num(4)))>>)) @@
    ("bump" :> Fn(<<ObjT("C"), ObjT("C"), IntT>>, IntT,
        <<Do(SetDot(This("C"), "C", 1, Plus(Dot(This("C"), "C", 1, IntT), I))),
          Do(SetDot(Var(2, ObjT("C")), "C", 1, Num(5))), Give(Dot(This("C"), "C", 1, IntT))>>)) @@
    ("L.add" :> Fn(<<ObjT("L"), IntT>>, VoidT, <<Do(CallOf("inner", <<This("L"), N>>, IntT))>>)) @@
    ("L.run" :> Fn(<<ObjT("L"), IntT>>, IntT,
        <<Do(SetDot(Dot(This("L"), "L", 1, ObjT("C")), "C", 1,
                    Plus(Dot(Dot(This("L"), "L", 1, ObjT("C")), "C", 1, IntT), N))),
          Give(Dot(Dot(This("L"), "L", 1, ObjT("C")), "C", 1, IntT))>>))

\* A sample is a body and the types of its locals from the fourth on.
Times(a, b) == Op("MultiplyInt", a, b, IntT)
Samples ==
  <<[locals |-> <<>>, body |-> <<Give(Choice(Either("and", Ask(1, Is(1)), Ask(2, Is(0))), Say(3, Num(1)), Say(4, Num(2))))>>],
    [locals |-> <<>>, body |-> <<Give(Choice(Either("or", Ask(1, Is(1)), Ask(2, Is(1))), Say(3, Num(1)), Say(4, Num(2))))>>],
    [locals |-> <<ObjT("A")>>, body |->
        <<MaybeA, Let(4, OrElse(A0, Made("new", <<Log(1), Say(2, Num(3))>>, <<2, 1>>), FALSE)), Give(Dot(A0, "A", 1, IntT))>>],
    \* Null-conditional members and calls.
    [locals |-> <<ObjT("A")>>, body |->
        <<MaybeA, Give(Plus(OrElse(Maybe(Dot(A0, "A", 1, IntT)), Say(3, Num(2)), TRUE),
                            OrElse(Maybe(Method("vm", A0, Say(1, Num(1)), <<1, 3, 2>>)), Say(5, Num(4)), TRUE)))>>],
    [locals |-> <<ObjT("A")>>, body |-> <<MaybeA, Give(Method("vm", A0, Say(1, Num(1)), <<1, 2, 3>>))>>],
    [locals |-> <<ObjT("A")>>, body |->
        <<Let(4, ChoiceOf(Is(1), New("B"), New("A"), ObjT("A"))), Give(Plus(AsI(A0), Method("vm", A0, N, <<3, 2, 1>>)))>>],
    \* Type tests, and switches on values and types.
    [locals |-> <<ObjT("A"), ObjT("B")>>, body |->
        <<Let(4, ChoiceOf(Is(1), New("B"), New("A"), ObjT("A"))),
          When(Test(A0, "B", 5, FALSE), Do(SetDot(Var(5, ObjT("B")), "B", 1, Num(3)))),
          Give(Choice(Compare("Equal", Test(A0, "B", 0, TRUE), Null(ObjT("B"))), Num(1), Dot(A0, "A", 1, IntT)))>>],
    [locals |-> <<ObjT("A"), ObjT("B")>>, body |->
        <<Let(4, ChoiceOf(Is(1), New("B"), New("A"), ObjT("A"))),
          Give(Switch(A0, <<Arm(Pattern(ObjT("B"), 5, Ask(1, Is(0))), Num(1)), Arm(Case(Absent, <<>>), Say(2, Num(2))),
                            Arm(Pattern(ObjT("B"), 5, Absent), Dot(Var(5, ObjT("B")), "B", 1, IntT))>>))>>],
    [locals |-> <<>>, body |->
        <<Give(Switch(Say(1, N), <<Arm([Case(Num(0), <<>>) EXCEPT !.guard = Ask(2, Is(1))], Num(1)),
                                   Arm(Case(Say(3, Num(1)), <<>>), Num(2)), Arm(Case(Absent, <<>>), Num(3))>>))>>],
    [locals |-> <<IntT>>, body |->
        <<[k |-> "SwitchStatement", e |-> Say(1, N), l |-> 4,
           sections |-> <<[Case(Num(1), <<Mark(2), Jump("Break")>>) EXCEPT !.guard = Ask(3, Is(0))],
                          [Case(Absent, <<Mark(4), Give(Num(1))>>) EXCEPT !.guard = Ask(5, Is(1))],
                          Case(Num(2), <<Give(Num(3))>>)>>], Give(Num(2))>>],
    \* Arrays.
    [locals |-> <<ArrayOf(IntT)>>, body |->
        <<Let(4, Ints(Num(2), <<Say(1, Num(5)), Say(2, N)>>)), Do(SetAt(Say(3, N), Say(4, At1(Num(1))))),
          Give(Plus(At1(Num(0)), Times(At1(Num(1)), Length(Arr))))>>],
    [locals |-> <<ArrayOf(IntT)>>, body |-> <<Let(4, Ints(N, <<>>)), Do(SetAt(Num(0), Say(1, Num(2)))), Give(At1(Num(0)))>>],
    [locals |-> <<ArrayOf(IntT)>>, body |->
        <<Let(4, ChoiceOf(Is(1), Ints(Num(1), <<>>), Null(ArrayOf(IntT)), ArrayOf(IntT))), Give(Length(Arr))>>],
    \* Structs, and references to variables, fields, elements and structs.
    [locals |-> <<Ty("Struct", "P"), Ty("Struct", "P")>>, body |->
        <<Let(4, NewP(Say(1, Num(3)), Say(2, N))), Let(5, Pt), Do(SetPx(1, Say(3, Plus(Px(Pt, 2), Num(1))))),
          Give(Plus(Times(Px(Pt, 1), Num(8)), Px(Var(5, Ty("Struct", "P")), 1)))>>],
    [locals |-> <<IntT>>, body |->
        <<Let(4, Num(2)), Let(3, Bump([Pass("ref", "Variable", Var(4, IntT)) EXCEPT !.l = 4],
                                      [Pass("out", "Variable", Var(3, IntT)) EXCEPT !.l = 3])),
          Give(Plus(Times(I, Num(8)), Var(4, IntT)))>>],
    [locals |-> <<ObjT("A")>>, body |->
        <<MaybeA, Let(3, Bump([Pass("ref", "Field", A0) EXCEPT !.owner = "A", !.f = 1],
                              [Pass("out", "None", Absent) EXCEPT !.l = 3])), Give(Plus(Dot(A0, "A", 1, IntT), I))>>],
    [locals |-> <<ArrayOf(IntT)>>, body |->
        <<Let(4, Ints(Num(1), <<Num(3)>>)), Let(3, Bump([Pass("ref", "Element", Arr) EXCEPT !.i = Num(0)],
                                                        [Pass("out", "Element", Arr) EXCEPT !.i = N])),
          Give(Plus(Times(I, Num(8)), At1(Num(0))))>>],
    [locals |-> <<Ty("Struct", "P")>>, body |->
        <<Let(4, NewP(Num(2), Num(1))), Let(3, Bump([Pass("ref", "Struct", Pt) EXCEPT !.owner = "P", !.f = 1, !.l = 4],
                                                    [Pass("ref", "None", Num(4)) EXCEPT !.l = 3])),
          Give(Plus(Times(Px(Pt, 1), Num(8)), Px(Pt, 2)))>>],
    \* Delegates, closures and events.
    [locals |-> <<ObjT("C"), ObjT("D"), ObjT("D")>>, body |->
        <<Cell(Num(1)), Let(5, Counter("D", "inner")),
          Let(6, Both("CombineDelegate", Del(5), Delegated("D", "half", New("A"), NoId, <<>>))),
          Let(3, Invoke(Del(6), Say(1, Num(2)))),
          When(Is(1), Do(Set(6, Both("RemoveDelegate", Del(6), Del(5))))),
          Give(Plus(Times(Plus(I, Invoke(Del(6), Num(1))), Num(8)), Dot(Var(4, ObjT("C")), "C", 1, IntT)))>>],
    [locals |-> <<ObjT("C"), ObjT("A")>>, body |->
        <<Cell(Num(1)), Let(5, New("A")),
          When(Is(1), [k |-> "Subscribe", e |-> Var(5, ObjT("A")), owner |-> "A", f |-> 3, del |-> ObjT("V"),
                       x |-> Counter("V", "add"), op |-> "CombineDelegate"]),
          Do([k |-> "EventInvocation", e |-> Var(5, ObjT("A")), owner |-> "A", f |-> 3, del |-> ObjT("V"),
              args |-> <<Say(1, Num(3))>>]), Give(Dot(Var(4, ObjT("C")), "C", 1, IntT))>>],
    [locals |-> <<ObjT("D")>>, body |-> <<Let(4, Null(ObjT("D"))), Give(Invoke(Del(4), Say(1, Num(1))))>>],
    \* Properties, initializers, operators and calls that throw.
    [locals |-> <<ObjT("A")>>, body |->
        <<MaybeA, Let(3, [k |-> "PropertyAssignment", ref |-> "set", args |-> <<A0>>, order |-> <<1>>, owner |-> "A", x |-> Say(1, Num(2))]),
          Give(Plus(I, Dot(A0, "A", 1, IntT)))>>],
    [locals |-> <<ObjT("A")>>, body |->
        <<Let(4, [Made("new", <<Log(1), Say(1, N)>>, <<1, 2>>) EXCEPT
                    !.inits = <<[field |-> 2, ref |-> NoId, args |-> <<New("A")>>], [field |-> 0, ref |-> "set", args |-> <<Say(2, Num(3))>>]>>]),
          Give(Plus(Dot(A0, "A", 1, IntT), Dot(Dot(A0, "A", 2, ObjT("A")), "A", 1, IntT)))>>],
    [locals |-> <<>>, body |-> <<Give(Op("DivideInt", Say(1, Num(6)), Say(2, N), IntT))>>],
    [locals |-> <<>>, body |->
        <<Give([Plus([k |-> "Unary", op |-> "NegateInt", e |-> Num(IntMax), ty |-> IntT, checked |-> TRUE], Num(-1 - 1)) EXCEPT !.checked = FALSE])>>],
    [locals |-> <<>>, body |-> <<Give(Plus(Num(IntMax), N))>>],
    [locals |-> <<IntT>>, body |->
        <<Let(4, Num(0)), Do(Set(4, Set(3, Say(1, N)))),
          Give(Choice([k |-> "Unary", op |-> "LogicalNot", e |-> Compare("NotEqual", I, Var(4, IntT)), ty |-> BoolT], Num(1), Num(2)))>>],
    [locals |-> <<ObjT("A"), ObjT("F"), ObjT(NoId)>>, body |->
        <<Let(4, New("B")),
          [k |-> "Try", pending |-> 6, final |-> Mark(5),
           body |-> Seq1(<<Let(3, Method("vm", A0, N, <<1, 2, 3>>)), Mark(1)>>),
           catches |-> <<[ty |-> "F", l |-> 5, body |-> Seq1(<<Mark(2), [k |-> "Throw", e |-> Var(5, ObjT("F"))]>>)]>>], Give(I)>>],
    \* Loops over collections.
    [locals |-> <<ArrayOf(IntT), IntT, IntT>>, body |->
        <<[k |-> "Foreach", e |-> Ints(Num(3), <<Num(4), N, Num(2)>>), l |-> 4, at |-> 5, x |-> 6, enumerator |-> FALSE,
           count |-> Length(Arr), element |-> At1(Var(5, IntT)),
           body |-> Seq1(<<When(Compare("Equal", Var(6, IntT), Num(0)), Jump("Continue")),
                           When(Compare("Equal", Var(6, IntT), Num(1)), Jump("Break")), Marked(1, Var(6, IntT))>>)], Give(Num(1))>>],
    [locals |-> <<ObjT("A"), IntT, IntT>>, body |->
        <<[k |-> "Foreach", e |-> New("A"), l |-> 4, at |-> 5, x |-> 6, enumerator |-> TRUE,
           count |-> [CallOf("next", <<A0>>, BoolT) EXCEPT !.owner = "A"], element |-> Dot(A0, "A", 1, IntT),
           body |-> Seq1(<<When(Compare("Equal", Var(6, IntT), Num(2)), Jump("Continue")), Marked(1, Var(6, IntT))>>)], Give(Num(1))>>]>>

Sampled(i) ==
    [params |-> <<ObjT("Log"), IntT>>, ret |-> IntT, locals |-> <<ObjT("Log"), IntT, IntT>> \o Samples[i].locals,
     body |-> Seq1(<<Let(3, Num(0))>> \o Samples[i].body)]

ExpressionInit == \E i \in DOMAIN Samples : source = ("entry" :> Entry) @@ ("main" :> Sampled(i)) @@ Helpers

(* ------------------------------ the instance -------------------------- *)

MCTiers == <<"traced">>
MCAccepts(f) == LET verdict == FlowAccepts(f) IN verdict
MCLower(module, f) == LET mir == LowerFunction(module, f) IN mir
MCInputs(p) == {[main |-> "entry", args |-> <<IntV(n)>>, budget |-> 1000, host |-> Unresolved] : n \in {0, 1}}

Begin(ref, types) ==
    /\ Unstarted /\ status = "compile"
    /\ program = [types |-> [t \in types |-> MCTypes[t]], references |-> [r \in ref |-> MCReferences[r]],
                  functions |-> [f \in {} |-> 0]]

MCInit ==
    \/ Begin({"main"}, {"Log", "E", "F"}) /\ (ControlInit \/ AssignInit)
    \/ Begin(DOMAIN MCReferences, DOMAIN MCTypes) /\ ExpressionInit

MCSpec == MCInit /\ [][FrontendNext]_fvars

\* A module that flow analysis accepts comes through the lowering and both
\* verifiers (MirLowerer, MirVerifier, BytecodeVerifier), but for the functions
\* the lowering is known to fail on.
LoweringDelivers ==
    status \in {"crashed", "invalid", "rejected"} =>
        \E f \in DOMAIN source : ~Delivered(source[f].body, TRUE) \/ ~FinallyGoesOn(source[f].body)

\* What flow analysis accepts reads no local and no register before it is
\* written, on any path of the bytecode (FlowAnalysis against the lowering), but for
\* what a do loop that is left early writes (FlowAnalysis.cpp:388).
AcceptedIsAssigned == status = "start" /\ (\A f \in DOMAIN source : NoDoIsLeft(source[f].body)) => shaped

\* The interpreted bytecode does what the source means: the marks in their
\* order, the result, the exception or the error.
LoweringFaithful ==
    [][status' = "done" /\ shaped /\ (\A f \in DOMAIN source : FinallyGoesOn(source[f].body)) =>
          LET meant == Meant(input.main, input.args) IN
          \A m \in DOMAIN outcome' : outcome'[m].code = meant.code /\ outcome'[m].value = meant.value]_fvars
=============================================================================
