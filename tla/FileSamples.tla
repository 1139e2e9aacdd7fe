----------------------------- MODULE FileSamples ----------------------------
(***************************************************************************)
(* What Files saves when it is model-checked: modules of every version,    *)
(* states of the gameplay host at the edges of what restore accepts, and   *)
(* objects with every kind of value.                                       *)
(***************************************************************************)
EXTENDS Integers, Sequences, TLC

LOCAL INSTANCE Bytes

LOCAL Name(i) == <<96 + i>>   \* "a", "b", ...

-----------------------------------------------------------------------------
(* Modules. *)

Parameter(i) ==
    [name |-> Name(i), type |-> 2, typeName |-> <<105>>, storageType |-> 255,
     storageTypeName |-> <<105>>, modifier |-> i % 4, index |-> i, parameter |-> TRUE, id |-> i]

Symbol(n, parameters) ==
    [id |-> n, accessibility |-> 1, declaringTypeId |-> 7, declaringTypeName |-> <<84>>,
     flags |-> 40, secondaryFlags |-> 2, virtualSlot |-> 0, interfaceSlot |-> AllOnes,
     moduleName |-> Name(1), name |-> Name(n), ownerTypeName |-> <<84>>, ownerTypeId |-> 7,
     returnType |-> 2, returnTypeName |-> <<105>>, sourceName |-> Name(n),
     parameters |-> [i \in 1 .. parameters |-> Parameter(i)],
     returnModifier |-> 0, storageReturnType |-> 255]

PropertySample ==
    [name |-> Name(4), accessibility |-> 2, declaringTypeId |-> 7, declaringTypeName |-> <<84>>,
     type |-> 2, typeName |-> <<105>>, static |-> FALSE, getter |-> <<Symbol(5, 0)>>,
     setter |-> <<>>, backingField |-> 3, sourceName |-> Name(4), id |-> 9]

FieldSample(synthetic) ==
    [name |-> Name(3), type |-> 8, typeName |-> IF synthetic THEN <<>> ELSE <<84>>, index |-> 0,
     synthetic |-> synthetic, accessibility |-> 3, declaringTypeId |-> 7,
     declaringTypeName |-> <<84>>, sourceName |-> Name(3), id |-> 11]

\* constructors of so many parameters
ClassSample(parameters) ==
    [id |-> 7, kind |-> 0, moduleName |-> Name(1), name |-> <<84>>,
     fields |-> <<FieldSample(TRUE), FieldSample(FALSE)>>, enumMembers |-> <<>>,
     accessibility |-> 1, flags |-> 12, baseTypeId |-> 6, baseTypeName |-> <<66>>,
     methods |-> <<Symbol(6, 1)>>, constructors |-> <<Symbol(7, parameters)>>,
     properties |-> <<PropertySample>>, vtable |-> <<6, 0>>,
     dispatchMaps |-> << [interface |-> 5, slots |-> <<6>>] >>]

EnumSample ==
    [id |-> 8, kind |-> 1, moduleName |-> Name(1), name |-> <<69>>, fields |-> <<>>,
     enumMembers |-> << [name |-> Name(1), value |-> 0], [name |-> Name(2), value |-> -1] >>,
     accessibility |-> 1, flags |-> 0, baseTypeId |-> 0, baseTypeName |-> <<>>,
     methods |-> <<>>, constructors |-> <<>>, properties |-> <<>>, vtable |-> <<>>,
     dispatchMaps |-> <<>>]

ReferenceSample ==
    [symbol |-> 6, name |-> Name(6), returnType |-> 2, returnTypeId |-> 0,
     parameterTypes |-> <<8, 2>>, parameterTypeIds |-> <<7, 0>>,
     dispatch |-> 2, virtualSlot |-> 0, interfaceTypeId |-> 0, interfaceSlot |-> AllOnes]

InstructionSample(opcode, text) ==
    [opcode |-> opcode, result |-> 1, operands |-> <<0, 1>>, index |-> 2, typeIndex |-> AllOnes,
     elementType |-> 255, elementTypeId |-> 0, integer |-> -1, double |-> 3, boolean |-> TRUE,
     checked |-> FALSE, text |-> text]

RangeSample ==
    [file |-> 1, start |-> 4, length |-> 9, line |-> 2, column |-> 1, endLine |-> 2,
     endColumn |-> 10]

FunctionSample(n, handlers) ==
    [symbol |-> n, name |-> Name(n), returnType |-> 2, returnTypeId |-> 0,
     parameterTypes |-> <<2>>, parameterTypeIds |-> <<0>>, localTypes |-> <<2, 8>>,
     localTypeIds |-> <<0, 7>>, registerTypes |-> <<2>>, registerTypeIds |-> <<0>>,
     blocks |->
        << [id |-> 0, parameters |-> << [target |-> 0, type |-> 2, typeId |-> 0] >>,
            instructions |-> <<InstructionSample(4, <<104, 105>>), InstructionSample(9, <<>>)>>,
            terminator |-> [kind |-> 1, condition |-> AllOnes, value |-> 1, target |-> 0,
                            falseTarget |-> AllOnes, arguments |-> <<1>>,
                            falseArguments |-> <<>>]] >>,
     handlers |-> handlers,
     source |-> 1, declaration |-> RangeSample, body |-> RangeSample,
     points |-> << [block |-> 0, instruction |-> 1, terminator |-> FALSE,
                    range |-> RangeSample] >>,
     locals |-> << [name |-> Name(2), slot |-> 0, type |-> 2, typeId |-> 0, parameter |-> TRUE,
                    declaration |-> RangeSample, scope |-> RangeSample] >>]

HandlerSample == [protected |-> <<0>>, handler |-> 1, catch |-> 7, local |-> AllOnes]

ModuleSample(minor, parameters) ==
    [minor |-> minor, name |-> Name(1), types |-> <<EnumSample, ClassSample(parameters)>>,
     references |-> <<ReferenceSample>>,
     functions |-> <<FunctionSample(6, <<HandlerSample>>), FunctionSample(7, <<>>)>>,
     sources |-> << [id |-> 1, path |-> <<112>>, hash |-> 5, lineStarts |-> <<0, 4>>] >>,
     attributes |-> << [target |-> <<84>>, name |-> Name(8), sourceName |-> Name(8), offset |-> 3,
                        arguments |-> << [name |-> <<>>, value |-> Name(9)] >>] >>,
     interfaces |-> << [typeName |-> <<84>>, interfaces |-> <<Name(10)>>] >>,
     generics |-> << [genericName |-> Name(11), generatedName |-> Name(12),
                      arguments |-> <<<<105>>>>] >>,
     sequences |-> << [typeName |-> <<84>>, name |-> Name(6), resultTypeName |-> <<105>>,
                       sourceName |-> Name(6), offset |-> 1, callbacks |-> <<Name(13)>>] >>]

\* No more than a function that does nothing.
SmallFunction ==
    [FunctionSample(1, <<HandlerSample>>) EXCEPT
        !.localTypes = <<>>, !.localTypeIds = <<>>, !.points = <<>>, !.locals = <<>>,
        !.blocks = <<[@[1] EXCEPT !.parameters = <<>>,
                                  !.instructions = <<InstructionSample(4, <<104>>)>>]>>]

SmallModule(minor) ==
    [ModuleSample(minor, 0) EXCEPT
        !.types = <<EnumSample>>, !.references = <<>>, !.functions = <<SmallFunction>>,
        !.sources = <<>>, !.attributes = <<>>, !.interfaces = <<>>, !.generics = <<>>,
        !.sequences = <<>>]

-----------------------------------------------------------------------------
(* States of the gameplay host. *)

StateSample(accumulator, priority) ==
    [slots |-> << [generation |-> 1, alive |-> TRUE], [generation |-> 3, alive |-> FALSE],
                  [generation |-> AllOnes, alive |-> FALSE] >>,
     free |-> <<1, 2>>, aliveCount |-> 1,
     rate |-> 60, tick |-> 7, accumulator |-> accumulator, dropped |-> 3,
     random |-> 12345, increment |-> 5, nextTimer |-> 9,
     tasks |-> << [id |-> 4, due |-> 8, interval |-> 2, remaining |-> 0, payload |-> 2],
                  [id |-> 1, due |-> 8, interval |-> 0, remaining |-> 1, payload |-> 3],
                  [id |-> 7, due |-> 9, interval |-> 0, remaining |-> 1, payload |-> 1] >>,
     nextEvent |-> 4,
     events |-> << [due |-> 9, id |-> 1, target |-> 0, topic |-> <<116>>,
                    arguments |-> <<<<4, NegativeZero>>, <<6, <<1, 3>>>>, <<0, <<>>>>>>],
                   [due |-> 8, id |-> 3, target |-> 2, topic |-> <<116, 116>>,
                    arguments |-> <<>>] >>,
     nextPayload |-> 4, nextSubscription |-> 3, nextSequence |-> 2,
     calls |-> << [id |-> 3, timer |-> 1, target |-> 1, callback |-> <<99>>,
                   arguments |-> <<<<2, -1>>, <<3, 5>>, <<1, TRUE>>, <<5, <<120, 121>>>>>>],
                  [id |-> 2, timer |-> 4, target |-> 1, callback |-> <<99>>,
                   arguments |-> <<<<4, 254>>>>] >>,
     subscriptions |-> << [id |-> 2, topic |-> <<116>>, target |-> 1, callback |-> <<99>>,
                           priority |-> priority] >>,
     sequences |-> << [id |-> 1, timers |-> <<1, 4>>] >>]

StateLimits == [records |-> 3, arguments |-> 4, text |-> 2, bytes |-> 700]

-----------------------------------------------------------------------------
(* Objects. *)

ObjectSample(values, tags) ==
    [type |-> <<79>>,
     layout |-> [i \in 1 .. Len(tags) |-> [name |-> Name(i), tag |-> tags[i], typeId |-> 4]],
     values |-> values]

ObjectPolicy == [strings |-> TRUE, doubles |-> TRUE, fields |-> 6, depth |-> 1, bytes |-> 300]

\* A string, a double, a float, an enumeration and a struct.
FieldTags == <<8, 5, 15, 6, 7>>

FieldValues ==
    <<<<8, <<104, 105>>>>, <<5, 254>>, <<15, 255>>, <<6, <<4, -1>>>>,
      <<7, <<4, <<<<11, 65535>>, <<3, 7>>, <<5, NegativeZero>>>>>>>>>>

NewValues == <<<<1, <<>>>>, <<5, 0>>, <<15, 0>>, <<6, <<4, 0>>>>, <<7, <<4, <<>>>>>>>>

\* The same class when its third field was an int, and with more fields.
OldTags == [FieldTags EXCEPT ![3] = 3]

-----------------------------------------------------------------------------

Sample(format, value, target, limits, changes) ==
    [format |-> format, value |-> value, target |-> target, limits |-> limits,
     changes |-> changes]

\* What holds no module and no state yet.
Nobody == [empty |-> TRUE]

SavedModule(m, changes) == Sample("module", m, Nobody, Nobody, changes)

SavedState(s, limits, changes) == Sample("gameplay", s, Nobody, limits, changes)

\* Loaded into a new object of the class with these fields.
SavedObject(tags, policy, changes) ==
    Sample("object", ObjectSample(FieldValues, FieldTags), ObjectSample(NewValues, tags),
           policy, changes)

SavedFiles == <<
    SavedModule(ModuleSample(9, 5), {7}),
    SavedModule(ModuleSample(8, 1), {}),
    SavedModule(ModuleSample(7, 0), {}),
    SavedModule(ModuleSample(6, 0), {}),
    SavedModule(SmallModule(9), {0, 1, 255}),
    SavedModule([SmallModule(9) EXCEPT !.functions = <<>>], {}),
    SavedState(StateSample(1, -1), StateLimits, {0, 1, 255}),
    SavedState(StateSample(NegativeZero, 3), StateLimits, {128}),
    SavedState(StateSample(2, 3), StateLimits, {}),
    SavedState(StateSample(1, 3), [StateLimits EXCEPT !.arguments = 3], {}),
    SavedState(StateSample(1, 3), [StateLimits EXCEPT !.bytes = 516], {}),
    SavedObject(FieldTags, ObjectPolicy, {0, 1, 255}),
    SavedObject(OldTags, ObjectPolicy, {}),
    SavedObject(FieldTags, [ObjectPolicy EXCEPT !.depth = 0], {}) >>

\* A class whose last constructor has so many parameters ends the module.
LastConstructor(parameters) ==
    [SmallModule(9) EXCEPT !.types =
        << [ClassSample(parameters) EXCEPT !.properties = <<>>, !.vtable = <<>>,
                                           !.dispatchMaps = <<>>] >>]

ParameterSamples ==
    << SavedModule(LastConstructor(5), {1}), SavedModule(LastConstructor(6), {}) >>

=============================================================================
