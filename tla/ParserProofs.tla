----------------------------- MODULE ParserProofs -----------------------------
(***************************************************************************)
(* Theorems about Parser, for every source, any bound on it, and all       *)
(* Options.                                                                *)
(***************************************************************************)
EXTENDS Parser, FiniteSetTheorems, SequenceTheorems, TLAPS

OpeningLabels ==
  {"DEFINITION", "DESCRIBED", "OPERATION", "OPERATION_NAMED", "FRAGMENT", "FRAGMENT_ON",
   "FRAGMENT_TYPE", "DEFINITION_END", "DONE"}
SelectionLabels ==
  {"SELECTION", "SPREAD", "INLINE_TYPE", "FIELD_NAMED", "ALIASED", "FIELD_ARGS",
   "FIELD_AFTER_DIRECTIVES", "AFTER_SELECTION"}
ArgumentLabels == {"ARGS_NEXT", "ARGS_COLON", "ARGS_AFTER_VALUE"}
SelectionDirectives == {"field", "fragmentSpread"}

InArguments == pc \in ArgumentLabels \/ (InValue /\ valRet = "argument")

\* Where a register is read it is the one of the production being read: no directives
\* but a variable's continue there, and the arguments of a field are no variable's.
Registers ==
  /\ pc \notin VardefLabels \cup DirectiveLabels \cup ValueLabels \cup {"ERROR"} =>
       dirRet # "varDef"
  /\ InArguments /\ argRet = "field" => dirRet # "varDef"

\* Selection sets are open within one and nowhere else.
Nesting ==
  /\ pc \in OpeningLabels \/ InVariables => selDepth = 0
  /\ pc \in SelectionLabels => selDepth > 0
  /\ pc \in DirectiveLabels \ ArgumentLabels /\ dirRet \in SelectionDirectives
       => selDepth > 0
  /\ InArguments /\ (argRet = "field" \/ dirRet \in SelectionDirectives) => selDepth > 0

\* What is counted is the production being read.
Counts ==
  pc # "ERROR" =>
    /\ mute = (IF Ignore >= 1 /\ InValue THEN 1 ELSE 0)
              + (IF Ignore >= 2 /\ InVariables THEN 1 ELSE 0)
    /\ ~InValue => stack = <<>>
    /\ pc \notin TypeLabels => typeDepth = 0
    /\ pc = "NEXT_VALUE" => stack # <<>>

\* The depths the code counts are within the limit.
DepthsBounded == pc # "ERROR" => selDepth <= DepthLimit /\ Len(stack) <= DepthLimit

IInv == TypeOK /\ Registers /\ Nesting /\ Counts /\ DepthsBounded

\* TypeOK in parts.
LabelType ==
  pc \in Stopped \cup ValueLabels \cup DirectiveLabels \cup VardefLabels \cup OtherLabels
InputType ==
  call \in Calls /\ src \in Seq(Tokens) /\ eof \in BOOLEAN /\ i \in 1..Len(src) + 1
DepthType == stack \in Seq({"list", "object"}) /\ selDepth \in Nat /\ typeDepth \in Nat
RegisterType ==
  /\ dirRet \in {"selectionSet", "varDef", "field", "fragmentSpread"}
  /\ argRet \in {"field", "directive"} /\ valRet \in {"argument", "varDefDefault"}
  /\ constant \in BOOLEAN /\ e \in Errors \cup {"nil"}

LEMMA TypeParts ==
  LabelType /\ InputType /\ DepthType /\ RegisterType /\ mute \in 0..2 => TypeOK
  BY DEF TypeOK, LabelType, InputType, DepthType, RegisterType

\* The Options of a call.
LEMMA CallType ==
  ASSUME call \in Calls
  PROVE  /\ DepthLimit \in Nat /\ DepthLimit > 0
         /\ Ignore \in 0..2 /\ Alphabet \subseteq Tokens
  BY CallsAssumption DEF DepthLimit, Ignore, Alphabet

-----------------------------------------------------------------------------
LEMMA InitIInv == Init => IInv
<1> SUFFICES ASSUME Init PROVE IInv
  OBVIOUS
<1> USE CallsAssumption DEF Init
<1>1. TypeOK
  <2>1. LabelType
    BY DEF LabelType, OtherLabels
  <2>2. DepthType
    BY DEF DepthType
  <2>3. RegisterType /\ mute \in 0..2
    <3>1. constant \in BOOLEAN
      OBVIOUS
    <3>2. mute \in 0..2 /\ e \in Errors \cup {"nil"}
      OBVIOUS
    <3>3. /\ dirRet \in {"selectionSet", "varDef", "field", "fragmentSpread"}
          /\ argRet \in {"field", "directive"} /\ valRet \in {"argument", "varDefDefault"}
      OBVIOUS
    <3> QED BY <3>1, <3>2, <3>3 DEF RegisterType
  <2>4. call \in Calls /\ src \in Seq(Tokens) /\ eof \in BOOLEAN /\ i = 1
    OBVIOUS
  <2>5. InputType
    BY <2>4 DEF InputType
  <2> QED BY <2>1, <2>2, <2>3, <2>5, TypeParts
<1>2. Registers /\ Nesting
  BY DEF Registers, Nesting, InArguments, InVariables, InValue, OpeningLabels,
     SelectionLabels, ArgumentLabels, SelectionDirectives, VardefLabels, TypeLabels,
     DirectiveLabels, ValueLabels
<1>3. Counts /\ DepthsBounded
  BY CallType
  DEF Counts, DepthsBounded, DepthLimit, InValue, InVariables, VardefLabels, TypeLabels,
      DirectiveLabels, ValueLabels
<1> QED
  BY <1>1, <1>2, <1>3 DEF IInv

\* At most one token is read in a step, and it is one that arrived.
Advances == UNCHANGED input /\ (i' = i \/ (i' = i + 1 /\ i <= Len(src)))

LEMMA InputKept == InputType /\ Advances => InputType'
  BY DEF InputType, Advances, input

LEMMA InputFed == InputType /\ Feed => InputType'
<1> SUFFICES ASSUME InputType, Feed PROVE InputType'
  OBVIOUS
<1>1. Alphabet \subseteq Tokens
  BY CallsAssumption DEF InputType, Alphabet
<1>2. CASE src' = src
  BY <1>2 DEF Feed, InputType
<1>3. ASSUME NEW t \in Alphabet, src' = Append(src, t) PROVE InputType'
  <2>1. src' \in Seq(Tokens) /\ Len(src') = Len(src) + 1
    BY <1>1, <1>3 DEF InputType
  <2> QED BY <1>3, <2>1 DEF Feed, InputType
<1> QED
  BY <1>2, <1>3 DEF Feed

LEMMA StackPush ==
  ASSUME stack \in Seq({"list", "object"}), NEW frame \in {"list", "object"}
  PROVE  /\ Append(stack, frame) \in Seq({"list", "object"})
         /\ Append(stack, frame) # <<>>
         /\ Len(Append(stack, frame)) = Len(stack) + 1
  OBVIOUS

LEMMA StackPop ==
  ASSUME stack \in Seq({"list", "object"}), stack # <<>>
  PROVE  /\ SubSeq(stack, 1, Len(stack) - 1) \in Seq({"list", "object"})
         /\ Len(SubSeq(stack, 1, Len(stack) - 1)) = Len(stack) - 1
<1>1. Len(stack) \in Nat /\ Len(stack) > 0
  OBVIOUS
<1>2. PICK n \in Nat : n = Len(stack) - 1
  BY <1>1
<1>3. 1 \in Int /\ n \in Int /\ n - 1 + 1 = n /\ (1 <= n \/ n = 0)
  BY <1>2
<1>4. \A j \in 1..n : stack[j] \in {"list", "object"}
  BY <1>1, <1>2
<1>5. /\ SubSeq(stack, 1, n) \in Seq({"list", "object"})
      /\ Len(SubSeq(stack, 1, n)) = IF 1 <= n THEN n - 1 + 1 ELSE 0
  BY <1>3, <1>4, SubSeqProperties
<1>6. Len(SubSeq(stack, 1, n)) = n
  BY <1>3, <1>5
<1> QED
  BY <1>2, <1>5, <1>6

LEMMA NextIInv == IInv /\ [Next]_vars => IInv'
<1> SUFFICES ASSUME IInv, [Next]_vars PROVE IInv'
  OBVIOUS
<1> USE CallsAssumption
    DEF IInv, TypeOK, Registers, Nesting, Counts, DepthsBounded, InArguments, InValue,
        InVariables, OpeningLabels, SelectionLabels, ArgumentLabels, SelectionDirectives,
        VardefLabels, TypeLabels, DirectiveLabels, ValueLabels, OtherLabels, Stopped,
        Errors, Sees, Ends, Eat, Stay, NoWrite, Writing, Writes, Directives, input, depths,
        regs, output, Ignore, DepthLimit
<1>1. CASE Feed
  <2>1. UNCHANGED <<pc, call, depths, regs, output>> /\ InputType'
    BY <1>1, InputFed DEF Feed, InputType
  <2> QED BY <2>1 DEF InputType
<1>2. CASE skipIgnorables
  <2>1. TypeOK'
    BY <1>2 DEF skipIgnorables
  <2>2. Registers' /\ Nesting'
    BY <1>2 DEF skipIgnorables
  <2>3. Counts' /\ DepthsBounded'
    BY <1>2 DEF skipIgnorables
  <2> QED BY <2>1, <2>2, <2>3
<1>3. CASE Unexpected
  <2>1. TypeOK'
    BY <1>3 DEF Unexpected, Fail
  <2>2. Registers' /\ Nesting'
    BY <1>3 DEF Unexpected, Fail
  <2>3. Counts' /\ DepthsBounded'
    BY <1>3 DEF Unexpected, Fail
  <2> QED BY <2>1, <2>2, <2>3
<1>4. CASE Description
  <2>1. TypeOK'
    BY <1>4 DEF Description
  <2>2. Registers' /\ Nesting'
    BY <1>4 DEF Description
  <2>3. Counts' /\ DepthsBounded'
    BY <1>4 DEF Description
  <2> QED BY <2>1, <2>2, <2>3
<1>5. CASE AnonymousOperation
  <2>1. TypeOK'
    BY <1>5 DEF AnonymousOperation
  <2>2. Registers' /\ Nesting'
    BY <1>5 DEF AnonymousOperation
  <2>3. Counts' /\ DepthsBounded'
    BY <1>5 DEF AnonymousOperation
  <2> QED BY <2>1, <2>2, <2>3
<1>6. CASE OperationType
  <2>1. TypeOK'
    BY <1>6 DEF OperationType
  <2>2. Registers' /\ Nesting'
    BY <1>6 DEF OperationType
  <2>3. Counts' /\ DepthsBounded'
    BY <1>6 DEF OperationType
  <2> QED BY <2>1, <2>2, <2>3
<1>7. CASE OperationName
  <2>1. TypeOK'
    BY <1>7 DEF OperationName
  <2>2. Registers' /\ Nesting'
    BY <1>7 DEF OperationName
  <2>3. Counts' /\ DepthsBounded'
    BY <1>7 DEF OperationName
  <2> QED BY <2>1, <2>2, <2>3
<1>8. CASE OperationAfterName
  <2>1. LabelType' /\ RegisterType'
    BY <1>8 DEF OperationAfterName, LabelType, RegisterType
  <2>2. InputType'
    <3>1. Advances
      BY <1>8 DEF OperationAfterName, Advances
    <3> QED BY <3>1, InputKept DEF InputType
  <2>3. DepthType'
    BY <1>8 DEF OperationAfterName, DepthType
  <2>4. Registers' /\ Nesting'
    BY <1>8 DEF OperationAfterName
  <2>5. Counts'
    BY <1>8 DEF OperationAfterName
  <2>6. DepthsBounded'
    BY <1>8 DEF OperationAfterName
  <2>7. pc' # "ERROR"
    BY <1>8 DEF OperationAfterName
  <2>8. mute' \in 0..2
    BY <2>5, <2>7
  <2>9. TypeOK'
    BY <2>1, <2>2, <2>3, <2>8 DEF LabelType, InputType, DepthType, RegisterType
  <2> QED BY <2>4, <2>5, <2>6, <2>9
<1>9. CASE FragmentDefinition
  <2>1. LabelType' /\ RegisterType'
    BY <1>9 DEF FragmentDefinition, LabelType, RegisterType
  <2>2. InputType'
    <3>1. Advances
      BY <1>9 DEF FragmentDefinition, Advances
    <3> QED BY <3>1, InputKept DEF InputType
  <2>3. DepthType'
    BY <1>9 DEF FragmentDefinition, DepthType
  <2>4. Registers' /\ Nesting'
    BY <1>9 DEF FragmentDefinition
  <2>5. Counts'
    BY <1>9 DEF FragmentDefinition
  <2>6. DepthsBounded'
    BY <1>9 DEF FragmentDefinition
  <2>8. mute' \in 0..2
    BY <1>9 DEF FragmentDefinition
  <2>9. TypeOK'
    BY <2>1, <2>2, <2>3, <2>8 DEF LabelType, InputType, DepthType, RegisterType
  <2> QED BY <2>4, <2>5, <2>6, <2>9
<1>10. CASE DefinitionEnd
  <2>1. TypeOK'
    BY <1>10 DEF DefinitionEnd
  <2>2. Registers' /\ Nesting'
    BY <1>10 DEF DefinitionEnd
  <2>3. Counts' /\ DepthsBounded'
    BY <1>10 DEF DefinitionEnd
  <2> QED BY <2>1, <2>2, <2>3
<1>11. CASE Variable
  <2>1. TypeOK'
    BY <1>11 DEF Variable
  <2>2. Registers' /\ Nesting'
    BY <1>11 DEF Variable
  <2>3. Counts' /\ DepthsBounded'
    BY <1>11 DEF Variable
  <2> QED BY <2>1, <2>2, <2>3
<1>12. CASE Type
  <2>1. TypeOK'
    BY <1>12 DEF Type
  <2>2. Registers' /\ Nesting'
    BY <1>12 DEF Type
  <2>3. Counts' /\ DepthsBounded'
    BY <1>12 DEF Type
  <2> QED BY <2>1, <2>2, <2>3
<1>13. CASE NonNullType
  <2>1. TypeOK'
    BY <1>13 DEF NonNullType
  <2>2. Registers' /\ Nesting'
    BY <1>13 DEF NonNullType
  <2>3. Counts' /\ DepthsBounded'
    BY <1>13 DEF NonNullType
  <2> QED BY <2>1, <2>2, <2>3
<1>14. CASE ListTypeEnd
  <2>1. TypeOK'
    BY <1>14 DEF ListTypeEnd
  <2>2. Registers' /\ Nesting'
    BY <1>14 DEF ListTypeEnd
  <2>3. Counts' /\ DepthsBounded'
    BY <1>14 DEF ListTypeEnd
  <2> QED BY <2>1, <2>2, <2>3
<1>15. CASE AfterType
  <2>1. LabelType' /\ RegisterType'
    BY <1>15 DEF AfterType, MuteInputs, LabelType, RegisterType
  <2>2. InputType'
    <3>1. Advances
      BY <1>15 DEF AfterType, MuteInputs, Advances
    <3> QED BY <3>1, InputKept DEF InputType
  <2>3. DepthType'
    BY <1>15 DEF AfterType, MuteInputs, DepthType
  <2>4. Registers' /\ Nesting'
    BY <1>15 DEF AfterType, MuteInputs
  <2>5. Counts'
    BY <1>15 DEF AfterType, MuteInputs
  <2>6. DepthsBounded'
    BY <1>15 DEF AfterType, MuteInputs
  <2>7. pc' # "ERROR"
    BY <1>15 DEF AfterType, MuteInputs
  <2>8. mute' \in 0..2
    BY <2>5, <2>7
  <2>9. TypeOK'
    BY <2>1, <2>2, <2>3, <2>8 DEF LabelType, InputType, DepthType, RegisterType
  <2> QED BY <2>4, <2>5, <2>6, <2>9
<1>16. CASE VardefEnd
  <2>1. LabelType' /\ RegisterType'
    BY <1>16 DEF VardefEnd, LabelType, RegisterType
  <2>2. InputType'
    <3>1. Advances
      BY <1>16 DEF VardefEnd, Advances
    <3> QED BY <3>1, InputKept DEF InputType
  <2>3. DepthType'
    BY <1>16 DEF VardefEnd, DepthType
  <2>4. Registers' /\ Nesting'
    BY <1>16 DEF VardefEnd
  <2>5. Counts'
    BY <1>16 DEF VardefEnd
  <2>6. DepthsBounded'
    BY <1>16 DEF VardefEnd
  <2>7. pc' # "ERROR"
    BY <1>16 DEF VardefEnd
  <2>8. mute' \in 0..2
    BY <2>5, <2>7
  <2>9. TypeOK'
    BY <2>1, <2>2, <2>3, <2>8 DEF LabelType, InputType, DepthType, RegisterType
  <2> QED BY <2>4, <2>5, <2>6, <2>9
<1>17. CASE Directive
  <2>1. TypeOK'
    BY <1>17 DEF Directive, AfterDirectives
  <2>2. Registers' /\ Nesting'
    BY <1>17 DEF Directive, AfterDirectives
  <2>3. Counts' /\ DepthsBounded'
    BY <1>17 DEF Directive, AfterDirectives
  <2> QED BY <2>1, <2>2, <2>3
<1>18. CASE Argument
  <2>1. TypeOK'
    BY <1>18 DEF Argument, MuteInputs
  <2>2. Registers' /\ Nesting'
    BY <1>18 DEF Argument, MuteInputs
  <2>3. Counts' /\ DepthsBounded'
    BY <1>18 DEF Argument, MuteInputs
  <2> QED BY <2>1, <2>2, <2>3
<1>19. CASE ArgumentsEnd
  <2>1. LabelType' /\ RegisterType'
    BY <1>19 DEF ArgumentsEnd, LabelType, RegisterType
  <2>2. InputType'
    <3>1. Advances
      BY <1>19 DEF ArgumentsEnd, Advances
    <3> QED BY <3>1, InputKept DEF InputType
  <2>3. DepthType'
    BY <1>19 DEF ArgumentsEnd, DepthType
  <2>4. Registers' /\ Nesting'
    BY <1>19 DEF ArgumentsEnd
  <2>5. Counts'
    BY <1>19 DEF ArgumentsEnd
  <2>6. DepthsBounded'
    BY <1>19 DEF ArgumentsEnd
  <2>8. mute' \in 0..2
    BY <1>19 DEF ArgumentsEnd
  <2>9. TypeOK'
    BY <2>1, <2>2, <2>3, <2>8 DEF LabelType, InputType, DepthType, RegisterType
  <2> QED BY <2>4, <2>5, <2>6, <2>9
<1>20. CASE Scalar
  <2>1. TypeOK'
    BY <1>20 DEF Scalar
  <2>2. Registers' /\ Nesting'
    BY <1>20 DEF Scalar
  <2>3. Counts' /\ DepthsBounded'
    BY <1>20 DEF Scalar
  <2> QED BY <2>1, <2>2, <2>3
<1>21. CASE VariableUsage
  <2>1. TypeOK'
    BY <1>21 DEF VariableUsage, Fail
  <2>2. Registers' /\ Nesting'
    BY <1>21 DEF VariableUsage, Fail
  <2>3. Counts' /\ DepthsBounded'
    BY <1>21 DEF VariableUsage, Fail
  <2> QED BY <2>1, <2>2, <2>3
<1>22. CASE OpenValue
  <2>1. LabelType' /\ RegisterType'
    BY <1>22 DEF OpenValue, LabelType, RegisterType
  <2>2. InputType'
    <3>1. Advances
      BY <1>22 DEF OpenValue, Advances
    <3> QED BY <3>1, InputKept DEF InputType
  <2>3. DepthType'
    BY <1>22 DEF OpenValue, DepthType
  <2>4. Registers' /\ Nesting'
    BY <1>22 DEF OpenValue
  <2>5. Counts'
    BY <1>22 DEF OpenValue
  <2>6. DepthsBounded'
    BY <1>22 DEF OpenValue
  <2>8. mute' \in 0..2
    BY <1>22 DEF OpenValue
  <2>9. TypeOK'
    BY <2>1, <2>2, <2>3, <2>8 DEF LabelType, InputType, DepthType, RegisterType
  <2> QED BY <2>4, <2>5, <2>6, <2>9
<1>23. CASE EmptyValue
  <2>1. LabelType' /\ RegisterType'
    BY <1>23 DEF EmptyValue, LabelType, RegisterType
  <2>2. InputType'
    <3>1. Advances
      BY <1>23 DEF EmptyValue, Advances
    <3> QED BY <3>1, InputKept DEF InputType
  <2>3. DepthType'
    BY <1>23 DEF EmptyValue, DepthType
  <2>4. Registers' /\ Nesting'
    BY <1>23 DEF EmptyValue
  <2>5. Counts'
    BY <1>23 DEF EmptyValue
  <2>6. DepthsBounded'
    BY <1>23 DEF EmptyValue
  <2>8. mute' \in 0..2
    BY <1>23 DEF EmptyValue
  <2>9. TypeOK'
    BY <2>1, <2>2, <2>3, <2>8 DEF LabelType, InputType, DepthType, RegisterType
  <2> QED BY <2>4, <2>5, <2>6, <2>9
<1>24. CASE NestValue
  <2>1. LabelType' /\ RegisterType'
    BY <1>24 DEF NestValue, Nest, Fail, Deep, LabelType, RegisterType
  <2>2. InputType'
    <3>1. Advances
      BY <1>24 DEF NestValue, Nest, Fail, Deep, Advances
    <3> QED BY <3>1, InputKept DEF InputType
  <2>3. DepthType'
    BY <1>24, StackPush DEF NestValue, Nest, Fail, Deep, DepthType
  <2>4. Registers' /\ Nesting'
    BY <1>24 DEF NestValue, Nest, Fail, Deep
  <2>5. Counts'
    BY <1>24 DEF NestValue, Nest, Fail, Deep
  <2>6. DepthsBounded'
    <3>1. DepthLimit \in Nat /\ Len(stack) \in Nat
      BY CallType
    <3>2. pc' = "ERROR" \/ (~Deep /\
               \E frame \in {"list", "object"} : stack' = Append(stack, frame))
      BY <1>24 DEF NestValue, Nest, Fail
    <3>3. UNCHANGED <<selDepth, call>>  /\ (pc' # "ERROR" => pc # "ERROR")
      BY <1>24 DEF NestValue, Nest, Fail
    <3>4. pc' # "ERROR" => Len(stack') = Len(stack) + 1 /\ Len(stack) < DepthLimit
      BY <3>1, <3>2, StackPush DEF Deep
    <3> QED BY <3>1, <3>3, <3>4
  <2>8. mute' \in 0..2
    BY <1>24 DEF NestValue, Nest, Fail, Deep
  <2>9. TypeOK'
    BY <2>1, <2>2, <2>3, <2>8 DEF LabelType, InputType, DepthType, RegisterType
  <2> QED BY <2>4, <2>5, <2>6, <2>9
<1>25. CASE AfterValue
  <2>1. LabelType' /\ RegisterType'
    BY <1>25 DEF AfterValue, MuteInputs, LabelType, RegisterType
  <2>2. InputType'
    <3>1. Advances
      BY <1>25 DEF AfterValue, MuteInputs, Advances
    <3> QED BY <3>1, InputKept DEF InputType
  <2>3. DepthType'
    BY <1>25 DEF AfterValue, MuteInputs, DepthType
  <2>4. Registers' /\ Nesting'
    BY <1>25 DEF AfterValue, MuteInputs
  <2>5. Counts'
    BY <1>25 DEF AfterValue, MuteInputs
  <2>6. DepthsBounded'
    BY <1>25 DEF AfterValue, MuteInputs
  <2>7. pc' # "ERROR"
    BY <1>25 DEF AfterValue, MuteInputs
  <2>8. mute' \in 0..2
    BY <2>5, <2>7
  <2>9. TypeOK'
    BY <2>1, <2>2, <2>3, <2>8 DEF LabelType, InputType, DepthType, RegisterType
  <2> QED BY <2>4, <2>5, <2>6, <2>9
<1>26. CASE CloseValue
  <2>1. LabelType' /\ RegisterType'
    BY <1>26 DEF CloseValue, Top, Close, LabelType, RegisterType
  <2>2. InputType'
    <3>1. Advances
      BY <1>26 DEF CloseValue, Top, Close, Advances
    <3> QED BY <3>1, InputKept DEF InputType
  <2>3. DepthType'
    BY <1>26, StackPop DEF CloseValue, Top, Close, DepthType
  <2>4. Registers' /\ Nesting'
    BY <1>26 DEF CloseValue, Top, Close
  <2>5. Counts'
    BY <1>26 DEF CloseValue, Top, Close
  <2>6. DepthsBounded'
    <3>1. DepthLimit \in Nat /\ Len(stack) \in Nat
      BY CallType
    <3>2. Len(stack') = Len(stack) - 1 /\ UNCHANGED <<selDepth, call>> /\ pc # "ERROR"
      BY <1>26, StackPop DEF CloseValue
    <3> QED BY <3>1, <3>2
  <2>8. mute' \in 0..2
    BY <1>26 DEF CloseValue, Top, Close
  <2>9. TypeOK'
    BY <2>1, <2>2, <2>3, <2>8 DEF LabelType, InputType, DepthType, RegisterType
  <2> QED BY <2>4, <2>5, <2>6, <2>9
<1>27. CASE NextValue
  <2>1. TypeOK'
    BY <1>27 DEF NextValue, Top
  <2>2. Registers' /\ Nesting'
    BY <1>27 DEF NextValue, Top
  <2>3. Counts' /\ DepthsBounded'
    BY <1>27 DEF NextValue, Top
  <2> QED BY <2>1, <2>2, <2>3
<1>28. CASE ObjectField
  <2>1. TypeOK'
    BY <1>28 DEF ObjectField
  <2>2. Registers' /\ Nesting'
    BY <1>28 DEF ObjectField
  <2>3. Counts' /\ DepthsBounded'
    BY <1>28 DEF ObjectField
  <2> QED BY <2>1, <2>2, <2>3
<1>29. CASE SelectionSet
  <2>1. pc = "SEL_SET" /\ selDepth \in Nat
    BY <1>29 DEF SelectionSet
  <2>2. UNCHANGED <<stack, typeDepth, dirRet, argRet, valRet, constant, mute>> /\ Advances
    BY <1>29 DEF SelectionSet, Advances
  <2>3. /\ pc' \in {"ERROR", "SELECTION"} /\ e' \in {e, "ErrTooDeep"}
        /\ selDepth' = selDepth + 1
    BY <1>29 DEF SelectionSet
  <2>4. selDepth' \in Nat /\ selDepth' > 0
    BY <2>1, <2>3
  <2>5. InputType'
    BY <2>2, InputKept DEF InputType
  <2>6. Registers' /\ Nesting' /\ Counts'
    BY <2>1, <2>2, <2>3, <2>4 DEF Advances
  <2>7. DepthsBounded'
    <3>1. DepthLimit \in Nat
      BY CallType
    <3>2. pc' # "ERROR" => ~ selDepth + 1 > DepthLimit
      BY <1>29 DEF SelectionSet
    <3> QED BY <2>1, <2>2, <2>3, <3>1, <3>2 DEF Advances
  <2>8. TypeOK'
    BY <2>2, <2>3, <2>4, <2>5 DEF InputType
  <2> QED BY <2>6, <2>7, <2>8
<1>30. CASE Spread
  <2>1. LabelType' /\ RegisterType'
    BY <1>30 DEF Spread, LabelType, RegisterType
  <2>2. InputType'
    <3>1. Advances
      BY <1>30 DEF Spread, Advances
    <3> QED BY <3>1, InputKept DEF InputType
  <2>3. DepthType'
    BY <1>30 DEF Spread, DepthType
  <2>4. Registers' /\ Nesting'
    BY <1>30 DEF Spread
  <2>5. Counts'
    BY <1>30 DEF Spread
  <2>6. DepthsBounded'
    BY <1>30 DEF Spread
  <2>8. mute' \in 0..2
    BY <1>30 DEF Spread
  <2>9. TypeOK'
    BY <2>1, <2>2, <2>3, <2>8 DEF LabelType, InputType, DepthType, RegisterType
  <2> QED BY <2>4, <2>5, <2>6, <2>9
<1>31. CASE Field
  <2>1. TypeOK'
    BY <1>31 DEF Field
  <2>2. Registers' /\ Nesting'
    BY <1>31 DEF Field
  <2>3. Counts' /\ DepthsBounded'
    BY <1>31 DEF Field
  <2> QED BY <2>1, <2>2, <2>3
<1>32. CASE FieldArgs
  <2>1. LabelType' /\ RegisterType'
    BY <1>32 DEF FieldArgs, LabelType, RegisterType
  <2>2. InputType'
    <3>1. Advances
      BY <1>32 DEF FieldArgs, Advances
    <3> QED BY <3>1, InputKept DEF InputType
  <2>3. DepthType'
    BY <1>32 DEF FieldArgs, DepthType
  <2>4. Registers' /\ Nesting'
    BY <1>32 DEF FieldArgs
  <2>5. Counts'
    BY <1>32 DEF FieldArgs
  <2>6. DepthsBounded'
    BY <1>32 DEF FieldArgs
  <2>8. mute' \in 0..2
    BY <1>32 DEF FieldArgs
  <2>9. TypeOK'
    BY <2>1, <2>2, <2>3, <2>8 DEF LabelType, InputType, DepthType, RegisterType
  <2> QED BY <2>4, <2>5, <2>6, <2>9
<1>33. CASE FieldAfterDirectives
  <2>1. TypeOK'
    BY <1>33 DEF FieldAfterDirectives
  <2>2. Registers' /\ Nesting'
    BY <1>33 DEF FieldAfterDirectives
  <2>3. Counts' /\ DepthsBounded'
    BY <1>33 DEF FieldAfterDirectives
  <2> QED BY <2>1, <2>2, <2>3
<1>34. CASE AfterSelection
  <2>1. pc = "AFTER_SELECTION" /\ selDepth \in Nat /\ selDepth > 0
    BY <1>34 DEF AfterSelection
  <2>2. /\ UNCHANGED <<stack, typeDepth, dirRet, argRet, valRet, constant, mute, e>>
        /\ Advances
    BY <1>34 DEF AfterSelection, Advances
  <2>3. \/ pc' = "DEFINITION_END" /\ selDepth' = 0
        \/ /\ pc' \in {"AFTER_SELECTION", "SELECTION"}
           /\ selDepth' \in Nat /\ selDepth' > 0 /\ selDepth' <= selDepth
    <3>1. \/ selDepth = 1 /\ pc' = "DEFINITION_END" /\ selDepth' = selDepth - 1
          \/ selDepth # 1 /\ pc' = "AFTER_SELECTION" /\ selDepth' = selDepth - 1
          \/ pc' = "SELECTION" /\ selDepth' = selDepth
      BY <1>34 DEF AfterSelection
    <3> QED BY <2>1, <3>1
  <2>4. InputType'
    BY <2>2, InputKept DEF InputType
  <2>5. Registers' /\ Nesting' /\ Counts'
    BY <2>1, <2>2, <2>3 DEF Advances
  <2>6. DepthsBounded'
    BY <2>1, <2>2, <2>3 DEF Advances
  <2>7. TypeOK'
    BY <2>2, <2>3, <2>4 DEF InputType
  <2> QED BY <2>5, <2>6, <2>7
<1>35. CASE UNCHANGED vars
  BY <1>35 DEF vars
<1> QED
  BY <1>1, <1>2, <1>3, <1>4, <1>5, <1>6, <1>7, <1>8, <1>9, <1>10, <1>11, <1>12, <1>13,
     <1>14, <1>15, <1>16, <1>17, <1>18, <1>19, <1>20, <1>21, <1>22, <1>23, <1>24, <1>25,
     <1>26, <1>27, <1>28, <1>29, <1>30, <1>31, <1>32, <1>33, <1>34, <1>35 DEF Next, Step

LEMMA Invariance == Spec => []IInv
  BY InitIInv, NextIInv, PTL DEF Spec

\* Every variable has its type.
THEOREM TypeCorrect == Spec => []TypeOK
<1>1. IInv => TypeOK
  BY DEF IInv
<1> QED BY <1>1, Invariance, PTL

\* The selection sets and the stack never grow past Options.DepthLimit (parse.go:97-101).
THEOREM DepthsHeld == Spec => []DepthsBounded
<1>1. IInv => DepthsBounded
  BY DEF IInv
<1> QED BY <1>1, Invariance, PTL

-----------------------------------------------------------------------------
\* What a token opens or closes.
Round(t) == IF t = "(" THEN 1 ELSE IF t = ")" THEN -1 ELSE 0
Bracket(t) == IF t \in {"[", "{"} THEN 1 ELSE IF t \in {"]", "}"} THEN -1 ELSE 0

LEMMA AmongNat ==
  ASSUME NEW s, NEW K, IsFiniteSet(K), NEW T
  PROVE  Among(s, K, T) \in Nat
<1>1. IsFiniteSet({k \in K : s[k] \in T})
  BY FS_Subset
<1> QED BY <1>1, FS_CardinalityType DEF Among

LEMMA AmongNone == ASSUME NEW s, NEW T PROVE Among(s, {}, T) = 0
<1>1. {k \in {} : s[k] \in T} = {}
  OBVIOUS
<1> QED BY <1>1, FS_EmptySet DEF Among

\* One place more.
LEMMA AmongAnd ==
  ASSUME NEW s, NEW K, IsFiniteSet(K), NEW k, k \notin K
  PROVE  \A T : Among(s, K \cup {k}, T) = Among(s, K, T) + (IF s[k] \in T THEN 1 ELSE 0)
<1> TAKE T
<1> DEFINE Q == {n \in K : s[n] \in T}
<1>1. IsFiniteSet(Q) /\ k \notin Q
  BY FS_Subset
<1>2. Cardinality(Q) \in Nat
  BY <1>1, FS_CardinalityType
<1>3. CASE s[k] \in T
  <2>1. {n \in K \cup {k} : s[n] \in T} = Q \cup {k}
    BY <1>3
  <2>2. Cardinality(Q \cup {k}) = Cardinality(Q) + 1
    BY <1>1, FS_AddElement
  <2>3. Among(s, K \cup {k}, T) = Cardinality(Q \cup {k}) /\ Among(s, K, T) = Cardinality(Q)
    BY <2>1 DEF Among
  <2> QED BY <1>3, <2>2, <2>3
<1>4. CASE s[k] \notin T
  <2>1. {n \in K \cup {k} : s[n] \in T} = Q
    BY <1>4
  <2>2. Among(s, K \cup {k}, T) = Cardinality(Q) /\ Among(s, K, T) = Cardinality(Q)
    BY <2>1 DEF Among
  <2> QED BY <1>2, <1>4, <2>2
<1> QED BY <1>3, <1>4

LEMMA AmongAlike ==
  ASSUME NEW s, NEW u, NEW K, \A k \in K : s[k] = u[k], NEW T
  PROVE  Among(s, K, T) = Among(u, K, T)
<1>1. {k \in K : s[k] \in T} = {k \in K : u[k] \in T}
  OBVIOUS
<1> QED BY <1>1 DEF Among

LEMMA UpTo ==
  ASSUME NEW n \in Nat
  PROVE  1..n + 1 = 1..n \cup {n + 1} /\ n + 1 \notin 1..n /\ IsFiniteSet(1..n)
  BY FS_Interval

LEMMA LeftOpenAnd ==
  ASSUME NEW s, NEW K, IsFiniteSet(K), NEW k, k \notin K
  PROVE  LeftOpen(s, K \cup {k}) = LeftOpen(s, K) + Bracket(s[k])
<1> DEFINE Opens == {"[", "{"}
           Closes == {"]", "}"}
<1> HIDE DEF Opens, Closes
<1>0. LeftOpen(s, K) = Among(s, K, Opens) - Among(s, K, Closes)
  BY DEF LeftOpen, Opens, Closes
<1>1. Among(s, K, Opens) \in Nat /\ Among(s, K, Closes) \in Nat
  BY AmongNat
<1>2. LeftOpen(s, K \cup {k}) = Among(s, K \cup {k}, Opens) - Among(s, K \cup {k}, Closes)
  BY DEF LeftOpen, Opens, Closes
<1>3. \A T : Among(s, K \cup {k}, T) = Among(s, K, T) + (IF s[k] \in T THEN 1 ELSE 0)
  BY AmongAnd
<1>4. Bracket(s[k]) = (IF s[k] \in Opens THEN 1 ELSE 0) - (IF s[k] \in Closes THEN 1 ELSE 0)
  <2>1. s[k] \in Opens => s[k] \notin Closes
    BY DEF Opens, Closes
  <2>2. Bracket(s[k]) = IF s[k] \in Opens THEN 1 ELSE IF s[k] \in Closes THEN -1 ELSE 0
    BY DEF Bracket, Opens, Closes
  <2> QED BY <2>1, <2>2
<1> QED BY <1>0, <1>1, <1>2, <1>3, <1>4

LEMMA LeftOpenInt ==
  ASSUME NEW s, NEW K, IsFiniteSet(K)
  PROVE  LeftOpen(s, K) \in Int
<1> DEFINE Opens == {"[", "{"}
           Closes == {"]", "}"}
<1> HIDE DEF Opens, Closes
<1>0. LeftOpen(s, K) = Among(s, K, Opens) - Among(s, K, Closes)
  BY DEF LeftOpen, Opens, Closes
<1>1. Among(s, K, Opens) \in Nat /\ Among(s, K, Closes) \in Nat
  BY AmongNat
<1> QED BY <1>0, <1>1

LEMMA LeftOpenAlike ==
  ASSUME NEW s, NEW u, NEW K, \A k \in K : s[k] = u[k]
  PROVE  LeftOpen(s, K) = LeftOpen(u, K)
<1>1. \A T : Among(s, K, T) = Among(u, K, T)
  BY AmongAlike
<1>2. /\ Among(s, K, {"[", "{"}) = Among(u, K, {"[", "{"})
      /\ Among(s, K, {"]", "}"}) = Among(u, K, {"]", "}"})
  BY <1>1, Zenon
<1> QED BY <1>2, Zenon DEF LeftOpen

LEMMA ParenthesesAnd ==
  ASSUME NEW s, NEW n \in Nat
  PROVE  /\ Parentheses(s, n) \in Int
         /\ Parentheses(s, n + 1) = Parentheses(s, n) + Round(s[n + 1])
<1> DEFINE Opens == {"("}
           Closes == {")"}
<1> HIDE DEF Opens, Closes
<1>1. /\ Parentheses(s, n) = Among(s, 1..n, Opens) - Among(s, 1..n, Closes)
      /\ Parentheses(s, n + 1) = Among(s, 1..n + 1, Opens) - Among(s, 1..n + 1, Closes)
  BY DEF Parentheses, Opens, Closes
<1>2. Among(s, 1..n, Opens) \in Nat /\ Among(s, 1..n, Closes) \in Nat
  BY AmongNat, UpTo
<1>4. \A T : Among(s, 1..n + 1, T) = Among(s, 1..n, T) + (IF s[n + 1] \in T THEN 1 ELSE 0)
  <2> DEFINE K == 1..n
             k == n + 1
  <2>1. IsFiniteSet(K) /\ k \notin K /\ 1..n + 1 = K \cup {k}
    BY UpTo
  <2> HIDE DEF K, k
  <2>2. \A T : Among(s, K \cup {k}, T) = Among(s, K, T) + (IF s[k] \in T THEN 1 ELSE 0)
    BY <2>1, AmongAnd
  <2> QED BY <2>1, <2>2, Zenon DEF K, k
<1>5. Round(s[n + 1])
        = (IF s[n + 1] \in Opens THEN 1 ELSE 0) - (IF s[n + 1] \in Closes THEN 1 ELSE 0)
  BY DEF Round, Opens, Closes
<1> QED BY <1>1, <1>2, <1>4, <1>5

\* A token more opens or closes a value or a selection set, whichever the parentheses
\* around it say.
LEMMA OpenAnd ==
  ASSUME NEW s, NEW n \in Nat
  PROVE  /\ OpenValues(s, n) \in Int /\ OpenSelectionSets(s, n) \in Int
         /\ OpenValues(s, n + 1) = OpenValues(s, n) +
              (IF Parentheses(s, n + 1) > 0 THEN Bracket(s[n + 1]) ELSE 0)
         /\ OpenSelectionSets(s, n + 1) = OpenSelectionSets(s, n) +
              (IF Parentheses(s, n + 1) > 0 THEN 0 ELSE Bracket(s[n + 1]))
<1> DEFINE In(m) == {k \in 1..m : Parentheses(s, k) > 0}
           Out(m) == {k \in 1..m : ~(Parentheses(s, k) > 0)}
<1>1. IsFiniteSet(In(n)) /\ IsFiniteSet(Out(n))
  BY UpTo, FS_Subset
<1>2. n + 1 \notin In(n) /\ n + 1 \notin Out(n)
  BY UpTo
<1>3. LeftOpen(s, In(n)) \in Int /\ LeftOpen(s, Out(n)) \in Int
  BY <1>1, LeftOpenInt
<1>4. CASE Parentheses(s, n + 1) > 0
  <2>1. In(n + 1) = In(n) \cup {n + 1} /\ Out(n + 1) = Out(n)
    BY <1>4, UpTo
  <2>2. LeftOpen(s, In(n) \cup {n + 1}) = LeftOpen(s, In(n)) + Bracket(s[n + 1])
    BY <1>1, <1>2, LeftOpenAnd
  <2> QED BY <1>3, <1>4, <2>1, <2>2 DEF OpenValues, OpenSelectionSets
<1>5. CASE ~(Parentheses(s, n + 1) > 0)
  <2>1. Out(n + 1) = Out(n) \cup {n + 1} /\ In(n + 1) = In(n)
    BY <1>5, UpTo
  <2>2. LeftOpen(s, Out(n) \cup {n + 1}) = LeftOpen(s, Out(n)) + Bracket(s[n + 1])
    BY <1>1, <1>2, LeftOpenAnd
  <2> QED BY <1>3, <1>5, <2>1, <2>2 DEF OpenValues, OpenSelectionSets
<1> QED BY <1>4, <1>5

\* What the first tokens leave open does not depend on later ones.
LEMMA OpenAlike ==
  ASSUME NEW s, NEW u, NEW n \in Nat, \A k \in 1..n : s[k] = u[k]
  PROVE  /\ Parentheses(s, n) = Parentheses(u, n)
         /\ OpenValues(s, n) = OpenValues(u, n)
         /\ OpenSelectionSets(s, n) = OpenSelectionSets(u, n)
<1>1. \A m \in 1..n : Parentheses(s, m) = Parentheses(u, m)
  <2> TAKE m \in 1..n
  <2>1. \A k \in 1..m : s[k] = u[k]
    OBVIOUS
  <2>2. \A T : Among(s, 1..m, T) = Among(u, 1..m, T)
    BY <2>1, AmongAlike
  <2> QED BY <2>2 DEF Parentheses
<1>2. Parentheses(s, n) = Parentheses(u, n)
  <2>1. \A T : Among(s, 1..n, T) = Among(u, 1..n, T)
    BY AmongAlike
  <2> QED BY <2>1 DEF Parentheses
<1> DEFINE In == {k \in 1..n : Parentheses(s, k) > 0}
           Out == {k \in 1..n : ~(Parentheses(s, k) > 0)}
<1>3. /\ In = {k \in 1..n : Parentheses(u, k) > 0}
      /\ Out = {k \in 1..n : ~(Parentheses(u, k) > 0)}
  BY <1>1
<1>4. LeftOpen(s, In) = LeftOpen(u, In)
  BY LeftOpenAlike
<1>5. LeftOpen(s, Out) = LeftOpen(u, Out)
  BY LeftOpenAlike
<1> QED BY <1>2, <1>3, <1>4, <1>5 DEF OpenValues, OpenSelectionSets

LEMMA OpenNone ==
  ASSUME NEW s
  PROVE  Parentheses(s, 0) = 0 /\ OpenValues(s, 0) = 0 /\ OpenSelectionSets(s, 0) = 0
<1>1. 1..0 = {}
  OBVIOUS
<1>2. /\ {k \in 1..0 : Parentheses(s, k) > 0} = {}
      /\ {k \in 1..0 : ~(Parentheses(s, k) > 0)} = {}
  BY <1>1
<1>3. Parentheses(s, 0) = 0 - 0
  BY <1>1, AmongNone, Zenon DEF Parentheses
<1>4. OpenValues(s, 0) = 0 - 0
  BY <1>2, AmongNone, Zenon DEF OpenValues, LeftOpen
<1>5. OpenSelectionSets(s, 0) = 0 - 0
  BY <1>2, AmongNone, Zenon DEF OpenSelectionSets, LeftOpen
<1> QED BY <1>3, <1>4, <1>5

-----------------------------------------------------------------------------
\* What the tokens read so far leave open.
Around == Parentheses(src, i - 1)
ValuesOpen == OpenValues(src, i - 1)
SetsOpen == OpenSelectionSets(src, i - 1)

\* What is left open is what is being read, and what the code counts of it.
Within == (IF InVariables THEN 1 ELSE 0) + (IF InArguments THEN 1 ELSE 0)
Held ==
  Len(stack) + typeDepth + (IF pc \in {"LIST_START", "OBJECT_START"} THEN 1 ELSE 0)

Nests ==
  pc # "ERROR" => Around = Within /\ ValuesOpen = Held /\ SetsOpen = selDepth

TooDeep ==
  e = "ErrTooDeep" =>
    pc = "ERROR" /\ (ValuesOpen - typeDepth > DepthLimit \/ SetsOpen > DepthLimit)

NestInv == Nests /\ TooDeep

LEMMA InitNest == Init => NestInv
<1> SUFFICES ASSUME Init PROVE NestInv
  OBVIOUS
<1>1. i - 1 = 0 /\ stack = <<>> /\ typeDepth = 0 /\ selDepth = 0 /\ e = "nil"
  BY DEF Init
<1>2. Around = 0 /\ ValuesOpen = 0 /\ SetsOpen = 0
  BY <1>1, OpenNone DEF Around, ValuesOpen, SetsOpen
<1>3. pc = "DEFINITION"
  BY DEF Init
<1>4. ~InVariables /\ ~InArguments
  BY <1>3 DEF InVariables, InArguments, InValue, VardefLabels, TypeLabels, DirectiveLabels,
              ValueLabels, ArgumentLabels
<1> QED BY <1>1, <1>2, <1>3, <1>4 DEF NestInv, Nests, TooDeep, Within, Held

LEMMA OpenType ==
  InputType => Around \in Int /\ ValuesOpen \in Int /\ SetsOpen \in Int
<1> SUFFICES ASSUME InputType PROVE Around \in Int /\ ValuesOpen \in Int /\ SetsOpen \in Int
  OBVIOUS
<1>1. i - 1 \in Nat
  BY DEF InputType
<1> QED BY <1>1, ParenthesesAnd, OpenAnd DEF Around, ValuesOpen, SetsOpen

\* The token that is read opens or closes what it is in.
LEMMA ReadOpens ==
  ASSUME InputType, UNCHANGED src, i' = i + 1
  PROVE  /\ Around' = Around + Round(src[i])
         /\ ValuesOpen' = ValuesOpen + (IF Around' > 0 THEN Bracket(src[i]) ELSE 0)
         /\ SetsOpen' = SetsOpen + (IF Around' > 0 THEN 0 ELSE Bracket(src[i]))
<1>1. PICK n \in Nat : n = i - 1 /\ n + 1 = i /\ n + 1 = i' - 1
  BY DEF InputType
<1>2. /\ Around = Parentheses(src, n) /\ Around' = Parentheses(src, n + 1)
      /\ ValuesOpen = OpenValues(src, n) /\ ValuesOpen' = OpenValues(src, n + 1)
      /\ SetsOpen = OpenSelectionSets(src, n) /\ SetsOpen' = OpenSelectionSets(src, n + 1)
  BY <1>1 DEF Around, ValuesOpen, SetsOpen
<1>3. /\ Parentheses(src, n + 1) = Parentheses(src, n) + Round(src[n + 1])
      /\ OpenValues(src, n + 1) = OpenValues(src, n) +
           (IF Parentheses(src, n + 1) > 0 THEN Bracket(src[n + 1]) ELSE 0)
      /\ OpenSelectionSets(src, n + 1) = OpenSelectionSets(src, n) +
           (IF Parentheses(src, n + 1) > 0 THEN 0 ELSE Bracket(src[n + 1]))
  BY ParenthesesAnd, OpenAnd
<1>4. src[n + 1] = src[i]
  BY <1>1
<1> QED BY <1>2, <1>3, <1>4

\* None is, or one more arrives.
LEMMA NothingOpens ==
  ASSUME InputType, UNCHANGED i, UNCHANGED src \/ \E t : src' = Append(src, t)
  PROVE  Around' = Around /\ ValuesOpen' = ValuesOpen /\ SetsOpen' = SetsOpen
<1>1. PICK n \in Nat : n = i - 1 /\ n = i' - 1 /\ n <= Len(src)
  BY DEF InputType
<1>2. \A k \in 1..n : src'[k] = src[k]
  BY <1>1 DEF InputType
<1>3. /\ Parentheses(src', n) = Parentheses(src, n)
      /\ OpenValues(src', n) = OpenValues(src, n)
      /\ OpenSelectionSets(src', n) = OpenSelectionSets(src, n)
  BY <1>2, OpenAlike
<1> QED BY <1>1, <1>3 DEF Around, ValuesOpen, SetsOpen

\* A step that reads no more than one token leaves open what it opens.
Reads ==
  \/ /\ i' = i /\ Around' = Around /\ ValuesOpen' = ValuesOpen /\ SetsOpen' = SetsOpen
  \/ /\ i' = i + 1
     /\ Around' = Around + Round(src[i])
     /\ ValuesOpen' = ValuesOpen + (IF Around' > 0 THEN Bracket(src[i]) ELSE 0)
     /\ SetsOpen' = SetsOpen + (IF Around' > 0 THEN 0 ELSE Bracket(src[i]))

LEMMA AdvanceReads == InputType /\ Advances => Reads
<1> SUFFICES ASSUME InputType, Advances PROVE Reads
  OBVIOUS
<1>1. UNCHANGED src /\ (i' = i \/ i' = i + 1)
  BY DEF Advances, input
<1> QED BY <1>1, NothingOpens, ReadOpens DEF Reads

\* A token that opens and closes nothing.
Plain(t) == t \notin {"(", ")", "[", "]", "{", "}"}

LEMMA PlainTokens ==
  \A t \in Names \cup Operations \cup Values \cup
             {"str", "fragment", "on", "ignored", ":", "=", "!", "@", "$", "..."} :
    Plain(t)
BY DEF Plain, Names, Operations, Values, Keywords, Literals

\* What is being read follows the tokens.
Follows ==
  \/ /\ i' = i \/ (i' = i + 1 /\ Plain(src[i]))
     /\ Within' = Within /\ Held' = Held /\ selDepth' = selDepth
  \/ /\ i' = i + 1 /\ Held' = Held /\ selDepth' = selDepth
     /\ \/ src[i] = "(" /\ Within' = Within + 1
        \/ src[i] = ")" /\ Within' = Within - 1
  \/ /\ i' = i + 1 /\ Within > 0 /\ Within' = Within /\ selDepth' = selDepth
     /\ \/ src[i] \in {"[", "{"} /\ Held' = Held + 1
        \/ src[i] \in {"]", "}"} /\ Held' = Held - 1
  \/ /\ i' = i + 1 /\ Within = 0 /\ Within' = Within /\ Held' = Held
     /\ \/ src[i] = "{" /\ selDepth' = selDepth + 1
        \/ src[i] = "}" /\ selDepth' = selDepth - 1

\* Then what is left open and what is counted stay alike.
LEMMA FollowNests ==
  ASSUME InputType, DepthType, Nests, pc # "ERROR", Reads, Follows
  PROVE  Nests'
<1>1. Within \in Int /\ Held \in Int /\ selDepth \in Int
  BY DEF DepthType, Held, Within
<1>2. Around = Within /\ ValuesOpen = Held /\ SetsOpen = selDepth
  BY DEF Nests
<1>3. i \in Int /\ i + 1 # i
  BY DEF InputType
<1>4. CASE i' = i /\ Within' = Within /\ Held' = Held /\ selDepth' = selDepth
  BY <1>1, <1>2, <1>3, <1>4 DEF Reads, Nests
<1>5. CASE i' # i
  <2>1. CASE Plain(src[i]) /\ Within' = Within /\ Held' = Held /\ selDepth' = selDepth
    <3>1. Round(src[i]) = 0 /\ Bracket(src[i]) = 0
      BY <2>1 DEF Plain, Round, Bracket
    <3> QED BY <1>1, <1>2, <1>5, <2>1, <3>1 DEF Reads, Nests
  <2>2. CASE ~(Plain(src[i]) /\ Within' = Within /\ Held' = Held /\ selDepth' = selDepth)
    <3>1. /\ Around' = Around + Round(src[i])
          /\ ValuesOpen' = ValuesOpen + (IF Around' > 0 THEN Bracket(src[i]) ELSE 0)
          /\ SetsOpen' = SetsOpen + (IF Around' > 0 THEN 0 ELSE Bracket(src[i]))
      BY <1>5 DEF Reads
    <3>2. CASE /\ Held' = Held /\ selDepth' = selDepth
               /\ \/ src[i] = "(" /\ Within' = Within + 1
                  \/ src[i] = ")" /\ Within' = Within - 1
      <4>1. Bracket(src[i]) = 0 /\ Within' = Within + Round(src[i])
        BY <3>2, <1>1 DEF Round, Bracket
      <4> QED BY <1>1, <1>2, <3>1, <3>2, <4>1 DEF Nests
    <3>3. CASE /\ Within > 0 /\ Within' = Within /\ selDepth' = selDepth
               /\ \/ src[i] \in {"[", "{"} /\ Held' = Held + 1
                  \/ src[i] \in {"]", "}"} /\ Held' = Held - 1
      <4>1. CASE src[i] \in {"[", "{"} /\ Held' = Held + 1
        <5>1. Round(src[i]) = 0 /\ Bracket(src[i]) = 1
          BY <4>1 DEF Round, Bracket
        <5>2. /\ Around' = Around + 0
              /\ ValuesOpen' = ValuesOpen + (IF Around' > 0 THEN 1 ELSE 0)
              /\ SetsOpen' = SetsOpen + (IF Around' > 0 THEN 0 ELSE 1)
          BY <3>1, <5>1, Zenon
        <5>3. Within' = Within /\ Within > 0 /\ selDepth' = selDepth /\ Held' = Held + 1
          BY <3>3, <4>1
        <5>4. Around' = Within' /\ ValuesOpen' = Held' /\ SetsOpen' = selDepth'
          BY <1>1, <1>2, <5>2, <5>3
        <5> QED BY <5>4 DEF Nests
      <4>2. CASE src[i] \in {"]", "}"} /\ Held' = Held - 1
        <5>1. Round(src[i]) = 0 /\ Bracket(src[i]) = -1
          BY <4>2 DEF Round, Bracket
        <5>2. /\ Around' = Around + 0
              /\ ValuesOpen' = ValuesOpen + (IF Around' > 0 THEN -1 ELSE 0)
              /\ SetsOpen' = SetsOpen + (IF Around' > 0 THEN 0 ELSE -1)
          BY <3>1, <5>1, Zenon
        <5>3. Within' = Within /\ Within > 0 /\ selDepth' = selDepth /\ Held' = Held - 1
          BY <3>3, <4>2
        <5>4. Around' = Within' /\ ValuesOpen' = Held' /\ SetsOpen' = selDepth'
          BY <1>1, <1>2, <5>2, <5>3
        <5> QED BY <5>4 DEF Nests
      <4> QED BY <3>3, <4>1, <4>2
    <3>4. CASE /\ Within = 0 /\ Within' = Within /\ Held' = Held
               /\ \/ src[i] = "{" /\ selDepth' = selDepth + 1
                  \/ src[i] = "}" /\ selDepth' = selDepth - 1
      <4>1. CASE src[i] = "{" /\ selDepth' = selDepth + 1
        <5>1. Round(src[i]) = 0 /\ Bracket(src[i]) = 1
          BY <4>1 DEF Round, Bracket
        <5>2. /\ Around' = Around + 0
              /\ ValuesOpen' = ValuesOpen + (IF Around' > 0 THEN 1 ELSE 0)
              /\ SetsOpen' = SetsOpen + (IF Around' > 0 THEN 0 ELSE 1)
          BY <3>1, <5>1, Zenon
        <5>3. Within' = Within /\ Within = 0 /\ selDepth' = selDepth + 1 /\ Held' = Held
          BY <3>4, <4>1
        <5>4. Around' = Within' /\ ValuesOpen' = Held' /\ SetsOpen' = selDepth'
          BY <1>1, <1>2, <5>2, <5>3
        <5> QED BY <5>4 DEF Nests
      <4>2. CASE src[i] = "}" /\ selDepth' = selDepth - 1
        <5>1. Round(src[i]) = 0 /\ Bracket(src[i]) = -1
          BY <4>2 DEF Round, Bracket
        <5>2. /\ Around' = Around + 0
              /\ ValuesOpen' = ValuesOpen + (IF Around' > 0 THEN -1 ELSE 0)
              /\ SetsOpen' = SetsOpen + (IF Around' > 0 THEN 0 ELSE -1)
          BY <3>1, <5>1, Zenon
        <5>3. Within' = Within /\ Within = 0 /\ selDepth' = selDepth - 1 /\ Held' = Held
          BY <3>4, <4>2
        <5>4. Around' = Within' /\ ValuesOpen' = Held' /\ SetsOpen' = selDepth'
          BY <1>1, <1>2, <5>2, <5>3
        <5> QED BY <5>4 DEF Nests
      <4> QED BY <3>4, <4>1, <4>2
    <3> QED BY <1>5, <2>2, <3>2, <3>3, <3>4 DEF Follows
  <2> QED BY <2>1, <2>2
<1> QED BY <1>3, <1>4, <1>5 DEF Follows

\* A value is in arguments or in the definition of a variable.
LEMMA WithinValue ==
  ASSUME RegisterType, InValue
  PROVE  /\ Within > 0
         /\ InValue' /\ UNCHANGED <<dirRet, argRet, valRet>> => Within' = Within
<1>1. InArguments \/ InVariables
  BY DEF RegisterType, InArguments, InVariables
<1>2. pc \notin ArgumentLabels \cup VardefLabels \cup DirectiveLabels
  BY DEF InValue, ArgumentLabels, VardefLabels, TypeLabels, DirectiveLabels, ValueLabels
<1>3. InValue' => pc' \notin ArgumentLabels \cup VardefLabels \cup DirectiveLabels
  BY DEF InValue, ArgumentLabels, VardefLabels, TypeLabels, DirectiveLabels, ValueLabels
<1> QED BY <1>1, <1>2, <1>3 DEF Within, InArguments, InVariables

\* No step reads more than one token.
LEMMA StepAdvances == Step => Advances
<1> SUFFICES ASSUME Step PROVE Advances
  OBVIOUS
<1> USE DEF Advances, Stopped, Sees, Ends, Eat, Stay, input
<1>1. CASE skipIgnorables
  BY <1>1 DEF skipIgnorables, Skips
<1>2. CASE Unexpected
  BY <1>2 DEF Unexpected, Fail
<1>3. CASE Description
  BY <1>3 DEF Description
<1>4. CASE AnonymousOperation
  BY <1>4 DEF AnonymousOperation
<1>5. CASE OperationType
  BY <1>5 DEF OperationType
<1>6. CASE OperationName
  BY <1>6 DEF OperationName
<1>7. CASE OperationAfterName
  BY <1>7 DEF OperationAfterName
<1>8. CASE FragmentDefinition
  BY <1>8 DEF FragmentDefinition
<1>9. CASE DefinitionEnd
  BY <1>9 DEF DefinitionEnd
<1>10. CASE Variable
  BY <1>10 DEF Variable
<1>11. CASE Type
  BY <1>11 DEF Type
<1>12. CASE NonNullType
  BY <1>12 DEF NonNullType
<1>13. CASE ListTypeEnd
  BY <1>13 DEF ListTypeEnd
<1>14. CASE AfterType
  BY <1>14 DEF AfterType, MuteInputs
<1>15. CASE VardefEnd
  BY <1>15 DEF VardefEnd
<1>16. CASE Directive
  BY <1>16 DEF Directive, AfterDirectives
<1>17. CASE Argument
  BY <1>17 DEF Argument, MuteInputs
<1>18. CASE ArgumentsEnd
  BY <1>18 DEF ArgumentsEnd
<1>19. CASE Scalar
  BY <1>19 DEF Scalar
<1>20. CASE VariableUsage
  BY <1>20 DEF VariableUsage, Fail
<1>21. CASE OpenValue
  BY <1>21 DEF OpenValue
<1>22. CASE EmptyValue
  BY <1>22 DEF EmptyValue
<1>23. CASE NestValue
  BY <1>23 DEF NestValue, Nest, Fail, Deep
<1>24. CASE AfterValue
  BY <1>24 DEF AfterValue, MuteInputs
<1>25. CASE CloseValue
  BY <1>25 DEF CloseValue, Top, Close
<1>26. CASE NextValue
  BY <1>26 DEF NextValue, Top
<1>27. CASE ObjectField
  BY <1>27 DEF ObjectField
<1>28. CASE SelectionSet
  BY <1>28 DEF SelectionSet
<1>29. CASE Spread
  BY <1>29 DEF Spread
<1>30. CASE Field
  BY <1>30 DEF Field
<1>31. CASE FieldArgs
  BY <1>31 DEF FieldArgs
<1>32. CASE FieldAfterDirectives
  BY <1>32 DEF FieldAfterDirectives
<1>33. CASE AfterSelection
  BY <1>33 DEF AfterSelection
<1> QED
  BY <1>1, <1>2, <1>3, <1>4, <1>5, <1>6, <1>7, <1>8, <1>9, <1>10, <1>11, <1>12, <1>13,
     <1>14, <1>15, <1>16, <1>17, <1>18, <1>19, <1>20, <1>21, <1>22, <1>23, <1>24,
     <1>25, <1>26, <1>27, <1>28, <1>29, <1>30, <1>31, <1>32, <1>33 DEF Step

\* What is being read follows the token that is read, unless it ends here.
LEMMA StepFollows ==
  ASSUME IInv, Step
  PROVE  (pc # "ERROR" /\ Follows) \/ pc' = "ERROR"
<1>a. /\ InputType /\ Registers /\ Counts /\ DepthType /\ RegisterType
  BY DEF IInv, TypeOK, InputType, DepthType, RegisterType
<1>b. Len(stack) \in Nat /\ typeDepth \in Nat /\ selDepth \in Nat
  BY <1>a DEF DepthType
<1> USE DEF Stopped, Sees, Ends, Eat, Stay, Directives, input, depths, regs,
            Follows, Held, Within, InVariables, InArguments, InValue, ArgumentLabels,
            VardefLabels, TypeLabels, DirectiveLabels, ValueLabels
<1>1. CASE skipIgnorables
  BY <1>1, <1>a, PlainTokens DEF skipIgnorables, Skips, Registers, RegisterType
<1>2. CASE Unexpected
  BY <1>2 DEF Unexpected, Fail
<1>3. CASE Description
  BY <1>3, <1>a, PlainTokens DEF Description, Registers, RegisterType
<1>4. CASE AnonymousOperation
  BY <1>4, <1>a, PlainTokens DEF AnonymousOperation, Registers, RegisterType
<1>5. CASE OperationType
  BY <1>5, <1>a, PlainTokens DEF OperationType, Registers, RegisterType
<1>6. CASE OperationName
  BY <1>6, <1>a, PlainTokens DEF OperationName, Registers, RegisterType
<1>7. CASE OperationAfterName
  <2>1. CASE src[i] = "("
    BY <1>7, <1>a, <1>b, <2>1 DEF OperationAfterName, Registers, RegisterType
  <2>2. CASE src[i] # "("
    BY <1>7, <1>a, <2>2, PlainTokens DEF OperationAfterName, Registers, RegisterType
  <2> QED BY <2>1, <2>2
<1>8. CASE FragmentDefinition
  BY <1>8, <1>a, PlainTokens DEF FragmentDefinition, Registers, RegisterType
<1>9. CASE DefinitionEnd
  BY <1>9, <1>a, PlainTokens DEF DefinitionEnd, Registers, RegisterType
<1>10. CASE Variable
  BY <1>10, <1>a, PlainTokens DEF Variable, Registers, RegisterType
<1>11. CASE Type
  <2>1. CASE src[i] = "["
    <3>1. pc = "TYPE" /\ pc' = "TYPE" /\ i' = i + 1 /\ typeDepth' = typeDepth + 1
      BY <1>11, <2>1, PlainTokens DEF Type, Plain
    <3>2. UNCHANGED <<stack, selDepth, regs>>
      BY <1>11 DEF Type
    <3>3. Within > 0 /\ Within' = Within
      BY <3>1, <3>2
    <3>4. Held' = Held + 1
      BY <1>b, <3>1, <3>2
    <3> HIDE DEF Held, Within
    <3> QED BY <2>1, <3>1, <3>2, <3>3, <3>4
  <2>2. CASE src[i] # "["
    BY <1>11, <1>a, <2>2, PlainTokens DEF Type, Registers, RegisterType
  <2> QED BY <2>1, <2>2
<1>12. CASE NonNullType
  BY <1>12, <1>a, PlainTokens DEF NonNullType, Registers, RegisterType
<1>13. CASE ListTypeEnd
  <2>1. pc # "ERROR" /\ i' = i + 1 /\ src[i] = "]" /\ selDepth' = selDepth
    BY <1>13 DEF ListTypeEnd
  <2>2. Within > 0 /\ Within' = Within
    BY <1>13, <1>a DEF ListTypeEnd, Registers, RegisterType
  <2>3. Held' = Held - 1
    BY <1>13, <1>a, <1>b DEF ListTypeEnd, Counts
  <2> HIDE DEF Held, Within
  <2> QED BY <2>1, <2>2, <2>3
<1>14. CASE AfterType
  BY <1>14, <1>a, PlainTokens DEF AfterType, MuteInputs, Registers, RegisterType
<1>15. CASE VardefEnd
  <2>1. CASE src[i] = ")"
    BY <1>15, <1>a, <1>b, <2>1 DEF VardefEnd, Registers, RegisterType
  <2>2. CASE src[i] # ")"
    BY <1>15, <1>a, <2>2, PlainTokens DEF VardefEnd, Registers, RegisterType
  <2> QED BY <2>1, <2>2
<1>16. CASE Directive
  <2>1. CASE pc = "DIRECTIVE_NAMED" /\ src[i] = "("
    BY <1>16, <1>a, <1>b, <2>1 DEF Directive, AfterDirectives, Registers, RegisterType
  <2>2. CASE ~(pc = "DIRECTIVE_NAMED" /\ src[i] = "(")
    BY <1>16, <1>a, <2>2, PlainTokens DEF Directive, AfterDirectives, Registers, RegisterType
  <2> QED BY <2>1, <2>2
<1>17. CASE Argument
  BY <1>17, <1>a, PlainTokens DEF Argument, MuteInputs, Registers, RegisterType
<1>18. CASE ArgumentsEnd
  <2>1. CASE src[i] = ")"
    BY <1>18, <1>a, <1>b, <2>1 DEF ArgumentsEnd, Registers, RegisterType
  <2>2. CASE src[i] # ")"
    BY <1>18, <1>a, <2>2, PlainTokens DEF ArgumentsEnd, Registers, RegisterType
  <2> QED BY <2>1, <2>2
<1>19. CASE Scalar
  BY <1>19, <1>a, PlainTokens DEF Scalar, Registers, RegisterType
<1>20. CASE VariableUsage
  BY <1>20, <1>a, PlainTokens DEF VariableUsage, Fail, Registers, RegisterType
<1>21. CASE OpenValue
  <2>1. /\ pc = "VALUE" /\ pc' \in {"LIST_START", "OBJECT_START"}
        /\ UNCHANGED <<stack, typeDepth, selDepth>>
    BY <1>21 DEF OpenValue
  <2>2. i' = i + 1 /\ src[i] \in {"[", "{"}
    BY <1>21 DEF OpenValue
  <2>3. Within > 0 /\ Within' = Within
    BY <1>21, <1>a, WithinValue DEF OpenValue
  <2>4. Held' = Held + 1
    BY <1>b, <2>1
  <2> HIDE DEF Held, Within
  <2> QED BY <2>1, <2>2, <2>3, <2>4
<1>22. CASE EmptyValue
  <2>1. /\ pc \in {"LIST_START", "OBJECT_START"} /\ pc' = "AFTER_VALUE"
        /\ UNCHANGED <<stack, typeDepth, selDepth>>
    BY <1>22 DEF EmptyValue
  <2>2. i' = i + 1 /\ src[i] \in {"]", "}"}
    BY <1>22 DEF EmptyValue
  <2>3. Within > 0 /\ Within' = Within
    BY <1>22, <1>a, WithinValue DEF EmptyValue
  <2>4. Held' = Held - 1
    BY <1>b, <2>1
  <2> HIDE DEF Held, Within
  <2> QED BY <2>1, <2>2, <2>3, <2>4
<1>23. CASE NestValue
  <2>1. CASE pc' # "ERROR"
    <3>1. Len(stack') = Len(stack) + 1
      BY <1>23, <1>a, <2>1, StackPush DEF NestValue, Nest, Fail, Deep, DepthType
    <3>2. /\ pc \in {"LIST_START", "OBJECT_START"} /\ pc' \in {"VALUE", "OBJECT_FIELD"}
          /\ UNCHANGED <<i, typeDepth, selDepth, regs>>
      BY <1>23, <2>1 DEF NestValue, Nest, Fail, Deep
    <3>3. Within' = Within
      BY <3>2
    <3>4. Held' = Held
      BY <1>b, <3>1, <3>2
    <3> HIDE DEF Held, Within
    <3> QED BY <3>2, <3>3, <3>4
  <2> QED BY <2>1
<1>24. CASE AfterValue
  BY <1>24, <1>a, PlainTokens DEF AfterValue, MuteInputs, Registers, RegisterType
<1>25. CASE CloseValue
  <2>1. pc = "NEXT_VALUE" /\ pc' = "AFTER_VALUE" /\ UNCHANGED <<typeDepth, selDepth>>
    BY <1>25 DEF CloseValue, Top, Close
  <2>2. i' = i + 1 /\ src[i] \in {"]", "}"}
    BY <1>25 DEF CloseValue, Top, Close
  <2>3. Within > 0 /\ Within' = Within
    BY <1>25, <1>a, WithinValue DEF CloseValue, Top, Close
  <2>4. Len(stack') = Len(stack) - 1
    BY <1>25, <1>a, StackPop DEF CloseValue, DepthType, Counts
  <2>5. Held' = Held - 1
    BY <1>b, <2>1, <2>4
  <2> HIDE DEF Held, Within
  <2> QED BY <2>1, <2>2, <2>3, <2>5
<1>26. CASE NextValue
  BY <1>26, <1>a, PlainTokens DEF NextValue, Top, Registers, RegisterType
<1>27. CASE ObjectField
  BY <1>27, <1>a, PlainTokens DEF ObjectField, Registers, RegisterType
<1>28. CASE SelectionSet
  <2>1. i' = i + 1 /\ src[i] = "{" /\ selDepth' = selDepth + 1
    BY <1>28 DEF SelectionSet
  <2>2. pc = "SEL_SET" /\ pc' \in {"ERROR", "SELECTION"} /\ UNCHANGED <<stack, typeDepth>>
    BY <1>28 DEF SelectionSet
  <2>3. Within = 0 /\ Within' = Within
    BY <2>2
  <2>4. Held' = Held
    BY <2>2
  <2> HIDE DEF Held, Within
  <2> QED BY <2>1, <2>2, <2>3, <2>4
<1>29. CASE Spread
  BY <1>29, <1>a, PlainTokens DEF Spread, Registers, RegisterType
<1>30. CASE Field
  BY <1>30, <1>a, PlainTokens DEF Field, Registers, RegisterType
<1>31. CASE FieldArgs
  <2>1. CASE src[i] = "("
    BY <1>31, <1>a, <1>b, <2>1 DEF FieldArgs, Registers, RegisterType
  <2>2. CASE src[i] # "("
    BY <1>31, <1>a, <2>2, PlainTokens DEF FieldArgs, Registers, RegisterType
  <2> QED BY <2>1, <2>2
<1>32. CASE FieldAfterDirectives
  BY <1>32, <1>a, PlainTokens DEF FieldAfterDirectives, Registers, RegisterType
<1>33. CASE AfterSelection
  <2>1. CASE src[i] = "}"
    <3>1. /\ pc = "AFTER_SELECTION" /\ i' = i + 1 /\ selDepth' = selDepth - 1
          /\ pc' \in {"DEFINITION_END", "AFTER_SELECTION"} /\ UNCHANGED <<stack, typeDepth>>
      BY <1>33, <2>1 DEF AfterSelection
    <3>2. Within = 0 /\ Within' = Within /\ Held' = Held
      BY <3>1
    <3> HIDE DEF Held, Within
    <3> QED BY <2>1, <3>1, <3>2
  <2>2. CASE src[i] # "}"
    BY <1>33, <1>a, <2>2, PlainTokens DEF AfterSelection, Registers, RegisterType
  <2> QED BY <2>1, <2>2
<1> QED
  BY <1>1, <1>2, <1>3, <1>4, <1>5, <1>6, <1>7, <1>8, <1>9, <1>10, <1>11, <1>12, <1>13,
     <1>14, <1>15, <1>16, <1>17, <1>18, <1>19, <1>20, <1>21, <1>22, <1>23, <1>24,
     <1>25, <1>26, <1>27, <1>28, <1>29, <1>30, <1>31, <1>32, <1>33 DEF Step

\* A document is refused for its depth only where it is too deep.
LEMMA StepTooDeep ==
  ASSUME IInv, NestInv, Step
  PROVE  TooDeep'
<1>a. InputType /\ InputType' /\ Nests /\ selDepth \in Nat /\ typeDepth \in Nat
  <2>1. InputType /\ DepthType /\ Nests
    BY DEF IInv, TypeOK, InputType, DepthType, NestInv
  <2> QED BY <2>1, StepAdvances, InputKept DEF DepthType
<1>b. UNCHANGED call
  BY StepAdvances DEF Advances, input
<1> USE DEF Stopped, Sees, Ends, Eat, Stay, NoWrite, Writing, Directives, input, depths,
            regs, output, TooDeep
<1>1. CASE NestValue
  <2>1. CASE e' = "ErrTooDeep"
    <3>1. /\ pc \in {"LIST_START", "OBJECT_START"} /\ Len(stack) >= DepthLimit
          /\ pc' = "ERROR" /\ UNCHANGED <<src, i, typeDepth>>
      BY <1>1, <2>1 DEF NestValue, Nest, Fail, Deep, NestInv
    <3>2. ValuesOpen' = ValuesOpen /\ ValuesOpen = Len(stack) + typeDepth + 1
      BY <1>a, <3>1, NothingOpens DEF Nests, Held
    <3>3. ValuesOpen' - typeDepth' > DepthLimit'
      BY <1>a, <1>b, <3>1, <3>2, CallType DEF DepthLimit, InputType
    <3> QED BY <3>1, <3>3
  <2> QED BY <2>1
<1>2. CASE SelectionSet
  <2>1. CASE e' = "ErrTooDeep"
    <3>1. src[i] = "{" /\ i' = i + 1 /\ UNCHANGED src /\ selDepth + 1 > DepthLimit
      BY <1>2, <2>1 DEF SelectionSet, NestInv
    <3>2. pc = "SEL_SET" /\ pc' = "ERROR"
      BY <1>2, <2>1 DEF SelectionSet, NestInv
    <3>3. Within = 0
      BY <3>2 DEF Within, InVariables, InArguments, InValue, ArgumentLabels,
         VardefLabels, TypeLabels, DirectiveLabels, ValueLabels
    <3>4. Around = 0 /\ SetsOpen = selDepth
      BY <1>a, <3>2, <3>3 DEF Nests
    <3>5. Round(src[i]) = 0 /\ Bracket(src[i]) = 1
      BY <3>1 DEF Round, Bracket
    <3>6. /\ Around' = Around + Round(src[i])
          /\ SetsOpen' = SetsOpen + (IF Around' > 0 THEN 0 ELSE Bracket(src[i]))
      BY <1>a, <3>1, ReadOpens
    <3>7. SetsOpen' = selDepth + 1
      BY <1>a, <3>4, <3>5, <3>6
    <3> QED BY <1>b, <3>1, <3>2, <3>7 DEF DepthLimit
  <2> QED BY <2>1
<1>3. CASE skipIgnorables \/ Unexpected \/ Description \/ AnonymousOperation \/
            OperationType \/ OperationName \/ OperationAfterName \/
            FragmentDefinition \/ DefinitionEnd
  BY <1>3 DEF skipIgnorables, Skips, Unexpected, Fail, Description, AnonymousOperation,
     OperationType, OperationName, OperationAfterName, FragmentDefinition,
     DefinitionEnd, NestInv
<1>4. CASE Variable \/ Type \/ NonNullType \/ ListTypeEnd \/ AfterType \/ VardefEnd \/
            Directive \/ Argument \/ ArgumentsEnd \/ Scalar \/ VariableUsage
  BY <1>4 DEF Variable, Type, NonNullType, ListTypeEnd, AfterType, MuteInputs,
     VardefEnd, Directive, AfterDirectives, Argument, ArgumentsEnd, Scalar,
     VariableUsage, Fail, NestInv
<1>5. CASE OpenValue \/ EmptyValue \/ AfterValue \/ CloseValue \/ NextValue \/
            ObjectField \/ Spread \/ Field \/ FieldArgs \/
            FieldAfterDirectives \/ AfterSelection
  BY <1>5 DEF OpenValue, EmptyValue, AfterValue, MuteInputs, CloseValue, Top, Close,
     NextValue, ObjectField, Spread, Field, FieldArgs, FieldAfterDirectives,
     AfterSelection, NestInv
<1> QED BY <1>1, <1>2, <1>3, <1>4, <1>5 DEF Step

LEMMA StepNests ==
  ASSUME IInv, NestInv, Step
  PROVE  NestInv'
<1>1. InputType /\ DepthType /\ Nests
  BY DEF IInv, TypeOK, InputType, DepthType, NestInv
<1>2. Reads
  BY <1>1, StepAdvances, AdvanceReads
<1>3. CASE pc # "ERROR" /\ Follows
  BY <1>1, <1>2, <1>3, FollowNests, StepTooDeep DEF NestInv
<1>4. CASE pc' = "ERROR"
  BY <1>4, StepTooDeep DEF NestInv, Nests
<1> QED BY <1>3, <1>4, StepFollows

LEMMA FeedNests ==
  ASSUME IInv, NestInv, Feed
  PROVE  NestInv'
<1>1. InputType /\ UNCHANGED i /\ (UNCHANGED src \/ \E t : src' = Append(src, t))
  BY DEF IInv, TypeOK, InputType, Feed
<1>2. Around' = Around /\ ValuesOpen' = ValuesOpen /\ SetsOpen' = SetsOpen
  BY <1>1, NothingOpens
<1>3. UNCHANGED <<pc, call, stack, selDepth, typeDepth, dirRet, argRet, valRet, e>>
  BY DEF Feed, depths, regs, output
<1>4. Within' = Within /\ Held' = Held /\ DepthLimit' = DepthLimit
  BY <1>3 DEF Within, Held, InVariables, InArguments, InValue, DepthLimit
<1> QED BY <1>2, <1>3, <1>4 DEF NestInv, Nests, TooDeep

LEMMA NestInvariance == Spec => []NestInv
<1>1. IInv /\ NestInv /\ [Next]_vars => NestInv'
  <2> SUFFICES ASSUME IInv, NestInv, [Next]_vars PROVE NestInv'
    OBVIOUS
  <2>1. CASE UNCHANGED vars
    <3>1. UNCHANGED <<pc, call, src, i, stack, selDepth, typeDepth, dirRet, argRet, valRet, e>>
      BY <2>1 DEF vars, input, depths, regs, output
    <3> QED BY <3>1 DEF NestInv, Nests, TooDeep, Around, ValuesOpen, SetsOpen, Within, Held,
               InVariables, InArguments, InValue, DepthLimit
  <2> QED BY <2>1, FeedNests, StepNests DEF Next
<1> QED BY <1>1, InitNest, Invariance, PTL DEF Spec

\* What the parser counts is what the tokens it read leave open: nothing is left over from
\* one production to the next, no more selection sets than Options.DepthLimit are ever open
\* and no more values that hold something, and a document is refused for its depth only
\* when more are (write.go:15-20, parse.go:513-542, 646-651).
THEOREM DepthOfTheDocument == Spec => []NestsWithin
<1>1. IInv => Balanced
  BY DEF IInv, Counts, Nesting, Balanced, OpeningLabels, InVariables
<1>2. IInv /\ NestInv => DepthHeld
  <2> SUFFICES ASSUME IInv, NestInv PROVE DepthHeld
    OBVIOUS
  <2>1. Nests /\ TooDeep /\ DepthsBounded
    BY DEF NestInv, IInv
  <2>2. Len(stack) \in Nat /\ typeDepth \in Nat /\ selDepth \in Nat /\ DepthLimit \in Nat
    BY CallType DEF IInv, TypeOK
  <2>3. pc # "ERROR" => OpenSelectionSets(src, i - 1) = selDepth /\ selDepth <= DepthLimit
    BY <2>1 DEF Nests, SetsOpen, DepthsBounded
  <2>4. pc \notin {"LIST_START", "OBJECT_START", "ERROR"} =>
          OpenValues(src, i - 1) - typeDepth <= DepthLimit
    <3> SUFFICES ASSUME pc \notin {"LIST_START", "OBJECT_START", "ERROR"}
                 PROVE  OpenValues(src, i - 1) - typeDepth <= DepthLimit
      OBVIOUS
    <3>1. OpenValues(src, i - 1) = Len(stack) + typeDepth /\ Len(stack) <= DepthLimit
      BY <2>1, <2>2 DEF Nests, ValuesOpen, Held, DepthsBounded
    <3> QED BY <2>2, <3>1
  <2>5. e = "ErrTooDeep" => OpenValues(src, i - 1) - typeDepth > DepthLimit
                            \/ OpenSelectionSets(src, i - 1) > DepthLimit
    BY <2>1 DEF TooDeep, ValuesOpen, SetsOpen
  <2> QED BY <2>3, <2>4, <2>5 DEF DepthHeld
<1>3. IInv /\ NestInv => NestsWithin
  BY <1>1, <1>2 DEF NestsWithin
<1> QED BY <1>3, Invariance, NestInvariance, PTL
==============================================================================
