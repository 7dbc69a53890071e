-------------------------------- MODULE Parser --------------------------------
(***************************************************************************)
(* parser/parse.go: the state machine that reads a GraphQL document and    *)
(* assembles its canonical form.  Productions are labels; selection sets   *)
(* are counted, open lists and input objects are frames of a stack, and    *)
(* where directives, arguments and values continue is kept in a register   *)
(* each.  A label that reads several tokens is split at each of them.      *)
(*                                                                         *)
(* The source is a sequence of tokens, which arrive as they are looked at: *)
(* punctuators, names (keywords are names), numbers, strings (of one line  *)
(* or block, an escape being the scanner's business), "ignored" for any    *)
(* Ignored token, and "broken" for bytes no scanner accepts.  A canonical  *)
(* form is a sequence of the prefixes of parser.go and of what they        *)
(* introduce.                                                              *)
(***************************************************************************)
EXTENDS Tokens, Integers, Sequences, FiniteSets

CONSTANT Calls  \* how Parse may be called: what may arrive, and the Options

\* The tokens a source begins with, those it goes on with, the bound on how many,
\* Options.Ignore (0 nothing, 1 inputs, 2 variables as well) and Options.DepthLimit.
ASSUME CallsAssumption ==
  \A c \in Calls :
    /\ c.begins \in Seq(Tokens) /\ c.alphabet \subseteq Tokens /\ c.maxTokens \in Nat
    /\ c.ignore \in 0..2 /\ c.depthLimit \in Nat \ {0}

VARIABLES
  call,       \* this one
  pc,         \* the label
  src,        \* the tokens that arrived
  eof,        \* whether no more will
  i,          \* the token to read next
  stack,      \* one frame per open ListValue and InputObjectValue
  selDepth,   \* SelectionSets open
  typeDepth,  \* ListType brackets open
  dirRet,     \* where the directives being read continue
  argRet,     \* where the arguments being read continue
  valRet,     \* where the outermost value being read continues
  constant,   \* Value[Const]
  mute,       \* reasons not to write
  buf,        \* the canonical form
  e,          \* the error
  dst         \* what the writer received

input == <<call, src, eof>>
regs == <<dirRet, argRet, valRet, constant>>
depths == <<stack, selDepth, typeDepth>>
output == <<mute, buf, e, dst>>
vars == <<pc, input, i, depths, regs, output>>

Alphabet == call.alphabet
MaxTokens == call.maxTokens
Ignore == call.ignore
DepthLimit == call.depthLimit

Stopped == {"DONE", "ERROR"}

Init ==
  /\ call \in Calls
  /\ pc = "DEFINITION" /\ src = call.begins /\ eof = FALSE /\ i = 1
  /\ stack = <<>> /\ selDepth = 0 /\ typeDepth = 0
  /\ dirRet = "selectionSet" /\ argRet = "field" /\ valRet = "argument"
  /\ constant = FALSE
  /\ mute = 0 /\ buf = <<>> /\ e = "nil" /\ dst = <<>>

-----------------------------------------------------------------------------
(* Tokens.                                                                 *)

\* The source goes on, or ends.
Feed ==
  /\ pc \notin Stopped
  /\ ~eof /\ i = Len(src) + 1
  /\ \/ Len(src) < MaxTokens /\ \E t \in Alphabet : src' = Append(src, t) /\ UNCHANGED eof
     \/ eof' = TRUE /\ UNCHANGED src
  /\ UNCHANGED <<pc, call, i, depths, regs, output>>

\* Mutant: no skipIgnorables where a type may end.
SkipsLess(label) == label \notin {"DONE", "ERROR", "TYPE_AFTER"}

\* Whether skipIgnorables is called before label looks at a token.
Skips(label) == label \notin {"DONE", "ERROR"}

skipIgnorables ==
  /\ Skips(pc)
  /\ i <= Len(src) /\ src[i] = "ignored"
  /\ i' = i + 1
  /\ UNCHANGED <<pc, input, depths, regs, output>>

Sees(label, tokens) ==
  /\ pc = label
  /\ i <= Len(src) /\ ~(Skips(label) /\ src[i] = "ignored")
  /\ src[i] \in tokens

Ends(label) == pc = label /\ eof /\ i = Len(src) + 1

Eat(label) == pc' = label /\ i' = i + 1

Stay(label) == pc' = label /\ UNCHANGED i

\* Mutant: what is ignored is written.
WritesMuted(items) == buf' = buf \o items

Writes(items) == buf' = IF mute = 0 THEN buf \o items ELSE buf

NoWrite == UNCHANGED output

Writing(items) == Writes(items) /\ UNCHANGED <<mute, e, dst>>

Fail(err) ==
  /\ pc' = "ERROR"
  /\ e' = err
  /\ UNCHANGED <<input, i, depths, regs, mute, buf, dst>>

\* The labels that read a token, and what each of them accepts.
Expected ==
  [DEFINITION |-> {"str", "{", "fragment"} \cup Operations,
   DESCRIBED |-> {"fragment"} \cup Operations,
   OPERATION |-> Tokens, OPERATION_NAMED |-> Tokens,
   FRAGMENT |-> Names \ {"on"}, FRAGMENT_ON |-> {"on"}, FRAGMENT_TYPE |-> Names,
   VARDEF |-> {"str", "$"}, VARDEF_DESCRIBED |-> {"$"}, VARDEF_NAME |-> Names,
   VARDEF_COLON |-> {":"}, VARDEF_END |-> Tokens,
   TYPE |-> Names \cup {"["},
   TYPE_CLOSE |-> IF typeDepth > 0 THEN {"]"} ELSE Tokens,
   DIRECTIVE_NAME |-> Names, DIRECTIVE_NAMED |-> Tokens,
   ARGS_NEXT |-> Names, ARGS_COLON |-> {":"}, ARGS_AFTER_VALUE |-> Tokens,
   VALUE |-> Names \cup Values \cup {"$", "[", "{"}, VALUE_VARIABLE |-> Names,
   NEXT_VALUE |-> Tokens, OBJECT_FIELD |-> Names, OBJECT_COLON |-> {":"},
   SEL_SET |-> {"{"}, SELECTION |-> Names \cup {"..."}, INLINE_TYPE |-> Names,
   FIELD_NAMED |-> Tokens, ALIASED |-> Names, FIELD_ARGS |-> Tokens,
   FIELD_AFTER_DIRECTIVES |-> Tokens, AFTER_SELECTION |-> Tokens]

Unexpected ==
  \E label \in DOMAIN Expected :
    \/ Ends(label) /\ Fail("ErrUnexpectedEOF")
    \/ Sees(label, Tokens \ Expected[label]) /\ Fail("ErrUnexpectedToken")

-----------------------------------------------------------------------------
(* Definitions.                                                            *)

Prefix(operation) ==
  CASE operation = "query" -> "HPrefQuery"
    [] operation = "mutation" -> "HPrefMutation"
    [] operation = "subscription" -> "HPrefSubscription"

\* Mutant: a second description, and one of the query shorthand.
DescriptionAnywhere ==
  /\ \/ Sees("DEFINITION", {"str"}) /\ Eat("DEFINITION")
     \/ Sees("VARDEF", {"str"}) /\ Eat("VARDEF_DESCRIBED")
  /\ NoWrite /\ UNCHANGED <<input, depths, regs>>

\* Mutant: a description is written.
DescriptionWritten ==
  /\ \/ Sees("DEFINITION", {"str"}) /\ Eat("DESCRIBED")
     \/ Sees("VARDEF", {"str"}) /\ Eat("VARDEF_DESCRIBED")
  /\ Writing(<<"HPrefValueString", "str">>) /\ UNCHANGED <<input, depths, regs>>

Description ==
  /\ \/ Sees("DEFINITION", {"str"}) /\ Eat("DESCRIBED")
     \/ Sees("VARDEF", {"str"}) /\ Eat("VARDEF_DESCRIBED")
  /\ NoWrite /\ UNCHANGED <<input, depths, regs>>

AnonymousOperation ==
  /\ Sees("DEFINITION", {"{"}) /\ Stay("SEL_SET")
  /\ Writing(<<"HPrefQuery">>) /\ UNCHANGED <<input, depths, regs>>

OperationType ==
  /\ \E label \in {"DEFINITION", "DESCRIBED"} : Sees(label, Operations)
  /\ Eat("OPERATION")
  /\ Writing(<<Prefix(src[i])>>) /\ UNCHANGED <<input, depths, regs>>

OperationName ==
  /\ Sees("OPERATION", Names) /\ Eat("OPERATION_NAMED")
  /\ Writing(<<src[i]>>) /\ UNCHANGED <<input, depths, regs>>

Directives(ret, const) ==
  /\ dirRet' = ret /\ constant' = const
  /\ UNCHANGED <<argRet, valRet>>

OperationAfterName ==
  /\ \E label \in {"OPERATION", "OPERATION_NAMED"} :
       Sees(label, Tokens \ (IF label = "OPERATION" THEN Names ELSE {}))
  /\ IF src[i] = "("
     THEN /\ Eat("VARDEF")
          /\ mute' = IF Ignore >= 2 THEN mute + 1 ELSE mute
          /\ UNCHANGED <<buf, e, dst, regs>>
     ELSE Stay("DIRECTIVES") /\ Directives("selectionSet", FALSE) /\ NoWrite
  /\ UNCHANGED <<input, depths>>

FragmentDefinition ==
  /\ \/ /\ \E label \in {"DEFINITION", "DESCRIBED"} : Sees(label, {"fragment"})
        /\ Eat("FRAGMENT") /\ NoWrite /\ UNCHANGED regs
     \/ /\ Sees("FRAGMENT", Names \ {"on"}) /\ Eat("FRAGMENT_ON")
        /\ Writing(<<"HPrefFragmentDefinition", src[i]>>) /\ UNCHANGED regs
     \/ Sees("FRAGMENT_ON", {"on"}) /\ Eat("FRAGMENT_TYPE") /\ NoWrite /\ UNCHANGED regs
     \/ /\ Sees("FRAGMENT_TYPE", Names) /\ Eat("DIRECTIVES")
        /\ Writing(<<"HPrefType", src[i]>>) /\ Directives("selectionSet", FALSE)
  /\ UNCHANGED <<input, depths>>

DefinitionEnd ==
  \/ /\ Ends("DEFINITION_END")
     /\ pc' = "DONE"
     /\ \/ dst' = buf /\ UNCHANGED e
        \/ e' = "ErrWrite" /\ UNCHANGED dst
     /\ UNCHANGED <<input, i, depths, regs, mute, buf>>
  \/ /\ Sees("DEFINITION_END", Tokens) /\ Stay("DEFINITION")
     /\ NoWrite /\ UNCHANGED <<input, depths, regs>>

-----------------------------------------------------------------------------
(* Variable definitions.                                                   *)

Variable ==
  /\ \/ \E label \in {"VARDEF", "VARDEF_DESCRIBED"} :
          Sees(label, {"$"}) /\ Eat("VARDEF_NAME") /\ NoWrite
     \/ /\ Sees("VARDEF_NAME", Names) /\ Eat("VARDEF_COLON")
        /\ Writing(<<"HPrefVariableDefinition", src[i]>>)
     \/ Sees("VARDEF_COLON", {":"}) /\ Eat("TYPE") /\ Writing(<<"HPrefType">>)
  /\ UNCHANGED <<input, depths, regs>>

Type ==
  /\ \/ Sees("TYPE", Names) /\ Eat("TYPE_AFTER") /\ UNCHANGED typeDepth
     \/ Sees("TYPE", {"["}) /\ Eat("TYPE") /\ typeDepth' = typeDepth + 1
  /\ Writing(<<src[i]>>) /\ UNCHANGED <<input, stack, selDepth, regs>>

NonNullType ==
  /\ \/ Sees("TYPE_AFTER", {"!"}) /\ Eat("TYPE_CLOSE") /\ Writing(<<"!">>)
     \/ /\ Sees("TYPE_AFTER", Tokens \ {"!"}) \/ Ends("TYPE_AFTER")
        /\ Stay("TYPE_CLOSE") /\ NoWrite
  /\ UNCHANGED <<input, depths, regs>>

ListTypeEnd ==
  /\ typeDepth > 0
  /\ Sees("TYPE_CLOSE", {"]"}) /\ Eat("TYPE_AFTER")
  /\ typeDepth' = typeDepth - 1
  /\ Writing(<<"]">>) /\ UNCHANGED <<input, stack, selDepth, regs>>

\* Mutant: the mute is taken back where none was set.
MuteInputsUneven(by) == mute' = IF Ignore >= 1 \/ by < 0 THEN mute + by ELSE mute

MuteInputs(by) == mute' = IF Ignore >= 1 THEN mute + by ELSE mute

\* Mutant: a default value may use variables.
AfterTypeVariable ==
  /\ typeDepth = 0
  /\ \/ /\ Sees("TYPE_CLOSE", {"="}) /\ Eat("VALUE")
        /\ valRet' = "varDefDefault" /\ MuteInputs(1)
        /\ UNCHANGED <<dirRet, argRet, constant, buf, e, dst>>
     \/ /\ Sees("TYPE_CLOSE", Tokens \ {"="}) /\ Stay("DIRECTIVES")
        /\ Directives("varDef", TRUE) /\ NoWrite
  /\ UNCHANGED <<input, depths>>

AfterType ==
  /\ typeDepth = 0
  /\ \/ /\ Sees("TYPE_CLOSE", {"="}) /\ Eat("VALUE")
        /\ constant' = TRUE /\ valRet' = "varDefDefault" /\ MuteInputs(1)
        /\ UNCHANGED <<dirRet, argRet, buf, e, dst>>
     \/ /\ Sees("TYPE_CLOSE", Tokens \ {"="}) /\ Stay("DIRECTIVES")
        /\ Directives("varDef", TRUE) /\ NoWrite
  /\ UNCHANGED <<input, depths>>

\* Mutant: the definitions of variables stay muted.
VardefEndMuted ==
  /\ \/ /\ Sees("VARDEF_END", {")"}) /\ Eat("DIRECTIVES")
        /\ Directives("selectionSet", FALSE)
     \/ Sees("VARDEF_END", Tokens \ {")"}) /\ Stay("VARDEF") /\ UNCHANGED regs
  /\ NoWrite /\ UNCHANGED <<input, depths>>

VardefEnd ==
  /\ \/ /\ Sees("VARDEF_END", {")"}) /\ Eat("DIRECTIVES")
        /\ mute' = IF Ignore >= 2 THEN mute - 1 ELSE mute
        /\ Directives("selectionSet", FALSE)
        /\ UNCHANGED <<buf, e, dst>>
     \/ Sees("VARDEF_END", Tokens \ {")"}) /\ Stay("VARDEF") /\ NoWrite /\ UNCHANGED regs
  /\ UNCHANGED <<input, depths>>

-----------------------------------------------------------------------------
(* Directives and arguments.                                               *)

AfterDirectives ==
  CASE dirRet = "varDef" -> "VARDEF_END"
    [] dirRet = "field" -> "FIELD_AFTER_DIRECTIVES"
    [] dirRet = "fragmentSpread" -> "AFTER_SELECTION"
    [] dirRet = "selectionSet" -> "SEL_SET"

Directive ==
  /\ \/ Sees("DIRECTIVES", {"@"}) /\ Eat("DIRECTIVE_NAME") /\ NoWrite /\ UNCHANGED argRet
     \/ /\ Sees("DIRECTIVES", Tokens \ {"@"}) \/ Ends("DIRECTIVES")
        /\ Stay(AfterDirectives) /\ NoWrite /\ UNCHANGED argRet
     \/ /\ Sees("DIRECTIVE_NAME", Names) /\ Eat("DIRECTIVE_NAMED")
        /\ Writing(<<"HPrefDirective", src[i]>>) /\ UNCHANGED argRet
     \/ /\ Sees("DIRECTIVE_NAMED", {"("}) /\ Eat("ARGS_NEXT")
        /\ argRet' = "directive" /\ NoWrite
     \/ /\ Sees("DIRECTIVE_NAMED", Tokens \ {"("}) /\ Stay("DIRECTIVES")
        /\ NoWrite /\ UNCHANGED argRet
  /\ UNCHANGED <<input, depths, dirRet, valRet, constant>>

\* Mutant: the name of an argument is muted with its value.
ArgumentMuted ==
  /\ \/ /\ Sees("ARGS_NEXT", Names) /\ Eat("ARGS_COLON")
        /\ Writing(IF Ignore >= 1 THEN <<>> ELSE <<"HPrefArgument", src[i]>>)
        /\ UNCHANGED valRet
     \/ /\ Sees("ARGS_COLON", {":"}) /\ Eat("VALUE")
        /\ valRet' = "argument" /\ MuteInputs(1)
        /\ UNCHANGED <<buf, e, dst>>
  /\ UNCHANGED <<input, depths, dirRet, argRet, constant>>

Argument ==
  /\ \/ /\ Sees("ARGS_NEXT", Names) /\ Eat("ARGS_COLON")
        /\ Writing(<<"HPrefArgument", src[i]>>) /\ UNCHANGED valRet
     \/ /\ Sees("ARGS_COLON", {":"}) /\ Eat("VALUE")
        /\ valRet' = "argument" /\ MuteInputs(1)
        /\ UNCHANGED <<buf, e, dst>>
  /\ UNCHANGED <<input, depths, dirRet, argRet, constant>>

ArgumentsEnd ==
  /\ \/ /\ Sees("ARGS_AFTER_VALUE", {")"}) /\ Eat("DIRECTIVES")
        /\ IF argRet = "field" THEN Directives("field", FALSE) ELSE UNCHANGED regs
     \/ /\ Sees("ARGS_AFTER_VALUE", Tokens \ {")"}) /\ Stay("ARGS_NEXT")
        /\ UNCHANGED regs
  /\ NoWrite /\ UNCHANGED <<input, depths>>

-----------------------------------------------------------------------------
(* Values.                                                                 *)

ValuePrefix(t) ==
  CASE t = "null" -> <<"HPrefValueNull">>
    [] t = "true" -> <<"HPrefValueTrue">>
    [] t = "false" -> <<"HPrefValueFalse">>
    [] t = "1" -> <<"HPrefValueInteger", t>>
    [] t = "1.5" -> <<"HPrefValueFloat", t>>
    [] t = "str" -> <<"HPrefValueString", t>>
    [] t \in Names \ Literals -> <<"HPrefValueEnum", t>>

Scalar ==
  /\ Sees("VALUE", Names \cup Values) /\ Eat("AFTER_VALUE")
  /\ Writing(ValuePrefix(src[i])) /\ UNCHANGED <<input, depths, regs>>

VariableUsage ==
  \/ Sees("VALUE", {"$"}) /\ constant /\ Fail("ErrUnexpectedVariable")
  \/ /\ \/ Sees("VALUE", {"$"}) /\ ~constant /\ Eat("VALUE_VARIABLE") /\ NoWrite
        \/ /\ Sees("VALUE_VARIABLE", Names) /\ Eat("AFTER_VALUE")
           /\ Writing(<<"HPrefValueVariable", src[i]>>)
     /\ UNCHANGED <<input, depths, regs>>

OpenValue ==
  /\ \/ Sees("VALUE", {"["}) /\ Eat("LIST_START") /\ Writing(<<"HPrefValueList">>)
     \/ Sees("VALUE", {"{"}) /\ Eat("OBJECT_START") /\ Writing(<<"HPrefValueInputObject">>)
  /\ UNCHANGED <<input, depths, regs>>

\* Mutant: an empty list goes on the stack.
EmptyValueStacked ==
  /\ \/ Sees("LIST_START", {"]"}) /\ stack' = Append(stack, "list")
     \/ Sees("OBJECT_START", {"}"}) /\ UNCHANGED stack
  /\ Eat("AFTER_VALUE") /\ NoWrite /\ UNCHANGED <<input, selDepth, typeDepth, regs>>

\* An empty list and an empty input object have no end written.
EmptyValue ==
  /\ \/ Sees("LIST_START", {"]"})
     \/ Sees("OBJECT_START", {"}"})
  /\ Eat("AFTER_VALUE") /\ NoWrite /\ UNCHANGED <<input, depths, regs>>

\* Mutant: one frame more than the limit.
DeepLoose == Len(stack) > DepthLimit

Deep == Len(stack) >= DepthLimit

Nest(label, close, frame, next) ==
  /\ Sees(label, Tokens \ {close}) \/ Ends(label)
  /\ \/ Deep /\ Fail("ErrTooDeep")
     \/ /\ ~Deep
        /\ stack' = Append(stack, frame)
        /\ Stay(next) /\ NoWrite
        /\ UNCHANGED <<input, selDepth, typeDepth, regs>>

NestValue ==
  \/ Nest("LIST_START", "]", "list", "VALUE")
  \/ Nest("OBJECT_START", "}", "object", "OBJECT_FIELD")

AfterValue ==
  /\ pc = "AFTER_VALUE"
  /\ IF stack # <<>>
     THEN Stay("NEXT_VALUE") /\ NoWrite /\ UNCHANGED regs
     ELSE /\ MuteInputs(-1)
          /\ UNCHANGED <<buf, e, dst>>
          /\ IF valRet = "argument"
             THEN Stay("ARGS_AFTER_VALUE") /\ UNCHANGED regs
             ELSE Stay("DIRECTIVES") /\ Directives("varDef", TRUE)
  /\ UNCHANGED <<input, depths>>

Top == stack[Len(stack)]

Close(frame) == IF frame = "list" THEN "]" ELSE "}"

\* Mutant: no end of a list is written.
CloseValueUnmarked ==
  /\ Sees("NEXT_VALUE", {Close(Top)}) /\ Eat("AFTER_VALUE")
  /\ Writing(IF Top = "list" THEN <<>> ELSE <<"HPrefInputObjectEnd">>)
  /\ stack' = SubSeq(stack, 1, Len(stack) - 1)
  /\ UNCHANGED <<input, selDepth, typeDepth, regs>>

CloseValue ==
  /\ Sees("NEXT_VALUE", {Close(Top)}) /\ Eat("AFTER_VALUE")
  /\ Writing(<<IF Top = "list" THEN "HPrefValueListEnd" ELSE "HPrefInputObjectEnd">>)
  /\ stack' = SubSeq(stack, 1, Len(stack) - 1)
  /\ UNCHANGED <<input, selDepth, typeDepth, regs>>

NextValue ==
  /\ Sees("NEXT_VALUE", Tokens \ {Close(Top)})
  /\ Stay(IF Top = "list" THEN "VALUE" ELSE "OBJECT_FIELD")
  /\ NoWrite /\ UNCHANGED <<input, depths, regs>>

ObjectField ==
  /\ \/ /\ Sees("OBJECT_FIELD", Names) /\ Eat("OBJECT_COLON")
        /\ Writing(<<"HPrefValueInputObjectField", src[i]>>)
     \/ Sees("OBJECT_COLON", {":"}) /\ Eat("VALUE") /\ NoWrite
  /\ UNCHANGED <<input, depths, regs>>

-----------------------------------------------------------------------------
(* Selections.                                                             *)

\* Mutant: the depth is compared before it is counted.
SelectionSetLoose ==
  /\ Sees("SEL_SET", {"{"})
  /\ i' = i + 1
  /\ selDepth' = selDepth + 1
  /\ Writes(<<"HPrefSelectionSet">>)
  /\ IF selDepth > DepthLimit
     THEN pc' = "ERROR" /\ e' = "ErrTooDeep"
     ELSE pc' = "SELECTION" /\ UNCHANGED e
  /\ UNCHANGED <<input, stack, typeDepth, regs, mute, dst>>

SelectionSet ==
  /\ Sees("SEL_SET", {"{"})
  /\ i' = i + 1
  /\ selDepth' = selDepth + 1
  /\ Writes(<<"HPrefSelectionSet">>)
  /\ IF selDepth + 1 > DepthLimit
     THEN pc' = "ERROR" /\ e' = "ErrTooDeep"
     ELSE pc' = "SELECTION" /\ UNCHANGED e
  /\ UNCHANGED <<input, stack, typeDepth, regs, mute, dst>>

Spread ==
  /\ \/ Sees("SELECTION", {"..."}) /\ Eat("SPREAD") /\ NoWrite /\ UNCHANGED regs
     \/ Sees("SPREAD", {"on"}) /\ Eat("INLINE_TYPE") /\ NoWrite /\ UNCHANGED regs
     \/ /\ Sees("INLINE_TYPE", Names) /\ Eat("DIRECTIVES")
        /\ Writing(<<"HPrefInlineFragment", "HPrefType", src[i]>>)
        /\ Directives("selectionSet", FALSE)
     \/ /\ Sees("SPREAD", Names \ {"on"}) /\ Eat("DIRECTIVES")
        /\ Writing(<<"HPrefFragmentSpread", src[i]>>) /\ Directives("fragmentSpread", FALSE)
     \/ /\ Sees("SPREAD", Tokens \ Names) \/ Ends("SPREAD")
        /\ Stay("DIRECTIVES")
        /\ Writing(<<"HPrefInlineFragment">>) /\ Directives("selectionSet", FALSE)
  /\ UNCHANGED <<input, depths>>

Field ==
  /\ \/ Sees("SELECTION", Names) /\ Eat("FIELD_NAMED") /\ Writing(<<"HPrefField", src[i]>>)
     \/ Sees("FIELD_NAMED", {":"}) /\ Eat("ALIASED") /\ NoWrite
     \/ /\ Sees("ALIASED", Names) /\ Eat("FIELD_ARGS")
        /\ Writing(<<"HPrefFieldAliasedName", src[i]>>)
  /\ UNCHANGED <<input, depths, regs>>

FieldArgs ==
  /\ \E label \in {"FIELD_NAMED", "FIELD_ARGS"} :
       Sees(label, Tokens \ (IF label = "FIELD_NAMED" THEN {":"} ELSE {}))
  /\ IF src[i] = "("
     THEN /\ Eat("ARGS_NEXT")
          /\ argRet' = "field" /\ constant' = FALSE
          /\ UNCHANGED <<dirRet, valRet>>
     ELSE Stay("DIRECTIVES") /\ Directives("field", FALSE)
  /\ NoWrite /\ UNCHANGED <<input, depths>>

FieldAfterDirectives ==
  /\ Sees("FIELD_AFTER_DIRECTIVES", Tokens)
  /\ Stay(IF src[i] = "{" THEN "SEL_SET" ELSE "AFTER_SELECTION")
  /\ NoWrite /\ UNCHANGED <<input, depths, regs>>

\* Mutant: the end of a selection set is not written.
AfterSelectionUnmarked ==
  /\ \/ /\ Sees("AFTER_SELECTION", {"}"})
        /\ Eat(IF selDepth = 1 THEN "DEFINITION_END" ELSE "AFTER_SELECTION")
        /\ selDepth' = selDepth - 1 /\ NoWrite
     \/ /\ Sees("AFTER_SELECTION", Tokens \ {"}"}) /\ Stay("SELECTION")
        /\ NoWrite /\ UNCHANGED selDepth
  /\ UNCHANGED <<input, stack, typeDepth, regs>>

AfterSelection ==
  /\ \/ /\ Sees("AFTER_SELECTION", {"}"})
        /\ Eat(IF selDepth = 1 THEN "DEFINITION_END" ELSE "AFTER_SELECTION")
        /\ selDepth' = selDepth - 1
        /\ Writing(<<"HPrefSelectionSetEnd">>)
     \/ /\ Sees("AFTER_SELECTION", Tokens \ {"}"}) /\ Stay("SELECTION")
        /\ NoWrite /\ UNCHANGED selDepth
  /\ UNCHANGED <<input, stack, typeDepth, regs>>

-----------------------------------------------------------------------------
Step ==
  \/ skipIgnorables \/ Unexpected
  \/ Description \/ AnonymousOperation \/ OperationType \/ OperationName
  \/ OperationAfterName \/ FragmentDefinition \/ DefinitionEnd
  \/ Variable \/ Type \/ NonNullType \/ ListTypeEnd \/ AfterType \/ VardefEnd
  \/ Directive \/ Argument \/ ArgumentsEnd
  \/ Scalar \/ VariableUsage \/ OpenValue \/ EmptyValue \/ NestValue \/ AfterValue
  \/ CloseValue \/ NextValue \/ ObjectField
  \/ SelectionSet \/ Spread \/ Field \/ FieldArgs \/ FieldAfterDirectives
  \/ AfterSelection

Next == Feed \/ Step

Spec == Init /\ [][Next]_vars

-----------------------------------------------------------------------------
TypeLabels == {"TYPE", "TYPE_AFTER", "TYPE_CLOSE"}
ValueLabels ==
  {"VALUE", "VALUE_VARIABLE", "LIST_START", "OBJECT_START", "OBJECT_FIELD", "OBJECT_COLON",
   "AFTER_VALUE", "NEXT_VALUE"}
DirectiveLabels ==
  {"DIRECTIVES", "DIRECTIVE_NAME", "DIRECTIVE_NAMED", "ARGS_NEXT", "ARGS_COLON",
   "ARGS_AFTER_VALUE"}
VardefLabels ==
  {"VARDEF", "VARDEF_DESCRIBED", "VARDEF_NAME", "VARDEF_COLON", "VARDEF_END"} \cup TypeLabels
OtherLabels ==
  {"DEFINITION", "DESCRIBED", "OPERATION", "OPERATION_NAMED", "DEFINITION_END",
   "FRAGMENT", "FRAGMENT_ON", "FRAGMENT_TYPE", "SEL_SET", "SELECTION", "SPREAD",
   "INLINE_TYPE", "FIELD_NAMED", "ALIASED", "FIELD_ARGS", "FIELD_AFTER_DIRECTIVES",
   "AFTER_SELECTION"}
Errors == {"ErrUnexpectedEOF", "ErrUnexpectedToken", "ErrUnexpectedVariable", "ErrTooDeep",
           "ErrWrite"}

TypeOK ==
  /\ pc \in Stopped \cup ValueLabels \cup DirectiveLabels \cup VardefLabels \cup OtherLabels
  /\ call \in Calls
  /\ src \in Seq(Tokens) /\ eof \in BOOLEAN /\ i \in 1..Len(src) + 1
  /\ stack \in Seq({"list", "object"}) /\ selDepth \in Nat /\ typeDepth \in Nat
  /\ dirRet \in {"selectionSet", "varDef", "field", "fragmentSpread"}
  /\ argRet \in {"field", "directive"} /\ valRet \in {"argument", "varDefDefault"}
  /\ constant \in BOOLEAN
  /\ mute \in 0..2 /\ e \in Errors \cup {"nil"}

InValue == pc \in ValueLabels

InVariables ==
  \/ pc \in VardefLabels
  \/ pc \in DirectiveLabels /\ dirRet = "varDef"
  \/ InValue /\ (dirRet = "varDef" \/ valRet = "varDefDefault")

\* What is counted is counted back on every way out of a production, so that
\* nothing of one is left to the next or to the next definition: mute counts
\* the value and the variable definitions being read where they are to be
\* ignored (write.go:15-20), and the stack and the depths are those of values,
\* types and selection sets being read.
Balanced ==
  pc # "ERROR" =>
    /\ mute = (IF Ignore >= 1 /\ InValue THEN 1 ELSE 0)
              + (IF Ignore >= 2 /\ InVariables THEN 1 ELSE 0)
    /\ ~InValue => stack = <<>>
    /\ pc \notin TypeLabels => typeDepth = 0
    /\ pc \in {"DEFINITION", "DESCRIBED", "DEFINITION_END", "DONE"} \cup VardefLabels =>
         selDepth = 0

-----------------------------------------------------------------------------
(* What is open after the first n tokens of s, told from the tokens alone.  *)

Among(s, K, tokens) == Cardinality({k \in K : s[k] \in tokens})

Parentheses(s, n) == Among(s, 1..n, {"("}) - Among(s, 1..n, {")"})

LeftOpen(s, K) == Among(s, K, {"[", "{"}) - Among(s, K, {"]", "}"})

\* In arguments and variable definitions, and outside of them.
OpenValues(s, n) == LeftOpen(s, {k \in 1..n : Parentheses(s, k) > 0})
OpenSelectionSets(s, n) == LeftOpen(s, {k \in 1..n : ~(Parentheses(s, k) > 0)})

\* No more selection sets than DepthLimit are ever open, and no more lists and
\* input objects that hold something (Options.DepthLimit); a document is
\* refused for its depth only when more are.
DepthHeld ==
  LET values == OpenValues(src, i - 1) - typeDepth
      selectionSets == OpenSelectionSets(src, i - 1)
  IN /\ pc \notin {"LIST_START", "OBJECT_START", "ERROR"} => values <= DepthLimit
     /\ pc # "ERROR" => selectionSets <= DepthLimit
     /\ e = "ErrTooDeep" => values > DepthLimit \/ selectionSets > DepthLimit

\* What the parser counts is what the tokens it read leave open: nothing is left
\* over from one production to the next, and the limit is on the depth of the
\* document (write.go:15-20, parser.go:212-217).
NestsWithin == Balanced /\ DepthHeld
==============================================================================
