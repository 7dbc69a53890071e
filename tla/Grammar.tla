------------------------------- MODULE Grammar --------------------------------
(***************************************************************************)
(* The grammar of an executable Document, from the specification           *)
(* parser/parse.go names at every production, and its readings: Document   *)
(* says what a sequence of tokens means to the hash, which is the same     *)
(* tokens without Ignored ones, descriptions and what Ignore leaves out.   *)
(***************************************************************************)
EXTENDS Tokens, Integers, Sequences

-----------------------------------------------------------------------------
(* Productions: x & y is x before y, x | y either, x^* any number of x.    *)

tokens(T) == [is |-> "token", of |-> T]
tok(t) == tokens({t})
x & y == [is |-> "both", x |-> x, y |-> y]
x | y == [is |-> "either", x |-> x, y |-> y]
x^* == [is |-> "many", x |-> x]
x^+ == x & x^*
The(production) == [is |-> "production", name |-> production]

\* x, of which the hash leaves out Options.Ignore says from the level on.
Unsaid(level, x) == [is |-> "unsaid", level |-> level, x |-> x]

\* Nothing is read, and t is said.
Said(t) == [is |-> "said", t |-> t]

nothing == [is |-> "nothing"]
Optional(x) == nothing | x

Name == tokens(Names)
Description == Optional(Unsaid(0, tok("str")))

ValueOf(value, leaf) ==
  leaf
  | tok("[") & The(value)^* & tok("]")
  | tok("{") & (Name & tok(":") & The(value))^* & tok("}")

DirectivesOf(value) ==
  LET Argument == Name & tok(":") & Unsaid(1, The(value))
      Arguments == tok("(") & Argument^+ & tok(")")
  IN [directives |-> (tok("@") & Name & Optional(Arguments))^*, arguments |-> Arguments]

Productions ==
  LET Literal == tokens(Names \cup Values)
      Directives == DirectivesOf("Value").directives
      VariableDefinition ==
        Description & tok("$") & Name & tok(":") & The("Type")
        & Optional(Unsaid(1, tok("=") & The("ConstValue")))
        & DirectivesOf("ConstValue").directives
      Variables == Unsaid(2, tok("(") & VariableDefinition^+ & tok(")"))
      Field ==
        Name & Optional(tok(":") & Name) & Optional(DirectivesOf("Value").arguments)
        & Directives & Optional(The("SelectionSet"))
      FragmentSpread == tok("...") & tokens(Names \ {"on"}) & Directives
      InlineFragment ==
        tok("...") & Optional(tok("on") & Name) & Directives & The("SelectionSet")
      Operation == tokens(Operations) & Optional(Name) & Optional(Variables)
      Fragment == tok("fragment") & tokens(Names \ {"on"}) & tok("on") & Name
  IN [Value |-> ValueOf("Value", Literal | tok("$") & Name),
      ConstValue |-> ValueOf("ConstValue", Literal),
      Type |-> (Name | tok("[") & The("Type") & tok("]")) & Optional(tok("!")),
      SelectionSet |-> tok("{") & (Field | FragmentSpread | InlineFragment)^+ & tok("}"),
      \* The query shorthand is an anonymous query.
      Document |->
        (Said("query") & The("SelectionSet")
         | Description & (Operation | Fragment) & Directives & The("SelectionSet"))^+]

-----------------------------------------------------------------------------
(* A reading of the tokens s is where it is and what it said.  One that    *)
(* wants a token after the end of s ends there, with what it wants next.   *)

Ended(s, R) == {r \in R : r.at > Len(s) + 1}

TokenOf(s, r, T) ==
  IF r.at <= Len(s)
  THEN [at |-> r.at + 1, said |-> Append(r.said, s[r.at]), next |-> {}]
  ELSE [at |-> Len(s) + 2, said |-> r.said, next |-> T]

\* The readings R, gone on with p.
RECURSIVE Read(_, _, _, _)
Read(s, ignore, p, R) ==
  CASE R = {} \/ p.is = "nothing" -> R
    [] p.is = "both" -> Read(s, ignore, p.y, Read(s, ignore, p.x, R))
    [] p.is = "token" ->
         LET ended == Ended(s, R)
         IN ended \cup {TokenOf(s, r, p.of) :
                          r \in {q \in R \ ended : q.at <= Len(s) => s[q.at] \in p.of}}
    [] p.is = "either" -> Read(s, ignore, p.x, R) \cup Read(s, ignore, p.y, R)
    [] p.is = "many" -> R \cup Read(s, ignore, p, Read(s, ignore, p.x, R) \ R)
    [] p.is = "production" ->
         LET ended == Ended(s, R)
         IN ended \cup Read(s, ignore, Productions[p.name], R \ ended)
    [] p.is = "said" ->
         LET ended == Ended(s, R)
         IN ended \cup {[r EXCEPT !.said = Append(@, p.t)] : r \in R \ ended}
    [] p.is = "unsaid" ->
         IF ignore < p.level
         THEN Read(s, ignore, p.x, R)
         ELSE UNION {{[q EXCEPT !.said = r.said] : q \in Read(s, ignore, p.x, {r})} : r \in R}

Stripped(source) == SelectSeq(source, LAMBDA t : t # "ignored")

\* What the document says, if the source is one; what documents that begin with the
\* source have said by then; and the tokens with which they go on.
Meaning(source, ignore) ==
  LET s == Stripped(source)
      R == Read(s, ignore, The("Document"), {[at |-> 1, said |-> <<>>, next |-> {}]})
  IN [document |-> {r.said : r \in {q \in R : q.at = Len(s) + 1}},
      beginnings |-> {r.said : r \in Ended(s, R)},
      next |-> UNION {r.next : r \in Ended(s, R)}]

Document(source, ignore) == Meaning(source, ignore).document
==============================================================================
