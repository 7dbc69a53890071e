----------------------------- MODULE MCCanonical ------------------------------
(***************************************************************************)
(* Calls whose alphabets have documents within few tokens, each for a part *)
(* of the grammar, and the spellings of the tokens a scanner reads.  A     *)
(* keyword is a name, so that one which has "query" needs no other.        *)
(***************************************************************************)
EXTENDS Documents

Selections == {"{", "}", "a", ":", "...", "@"}
Inputs == {"{", "}", "a", "(", ")", ":", "[", "]", "1", "$"}
Arguments == {"{", "}", "a", "(", ")", ":", "[", "]"}
Variables == {"query", "{", "}", "(", ")", "$", ":", "=", "[", "]", "!"}
Signatures == {"query", "{", "}", "(", ")", "$", ":"}
Defaults == Signatures \cup {"="}
Directed == {"query", "{", "}", "(", ")", "$", ":", "@"}
Definitions == {"query", "fragment", "on", "{", "}", "str", "ignored", "broken"}
Described == {"query", "{", "}", "str", "ignored"}

Call(begins, alphabet, maxTokens, ignore, depthLimit, documents) ==
  [begins |-> begins, alphabet |-> alphabet, maxTokens |-> maxTokens, ignore |-> ignore,
   depthLimit |-> depthLimit, documents |-> documents]

\* {a(a:
FirstValue == <<"{", "a", "(", "a", ":">>

\* query($query:
FirstType == <<"query", "(", "$", "query", ":">>

\* query($query:query @query(query:1) $query:
LaterType ==
  <<"query", "(", "$", "query", ":", "query", "@", "query", "(", "query", ":", "1", ")",
    "$", "query", ":">>

\* One document: is it read?
Reads ==
  {Call(<<>>, Inputs, 9, 0, 1, 1), Call(FirstValue, Inputs, 12, 0, 1, 1),
   Call(FirstType, Variables, 15, 2, 1, 1), Call(LaterType, Variables, 22, 2, 1, 1),
   Call(<<>>, Definitions, 5, 0, 1, 1),
   Call(<<"fragment", "query">>, Definitions, 8, 0, 1, 1),
   Call(<<"{", "query", "}">>, Definitions, 8, 0, 1, 1)}

\* Two documents: are they written alike?
Pairs ==
  {Call(<<>>, Selections, 8, 0, 2, 2), Call(<<"{", "...", "on">>, Selections, 9, 0, 2, 2),
   Call(FirstValue, Arguments, 13, 0, 2, 2),
   Call(FirstValue, Inputs, 10, 1, 1, 2), Call(<<"query">>, Signatures, 10, 2, 1, 2),
   Call(FirstType, Defaults, 13, 1, 1, 2), Call(FirstType, Defaults, 13, 2, 1, 2),
   Call(<<>>, Described, 5, 0, 1, 2),
   Call(FirstType \o <<"query">>, Directed \ {"("}, 16, 0, 1, 2)}

\* One token: what do its bytes say?
Token == Call(<<>>, {}, 0, 0, 1, 1)

All == Reads \cup Pairs \cup {Token}

NestedLists == {Call(FirstValue, Arguments, 14, 0, 3, 2)}
LastDirective == {Call(<<"query">>, Directed, 12, 0, 1, 2)}

-----------------------------------------------------------------------------
Spelling(bytes, value) == [bytes |-> bytes, value |-> value]
Plainly(b) == Spelling(<<b>>, <<b>>)

\* \u and four digits
Fixed(a, b, c, d) == <<Backslash, 117, a, b, c, d>>
\* \u{1c}, \u{00005C} and the like
Braced(digits) == <<Backslash, 117, OpenBrace>> \o digits \o <<CloseBrace>>
Lead == Fixed(68, 56, 51, 68)
Trail == Fixed(100, 101, 48, 48)

LineSpellings ==
  {Plainly(97), Plainly(Bar), Spelling(<<Malformed>>, <<NoCharacter>>),
   Spelling(<<Quote>>, <<Quote>>), Spelling(<<28>>, <<NoCharacter>>),
   Spelling(<<Backslash, Backslash>>, <<Backslash>>),
   Spelling(<<Backslash, Quote>>, <<Quote>>), Spelling(<<Backslash, 110>>, <<LF>>),
   Spelling(<<Backslash, 97>>, <<NoCharacter>>),
   Spelling(Fixed(48, 48, 49, 67), <<28>>), Spelling(Braced(<<49, 99>>), <<28>>),
   Spelling(Braced(<<48, 48, 48, 48, 53, 67>>), <<Backslash>>),
   Spelling(Lead, <<55357>>), Spelling(Trail, <<56832>>),
   Spelling(Braced(<<68, 56, 51, 68>>), <<NoCharacter>>),
   Spelling(Braced(<<49, 49, 48, 48, 48, 48>>), <<NoCharacter>>),
   Spelling(Braced(<<49, 70, 54, 48, 48>>), <<128512>>),
   Spelling(Braced(<<>>), <<NoCharacter>>),
   Spelling(Fixed(48, 48, 49, 71), <<NoCharacter>>)}

Paired ==
  {Spelling(Lead, <<55357>>), Spelling(Trail, <<56832>>), Plainly(Bar),
   Spelling(Fixed(48, 48, 49, 67), <<28>>), Spelling(<<Backslash, Backslash>>, <<Backslash>>),
   Spelling(<<Quote>>, <<Quote>>)}

Bytes(set) == {Plainly(b) : b \in set}

Quotes == {Spelling(TripleQuote, <<>>), Spelling(EscapedTripleQuote, <<>>)}

TokenSources ==
  {[kind |-> k[1], spellings |-> k[2], max |-> k[3]] : k \in
     {<<"line", LineSpellings, 3>>, <<"line", Paired, 5>>,
      <<"block", Quotes \cup Bytes({Quote, Backslash, LF, 97, 28, Malformed}), 4>>,
      <<"block", Quotes \cup Bytes({LF, CR, Space, 97}), 6>>,
      <<"number", Bytes({Minus, Zero, 49, Dot, 101, Plus, 97, Space}), 6>>,
      <<"ignored", Bytes({Space, Comma, LF, CR, Hash, BOM, 97, Malformed}), 4>>}}
==============================================================================
