-------------------------------- MODULE Parser --------------------------------
(***************************************************************************)
(* KodeParser::Parse (src/src/parser/parser.cc), which picks statements    *)
(* out of a program line by line, for ExecuteStatement() (ChannelRegistry).*)
(*                                                                         *)
(* A line is the statement its beginning announces and the tokens after    *)
(* it: the characters that the parser looks at (quotes, backslash, braces, *)
(* comma and blank by name), "=>" for an arrow or the word function, "err" *)
(* for any of the patterns of IsCallbackPattern(), "a" for other text.  An *)
(* action is an iteration of the loop of Parse().                          *)
(***************************************************************************)
EXTENDS Integers, Sequences, FiniteSets, SequencesExt

CONSTANTS Programs     \* the programs: sequences of lines

Quotes == {"sq", "dq", "bq"}
Token == Quotes \cup {"(", ")", "comma", "bs", "open", "close", "//", "=>", "err", "a", "space"}

\* How many arguments the statement is made from: no more than Used, and none
\* unless there are at least Needed.  (The conversion of numbers, the defaults
\* for missing arguments and the from of an import are left out.)
Used == [KODE_SPAWN |-> 1, CH_CREATE |-> 2, CH_SEND |-> 2, CH_RECV |-> 1, YIELD_OP |-> 0,
         WITH_TIMEOUT |-> 2, CONSOLE_LOG |-> 1, SET_TIMEOUT |-> 2, FS_READ_FILE |-> 2,
         FS_READ_FILE_SYNC |-> 1, FS_WRITE_FILE |-> 3, REQUIRE |-> 1,
         CONST_DECLARATION |-> 0, LET_DECLARATION |-> 0, VAR_DECLARATION |-> 0]
Needed(type) == IF type \in {"CH_SEND", "FS_WRITE_FILE"} THEN 2 ELSE 0
Types == DOMAIN Used

ASSUME ProgramsAssumption ==
    Programs \subseteq Seq([kind : Types \cup {"UNKNOWN"}, text : Seq(Token)])

VARIABLES
    code,             \* the program
    pos,              \* lines that have been read
    insideCallback,
    braceDepth,
    statements        \* the result

vars == <<code, pos, insideCallback, braceDepth, statements>>

TypeOK ==
    /\ code \in Programs
    /\ pos \in 0 .. Len(code)
    /\ insideCallback \in BOOLEAN
    /\ braceDepth \in Int
    /\ statements \in Seq([type : Types, args : Seq(Seq(Token)), line : Nat])

Init ==
    /\ code \in Programs
    /\ pos = 0
    /\ insideCallback = FALSE
    /\ braceDepth = 0
    /\ statements = <<>>

-----------------------------------------------------------------------------
(* Helpers on text                                                         *)

\* Whether a text has one of these tokens, and the first and the last place it has.
Has(s, tokens) == \E i \in DOMAIN s : s[i] \in tokens
FirstOf(s, tokens) == Min({i \in DOMAIN s : s[i] \in tokens})
LastOf(s, tokens) == Max({i \in DOMAIN s : s[i] \in tokens})

\* How many of the first x tokens are in a set.
Number(s, x, tokens) == Cardinality({j \in 1 .. x : s[j] \in tokens})

\* RemoveComments(): from the first "//" of a line on, in a string or not
RemoveComments(s) ==
    IF Has(s, {"//"}) THEN SubSeq(s, 1, FirstOf(s, {"//"}) - 1) ELSE s

\* TrimWhitespace()
TrimWhitespace(s) ==
    IF Has(s, Token \ {"space"})
      THEN SubSeq(s, FirstOf(s, Token \ {"space"}), LastOf(s, Token \ {"space"}))
      ELSE <<>>

\* The state of the loop of ExtractFunctionArguments() before the first character.
Start == [args |-> <<>>, cur |-> <<>>, quote |-> "none", escape |-> FALSE, depth |-> 0]

\* A comma outside of strings and parentheses ends an argument.
Cut(st) == [st EXCEPT !.args = Append(@, TrimWhitespace(st.cur)), !.cur = <<>>]

\* The quotation after a character: the one it ends, or begins.
QuoteAfter(quote, c) ==
    IF quote = "none" THEN (IF c \in Quotes THEN c ELSE quote)
    ELSE IF c = quote THEN "none" ELSE quote

\* Mutant: quotes are not tracked.
MutantNoQuotes(st, c) ==
    IF ~st.escape /\ c = "comma" /\ st.depth = 0
      THEN Cut(st)
      ELSE [st EXCEPT !.cur = Append(@, c),
                      !.escape = ~@ /\ c = "bs",
                      !.depth = IF ~st.escape /\ c = "(" THEN @ + 1
                                ELSE IF ~st.escape /\ c = ")" /\ @ > 0 THEN @ - 1 ELSE @]

\* One character; after a backslash, and inside a string, it has no meaning.
Scan(st, c) ==
    LET plain == ~st.escape /\ st.quote = "none" IN
    IF plain /\ c = "comma" /\ st.depth = 0
      THEN Cut(st)
      ELSE [st EXCEPT !.cur = Append(@, c),
                      !.escape = ~@ /\ c = "bs",
                      !.quote = IF st.escape THEN @ ELSE QuoteAfter(@, c),
                      !.depth = IF plain /\ c = "(" THEN @ + 1
                                ELSE IF plain /\ c = ")" /\ @ > 0 THEN @ - 1 ELSE @]

\* What is between the first "(" and the last ")", or nothing.
Between(s) ==
    IF Has(s, {"("}) /\ Has(s, {")"})
      THEN SubSeq(s, FirstOf(s, {"("}) + 1, LastOf(s, {")"}) - 1)
      ELSE <<>>

\* The loop of ExtractFunctionArguments(): its state after each character of a text
Loop(text) ==
    LET st[i \in 0 .. Len(text)] == IF i = 0 THEN Start ELSE Scan(st[i - 1], text[i]) IN st

\* ExtractFunctionArguments(): the text between the parentheses, split
ExtractFunctionArguments(s) ==
    LET text == Between(s)
        st == Loop(text)[Len(text)]
    IN  IF text = <<>> THEN <<>> ELSE Append(st.args, TrimWhitespace(st.cur))

\* ExtractStringLiteral(): without the quotes around it, if there are any
ExtractStringLiteral(s) ==
    LET t == TrimWhitespace(s) IN
    IF Len(t) >= 2 /\ t[1] \in Quotes /\ t[Len(t)] = t[1] THEN SubSeq(t, 2, Len(t) - 1) ELSE t

-----------------------------------------------------------------------------
(* Parse()                                                                 *)

\* ParseLine(): the statement with the arguments it uses; console.log takes all
\* between the parentheses as one
ParseLine(kind, s) ==
    LET args == IF kind = "CONSOLE_LOG" THEN <<Between(s)>> ELSE ExtractFunctionArguments(s)
        used == IF Len(args) < Needed(kind) THEN <<>>
                ELSE SubSeq(args, 1, IF Len(args) < Used[kind] THEN Len(args) ELSE Used[kind])
    IN  [type |-> kind, args |-> [i \in DOMAIN used |-> ExtractStringLiteral(used[i])], line |-> pos + 1]

\* What the first x tokens of a line add to the depth.
Net(s, x) == Number(s, x, {"open"}) - Number(s, x, {"close"})

\* Mutant: a callback goes on for one closing brace too long.
MutantCallbackGoesOn(depth) == depth >= 0

\* Inside a callback, lines are skipped while the braces are open.
CallbackGoesOn(depth) == depth > 0

\* An iteration: an empty line changes nothing; a line of a callback, its last
\* one included, and a line with a callback pattern are skipped; any other is
\* parsed.
ParseNext ==
    LET kind == code[pos + 1].kind
        s == RemoveComments(code[pos + 1].text)
        depth == braceDepth + Net(s, Len(s))
        inside == insideCallback \/ Has(s, {"=>"})
        empty == kind = "UNKNOWN" /\ TrimWhitespace(s) = <<>>
    IN
    /\ pos < Len(code)
    /\ pos' = pos + 1
    /\ braceDepth' = IF empty THEN braceDepth ELSE depth
    /\ insideCallback' = IF empty THEN insideCallback ELSE inside /\ CallbackGoesOn(depth)
    /\ statements' = IF empty \/ inside \/ Has(s, {"err"}) \/ kind = "UNKNOWN"
                       THEN statements
                       ELSE Append(statements, ParseLine(kind, s))
    /\ UNCHANGED code

Parsed == pos = Len(code) /\ UNCHANGED vars

Next == ParseNext \/ Parsed

Spec == Init /\ [][Next]_vars

-----------------------------------------------------------------------------
(* Correctness                                                             *)

\* Reference: the depth after n lines of a program p, and after token x of line n.
Text(p, n) == RemoveComments(p[n].text)
DepthAfter(p) ==
    LET d[n \in 0 .. Len(p)] == IF n = 0 THEN 0 ELSE d[n - 1] + Net(Text(p, n), Len(Text(p, n))) IN d
Depth(p, n, x) == DepthAfter(p)[n - 1] + Net(Text(p, n), x)

\* The block that token x of line k opens is open after n lines: the depth has
\* not fallen below the block since.
Open(p, k, x, n) ==
    /\ Text(p, k)[x] = "open"
    /\ \A y \in x .. Len(Text(p, k)) : Depth(p, k, y) >= Depth(p, k, x)
    /\ \A m \in k + 1 .. n : \A y \in 0 .. Len(Text(p, m)) : Depth(p, m, y) >= Depth(p, k, x)

\* A block that a line with an arrow opened is open after n lines.
Arrow(p, k) == Has(Text(p, k), {"=>"})
InCallback(p, n) == \E k \in 1 .. n : Arrow(p, k) /\ \E x \in DOMAIN Text(p, k) : Open(p, k, x, n)

\* The programs the parser is made for: braces match, callbacks begin outside of
\* blocks, and the line that ends a callback opens nothing.
WellFormed(p) ==
    \A n \in DOMAIN p :
        /\ \A x \in 0 .. Len(Text(p, n)) : Depth(p, n, x) >= 0
        /\ Arrow(p, n) => DepthAfter(p)[n - 1] = 0
        /\ InCallback(p, n - 1) /\ Has(Text(p, n), {"open"}) => InCallback(p, n)

\* The lines, of the first n, with a statement outside of callbacks.
Outside(p, n) ==
    {i \in 1 .. n : ~InCallback(p, i - 1) /\ ~Has(Text(p, i), {"=>", "err"}) /\ p[i].kind # "UNKNOWN"}

\* Two scalars, a depth and a flag, stand for the nesting of blocks: of a well
\* formed program, Parse() has taken exactly the statements of the lines it has
\* read that are not inside a callback, in their order; statements in other
\* blocks are taken, and nothing after a callback is swallowed.
ParsesOutsideCallbacks ==
    WellFormed(code) =>
        /\ {statements[k].line : k \in DOMAIN statements} = Outside(code, pos)
        /\ \A j, k \in DOMAIN statements : j < k => statements[j].line < statements[k].line

\* Reference: places outside of quotations, in a text with one kind of quote and
\* no escapes, and how deep in parentheses the text is there.
Unquoted(s) == {i \in DOMAIN s : Number(s, i, {"sq"}) % 2 = 0}
Nesting(s, i) ==
    Cardinality({j \in Unquoted(s) : j <= i /\ s[j] = "("})
      - Cardinality({j \in Unquoted(s) : j <= i /\ s[j] = ")"})
Cuts(s) == {i \in Unquoted(s) : s[i] = "comma" /\ Nesting(s, i) = 0}
Plain(s) == ~Has(s, (Quotes \ {"sq"}) \cup {"bs"}) /\ \A i \in DOMAIN s : Nesting(s, i) >= 0

\* What is between a cut, or the beginning, and the next cut, or the end, is the
\* argument whose number is one more than the cuts before it.
Pieces(s, args) ==
    /\ Len(args) = Cardinality(Cuts(s)) + 1
    /\ \A a \in Cuts(s) \cup {0}, b \in Cuts(s) \cup {Len(s) + 1} :
          a < b /\ (\A c \in Cuts(s) : c <= a \/ b <= c) =>
            args[Cardinality({c \in Cuts(s) : c <= a}) + 1] = TrimWhitespace(SubSeq(s, a + 1, b - 1))

\* The text of the line just read up to the first comma outside quotes and
\* parentheses is the first argument, and so on: nothing is lost but the white
\* space around arguments, a comma in a string or in a nested call does not
\* split, and every other does.
ArgumentsSplit ==
    pos > 0 => LET s == Text(code, pos) IN
               Between(s) # <<>> /\ Plain(Between(s)) => Pieces(Between(s), ExtractFunctionArguments(s))
=============================================================================
