------------------------------- MODULE SqlNorm -------------------------------
(***************************************************************************)
(* Normalisation of SQL (sqlnorm/sqlnorm.go, docs/sql-normalization.md):   *)
(* one pass over the text puts ? for each literal, keeps the literals as   *)
(* parameters, cuts off the tail of values and folds lists.  The norm is   *)
(* the key queries are grouped by.                                         *)
(*                                                                         *)
(* A letter is a byte, or one of the words the rules know: "IN", "VALUES", *)
(* "N", "P", "p_".  Hexadecimal numbers, exponents and carriage returns    *)
(* are left out.  Each token is a step.                                    *)
(***************************************************************************)
EXTENDS Integers, Sequences, SequencesExt

CONSTANTS
  Statements,  \* texts in pieces: what each is, and what else it might say for the same norm
  ListDepth    \* how deep in brackets lists are folded (64)

Letters == {"a", "IN", "VALUES", "N", "P", "p_"}
Numerals == {"5"}
Marks == {"'", "?", "#", "@", "[", "]", "(", ")", ",", "-", "=", ".", ":"}
Spaces == {" ", "nl"}

SqlText == Letters \cup Numerals \cup Marks \cup Spaces

\* A piece is a literal with its value, a placeholder, a value of the tail, or plain text.
SqlPiece ==
  [kind : {"literal", "slot", "tail", "plain"},
   text : Seq(SqlText), other : Seq(SqlText), value : Seq(SqlText)]

ASSUME StatementsAreTexts == ListDepth \in Nat /\ Statements \subseteq Seq(SqlPiece)

VARIABLES
  given,                  \* the statement
  pass,                   \* "none", or over what: its text ("first"), its norm ("norm"), or
                          \* its other text ("other")
  key,                    \* history: the norm of the first pass
  sql, pos,               \* Normalize: the input, and the place in it, 0 before the start
  out, params,
  slots, tails,           \* Normalizer.qPos, Normalizer.tails
  groups,                 \* what each open bracket is: a list, rows of VALUES, or neither
  pendingKw, valuesCont, prevIdent,
  finished

context == <<pendingKw, valuesCont, prevIdent>>
sqlVars == <<given, pass, key, sql, pos, out, params, slots, tails, groups, context, finished>>

-----------------------------------------------------------------------------
(* Scanning *)

IdentCont == Letters \cup Numerals \cup {"#", "@"}

Is(k, S) == k \in DOMAIN sql /\ sql[k] \in S

\* The first place from k on that holds none of S.
Past(k, S) ==
  CHOOSE j \in k .. Len(sql) + 1 : ~Is(j, S) /\ \A m \in k .. j - 1 : Is(m, S)

\* scanString, from behind the quote: '' stands for a quote, an open one runs to the end.
ScanString(from) ==
  LET scan[k \in from .. Len(sql) + 2] ==
        IF k > Len(sql) THEN [value |-> <<>>, next |-> Len(sql) + 1]
        ELSE IF sql[k] # "'" THEN [scan[k + 1] EXCEPT !.value = <<sql[k]>> \o @]
        ELSE IF Is(k + 1, {"'"}) THEN [scan[k + 2] EXCEPT !.value = <<"'">> \o @]
        ELSE [value |-> <<>>, next |-> k + 1]
  IN scan[from]

\* Behind the bracket that ends a [name], ]] being a bracket of the name.
BracketEnd(from) ==
  LET close[k \in from .. Len(sql) + 2] ==
        IF k > Len(sql) THEN Len(sql) + 1
        ELSE IF sql[k] # "]" THEN close[k + 1]
        ELSE IF Is(k + 1, {"]"}) THEN close[k + 2] ELSE k + 1
  IN close[from]

\* scanNumber: a sign, digits, a point and digits.
NumberEnd(from) ==
  LET whole == Past(IF Is(from, {"-"}) THEN from + 1 ELSE from, Numerals)
  IN IF Is(whole, {"."}) THEN Past(whole + 1, Numerals) ELSE whole

NumberAt(k) == Is(k, Numerals) \/ (Is(k, {"."}) /\ Is(k + 1, Numerals))

\* tailLine: where the value of a line "p_N: value" begins, or 0.
TailLine(k) ==
  LET colon == Past(k + 1, Numerals)
  IN IF Is(k, {"p_"}) /\ colon > k + 1 /\ Is(colon, {":"})
       THEN (IF Is(colon + 1, {" "}) THEN colon + 2 ELSE colon + 1)
       ELSE 0

LineEnd(k) == Past(k, SqlText \ {"nl"})

\* Behind the empty lines at k.
SkipEmpty(k) ==
  LET skip[j \in k .. Len(sql) + 1] ==
        LET n == Past(j, {" "}) IN IF Is(n, {"nl"}) THEN skip[n + 1] ELSE j
  IN skip[k]

\* Mutant of ParseTail: a value ends with its line, in quotes or not.
ParseTailByLine(from) ==
  LET parse[k \in from .. Len(sql) + 1] ==
        LET rest == SkipEmpty(IF Is(LineEnd(k), {"nl"}) THEN LineEnd(k) + 1 ELSE LineEnd(k))
        IN IF TailLine(rest) = 0 THEN [values |-> <<SubSeq(sql, k, LineEnd(k) - 1)>>, next |-> rest]
           ELSE [parse[TailLine(rest)] EXCEPT
                   !.values = <<SubSeq(sql, k, LineEnd(k) - 1)>> \o @]
  IN parse[from]

\* parseTail: the values of the lines that follow, a string over as many lines as it
\* takes; what comes behind its quote is ignored.
ParseTail(from) ==
  LET parse[k \in from .. Len(sql) + 1] ==
        LET quoted == Is(k, {"'"})
            value == IF quoted THEN ScanString(k + 1).value ELSE SubSeq(sql, k, LineEnd(k) - 1)
            end == LineEnd(IF quoted THEN ScanString(k + 1).next ELSE k)
            rest == SkipEmpty(IF Is(end, {"nl"}) THEN end + 1 ELSE end)
        IN IF TailLine(rest) = 0 THEN [values |-> <<value>>, next |-> rest]
           ELSE [parse[TailLine(rest)] EXCEPT !.values = <<value>> \o @]
  IN parse[from]

\* Spaces and line ends from k on, with the tails that begin in them.
Blanks(k) ==
  LET skip[j \in k .. Len(sql) + 1] ==
        IF ~Is(j, Spaces) THEN [values |-> <<>>, next |-> j]
        ELSE IF sql[j] = "nl" /\ TailLine(j + 1) # 0
          THEN LET tail == ParseTail(TailLine(j + 1))
               IN [skip[tail.next] EXCEPT !.values = tail.values \o @]
        ELSE skip[j + 1]
  IN skip[k]

-----------------------------------------------------------------------------
(* What is written *)

Ends(s, letter) == s # <<>> /\ Last(s) = letter
Trimmed(s) == IF Ends(s, " ") THEN Front(s) ELSE s

\* unaryContext
Unary == Trimmed(out) # <<>> => Last(Trimmed(out)) \in {"(", ",", "=", "-"}

InList == groups # <<>> /\ Last(groups) # "none" /\ Len(groups) <= ListDepth

\* emitPlaceholder: in a list a ? behind a ? and a comma is left out.
WithPlaceholder ==
  LET comma == Trimmed(out) IN
    IF InList /\ Ends(comma, ",") /\ Ends(Trimmed(Front(comma)), "?")
      THEN Trimmed(Front(comma)) ELSE Append(out, "?")

\* collapseRowCtor: a second (?) behind a (?) is left out.
Row1 == <<"(", "?", ")">>
EndsWithRow(s) == Len(s) >= 3 /\ SubSeq(s, Len(s) - 2, Len(s)) = Row1
CollapseRows(s) ==
  LET comma == Trimmed(SubSeq(s, 1, Len(s) - 3))
      row == Trimmed(Front(comma))
  IN IF EndsWithRow(s) /\ Ends(comma, ",") /\ EndsWithRow(row) THEN row ELSE s

Keyword(word) ==
  IF word = <<"IN">> THEN "list" ELSE IF word = <<"VALUES">> THEN "rows" ELSE "none"

-----------------------------------------------------------------------------
(* The tokens *)

Token(S) == ~finished /\ Is(pos, S)
After(ident, cont) == prevIdent' = ident /\ pendingKw' = "none" /\ valuesCont' = cont
Copy(next) == out' = out \o SubSeq(sql, pos, next - 1) /\ pos' = next
SameText == UNCHANGED <<given, pass, key, sql, finished>>

Literal(value, next) ==
  /\ params' = Append(params, value) /\ out' = WithPlaceholder /\ pos' = next
  /\ After(FALSE, FALSE)
  /\ SameText /\ UNCHANGED <<slots, tails, groups>>

Blank ==
  /\ Token(Spaces)
  /\ pos' = Blanks(pos).next /\ tails' = tails \o Blanks(pos).values
  /\ out' = IF out = <<>> \/ Ends(out, " ") THEN out ELSE Append(out, " ")
  /\ prevIdent' = FALSE /\ UNCHANGED <<pendingKw, valuesCont>>
  /\ SameText /\ UNCHANGED <<params, slots, groups>>

String ==
  /\ Token({"'"}) /\ LET s == ScanString(pos + 1) IN Literal(s.value, s.next)

\* N'...'
Unicode ==
  /\ Token({"N"}) /\ Is(pos + 1, {"'"})
  /\ LET s == ScanString(pos + 2) IN Literal(s.value, s.next)

Word ==
  /\ Token(Letters) /\ ~(sql[pos] = "N" /\ Is(pos + 1, {"'"}))
  /\ Copy(Past(pos, IdentCont))
  /\ pendingKw' = Keyword(SubSeq(sql, pos, pos' - 1))
  /\ prevIdent' = TRUE /\ valuesCont' = FALSE
  /\ SameText /\ UNCHANGED <<params, slots, tails, groups>>

DigitOfName ==
  /\ Token(Numerals) /\ prevIdent
  /\ Copy(pos + 1)
  /\ SameText /\ UNCHANGED <<params, slots, tails, groups, context>>

SignedNumber == Is(pos, {"-"}) /\ Unary /\ NumberAt(pos + 1)

Number ==
  /\ ~finished
  /\ (NumberAt(pos) /\ ~prevIdent) \/ SignedNumber
  /\ Literal(SubSeq(sql, pos, NumberEnd(pos) - 1), NumberEnd(pos))

\* A ? of the text: its value is in the tail.
Placeholder ==
  /\ Token({"?"})
  /\ params' = Append(params, <<"?">>) /\ slots' = Append(slots, Len(params) + 1)
  /\ out' = WithPlaceholder /\ pos' = pos + 1
  /\ After(FALSE, FALSE)
  /\ SameText /\ UNCHANGED <<tails, groups>>

\* Mutant of TempTable: only the digits right behind the letters are left out.
TempTableInside ==
  /\ Token({"#"})
  /\ out' = out \o SubSeq(sql, pos, Past(pos + 1, IdentCont \ Numerals) - 1)
  /\ pos' = Past(Past(pos + 1, IdentCont \ Numerals), Numerals)
  /\ After(TRUE, FALSE)
  /\ SameText /\ UNCHANGED <<params, slots, tails, groups>>

\* #tt123 is #tt.
TempTable ==
  /\ Token({"#"})
  /\ out' = out \o SubSeq(sql, pos, Past(pos + 1, IdentCont \ Numerals) - 1)
  /\ pos' = Past(pos + 1, IdentCont)
  /\ After(TRUE, FALSE)
  /\ SameText /\ UNCHANGED <<params, slots, tails, groups>>

\* @P1 is @P; other names keep their digits.
Variable ==
  /\ Token({"@"})
  /\ LET end == Past(pos + 1, IdentCont)
         digits == IF Is(pos + 1, {"P"}) THEN Past(pos + 2, Numerals) ELSE pos + 2
     IN /\ out' = IF digits > pos + 2
                    THEN out \o <<"@", "P">> \o SubSeq(sql, digits, end - 1)
                    ELSE out \o SubSeq(sql, pos, end - 1)
        /\ pos' = end
  /\ After(TRUE, FALSE)
  /\ SameText /\ UNCHANGED <<params, slots, tails, groups>>

\* [name]
Bracketed ==
  /\ Token({"["})
  /\ Copy(BracketEnd(pos + 1))
  /\ After(TRUE, FALSE)
  /\ SameText /\ UNCHANGED <<params, slots, tails, groups>>

OpenParen ==
  /\ Token({"("})
  /\ Copy(pos + 1)
  /\ groups' = Append(groups, IF valuesCont THEN "rows" ELSE pendingKw)
  /\ After(FALSE, FALSE)
  /\ SameText /\ UNCHANGED <<params, slots, tails>>

CloseParen ==
  /\ Token({")"})
  /\ LET rows == InList /\ Last(groups) = "rows"
         closed == Append(out, ")")
     IN /\ out' = (IF rows THEN CollapseRows(closed) ELSE closed)
        /\ After(FALSE, rows)
  /\ groups' = (IF groups = <<>> THEN <<>> ELSE Front(groups)) /\ pos' = pos + 1
  /\ SameText /\ UNCHANGED <<params, slots, tails>>

Comma ==
  /\ Token({","})
  /\ Copy(pos + 1) /\ After(FALSE, valuesCont)
  /\ SameText /\ UNCHANGED <<params, slots, tails, groups>>

Other ==
  /\ Token(Marks \ {"'", "?", "#", "@", "[", "(", ")", ","})
  /\ ~SignedNumber /\ ~(NumberAt(pos) /\ ~prevIdent)
  /\ Copy(pos + 1) /\ After(FALSE, FALSE)
  /\ SameText /\ UNCHANGED <<params, slots, tails, groups>>

-----------------------------------------------------------------------------
(* A call *)

Scratch(text) ==
  /\ sql' = text /\ pos' = 0 /\ out' = <<>> /\ params' = <<>>
  /\ slots' = <<>> /\ tails' = <<>> /\ groups' = <<>>
  /\ After(FALSE, FALSE) /\ finished' = FALSE

\* A tail may begin with the first byte.
Start ==
  /\ pos = 0 /\ ~finished
  /\ IF TailLine(1) # 0
       THEN pos' = ParseTail(TailLine(1)).next /\ tails' = ParseTail(TailLine(1)).values
       ELSE pos' = 1 /\ UNCHANGED tails
  /\ SameText /\ UNCHANGED <<out, params, slots, groups, context>>

\* The k-th slot takes the k-th value of the tail, or stays a ?.
Finish ==
  /\ pos = Len(sql) + 1 /\ ~finished
  /\ finished' = TRUE
  /\ out' = Trimmed(out)
  /\ params' = [n \in DOMAIN params |->
                 IF \E k \in DOMAIN slots \cap DOMAIN tails : slots[k] = n
                   THEN tails[CHOOSE k \in DOMAIN slots : slots[k] = n] ELSE params[n]]
  /\ key' = IF pass = "first" THEN out' ELSE key
  /\ UNCHANGED <<given, pass, sql, pos, slots, tails, groups, context>>

TextOf(st) == FlattenSeq([k \in DOMAIN st |-> st[k].text])
OtherOf(st) == FlattenSeq([k \in DOMAIN st |-> st[k].other])

First ==
  /\ pass = "none"
  /\ \E st \in Statements : given' = st /\ Scratch(TextOf(st))
  /\ pass' = "first" /\ UNCHANGED key

Again ==
  /\ finished /\ pass = "first"
  /\ \/ pass' = "norm" /\ Scratch(key)
     \/ pass' = "other" /\ Scratch(OtherOf(given))
  /\ UNCHANGED <<given, key>>

SqlInit ==
  /\ given = <<>> /\ pass = "none" /\ key = <<>>
  /\ sql = <<>> /\ pos = 0 /\ out = <<>> /\ params = <<>>
  /\ slots = <<>> /\ tails = <<>> /\ groups = <<>>
  /\ pendingKw = "none" /\ valuesCont = FALSE /\ prevIdent = FALSE /\ finished = TRUE

SqlNext ==
  \/ First \/ Start \/ Finish \/ Again
  \/ Blank \/ String \/ Unicode \/ Word \/ DigitOfName \/ Number \/ Placeholder
  \/ TempTable \/ Variable \/ Bracketed \/ OpenParen \/ CloseParen \/ Comma \/ Other

SqlSpec == SqlInit /\ [][SqlNext]_sqlVars

-----------------------------------------------------------------------------
(* Properties *)

\* No value is left in a norm (P2, P3 and P6 of the rules): no quote, and no ? without a
\* parameter.  A [name] is copied as it is, whatever it holds.
ValuesAreOut ==
  "[" \notin ToSet(key) =>
    "'" \notin ToSet(key) /\ Cardinality({n \in DOMAIN key : key[n] = "?"}) <= Len(params)

\* The norm normalises to itself (P1), each ? in it being a parameter and nothing else.
\* One that a tail of values begins, or that ends in a space of an open [name], does not.
NormIsFixed ==
  TailLine(1) = 0 /\ ~Ends(key, " ") =>
    /\ out = key
    /\ \A n \in DOMAIN params : params[n] = <<"?">>
    /\ "[" \notin ToSet(key) => Len(params) = Cardinality({n \in DOMAIN key : key[n] = "?"})

\* The norm is a key by which queries can be grouped: it is made from the statement by
\* taking all values out, and there is nothing more to take.
NormIsKey ==
  /\ finished /\ pass = "first" => ValuesAreOut
  /\ finished /\ pass = "norm" => NormIsFixed

\* The parameters are the statement's literals and placeholders in their order, each
\* placeholder with its value of the tail or unresolved, however lists were folded: what
\* drilling down to the n-th parameter of a norm relies on.
ParamsInOrder ==
  LET Of(kinds) == SelectSeq(given, LAMBDA piece : piece.kind \in kinds)
      holes == Of({"literal", "slot"})
      values == Of({"tail"})
      Nth(n) == Cardinality({m \in 1 .. n : holes[m].kind = "slot"})
  IN params = [n \in DOMAIN holes |->
                IF holes[n].kind = "literal" THEN holes[n].value
                ELSE IF Nth(n) <= Len(values) THEN values[Nth(n)].value ELSE <<"?">>]

\* The values are in the parameters and only there: a statement's parameters are in their
\* order, and a statement that differs from it only in spacing, values, the length of its
\* lists and rows, or the numbers of its temporary tables and parameters has its norm.
ValuesAreParams ==
  /\ finished /\ pass = "first" => ParamsInOrder
  /\ finished /\ pass = "other" => out = key
==============================================================================
