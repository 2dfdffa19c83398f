------------------------------- MODULE MCParsing -------------------------------
(***************************************************************************)
(* Instance of Parsing: every file of up to three lines and one that is    *)
(* not finished, events of up to four properties, texts 1C would not       *)
(* write, and SQL of up to three fragments and two values.                 *)
(***************************************************************************)
EXTENDS Parsing

Lines == {<<"m", ",", "nl">>, <<"m", "d", ",", "x", "nl">>, <<"x", "nl">>, <<"m", "nl">>}
Tails == {<<>>, <<"m", ",">>, <<"m">>, <<"x">>}
Begins == {<<>>, Mark, <<"EF">>}

MCFiles ==
  {b \o FlattenSeq(ls) \o t : b \in Begins, ls \in UNION {[1 .. n -> Lines] : n \in 0 .. 3},
                              t \in Tails}

-----------------------------------------------------------------------------
Plain == {<<>>, <<"0">>, <<"7">>, <<"a">>}
Special == {<<"'">>, <<"\"", ",">>, <<",", "'", "a">>, <<"nl">>}

Props(names) ==
  [name : names, value : Plain, quote : {""}] \cup [name : names, value : Special, quote : {"'", "\""}]

Head0 == <<"t", "-", "0", "7", ",", "E", ",", "7">>

Event(ps) == [text |-> Head0 \o Written(ps) \o <<"nl">>, wrote |-> ps, known |-> TRUE]

Few == [name : {<<"Usr">>, <<"SessionID">>, <<"event">>, <<"x">>}, value : {<<"7">>, <<"a">>},
        quote : {""}]
Sources == {<<"t:clientID">>, <<"ClientID">>, <<"Sql">>, <<"Query">>}
Wrong ==
  {Head0 \o <<",">> \o tail : tail \in
     UNION {[1 .. n -> {"x", "=", "'", "\"", ","}] : n \in 0 .. 4}}
  \cup {<<"t", "-", "0", "0", ",", "E", "nl">>,
         <<"t", "-", "7", "7", "7", ",", "E", ",", "a", "nl">>}

MCTexts ==
  {Event(ps) : ps \in UNION {[1 .. n -> Few] : n \in 0 .. 4}}
  \cup {Event(ps) : ps \in [1 .. 2 -> Props({<<"x">>, <<"SessionID">>})]}
  \cup {Event(ps) : ps \in [1 .. 2 -> Props(Sources)]}
  \cup {[text |-> w, wrote |-> <<>>, known |-> FALSE] : w \in Wrong}

MCDate == <<"date">>

-----------------------------------------------------------------------------
\* The pieces of SQL; the other text of a piece has the same norm.
Sql(text) == [text |-> text, other |-> text, kind |-> "plain", value |-> <<>>]
Same(text, other) == [Sql(text) EXCEPT !.other = other]
Lit(text, other, value) == [text |-> text, other |-> other, kind |-> "literal", value |-> value]
Hole == [Sql(<<"?">>) EXCEPT !.kind = "slot"]
PLine(text, other, value) == [text |-> text, other |-> other, kind |-> "tail", value |-> value]

Five == Lit(<<"5">>, <<"'", "a", "'">>, <<"5">>)
Quoted == Lit(<<"'", "a", "'", "'", "nl", "p_", "5", ":", "'">>, <<"5", ".", "5">>,
                <<"a", "'", "nl", "p_", "5", ":">>)
Between == Same(<<" ">>, <<" ", "nl", " ">>)
More == Same(<<>>, <<" ", ",", " ", "'", "a", "'">>)
MoreRows == Same(<<>>, <<" ", ",", " ", "(", "5", ",", "5", ")">>)

Fragments ==
  { <<Sql(<<"a">>)>>, <<Sql(<<"a", "5">>)>>, <<Five>>, <<Quoted>>, <<Hole>>,
    <<Lit(<<"N", "'", "a", "'">>, <<".", "5">>, <<"a">>)>>,
    <<Sql(<<"N">>)>>, <<Sql(<<"=">>), Lit(<<"-", "5">>, <<"5">>, <<"-", "5">>)>>,
    <<Sql(<<"a", "-">>), Five>>,
    <<Sql(<<"IN">>)>>, <<Sql(<<"VALUES">>)>>, <<Sql(<<"(">>)>>, <<Sql(<<")">>)>>, <<Sql(<<",">>)>>,
    <<Sql(<<"IN", "(">>), Five, More, Sql(<<",">>), Hole, More, Sql(<<")">>)>>,
    <<Sql(<<"IN">>), Between, Sql(<<"(">>), Five, Sql(<<",", "a", ",">>), Five, Sql(<<")">>)>>,
    <<Sql(<<"VALUES", "(">>), Five, More, Sql(<<")">>), MoreRows>>,
    <<Sql(<<",", "(">>), Hole, Sql(<<",">>), Between, Five, Sql(<<")">>)>>,
    <<Same(<<"#", "a", "5", "a", "5">>, <<"#", "a", "5", "5">>)>>,
    <<Same(<<"@", "P", "5">>, <<"@", "P", "5", "5">>), Sql(<<"=", "@", "a", "5">>)>>,
    <<Sql(<<"[", "?", "]", "]", "5", "]">>)>> }

\* Ends of a text: a string that is not closed, lists nested deeper than any folded.
Last0 ==
  { <<Lit(<<"'", "a">>, <<"'", "5", "nl">>, <<"a">>)>>,
    <<Sql(<<"IN", "(", "IN", "(", "IN", "(", "IN", "(">>), Five, Sql(<<",">>), Five>> }

PLines ==
  { PLine(<<"nl", "p_", "5", ":", "5">>, <<"nl", "p_", "5", "5", ":", " ", "'", "a", "'", "a">>,
          <<"5">>),
    PLine(<<"nl", " ", "nl", "p_", "5", ":", " ", "'", "a", "nl", "p_", "5", ":", "a", "'", " ">>,
          <<"nl", "p_", "5", ":">>, <<"a", "nl", "p_", "5", ":", "a">>) }

\* Texts whose norms are no keys: a tail begins the one, an open [name] ends the other.
NoKeys == {<<Between, Sql(<<"p_", "5", ":">>), Five>>, <<Sql(<<"[", "a", " ", " ">>)>>}

Spaced(fs) == FlattenSeq([n \in DOMAIN fs |-> <<Between>> \o fs[n]])

MCStatements ==
  {Spaced(fs) : fs \in [1 .. 3 -> Fragments]}
  \cup {Spaced(fs) \o ps : fs \in [1 .. 2 -> Fragments],
                            ps \in UNION {[1 .. n -> PLines] : n \in 1 .. 2}}
  \cup {Spaced(<<f, l>>) : f \in Fragments, l \in Last0}
  \cup {<<PLine(Tail(p.text), Tail(p.text), p.value)>> \o <<Sql(<<"nl">>)>> \o f :
           p \in PLines, f \in Fragments}
  \cup NoKeys
==============================================================================
