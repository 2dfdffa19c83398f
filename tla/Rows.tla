--------------------------------- MODULE Rows ---------------------------------
(***************************************************************************)
(* From the text of an event to a row of the table, by the two ways the    *)
(* follow mode knows: directly (parser.ParseEventFields, ScanProps,        *)
(* RowBuilder.Build) and through the disk buffer, as a line of NDJSON      *)
(* written by parser.AppendEvent and read back by RowBuilder.BuildNDJSON.  *)
(*                                                                         *)
(* A text is a sequence of letters; a word with no syntax of its own, such *)
(* as the name of a property or the time of the event, is one letter.  A   *)
(* line of NDJSON is the sequence of its keys, each with its values; the   *)
(* escaping of strings is left out.                                        *)
(***************************************************************************)
EXTENDS Integers, Sequences, SequencesExt

CONSTANTS
  Texts,      \* events, each with the properties that 1C wrote in it, if it is known to be
              \* written well
  Date,       \* DateFromFilename: one letter, or <<>> for a file named otherwise
  UintMax     \* the largest value of a number column

ASSUME RowsBounds == UintMax \in Nat
ASSUME DateIsLetter == Date \in Seq(STRING) /\ Len(Date) <= 1

Digits == {"0", "7"}

\* Every event begins as IsEventStart has it, else the scanner does not give it: the
\* time, a dash, one digit or more and a comma.
ASSUME TextsAreEvents ==
  \A e \in Texts :
    /\ e.text \in Seq(STRING)
    /\ \E k \in 4 .. Len(e.text) :
         /\ e.text[1] \notin {"-", ",", "nl"} /\ e.text[2] = "-" /\ e.text[k] = ","
         /\ \A j \in 3 .. k - 1 : e.text[j] \in Digits

\* What 1C writes (format-spec 4): a value with quotes of either kind around it has those
\* inside doubled.
Doubled(value, quote) ==
  FlattenSeq([i \in DOMAIN value |-> IF value[i] = quote THEN <<quote, quote>> ELSE <<value[i]>>])

Shown(prop) ==
  IF prop.quote = "" THEN prop.value
  ELSE <<prop.quote>> \o Doubled(prop.value, prop.quote) \o <<prop.quote>>

Written(props) ==
  FlattenSeq([i \in DOMAIN props |-> <<",">> \o props[i].name \o <<"=">> \o Shown(props[i])])

\* A name has no =, and a value is without quotes only if there is nothing in it to protect.
WellWritten(prop) ==
  /\ "=" \notin ToSet(prop.name)
  /\ \/ prop.quote \in {"'", "\""}
     \/ /\ prop.quote = "" /\ ToSet(prop.value) \cap {",", "nl"} = {}
        /\ prop.value # <<>> => prop.value[1] \notin {"'", "\""}

\* The properties stand behind the header, which has two commas in it; ends of lines follow.
ASSUME KnownAreWritten ==
  \A e \in Texts : e.known =>
    /\ e.wrote \in Seq([name : Seq(STRING), value : Seq(STRING), quote : STRING])
    /\ \A i \in DOMAIN e.wrote : WellWritten(e.wrote[i])
    /\ LET written == Written(e.wrote) IN
       \E h \in 1 .. Len(e.text) - Len(written) :
         /\ \E a, b \in 1 .. h :
              /\ a < b /\ e.text[a] = "," /\ e.text[b] = ","
              /\ \A i \in 1 .. h : e.text[i] # "nl" /\ (e.text[i] = "," => i \in {a, b})
         /\ \A i \in DOMAIN written : e.text[h + i] = written[i]
         /\ \A i \in h + Len(written) + 1 .. Len(e.text) : e.text[i] = "nl"

VARIABLES
  rich,      \* which schema the builders are for
  stage,     \* "start", "encoded", "built", "replayed"
  event,
  line,      \* the event as NDJSON
  direct, replayed,      \* rows
  hotDirect, hotReplay   \* richHot of the two builders, between events

rowVars == <<rich, stage, event, line, direct, replayed, hotDirect, hotReplay>>

-----------------------------------------------------------------------------
(* The text of an event *)

\* The first place of c in s, from one on, or 0.
Index(s, c, from) ==
  LET at == {i \in from .. Len(s) : s[i] = c} IN IF at = {} THEN 0 ELSE Min(at)

\* The trailing ends of lines are cut off.
Trim(s) ==
  LET kept == {i \in DOMAIN s : s[i] # "nl"} IN
  SubSeq(s, 1, IF kept = {} THEN 0 ELSE Max(kept))

\* The header: time-duration,event,level; without a comma after it the level is the rest.
ParseEventFields(text) ==
  LET body == Trim(text)
      first == Index(body, ",", 1)
      dash == Index(body, "-", 1)
      second == Index(body, ",", first + 1)
      third == Index(body, ",", second + 1)
      Part(from, to) == SubSeq(body, from, to)
  IN [ok |-> first # 0 /\ dash \in 1 .. first - 1 /\ second # 0,
      body |-> body, time |-> Part(1, dash - 1), duration |-> Part(dash + 1, first - 1),
      event |-> Part(first + 1, second - 1),
      level |-> Part(second + 1, IF third = 0 THEN Len(body) ELSE third - 1),
      propsAt |-> IF third = 0 THEN Len(body) + 1 ELSE third + 1]

Prepend(c, value) == [value EXCEPT !.text = <<c>> \o @]

\* A value in single quotes, from behind the first: '' is a quote; a quote before a
\* comma or the end closes it, any other is data.
SingleQuoted(body, from) ==
  LET value[p \in from .. Len(body) + 1] ==
        IF p > Len(body) THEN [text |-> <<>>, next |-> p]
        ELSE IF body[p] # "'" THEN Prepend(body[p], value[p + 1])
        ELSE IF p < Len(body) /\ body[p + 1] = "'" THEN Prepend("'", value[p + 2])
        ELSE IF p = Len(body) \/ body[p + 1] = "," THEN [text |-> <<>>, next |-> p + 1]
        ELSE Prepend("'", value[p + 1])
  IN value[from]

\* Mutant of DoubleQuoted: the first quote closes, doubled or not.
DoubleQuotedOnce(body, from) ==
  LET quote == Index(body, "\"", from)
      end == IF quote = 0 THEN Len(body) + 1 ELSE quote
  IN [text |-> SubSeq(body, from, end - 1), next |-> IF quote = 0 THEN end ELSE end + 1]

\* In double quotes: "" is a quote, a single one closes whatever follows.
DoubleQuoted(body, from) ==
  LET value[p \in from .. Len(body) + 1] ==
        IF p > Len(body) THEN [text |-> <<>>, next |-> p]
        ELSE IF body[p] # "\"" THEN Prepend(body[p], value[p + 1])
        ELSE IF p < Len(body) /\ body[p + 1] = "\"" THEN Prepend("\"", value[p + 2])
        ELSE [text |-> <<>>, next |-> p + 1]
  IN value[from]

\* Not in quotes: up to a comma.
Bare(body, from) ==
  LET comma == Index(body, ",", from)
      end == IF comma = 0 THEN Len(body) + 1 ELSE comma
  IN [text |-> SubSeq(body, from, end - 1), next |-> end]

Value(body, from) ==
  IF from > Len(body) THEN [text |-> <<>>, next |-> from]
  ELSE IF body[from] = "'" THEN SingleQuoted(body, from + 1)
  ELSE IF body[from] = "\"" THEN DoubleQuoted(body, from + 1)
  ELSE Bare(body, from)

\* Name=value, one after another; what has no = is dropped.
ScanProps(body, from) ==
  LET props[p \in from .. Len(body) + 1] ==
        LET eq == Index(body, "=", p)
            value == Value(body, eq + 1)
            comma == IF value.next <= Len(body) /\ body[value.next] = "," THEN 1 ELSE 0
        IN IF eq = 0 THEN <<>>
           ELSE <<[name |-> SubSeq(body, p, eq - 1), value |-> value.text]>>
                \o props[value.next + comma]
  IN props[from]

-----------------------------------------------------------------------------
(* NDJSON *)

Header == <<<<"timestamp">>, <<"duration">>, <<"event">>, <<"level_num">>, <<"filename">>,
            <<"file_path">>>>

\* The k-th of a set of places.
Kth(places, k) == CHOOSE i \in places : Cardinality({j \in places : j <= i}) = k

\* The values of a name, in the order of the source.
ValuesOf(pairs, name) ==
  LET own == {i \in DOMAIN pairs : pairs[i].name = name}
  IN [k \in 1 .. Cardinality(own) |-> pairs[Kth(own, k)].value]

\* One entry per name, at the place of its first value.
Grouped(pairs) ==
  LET firsts == {i \in DOMAIN pairs : \A j \in 1 .. i - 1 : pairs[j].name # pairs[i].name}
      Entry(name) == [key |-> name, values |-> ValuesOf(pairs, name)]
  IN [k \in 1 .. Cardinality(firsts) |-> Entry(pairs[Kth(firsts, k)].name)]

\* Leading zeros go, but for the last digit.
Canonical(digits) ==
  LET rest == {i \in DOMAIN digits : digits[i] # "0"} \cup {Len(digits)}
  IN IF digits = <<>> THEN <<>> ELSE SubSeq(digits, Min(rest), Len(digits))

\* nameSig: the length, the first, the last and the middle byte.
NameSig(name) ==
  IF name = <<>> THEN <<1>>
  ELSE <<Len(name), name[1], name[Len(name)], name[(Len(name) \div 2) + 1]>>

\* The fields of the header and the properties, as appendProps leaves them in refs;
\* it runs the automaton of ScanProps over again.
Refs(text) ==
  LET f == ParseEventFields(text)
      head == <<Date \o f.time, Canonical(f.duration), f.event, f.level, <<"file">>, <<"path">>>>
  IN [i \in 1 .. 6 |-> [name |-> Header[i], value |-> head[i]]] \o ScanProps(f.body, f.propsAt)

\* Scratch.dup: two names of the event have one signature.
Dup(refs) ==
  \E i \in DOMAIN refs : \E j \in 1 .. i - 1 : NameSig(refs[i].name) = NameSig(refs[j].name)

\* Mutant of RegroupRepeated: a name next to itself only.
RegroupAdjacent(refs) ==
  IF \E i \in DOMAIN refs : i > 1 /\ refs[i].name = refs[i - 1].name
    THEN Grouped(refs)
    ELSE [i \in DOMAIN refs |-> [key |-> refs[i].name, values |-> <<refs[i].value>>]]

\* regroupRepeated, when dup is set: a repeated name becomes an array of its values.
RegroupRepeated(refs) ==
  IF Dup(refs)
    THEN Grouped(refs)
    ELSE [i \in DOMAIN refs |-> [key |-> refs[i].name, values |-> <<refs[i].value>>]]

AppendEvent(text) == RegroupRepeated(Refs(text))

\* What the decoder gives for the fields of the header: their first values.
DecodedHeader(json) == [i \in 1 .. 6 |-> json[i].values[1]]

\* Mutant of Extras: as the comment above headerArrayOpen has it.
ExtrasSkipped(json) == <<>>

\* headerArrayClose: the values a property of that name added come before all others.
Extras(json) ==
  FlattenSeq([i \in 1 .. 6 |->
    [k \in 1 .. Len(json[i].values) - 1 |->
       [name |-> json[i].key, value |-> json[i].values[k + 1]]]])

\* The pairs of the other keys, an array value by value (eachValue).
DecodedProps(json) ==
  FlattenSeq([i \in 1 .. Len(json) - 6 |->
    [k \in DOMAIN json[i + 6].values |->
       [name |-> json[i + 6].key, value |-> json[i + 6].values[k]]]])

\* The strict decoder takes the six fields first and in order, a number for the
\* duration, and a timestamp of one of two lengths.
Decodes(json) ==
  /\ Len(json) >= 6 /\ \A i \in 1 .. 6 : json[i].key = Header[i]
  /\ Len(json[1].values[1]) \in {1, 2}
  /\ json[2].values[1] # <<>>

-----------------------------------------------------------------------------
(* Rows *)

Digit(c) == IF c = "7" THEN 7 ELSE 0

\* chUintOrZero: an optional plus, then digits to the end; zero for anything else and
\* for what does not fit.
UintOrZero(s) ==
  LET digits == IF s # <<>> /\ s[1] = "+" THEN Tail(s) ELSE s
      Step(v, c) == IF v < 0 \/ c \notin Digits \/ 10 * v + Digit(c) > UintMax THEN -1
                    ELSE 10 * v + Digit(c)
      number[i \in 0 .. Len(digits)] == IF i = 0 THEN 0 ELSE Step(number[i - 1], digits[i])
      v == number[Len(digits)]
  IN IF v < 0 THEN 0 ELSE v

\* ParseDuration: what does not fit is the largest value.
Saturated(s) ==
  LET Step(v, c) == IF 10 * v + Digit(c) > UintMax THEN UintMax ELSE 10 * v + Digit(c)
      number[i \in 0 .. Len(s)] == IF i = 0 THEN 0 ELSE Step(number[i - 1], s[i])
  IN number[Len(s)]

\* Some of the properties with columns of their own, one and more of each kind.
Hot == {<<"Usr">>, <<"SessionID">>, <<"t:clientID">>, <<"ClientID">>, <<"Sql">>, <<"Query">>}
Meta == {Header[i] : i \in 1 .. 6}

\* richHot: what was seen, whose first value went to props on a repeat (dumped) or by
\* the name's own rule (kept), and the last value of each.
NoHot == [seen |-> {}, dumped |-> {}, kept |-> {}, last |-> [n \in Hot |-> <<>>]]

\* A row being built: its props and its size, and the builder's richHot.
Fresh(head, hot) ==
  [head |-> head, props |-> <<>>, bytes |-> 24 + Len(head[3]) + Len(head[4]) + 2, hot |-> hot]

WithPair(row, pair) ==
  [row EXCEPT !.props = Append(@, pair), !.bytes = @ + Len(pair.name) + Len(pair.value)]

\* SessionID's rule: text that is no number stays in props.
KeptByRule(pair) ==
  /\ pair.name = <<"SessionID">>
  /\ UintOrZero(pair.value) = 0 /\ pair.value \notin {<<>>, <<"0">>}

\* Mutant of Pending: the own rule is forgotten.
PendingAlways(hot, name) == name \in hot.seen /\ name \notin hot.dumped

\* richHot.set: the first value has to go to props before this one.
Pending(hot, name) == name \in hot.seen /\ name \notin hot.dumped /\ name \notin hot.kept

\* richHot.set and dispatchHot: the last value stays for the column.
NoteHot(hot, pair) ==
  [seen |-> hot.seen \cup {pair.name},
   dumped |-> IF pair.name \in hot.seen THEN hot.dumped \cup {pair.name} ELSE hot.dumped,
   kept |-> IF KeptByRule(pair) THEN hot.kept \cup {pair.name} ELSE hot.kept,
   last |-> [hot.last EXCEPT ![pair.name] = pair.value]]

\* richProp: a property with a column goes to props only if it is repeated, and then
\* with its first value, or if its own rule keeps it.
RichProp(row, pair) ==
  IF pair.name \in Meta THEN [row EXCEPT !.bytes = @ + Len(pair.value)]
  ELSE IF pair.name \notin Hot THEN WithPair(row, pair)
  ELSE LET noted == [row EXCEPT !.hot = NoteHot(row.hot, pair)]
           first == [name |-> pair.name, value |-> row.hot.last[pair.name]]
       IN IF pair.name \notin row.hot.seen /\ ~KeptByRule(pair)
            THEN [noted EXCEPT !.bytes = @ + Len(pair.value)]
          ELSE IF Pending(row.hot, pair.name) THEN WithPair(WithPair(noted, first), pair)
          ELSE WithPair(noted, pair)

WithProp(isRich, row, pair) == IF isRich THEN RichProp(row, pair) ELSE WithPair(row, pair)

Filled(isRich, head, hot, pairs) ==
  LET row[i \in 0 .. Len(pairs)] ==
        IF i = 0 THEN Fresh(head, hot) ELSE WithProp(isRich, row[i - 1], pairs[i])
  IN row[Len(pairs)]

\* finalize: the columns.  The client and the statement have a second source each.
Columns(hot) ==
  LET last == hot.last IN
  [usr |-> last[<<"Usr">>],
   session |-> UintOrZero(last[<<"SessionID">>]),
   client |-> UintOrZero(IF last[<<"t:clientID">>] # <<>> THEN last[<<"t:clientID">>]
                         ELSE last[<<"ClientID">>]),
   sql |-> IF last[<<"Sql">>] # <<>> THEN last[<<"Sql">>] ELSE last[<<"Query">>]]

\* The row as the table has it; appendPropsMap groups the props.
Row(isRich, filled, duration) ==
  [head |-> filled.head,
   duration |-> IF isRich THEN UintOrZero(duration) ELSE Saturated(duration),
   columns |-> Columns(filled.hot), props |-> Grouped(filled.props), bytes |-> filled.bytes]

NoRow == [none |-> TRUE]
NoEvent == [text |-> <<>>, wrote |-> <<>>, known |-> FALSE]

-----------------------------------------------------------------------------
RowsInit ==
  /\ rich \in BOOLEAN
  /\ stage = "start" /\ event = NoEvent /\ line = <<>>
  /\ direct = NoRow /\ replayed = NoRow /\ hotDirect = NoHot /\ hotReplay = NoHot

\* The next event, written to the buffer if its header has two commas.
Encode ==
  /\ stage = "start"
  /\ \E e \in Texts :
       /\ ParseEventFields(e.text).ok
       /\ event' = e /\ line' = AppendEvent(e.text)
  /\ stage' = "encoded"
  /\ UNCHANGED <<rich, direct, replayed, hotDirect, hotReplay>>

\* RowBuilder.Build.
Build ==
  /\ stage = "encoded" /\ stage' = "built"
  /\ LET f == ParseEventFields(event.text)
         head == <<Date \o f.time, <<>>, f.event, f.level, <<"file">>, <<"path">>>>
         filled == Filled(rich, head, hotDirect, ScanProps(f.body, f.propsAt))
     IN /\ direct' = Row(rich, filled, f.duration)
        /\ hotDirect' = NoHot  \* finalize leaves the builder as it was
  /\ UNCHANGED <<rich, event, line, replayed, hotReplay>>

\* RowBuilder.BuildNDJSON, when the drainer comes to the line.
Replay ==
  /\ stage = "built" /\ stage' = "replayed"
  /\ Decodes(line)  \* else the owner stops the agent
  /\ LET head == [DecodedHeader(line) EXCEPT ![2] = <<>>]
         filled == Filled(rich, head, hotReplay, Extras(line) \o DecodedProps(line))
     IN /\ replayed' = Row(rich, filled, DecodedHeader(line)[2])
        /\ hotReplay' = NoHot
  /\ UNCHANGED <<rich, event, line, direct, hotDirect>>

Done ==
  /\ stage = "replayed" /\ stage' = "start"
  /\ event' = NoEvent /\ line' = <<>> /\ direct' = NoRow /\ replayed' = NoRow
  /\ UNCHANGED <<rich, hotDirect, hotReplay>>

RowsNext == Encode \/ Build \/ Replay \/ Done

RowsSpec == RowsInit /\ [][RowsNext]_rowVars

-----------------------------------------------------------------------------
(* Properties *)

ValuesIn(entries, name) ==
  LET own == {i \in DOMAIN entries : entries[i].key = name}
  IN IF own = {} THEN <<>> ELSE entries[Min(own)].values

Properties == LET f == ParseEventFields(event.text) IN ScanProps(f.body, f.propsAt)
Names == {Properties[i].name : i \in DOMAIN Properties}

\* Quoting is undone: from a text as 1C writes it, with quotes inside of a value
\* doubled, ScanProps gets the names and the values that were meant.
QuotingUndone ==
  event.known =>
    Properties = [i \in DOMAIN event.wrote |->
                   [name |-> event.wrote[i].name, value |-> event.wrote[i].value]]

\* A line of NDJSON has no key twice, a field of the header has its own value
\* first, and under every name are all its values in the order of the source
\* (format-spec 4.5): the filter by signatures misses no repeated name.
NoKeyTwice ==
  stage # "start" =>
    /\ \A i, j \in DOMAIN line : line[i].key = line[j].key => i = j
    /\ \A name \in Names :
         LET own == IF name \in Meta THEN <<ValuesIn(line, name)[1]>> ELSE <<>>
         IN ValuesIn(line, name) = own \o ValuesOf(Properties, name)
    /\ DecodedHeader(line)[3] = ParseEventFields(event.text).event

\* What went through the buffer is what would have been inserted directly: header,
\* duration, columns and size are the same and props hold the same values under
\* the same names, whatever builder state earlier events left; and no line that
\* was written is refused when it is read (a refusal stops the agent for good).
ReplayIsDirect ==
  /\ stage = "built" => Decodes(line)
  /\ stage = "replayed" =>
       /\ [replayed EXCEPT !.props = 0] = [direct EXCEPT !.props = 0]
       /\ \A name \in Names \cup {e.key : e \in ToSet(replayed.props)} :
            ValuesIn(replayed.props, name) = ValuesIn(direct.props, name)

\* No value of a repeated property is lost and none is there twice: a name with no
\* column has all its values in props, one with a column has them there once it is
\* repeated, and else only in the column (SessionID's text is also kept in props).
RepeatsKept ==
  stage \in {"built", "replayed"} =>
    \A name \in Names \ (IF rich THEN Meta ELSE {}) :
      LET all == ValuesOf(Properties, name)
          alone == rich /\ name \in Hot /\ Len(all) = 1
          kept == name = <<"SessionID">> /\ UintOrZero(all[1]) = 0 /\ all[1] \notin {<<>>, <<"0">>}
      IN ValuesIn(direct.props, name) = IF alone /\ ~kept THEN <<>> ELSE all
==============================================================================
