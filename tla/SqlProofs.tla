------------------------------ MODULE SqlProofs ------------------------------
(***************************************************************************)
(* The norm of every text is a key: what the first pass writes falls into  *)
(* tokens (Traced), the pass over the norm copies each of them, and no ?   *)
(* of the norm is without a parameter (NormInv).                           *)
(***************************************************************************)
EXTENDS SqlNorm, DataFacts

-----------------------------------------------------------------------------
(* The scan *)

\* What a scan finds: a value and the place behind it.
Scanned(V, lo, hi) == [value : V, next : lo .. hi]

\* Past is the first place that holds none of the letters.
LEMMA PastIs ==
  ASSUME NEW U, sql \in Seq(U), NEW k \in 1 .. Len(sql) + 1, NEW S
  PROVE  /\ Past(k, S) \in k .. Len(sql) + 1
         /\ ~Is(Past(k, S), S)
         /\ \A m \in k .. Past(k, S) - 1 : Is(m, S)
<1> DEFINE Stop == {j \in k .. Len(sql) + 1 : ~Is(j, S)}
<1>1. Len(sql) \in Nat /\ DOMAIN sql = 1 .. Len(sql)
  OBVIOUS
<1>2. Len(sql) + 1 \in Stop /\ Stop \in SUBSET Nat
  BY <1>1 DEF Is
<1>3. PICK j \in Stop : \A i \in Stop : ~(i < j)
  <2> HIDE DEF Stop
  <2> QED BY <1>2, LeastExists
<1>4. j \in k .. Len(sql) + 1 /\ ~Is(j, S) /\ \A m \in k .. j - 1 : Is(m, S)
  <2>1. ASSUME NEW m \in k .. j - 1 PROVE Is(m, S)
    <3>1. m < j /\ m \in k .. Len(sql) + 1
      BY <1>1
    <3> QED BY <1>3, <3>1
  <2> QED BY <2>1
<1> HIDE DEF Stop
<1>5. \E i \in k .. Len(sql) + 1 : ~Is(i, S) /\ \A m \in k .. i - 1 : Is(m, S)
  BY <1>4
<1> QED BY <1>5, Zenon DEF Past

\* There is one such place.
LEMMA PastAt ==
  ASSUME NEW U, sql \in Seq(U), NEW k \in 1 .. Len(sql) + 1, NEW S,
         NEW j \in k .. Len(sql) + 1, ~Is(j, S), \A m \in k .. j - 1 : Is(m, S)
  PROVE  Past(k, S) = j
<1>1. PICK p : p = Past(k, S)
  OBVIOUS
<1>2. p \in k .. Len(sql) + 1 /\ ~Is(p, S) /\ \A m \in k .. p - 1 : Is(m, S)
  BY <1>1, PastIs
<1>3. Len(sql) \in Nat
  OBVIOUS
<1>4. ~(p < j)
  <2>1. p < j => p \in k .. j - 1
    BY <1>2, <1>3
  <2> QED BY <1>2, <2>1
<1>5. ~(j < p)
  <2>1. j < p => j \in k .. p - 1
    BY <1>2, <1>3
  <2> QED BY <1>2, <2>1
<1> QED BY <1>1, <1>2, <1>3, <1>4, <1>5

\* A tail's value begins behind its line's first letters.
LEMMA TailLineType ==
  ASSUME NEW U, sql \in Seq(U), NEW k \in Nat, k >= 1, TailLine(k) # 0
  PROVE  TailLine(k) \in k + 2 .. Len(sql) + 1
<1>1. Len(sql) \in Nat /\ DOMAIN sql = 1 .. Len(sql)
  OBVIOUS
<1>2. PICK c : c = Past(k + 1, Numerals)
  OBVIOUS
<1>3. /\ Is(k, {"p_"}) /\ c > k + 1 /\ Is(c, {":"})
      /\ TailLine(k) = IF Is(c + 1, {" "}) THEN c + 2 ELSE c + 1
  BY <1>2 DEF TailLine
<1>4. k \in 1 .. Len(sql) /\ c \in 1 .. Len(sql) /\ (Is(c + 1, {" "}) => c + 1 \in 1 .. Len(sql))
  BY <1>1, <1>3 DEF Is
<1>5. PICK t, n : t = TailLine(k) /\ n = Len(sql)
  OBVIOUS
<1>6. t = c + 1 \/ (t = c + 2 /\ c + 1 <= n)
  <2>1. CASE Is(c + 1, {" "})
    <3>1. t = c + 2
      BY <1>3, <1>5, <2>1, Zenon
    <3>2. c + 1 \in 1 .. Len(sql)
      BY <1>4, <2>1, Zenon
    <3> QED BY <1>1, <1>5, <3>1, <3>2
  <2>2. CASE ~Is(c + 1, {" "})
    BY <1>3, <1>5, <2>2, Zenon
  <2> QED BY <2>1, <2>2
<1>7. t \in k + 2 .. n + 1
  <2>1. n \in Nat /\ k \in Nat /\ c \in 1 .. n /\ c > k + 1
    BY <1>1, <1>3, <1>4, <1>5
  <2> QED BY ONLY <1>6, <2>1
<1> QED BY <1>5, <1>7

\* One step of the table of ScanString.
ScanStep(f, k) ==
  IF k > Len(sql) THEN [value |-> <<>>, next |-> Len(sql) + 1]
  ELSE IF sql[k] # "'" THEN [f[k + 1] EXCEPT !.value = <<sql[k]>> \o @]
  ELSE IF Is(k + 1, {"'"}) THEN [f[k + 2] EXCEPT !.value = <<"'">> \o @]
  ELSE [value |-> <<>>, next |-> k + 1]

\* The table in ScanString.
LEMMA ScanTable ==
  ASSUME NEW from
  PROVE  \E g : /\ g = (CHOOSE h : h = [k \in from .. Len(sql) + 2 |-> ScanStep(h, k)])
                /\ ScanString(from) = g[from]
BY Zenon DEF ScanString, ScanStep

\* A letter before a value.
LEMMA BeforeType ==
  ASSUME NEW U, NEW c \in U, NEW lo, NEW hi, NEW r \in Scanned(Seq(U), lo, hi)
  PROVE  [r EXCEPT !.value = <<c>> \o @] \in Scanned(Seq(U), lo, hi)
<1>1. PICK w : w = <<c>> \o r.value
  OBVIOUS
<1>2. w \in Seq(U)
  <2>1. r.value \in Seq(U) /\ <<c>> \in Seq(U)
    BY DEF Scanned
  <2> QED BY <1>1, <2>1, ConcatProperties
<1>3. [r EXCEPT !.value = <<c>> \o @] = [r EXCEPT !.value = w]
  BY <1>1 DEF Scanned
<1> QED BY <1>2, <1>3 DEF Scanned

\* The table: f has a value and its end for each place, by the steps.
ScanRuns(f, from) ==
  /\ ScanString(from) = f[from]
  /\ \A k \in from .. Len(sql) + 2 :
       f[k] = ScanStep(f, k) /\ f[k] \in Scanned(Seq(SqlText), from, Len(sql) + 1)

\* The table in ScanString exists.
LEMMA ScanSolved ==
  ASSUME sql \in Seq(SqlText), NEW from \in 1 .. Len(sql) + 1
  PROVE  \E f : ScanRuns(f, from)
<1>1. PICK n, hi : n = Len(sql) /\ hi = n + 2
  OBVIOUS
<1>2. n \in Nat /\ hi \in Nat /\ from \in Nat /\ from <= n + 1 /\ from >= 1 /\ DOMAIN sql = 1 .. n
  BY <1>1
<1> DEFINE D == from .. hi
           U == Scanned(Seq(SqlText), from, n + 1)
           H == [x \in D \X [D -> U] |-> ScanStep(x[2], x[1])]
<1>3. \A p \in D : p \in Nat /\ (~(p > n) => p \in DOMAIN sql /\ p + 1 \in D /\ p < p + 1
                                             /\ p + 2 \in D /\ p < p + 2)
  BY <1>1, <1>2
<1>4. [value |-> <<>>, next |-> n + 1] \in U
       /\ \A p \in D : ~(p > n) => [value |-> <<>>, next |-> p + 1] \in U
  <2>1. <<>> \in Seq(SqlText) /\ n + 1 \in from .. n + 1
        /\ \A p \in D : ~(p > n) => p + 1 \in from .. n + 1
    BY <1>1, <1>2
  <2> QED BY <2>1 DEF Scanned
<1>5. \A p \in DOMAIN sql : sql[p] \in SqlText
  OBVIOUS
<1>6. ASSUME NEW p \in D, NEW f, \A q \in D : p < q => f[q] \in U
      PROVE  ScanStep(f, p) \in U
  <2>1. \A q \in D : p < q => \A c \in SqlText : [f[q] EXCEPT !.value = <<c>> \o @] \in U
    <3> HIDE DEF D
    <3> QED BY <1>6, BeforeType
  <2>2. "'" \in SqlText
    BY DEF SqlText, Marks
  <2> HIDE DEF D, U
  <2> QED BY <1>1, <1>3, <1>4, <1>5, <2>1, <2>2 DEF ScanStep
<1>7. ASSUME NEW p \in D, NEW f \in [D -> U], NEW g \in [D -> U],
             \A q \in D : p < q => f[q] = g[q]
      PROVE  ScanStep(f, p) = ScanStep(g, p)
  <2> HIDE DEF D, U
  <2> QED BY <1>1, <1>3, <1>7 DEF ScanStep
<1>8. \A p \in D : \A f \in [D -> U] : H[<<p, f>>] = ScanStep(f, p)
  OBVIOUS
<1>9. \E f \in [D -> U] : \A p \in D : f[p] = ScanStep(f, p)
  <2>1. Stays(D, U, H)
    <3>1. \A p \in D : \A f \in [D -> U] : \A q \in D : f[q] \in U
      OBVIOUS
    <3> HIDE DEF D, U, H
    <3> QED BY <1>6, <1>8, <3>1 DEF Stays
  <2>2. LooksBehind(D, U, H)
    <3> HIDE DEF D, U, H
    <3> QED BY <1>7, <1>8 DEF LooksBehind
  <2>3. D = from .. hi
    OBVIOUS
  <2> HIDE DEF D, U, H
  <2>4. PICK f : Solves(f, D, U, H)
    BY <1>2, <1>4, <2>1, <2>2, <2>3, Recursion
  <2> QED BY <1>8, <2>4 DEF Solves
<1>10. PICK f \in [D -> U] : \A p \in D : f[p] = ScanStep(f, p)
  BY <1>9
<1>11. f = [k \in from .. Len(sql) + 2 |-> ScanStep(f, k)]
  <2> HIDE DEF U
  <2> QED BY <1>1, <1>10
<1>12. PICK g : /\ g = [k \in from .. Len(sql) + 2 |-> ScanStep(g, k)]
                /\ ScanString(from) = g[from]
  BY <1>11, ScanTable
<1>13. \A p \in D : g[p] = ScanStep(g, p)
  BY <1>1, <1>12
<1> DEFINE S == {q \in D : g[q] \in U}
<1>14. \A p \in D : p \in S
  <2>1. ASSUME NEW p \in D, \A q \in D : p < q => q \in S PROVE p \in S
    <3>1. \A q \in D : p < q => g[q] \in U
      BY <2>1
    <3> HIDE DEF D, U
    <3> QED BY <1>6, <1>13, <3>1
  <2> HIDE DEF S, U
  <2> QED BY ONLY <1>2, <2>1, FromBehind DEF D
<1> QED BY <1>1, <1>12, <1>13, <1>14 DEF ScanRuns

\* A string has letters and ends in the text.
LEMMA ScanType ==
  ASSUME sql \in Seq(SqlText), NEW from \in 1 .. Len(sql) + 1
  PROVE  ScanString(from) \in Scanned(Seq(SqlText), from, Len(sql) + 1)
<1>1. PICK f : ScanRuns(f, from)
  BY ScanSolved
<1>2. from \in from .. Len(sql) + 2
  OBVIOUS
<1> QED BY <1>1, <1>2 DEF ScanRuns

\* One step of the table of SkipEmpty.
EmptyStep(f, k) == IF Is(Past(k, {" "}), {"nl"}) THEN f[Past(k, {" "}) + 1] ELSE k

\* The table in SkipEmpty.
LEMMA EmptyTable ==
  ASSUME NEW from
  PROVE  \E g : /\ g = (CHOOSE h : h = [k \in from .. Len(sql) + 1 |-> EmptyStep(h, k)])
                /\ SkipEmpty(from) = g[from]
BY Zenon DEF SkipEmpty, EmptyStep

\* The table: f has a place of the text for each place, by the steps.
EmptyRuns(f, from) ==
  /\ SkipEmpty(from) = f[from]
  /\ \A k \in from .. Len(sql) + 1 : f[k] = EmptyStep(f, k) /\ f[k] \in from .. Len(sql) + 1

\* There is such a table.
LEMMA EmptySolved ==
  ASSUME sql \in Seq(SqlText), NEW from \in 1 .. Len(sql) + 1
  PROVE  \E f : EmptyRuns(f, from)
<1>1. PICK n, hi : n = Len(sql) /\ hi = n + 1
  OBVIOUS
<1>2. n \in Nat /\ hi \in Nat /\ from \in Nat /\ from <= n + 1 /\ from >= 1 /\ DOMAIN sql = 1 .. n
  BY <1>1
<1> DEFINE D == from .. hi
           U == from .. n + 1
           H == [x \in D \X [D -> U] |-> EmptyStep(x[2], x[1])]
<1>3. \A p \in D : Is(Past(p, {" "}), {"nl"}) => Past(p, {" "}) + 1 \in D /\ p < Past(p, {" "}) + 1
  <2>1. ASSUME NEW p \in D, NEW e, e = Past(p, {" "}), Is(e, {"nl"}) PROVE e + 1 \in D /\ p < e + 1
    <3>1. p \in 1 .. Len(sql) + 1
      BY <1>1, <1>2
    <3>2. e \in p .. n + 1
      BY <1>1, <2>1, <3>1, PastIs
    <3>3. e \in 1 .. n
      BY <1>2, <2>1 DEF Is
    <3> QED BY <1>1, <1>2, <3>1, <3>2, <3>3
  <2> QED BY <2>1, Zenon
<1>4. \A p \in D : p \in U
  BY <1>1
<1>6. ASSUME NEW p \in D, NEW f, \A q \in D : p < q => f[q] \in U
      PROVE  EmptyStep(f, p) \in U
  <2> HIDE DEF D, U
  <2> QED BY <1>3, <1>4, <1>6, Zenon DEF EmptyStep
<1>7. ASSUME NEW p \in D, NEW f \in [D -> U], NEW g \in [D -> U],
             \A q \in D : p < q => f[q] = g[q]
      PROVE  EmptyStep(f, p) = EmptyStep(g, p)
  <2> HIDE DEF D, U
  <2> QED BY <1>3, <1>7, Zenon DEF EmptyStep
<1>8. \A p \in D : \A f \in [D -> U] : H[<<p, f>>] = EmptyStep(f, p)
  OBVIOUS
<1>9. \E f \in [D -> U] : \A p \in D : f[p] = EmptyStep(f, p)
  <2>1. Stays(D, U, H)
    <3>1. \A p \in D : \A f \in [D -> U] : \A q \in D : f[q] \in U
      OBVIOUS
    <3> HIDE DEF D, U, H
    <3> QED BY <1>6, <1>8, <3>1 DEF Stays
  <2>2. LooksBehind(D, U, H)
    <3> HIDE DEF D, U, H
    <3> QED BY <1>7, <1>8 DEF LooksBehind
  <2>3. D = from .. hi
    OBVIOUS
  <2>5. from \in U
    BY <1>2
  <2> HIDE DEF D, U, H
  <2>4. PICK f : Solves(f, D, U, H)
    BY <1>2, <2>1, <2>2, <2>3, <2>5, Recursion
  <2> QED BY <1>8, <2>4 DEF Solves
<1>10. PICK f \in [D -> U] : \A p \in D : f[p] = EmptyStep(f, p)
  BY <1>9
<1>11. f = [k \in from .. Len(sql) + 1 |-> EmptyStep(f, k)]
  <2> HIDE DEF U
  <2> QED BY <1>1, <1>10
<1>12. PICK g : /\ g = [k \in from .. Len(sql) + 1 |-> EmptyStep(g, k)]
                /\ SkipEmpty(from) = g[from]
  BY <1>11, EmptyTable
<1>13. \A p \in D : g[p] = EmptyStep(g, p)
  BY <1>1, <1>12
<1> DEFINE S == {q \in D : g[q] \in U}
<1>14. \A p \in D : p \in S
  <2>1. ASSUME NEW p \in D, \A q \in D : p < q => q \in S PROVE p \in S
    <3>1. \A q \in D : p < q => g[q] \in U
      BY <2>1
    <3> HIDE DEF D, U
    <3> QED BY <1>6, <1>13, <3>1
  <2> HIDE DEF S, U
  <2> QED BY ONLY <1>2, <2>1, FromBehind DEF D
<1> QED BY <1>1, <1>12, <1>13, <1>14 DEF EmptyRuns

\* Empty lines end in the text.
LEMMA EmptyType ==
  ASSUME sql \in Seq(SqlText), NEW from \in 1 .. Len(sql) + 1
  PROVE  SkipEmpty(from) \in from .. Len(sql) + 1
<1>1. PICK f : EmptyRuns(f, from)
  BY EmptySolved
<1>2. from \in from .. Len(sql) + 1
  OBVIOUS
<1> QED BY <1>1, <1>2 DEF EmptyRuns

\* One step of the table of ParseTail: a value, where its line ends, what comes behind.
ValueOf(k) ==
  IF Is(k, {"'"}) THEN ScanString(k + 1).value ELSE SubSeq(sql, k, LineEnd(k) - 1)
EndOf(k) == LineEnd(IF Is(k, {"'"}) THEN ScanString(k + 1).next ELSE k)
RestOf(k) == SkipEmpty(IF Is(EndOf(k), {"nl"}) THEN EndOf(k) + 1 ELSE EndOf(k))
ParseStep(f, k) ==
  IF TailLine(RestOf(k)) = 0 THEN [values |-> <<ValueOf(k)>>, next |-> RestOf(k)]
  ELSE [f[TailLine(RestOf(k))] EXCEPT !.values = <<ValueOf(k)>> \o @]

\* The table in ParseTail.
LEMMA ParseTable ==
  ASSUME NEW from
  PROVE  \E g : /\ g = (CHOOSE h : h = [k \in from .. Len(sql) + 1 |-> ParseStep(h, k)])
                /\ ParseTail(from) = g[from]
BY Zenon DEF ParseTail, ParseStep, ValueOf, EndOf, RestOf

\* What a line of a tail gives.
LEMMA LineOfTail ==
  ASSUME sql \in Seq(SqlText), NEW k \in 1 .. Len(sql) + 1
  PROVE  /\ ValueOf(k) \in Seq(SqlText) /\ EndOf(k) \in k .. Len(sql) + 1
         /\ RestOf(k) \in k .. Len(sql) + 1
<1>1. PICK n : n = Len(sql)
  OBVIOUS
<1>2. n \in Nat /\ DOMAIN sql = 1 .. n /\ k \in 1 .. n + 1
  BY <1>1
<1>3. Is(k, {"'"}) => k + 1 \in 1 .. n + 1
  BY <1>2 DEF Is
<1>4. Is(k, {"'"}) => ScanString(k + 1) \in Scanned(Seq(SqlText), k + 1, n + 1)
  BY <1>1, <1>3, ScanType
<1>5. PICK p : p = IF Is(k, {"'"}) THEN ScanString(k + 1).next ELSE k
  OBVIOUS
<1>6. p \in k .. n + 1 /\ p \in 1 .. n + 1
  <2>1. CASE Is(k, {"'"})
    <3>1. p \in k + 1 .. n + 1
      BY <1>4, <1>5, <2>1 DEF Scanned
    <3> QED BY <1>2, <3>1
  <2>2. CASE ~Is(k, {"'"})
    BY <1>2, <1>5, <2>2
  <2> QED BY <2>1, <2>2
<1>7. \A j \in 1 .. n + 1 : LineEnd(j) \in j .. n + 1
  BY <1>1, PastIs DEF LineEnd
<1>8. PICK e : e = EndOf(k)
  OBVIOUS
<1>9. e \in p .. n + 1
  <2>1. e = LineEnd(p)
    BY <1>5, <1>8, Zenon DEF EndOf
  <2> QED BY <1>6, <1>7, <2>1
<1>10. e \in k .. n + 1 /\ e \in 1 .. n + 1
  BY <1>2, <1>6, <1>9
<1>11. ValueOf(k) \in Seq(SqlText)
  <2>1. CASE Is(k, {"'"})
    BY <1>4, <2>1 DEF ValueOf, Scanned
  <2>2. CASE ~Is(k, {"'"})
    <3>1. PICK m : m = LineEnd(k)
      OBVIOUS
    <3>2. m \in k .. n + 1
      BY <1>2, <1>7, <3>1
    <3>3. m - 1 \in k - 1 .. n
      BY <1>2, <3>2
    <3>4. SubSeq(sql, k, m - 1) \in Seq(SqlText)
      <4>1. \A i \in k .. m - 1 : i \in 1 .. n
        BY <1>2, <3>2
      <4> QED BY <1>1, <1>2, <3>3, <4>1, SubSeqProperties
    <3> QED BY <2>2, <3>1, <3>4 DEF ValueOf
  <2> QED BY <2>1, <2>2
<1>12. PICK r : r = IF Is(e, {"nl"}) THEN e + 1 ELSE e
  OBVIOUS
<1>13. r \in e .. n + 1 /\ r \in 1 .. n + 1
  <2>1. CASE Is(e, {"nl"})
    <3>1. e \in 1 .. n
      BY <1>2, <2>1 DEF Is
    <3> QED BY <1>2, <1>12, <2>1, <3>1
  <2>2. CASE ~Is(e, {"nl"})
    BY <1>10, <1>12, <2>2
  <2> QED BY <2>1, <2>2
<1>14. RestOf(k) \in r .. n + 1
  <2>1. RestOf(k) = SkipEmpty(r)
    BY <1>8, <1>12, Zenon DEF RestOf
  <2> QED BY <1>1, <1>13, <2>1, EmptyType
<1>15. RestOf(k) \in k .. n + 1
  <2>1. PICK s : s = RestOf(k)
    OBVIOUS
  <2>2. s \in r .. n + 1 /\ r \in e .. n + 1 /\ e \in k .. n + 1 /\ k \in 1 .. n + 1 /\ n \in Nat
    BY <1>2, <1>10, <1>13, <1>14, <2>1
  <2>3. s \in k .. n + 1
    BY ONLY <2>2
  <2> QED BY <2>1, <2>3
<1> QED BY <1>1, <1>8, <1>10, <1>11, <1>15

\* What the tail has: values and the place behind it.
Parsed(lo, hi) == [values : Seq(Seq(SqlText)), next : lo .. hi]

\* A value before the others.
LEMMA ValueBefore ==
  ASSUME NEW v \in Seq(Seq(SqlText)), NEW lo, NEW hi, NEW r \in Parsed(lo, hi)
  PROVE  [r EXCEPT !.values = v \o @] \in Parsed(lo, hi)
<1>1. PICK w : w = v \o r.values
  OBVIOUS
<1>2. w \in Seq(Seq(SqlText))
  <2>1. r.values \in Seq(Seq(SqlText))
    BY DEF Parsed
  <2> QED BY <1>1, <2>1, ConcatProperties
<1>3. [r EXCEPT !.values = v \o @] = [r EXCEPT !.values = w]
  BY <1>1 DEF Parsed
<1> QED BY <1>2, <1>3 DEF Parsed

\* The table: f has the values and their end for each place, by the steps.
ParseRuns(f, from) ==
  /\ ParseTail(from) = f[from]
  /\ \A k \in from .. Len(sql) + 1 :
       f[k] = ParseStep(f, k) /\ f[k] \in Parsed(from, Len(sql) + 1)

\* There is such a table.
LEMMA ParseSolved ==
  ASSUME sql \in Seq(SqlText), NEW from \in 1 .. Len(sql) + 1
  PROVE  \E f : ParseRuns(f, from)
<1>1. PICK n, hi : n = Len(sql) /\ hi = n + 1
  OBVIOUS
<1>2. n \in Nat /\ hi \in Nat /\ from \in Nat /\ from <= n + 1 /\ from >= 1 /\ DOMAIN sql = 1 .. n
  BY <1>1
<1> DEFINE D == from .. hi
           U == Parsed(from, n + 1)
           H == [x \in D \X [D -> U] |-> ParseStep(x[2], x[1])]
<1>3. \A p \in D : TailLine(RestOf(p)) # 0 => TailLine(RestOf(p)) \in D /\ p < TailLine(RestOf(p))
  <2>1. ASSUME NEW p \in D, NEW r, r = RestOf(p), NEW t, t = TailLine(r), t # 0
        PROVE  t \in D /\ p < t
    <3>1. p \in 1 .. Len(sql) + 1
      BY <1>1, <1>2
    <3>2. r \in p .. n + 1
      BY <1>1, <2>1, <3>1, LineOfTail
    <3>3. r \in Nat /\ r >= 1
      BY <1>1, <1>2, <3>1, <3>2
    <3>4. t \in r + 2 .. n + 1
      BY <1>1, <2>1, <3>3, TailLineType
    <3> QED BY <1>1, <1>2, <3>1, <3>2, <3>4
  <2> QED BY <2>1, Zenon
<1>4. \A p \in D : <<ValueOf(p)>> \in Seq(Seq(SqlText)) /\ [values |-> <<ValueOf(p)>>, next |-> RestOf(p)] \in U
  <2>1. ASSUME NEW p \in D
        PROVE  <<ValueOf(p)>> \in Seq(Seq(SqlText)) /\ RestOf(p) \in from .. n + 1
    <3>1. p \in 1 .. Len(sql) + 1 /\ p \in from .. n + 1
      BY <1>1, <1>2
    <3>2. ValueOf(p) \in Seq(SqlText) /\ RestOf(p) \in p .. n + 1
      BY <1>1, <3>1, LineOfTail
    <3> QED BY <1>2, <3>1, <3>2
  <2> QED BY <2>1 DEF Parsed
<1>6. ASSUME NEW p \in D, NEW f, \A q \in D : p < q => f[q] \in U
      PROVE  ParseStep(f, p) \in U
  <2>1. \A q \in D : p < q => [f[q] EXCEPT !.values = <<ValueOf(p)>> \o @] \in U
    <3> HIDE DEF D
    <3> QED BY <1>4, <1>6, ValueBefore
  <2> HIDE DEF D, U
  <2> QED BY <1>3, <1>4, <2>1, Zenon DEF ParseStep
<1>7. ASSUME NEW p \in D, NEW f \in [D -> U], NEW g \in [D -> U],
             \A q \in D : p < q => f[q] = g[q]
      PROVE  ParseStep(f, p) = ParseStep(g, p)
  <2> HIDE DEF D, U
  <2> QED BY <1>3, <1>7, Zenon DEF ParseStep
<1>8. \A p \in D : \A f \in [D -> U] : H[<<p, f>>] = ParseStep(f, p)
  OBVIOUS
<1>9. \E f \in [D -> U] : \A p \in D : f[p] = ParseStep(f, p)
  <2>1. Stays(D, U, H)
    <3>1. \A p \in D : \A f \in [D -> U] : \A q \in D : f[q] \in U
      OBVIOUS
    <3> HIDE DEF D, U, H
    <3> QED BY <1>6, <1>8, <3>1 DEF Stays
  <2>2. LooksBehind(D, U, H)
    <3> HIDE DEF D, U, H
    <3> QED BY <1>7, <1>8 DEF LooksBehind
  <2>3. D = from .. hi
    OBVIOUS
  <2>5. [values |-> <<ValueOf(from)>>, next |-> RestOf(from)] \in U
    <3>1. from \in D
      BY <1>1, <1>2
    <3> QED BY <1>4, <3>1
  <2> HIDE DEF D, U, H
  <2>4. PICK f : Solves(f, D, U, H)
    BY <1>2, <2>1, <2>2, <2>3, <2>5, Recursion
  <2> QED BY <1>8, <2>4 DEF Solves
<1>10. PICK f \in [D -> U] : \A p \in D : f[p] = ParseStep(f, p)
  BY <1>9
<1>11. f = [k \in from .. Len(sql) + 1 |-> ParseStep(f, k)]
  <2> HIDE DEF U
  <2> QED BY <1>1, <1>10
<1>12. PICK g : /\ g = [k \in from .. Len(sql) + 1 |-> ParseStep(g, k)]
                /\ ParseTail(from) = g[from]
  BY <1>11, ParseTable
<1>13. \A p \in D : g[p] = ParseStep(g, p)
  BY <1>1, <1>12
<1> DEFINE S == {q \in D : g[q] \in U}
<1>14. \A p \in D : p \in S
  <2>1. ASSUME NEW p \in D, \A q \in D : p < q => q \in S PROVE p \in S
    <3>1. \A q \in D : p < q => g[q] \in U
      BY <2>1
    <3> HIDE DEF D, U
    <3> QED BY <1>6, <1>13, <3>1
  <2> HIDE DEF S, U
  <2> QED BY ONLY <1>2, <2>1, FromBehind DEF D
<1> QED BY <1>1, <1>12, <1>13, <1>14 DEF ParseRuns

\* A tail has values and ends in the text.
LEMMA ParseType ==
  ASSUME sql \in Seq(SqlText), NEW from \in 1 .. Len(sql) + 1
  PROVE  ParseTail(from) \in Parsed(from, Len(sql) + 1)
<1>1. PICK f : ParseRuns(f, from)
  BY ParseSolved
<1>2. from \in from .. Len(sql) + 1
  OBVIOUS
<1> QED BY <1>1, <1>2 DEF ParseRuns

\* One step of the table of Blanks.
BlankStep(f, k) ==
  IF ~Is(k, Spaces) THEN [values |-> <<>>, next |-> k]
  ELSE IF sql[k] = "nl" /\ TailLine(k + 1) # 0
    THEN [f[ParseTail(TailLine(k + 1)).next] EXCEPT !.values = ParseTail(TailLine(k + 1)).values \o @]
  ELSE f[k + 1]

\* The table in Blanks.
LEMMA BlankTable ==
  ASSUME NEW from
  PROVE  \E g : /\ g = (CHOOSE h : h = [k \in from .. Len(sql) + 1 |-> BlankStep(h, k)])
                /\ Blanks(from) = g[from]
BY Zenon DEF Blanks, BlankStep

\* The table: f has values and their end for each place, by the steps.
BlankRuns(f, from) ==
  /\ Blanks(from) = f[from]
  /\ \A k \in from .. Len(sql) + 1 :
       f[k] = BlankStep(f, k) /\ f[k] \in Parsed(from, Len(sql) + 1)

\* There is such a table.
LEMMA BlankSolved ==
  ASSUME sql \in Seq(SqlText), NEW from \in 1 .. Len(sql) + 1
  PROVE  \E f : BlankRuns(f, from)
<1>1. PICK n, hi : n = Len(sql) /\ hi = n + 1
  OBVIOUS
<1>2. n \in Nat /\ hi \in Nat /\ from \in Nat /\ from <= n + 1 /\ from >= 1 /\ DOMAIN sql = 1 .. n
  BY <1>1
<1> DEFINE D == from .. hi
           U == Parsed(from, n + 1)
           H == [x \in D \X [D -> U] |-> BlankStep(x[2], x[1])]
<1>3. \A p \in D : Is(p, Spaces) =>
        /\ p + 1 \in D /\ p < p + 1
        /\ TailLine(p + 1) # 0 => /\ ParseTail(TailLine(p + 1)).next \in D
                                  /\ p < ParseTail(TailLine(p + 1)).next
                                  /\ ParseTail(TailLine(p + 1)).values \in Seq(Seq(SqlText))
  <2>1. ASSUME NEW p \in D, Is(p, Spaces) PROVE p + 1 \in D /\ p < p + 1 /\ p \in 1 .. n
    <3>1. p \in 1 .. n
      BY <1>2, <2>1 DEF Is
    <3> QED BY <1>1, <1>2, <3>1
  <2>2. ASSUME NEW p \in D, Is(p, Spaces), NEW t, t = TailLine(p + 1), t # 0
        PROVE  /\ ParseTail(t).next \in D /\ p < ParseTail(t).next
               /\ ParseTail(t).values \in Seq(Seq(SqlText))
    <3>1. p \in 1 .. n
      BY <2>1, <2>2
    <3>2. p + 1 \in Nat /\ p + 1 >= 1
      BY <1>2, <3>1
    <3>3. t \in p + 3 .. n + 1
      <4>1. t \in (p + 1) + 2 .. n + 1
        BY <1>1, <2>2, <3>2, TailLineType
      <4> QED BY <1>2, <3>1, <4>1
    <3>4. ParseTail(t) \in Parsed(t, n + 1)
      <4>1. t \in 1 .. n + 1
        BY <1>2, <3>1, <3>3
      <4> QED BY <1>1, <4>1, ParseType
    <3>5. ParseTail(t).next \in t .. n + 1 /\ ParseTail(t).values \in Seq(Seq(SqlText))
      BY <3>4 DEF Parsed
    <3>6. PICK e : e = ParseTail(t).next
      OBVIOUS
    <3>7. e \in D /\ p < e
      BY <1>1, <1>2, <3>1, <3>3, <3>5, <3>6
    <3> QED BY <3>5, <3>6, <3>7
  <2> HIDE DEF D
  <2> QED BY <2>1, <2>2, Zenon
<1>4. \A p \in D : [values |-> <<>>, next |-> p] \in U
  <2>1. <<>> \in Seq(Seq(SqlText))
    OBVIOUS
  <2> QED BY <1>1, <2>1 DEF Parsed
<1>6. ASSUME NEW p \in D, NEW f, \A q \in D : p < q => f[q] \in U
      PROVE  BlankStep(f, p) \in U
  <2>1. \A q \in D : p < q => \A v \in Seq(Seq(SqlText)) : [f[q] EXCEPT !.values = v \o @] \in U
    <3> HIDE DEF D
    <3> QED BY <1>6, ValueBefore
  <2> HIDE DEF D, U
  <2> QED BY <1>3, <1>4, <1>6, <2>1, Zenon DEF BlankStep
<1>7. ASSUME NEW p \in D, NEW f \in [D -> U], NEW g \in [D -> U],
             \A q \in D : p < q => f[q] = g[q]
      PROVE  BlankStep(f, p) = BlankStep(g, p)
  <2> HIDE DEF D, U
  <2> QED BY <1>3, <1>7, Zenon DEF BlankStep
<1>8. \A p \in D : \A f \in [D -> U] : H[<<p, f>>] = BlankStep(f, p)
  OBVIOUS
<1>9. \E f \in [D -> U] : \A p \in D : f[p] = BlankStep(f, p)
  <2>1. Stays(D, U, H)
    <3>1. \A p \in D : \A f \in [D -> U] : \A q \in D : f[q] \in U
      OBVIOUS
    <3> HIDE DEF D, U, H
    <3> QED BY <1>6, <1>8, <3>1 DEF Stays
  <2>2. LooksBehind(D, U, H)
    <3> HIDE DEF D, U, H
    <3> QED BY <1>7, <1>8 DEF LooksBehind
  <2>3. D = from .. hi
    OBVIOUS
  <2>5. [values |-> <<>>, next |-> from] \in U
    <3>1. from \in D
      BY <1>1, <1>2
    <3> QED BY <1>4, <3>1
  <2> HIDE DEF D, U, H
  <2>4. PICK f : Solves(f, D, U, H)
    BY <1>2, <2>1, <2>2, <2>3, <2>5, Recursion
  <2> QED BY <1>8, <2>4 DEF Solves
<1>10. PICK f \in [D -> U] : \A p \in D : f[p] = BlankStep(f, p)
  BY <1>9
<1>11. f = [k \in from .. Len(sql) + 1 |-> BlankStep(f, k)]
  <2> HIDE DEF U
  <2> QED BY <1>1, <1>10
<1>12. PICK g : /\ g = [k \in from .. Len(sql) + 1 |-> BlankStep(g, k)]
                /\ Blanks(from) = g[from]
  BY <1>11, BlankTable
<1>13. \A p \in D : g[p] = BlankStep(g, p)
  BY <1>1, <1>12
<1> DEFINE S == {q \in D : g[q] \in U}
<1>14. \A p \in D : p \in S
  <2>1. ASSUME NEW p \in D, \A q \in D : p < q => q \in S PROVE p \in S
    <3>1. \A q \in D : p < q => g[q] \in U
      BY <2>1
    <3> HIDE DEF D, U
    <3> QED BY <1>6, <1>13, <3>1
  <2> HIDE DEF S, U
  <2> QED BY ONLY <1>2, <2>1, FromBehind DEF D
<1> QED BY <1>1, <1>12, <1>13, <1>14 DEF BlankRuns

\* Blanks end in the text.
LEMMA BlankType ==
  ASSUME sql \in Seq(SqlText), NEW from \in 1 .. Len(sql) + 1
  PROVE  Blanks(from) \in Parsed(from, Len(sql) + 1)
<1>1. PICK f : BlankRuns(f, from)
  BY BlankSolved
<1>2. from \in from .. Len(sql) + 1
  OBVIOUS
<1> QED BY <1>1, <1>2 DEF BlankRuns

\* The places of a text.
LEMMA SqlDomain ==
  ASSUME NEW U, sql \in Seq(U)
  PROVE  DOMAIN sql = 1 .. Len(sql) /\ Len(sql) \in Nat
OBVIOUS

\* A blank with none behind it ends at once.
LEMMA BlankAlone ==
  ASSUME sql \in Seq(SqlText), NEW k \in 1 .. Len(sql), sql[k] = " ", ~Is(k + 1, Spaces)
  PROVE  Blanks(k) = [values |-> <<>>, next |-> k + 1]
<1>1. PICK n : n = Len(sql)
  OBVIOUS
<1>2. k \in 1 .. n + 1 /\ k + 1 \in k .. n + 1 /\ k \in k .. n + 1 /\ DOMAIN sql = 1 .. n /\ k \in 1 .. n
  <2>1. DOMAIN sql = 1 .. n /\ n \in Nat
    BY <1>1, SqlDomain
  <2>2. k \in 1 .. n
    BY <1>1
  <2> QED BY ONLY <2>1, <2>2
<1>3. PICK f : BlankRuns(f, k)
  BY <1>1, <1>2, BlankSolved
<1>4. f[k] = BlankStep(f, k) /\ f[k + 1] = BlankStep(f, k + 1) /\ Blanks(k) = f[k]
  BY <1>1, <1>2, <1>3 DEF BlankRuns
<1>5. Is(k, Spaces)
  BY <1>2 DEF Is, Spaces
<1>6. f[k] = f[k + 1]
  BY <1>4, <1>5, Zenon DEF BlankStep
<1>7. f[k + 1] = [values |-> <<>>, next |-> k + 1]
  BY <1>4, Zenon DEF BlankStep
<1> QED BY <1>4, <1>6, <1>7

\* One step of the table of BracketEnd.
CloseStep(f, k) ==
  IF k > Len(sql) THEN Len(sql) + 1
  ELSE IF sql[k] # "]" THEN f[k + 1]
  ELSE IF Is(k + 1, {"]"}) THEN f[k + 2] ELSE k + 1

\* The table in BracketEnd.
LEMMA CloseTable ==
  ASSUME NEW from
  PROVE  \E g : /\ g = (CHOOSE h : h = [k \in from .. Len(sql) + 2 |-> CloseStep(h, k)])
                /\ BracketEnd(from) = g[from]
BY Zenon DEF BracketEnd, CloseStep

\* The table: f has a place for each place, by the steps.
CloseRuns(f, from) ==
  /\ BracketEnd(from) = f[from]
  /\ \A k \in from .. Len(sql) + 2 : f[k] = CloseStep(f, k) /\ f[k] \in from .. Len(sql) + 1

\* There is such a table.
LEMMA CloseSolved ==
  ASSUME sql \in Seq(SqlText), NEW from \in 1 .. Len(sql) + 1
  PROVE  \E f : CloseRuns(f, from)
<1>1. PICK n, hi : n = Len(sql) /\ hi = n + 2
  OBVIOUS
<1>2. n \in Nat /\ hi \in Nat /\ from \in Nat /\ from <= n + 1 /\ from >= 1 /\ DOMAIN sql = 1 .. n
  BY <1>1
<1> DEFINE D == from .. hi
           U == from .. n + 1
           H == [x \in D \X [D -> U] |-> CloseStep(x[2], x[1])]
<1>3. \A p \in D : p \in Nat /\ (~(p > n) => p \in DOMAIN sql /\ p + 1 \in D /\ p < p + 1
                                             /\ p + 2 \in D /\ p < p + 2)
  BY <1>1, <1>2
<1>4. n + 1 \in U /\ \A p \in D : ~(p > n) => p + 1 \in U
  BY <1>1, <1>2
<1>6. ASSUME NEW p \in D, NEW f, \A q \in D : p < q => f[q] \in U
      PROVE  CloseStep(f, p) \in U
  <2> HIDE DEF D, U
  <2> QED BY <1>1, <1>3, <1>4, <1>6, Zenon DEF CloseStep
<1>7. ASSUME NEW p \in D, NEW f \in [D -> U], NEW g \in [D -> U],
             \A q \in D : p < q => f[q] = g[q]
      PROVE  CloseStep(f, p) = CloseStep(g, p)
  <2> HIDE DEF D, U
  <2> QED BY <1>1, <1>3, <1>7, Zenon DEF CloseStep
<1>8. \A p \in D : \A f \in [D -> U] : H[<<p, f>>] = CloseStep(f, p)
  OBVIOUS
<1>9. \E f \in [D -> U] : \A p \in D : f[p] = CloseStep(f, p)
  <2>1. Stays(D, U, H)
    <3>1. \A p \in D : \A f \in [D -> U] : \A q \in D : f[q] \in U
      OBVIOUS
    <3> HIDE DEF D, U, H
    <3> QED BY <1>6, <1>8, <3>1 DEF Stays
  <2>2. LooksBehind(D, U, H)
    <3> HIDE DEF D, U, H
    <3> QED BY <1>7, <1>8 DEF LooksBehind
  <2>3. D = from .. hi
    OBVIOUS
  <2> HIDE DEF D, U, H
  <2>4. PICK f : Solves(f, D, U, H)
    BY <1>2, <1>4, <2>1, <2>2, <2>3, Recursion
  <2> QED BY <1>8, <2>4 DEF Solves
<1>10. PICK f \in [D -> U] : \A p \in D : f[p] = CloseStep(f, p)
  BY <1>9
<1>11. f = [k \in from .. Len(sql) + 2 |-> CloseStep(f, k)]
  <2> HIDE DEF U
  <2> QED BY <1>1, <1>10
<1>12. PICK g : /\ g = [k \in from .. Len(sql) + 2 |-> CloseStep(g, k)]
                /\ BracketEnd(from) = g[from]
  BY <1>11, CloseTable
<1>13. \A p \in D : g[p] = CloseStep(g, p)
  BY <1>1, <1>12
<1> DEFINE S == {q \in D : g[q] \in U}
<1>14. \A p \in D : p \in S
  <2>1. ASSUME NEW p \in D, \A q \in D : p < q => q \in S PROVE p \in S
    <3>1. \A q \in D : p < q => g[q] \in U
      BY <2>1
    <3> HIDE DEF D, U
    <3> QED BY <1>6, <1>13, <3>1
  <2> HIDE DEF S, U
  <2> QED BY ONLY <1>2, <2>1, FromBehind DEF D
<1> QED BY <1>1, <1>12, <1>13, <1>14 DEF CloseRuns

\* The places a scan of a [name] comes to, from its first letter to the place e behind it.
Walks(o, from, e, C) ==
  /\ C \in SUBSET (from .. e) /\ from \in C
  /\ \A j \in C : \/ j < e /\ o[j] # "]" /\ j + 1 \in C
                  \/ j + 1 < e /\ o[j] = "]" /\ o[j + 1] = "]" /\ j + 2 \in C
                  \/ j + 1 = e /\ o[j] = "]"
                  \/ j = e

\* A scan comes to the end of a [name], or of the text.
LEMMA BracketIs ==
  ASSUME sql \in Seq(SqlText), NEW from \in 1 .. Len(sql) + 1, NEW e, e = BracketEnd(from)
  PROVE  /\ e \in from .. Len(sql) + 1
         /\ \E C : Walks(sql, from, e, C) /\ (e <= Len(sql) => e \notin C)
         /\ e <= Len(sql) => e > from /\ sql[e - 1] = "]" /\ sql[e] # "]"
<1>1. PICK n : n = Len(sql)
  OBVIOUS
<1>2. n \in Nat /\ DOMAIN sql = 1 .. n /\ from \in 1 .. n + 1
  BY <1>1
<1>3. PICK f : CloseRuns(f, from)
  BY <1>1, CloseSolved
<1>4. \A k \in from .. n + 2 : f[k] = CloseStep(f, k) /\ f[k] \in from .. n + 1
  BY <1>1, <1>3 DEF CloseRuns
<1>5. e = f[from]
  BY <1>3 DEF CloseRuns
<1> DEFINE Good(k) == /\ f[k] >= k /\ (k <= n => f[k] > k)
                      /\ (k <= n /\ f[k] <= n => sql[f[k] - 1] = "]" /\ sql[f[k]] # "]")
           S == {k \in from .. n + 1 : Good(k)}
<1>6. \A k \in from .. n + 1 : k \in from .. n + 2 /\ k \in Nat /\ k >= 1
                            /\ (k > n => k = n + 1)
                            /\ (k <= n => k \in 1 .. n /\ k + 1 \in from .. n + 1
                                          /\ (k + 1 <= n => k + 2 \in from .. n + 1))
  BY <1>2
<1>7. \A j \in 1 .. n + 1 : Is(j, {"]"}) <=> (j <= n /\ sql[j] = "]")
  BY <1>2 DEF Is
<1>8. \A k \in from .. n + 1 : \/ k = n + 1 /\ f[k] = n + 1
                               \/ k <= n /\ sql[k] # "]" /\ f[k] = f[k + 1]
                               \/ k + 1 <= n /\ sql[k] = "]" /\ sql[k + 1] = "]" /\ f[k] = f[k + 2]
                               \/ k <= n /\ sql[k] = "]" /\ f[k] = k + 1
                                  /\ (k + 1 <= n => sql[k + 1] # "]")
  <2>1. ASSUME NEW k \in from .. n + 1
        PROVE  \/ k = n + 1 /\ f[k] = n + 1
               \/ k <= n /\ sql[k] # "]" /\ f[k] = f[k + 1]
               \/ k + 1 <= n /\ sql[k] = "]" /\ sql[k + 1] = "]" /\ f[k] = f[k + 2]
               \/ k <= n /\ sql[k] = "]" /\ f[k] = k + 1 /\ (k + 1 <= n => sql[k + 1] # "]")
    <3>1. f[k] = CloseStep(f, k)
      BY <1>4, <1>6
    <3>2. CASE k > n
      BY <1>1, <1>6, <3>1, <3>2 DEF CloseStep
    <3>3. CASE ~(k > n) /\ sql[k] # "]"
      <4>1. k <= n
        BY <1>2, <1>6, <3>3
      <4> QED BY <1>1, <3>1, <3>3, <4>1 DEF CloseStep
    <3>4. CASE ~(k > n) /\ sql[k] = "]"
      <4>1. k <= n /\ k + 1 \in 1 .. n + 1
        BY <1>2, <1>6, <3>4
      <4>2. CASE Is(k + 1, {"]"})
        <5>1. f[k] = f[k + 2]
          BY <1>1, <3>1, <3>4, <4>2, Zenon DEF CloseStep
        <5>2. k + 1 <= n /\ sql[k + 1] = "]"
          BY <1>7, <4>1, <4>2, Zenon
        <5> QED BY <3>4, <5>1, <5>2
      <4>3. CASE ~Is(k + 1, {"]"})
        <5>1. f[k] = k + 1
          BY <1>1, <3>1, <3>4, <4>3, Zenon DEF CloseStep
        <5>2. k + 1 <= n => sql[k + 1] # "]"
          BY <1>7, <4>1, <4>3, Zenon
        <5> QED BY <3>4, <4>1, <5>1, <5>2
      <4> QED BY <4>2, <4>3
    <3> QED BY <3>2, <3>3, <3>4
  <2> QED BY <2>1
<1>9. \A k \in from .. n + 1 : k \in S
  <2>1. ASSUME NEW k \in from .. n + 1, \A i \in from .. n + 1 : k < i => i \in S PROVE k \in S
    <3>1. \A i \in from .. n + 1 : k < i => Good(i)
      BY <2>1
    <3>2. f[k] \in from .. n + 1 /\ n \in Nat /\ k \in Nat
      BY <1>2, <1>4, <1>6
    <3>3. CASE k = n + 1 /\ f[k] = n + 1
      BY <3>2, <3>3
    <3>4. CASE k <= n /\ f[k] = f[k + 1]
      <4>1. k + 1 \in from .. n + 1 /\ k < k + 1
        BY <1>6, <3>2, <3>4
      <4>2. Good(k + 1)
        BY <3>1, <4>1
      <4>3. PICK v : v = f[k]
        OBVIOUS
      <4>4. v >= k + 1 /\ (k + 1 <= n /\ v <= n => sql[v - 1] = "]" /\ sql[v] # "]") /\ v \in Nat
        BY <1>2, <3>2, <3>4, <4>2, <4>3
      <4>5. v > k /\ v >= k /\ (v <= n => k + 1 <= n)
        BY <3>2, <4>4
      <4> QED BY <4>3, <4>4, <4>5
    <3>5. CASE k + 1 <= n /\ f[k] = f[k + 2]
      <4>1. k + 2 \in from .. n + 1 /\ k < k + 2 /\ k <= n
        BY <1>6, <3>2, <3>5
      <4>2. Good(k + 2)
        BY <3>1, <4>1
      <4>3. PICK v : v = f[k]
        OBVIOUS
      <4>4. v >= k + 2 /\ (k + 2 <= n /\ v <= n => sql[v - 1] = "]" /\ sql[v] # "]") /\ v \in Nat
        BY <1>2, <3>2, <3>5, <4>2, <4>3
      <4>5. v > k /\ v >= k /\ (v <= n => k + 2 <= n)
        BY <3>2, <4>4
      <4> QED BY <4>3, <4>4, <4>5
    <3>6. CASE k <= n /\ sql[k] = "]" /\ f[k] = k + 1 /\ (k + 1 <= n => sql[k + 1] # "]")
      <4>1. (k + 1) - 1 = k /\ k + 1 > k /\ k + 1 >= k
        BY <3>2
      <4> QED BY <3>6, <4>1
    <3> HIDE DEF S
    <3>7. k \in S
      BY <1>8, <3>3, <3>4, <3>5, <3>6
    <3> QED BY <3>7
  <2>2. from \in Nat /\ n + 1 \in Nat
    BY <1>2
  <2> HIDE DEF S
  <2> QED BY ONLY <2>1, <2>2, FromBehind
<1>10. \A k \in from .. n + 1 : Good(k)
  BY <1>9
<1>11. e \in from .. n + 1 /\ from \in from .. n + 1 /\ e \in Nat /\ from \in Nat
  BY <1>2, <1>4, <1>5, <1>6
<1>12. e <= n => from <= n /\ e > from /\ sql[e - 1] = "]" /\ sql[e] # "]"
  <2>1. Good(from)
    BY <1>10, <1>11
  <2>2. e <= n => from <= n
    BY <1>2, <1>11
  <2> QED BY <1>5, <2>1, <2>2
<1> DEFINE C == {j \in from .. e : f[j] = e}
<1>13. Walks(sql, from, e, C)
  <2>1. C \in SUBSET (from .. e) /\ from \in C
    BY <1>5, <1>11
  <2>2. ASSUME NEW j \in C
        PROVE  \/ j < e /\ sql[j] # "]" /\ j + 1 \in C
               \/ j + 1 < e /\ sql[j] = "]" /\ sql[j + 1] = "]" /\ j + 2 \in C
               \/ j + 1 = e /\ sql[j] = "]"
               \/ j = e
    <3>1. j \in from .. n + 1 /\ j \in Nat /\ f[j] = e /\ j \in from .. e
      BY <1>2, <1>11
    <3>2. CASE j = n + 1 /\ f[j] = n + 1
      BY <3>1, <3>2
    <3>3. CASE j <= n /\ sql[j] # "]" /\ f[j] = f[j + 1]
      <4>1. j + 1 \in from .. n + 1
        BY <1>6, <3>1, <3>3
      <4>2. Good(j + 1) /\ f[j + 1] = e
        BY <1>10, <3>1, <3>3, <4>1
      <4>3. e >= j + 1
        BY <4>2
      <4>4. j < e /\ j + 1 \in from .. e
        BY <1>11, <3>1, <4>3
      <4> QED BY <3>3, <4>2, <4>4
    <3>4. CASE j + 1 <= n /\ sql[j] = "]" /\ sql[j + 1] = "]" /\ f[j] = f[j + 2]
      <4>1. j + 2 \in from .. n + 1
        BY <1>2, <3>1, <3>4
      <4>2. Good(j + 2) /\ f[j + 2] = e
        BY <1>10, <3>1, <3>4, <4>1
      <4>3. e >= j + 2
        BY <4>2
      <4>4. j + 1 < e /\ j + 2 \in from .. e
        BY <1>11, <3>1, <4>3
      <4> QED BY <3>4, <4>2, <4>4
    <3>5. CASE j <= n /\ sql[j] = "]" /\ f[j] = j + 1
      BY <3>1, <3>5
    <3> HIDE DEF C
    <3> QED BY <1>8, <3>1, <3>2, <3>3, <3>4, <3>5
  <2> HIDE DEF C
  <2> QED BY <2>1, <2>2 DEF Walks
<1>14. e <= n => e \notin C
  <2>1. e <= n => Good(e)
    BY <1>10, <1>11
  <2>2. ~(e > e)
    BY <1>11
  <2> QED BY <2>1, <2>2
<1> HIDE DEF C
<1> QED BY <1>1, <1>11, <1>12, <1>13, <1>14

\* A scan with these places ends there.
LEMMA BracketAt ==
  ASSUME sql \in Seq(SqlText), NEW from \in 1 .. Len(sql) + 1, NEW e \in from .. Len(sql) + 1,
         NEW C, Walks(sql, from, e, C), e <= Len(sql) => e \notin C /\ sql[e] # "]"
  PROVE  BracketEnd(from) = e
<1>1. PICK n : n = Len(sql)
  OBVIOUS
<1>2. n \in Nat /\ DOMAIN sql = 1 .. n /\ from \in 1 .. n + 1 /\ e \in from .. n + 1 /\ e \in Nat
  BY <1>1
<1>3. PICK f : CloseRuns(f, from)
  BY <1>1, CloseSolved
<1>4. \A k \in from .. n + 2 : f[k] = CloseStep(f, k)
  BY <1>1, <1>3 DEF CloseRuns
<1>5. BracketEnd(from) = f[from]
  BY <1>3 DEF CloseRuns
<1> DEFINE S == {k \in from .. e : k \in C => f[k] = e}
<1>6. \A k \in from .. e : k \in S
  <2>1. ASSUME NEW k \in from .. e, \A i \in from .. e : k < i => i \in S PROVE k \in S
    <3>1. SUFFICES ASSUME k \in C PROVE f[k] = e
      BY DEF S
    <3>2. k \in Nat /\ k >= 1 /\ k <= e /\ k \in from .. n + 2 /\ f[k] = CloseStep(f, k)
      <4>1. k \in Nat /\ k >= 1 /\ k <= e /\ k \in from .. n + 2
        BY <1>2
      <4> QED BY <1>4, <4>1
    <3>3. C \in SUBSET (from .. e)
      BY DEF Walks
    <3>4. CASE k < e /\ sql[k] # "]" /\ k + 1 \in C
      <4>1. ~(k > n) /\ k < k + 1 /\ k + 1 \in from .. e
        BY <1>2, <3>2, <3>3, <3>4
      <4>2. f[k] = f[k + 1]
        BY <1>1, <3>2, <3>4, <4>1, Zenon DEF CloseStep
      <4> QED BY <2>1, <3>4, <4>1, <4>2
    <3>5. CASE k + 1 < e /\ sql[k] = "]" /\ sql[k + 1] = "]" /\ k + 2 \in C
      <4>1. ~(k > n) /\ k < k + 2 /\ k + 2 \in from .. e /\ k + 1 \in 1 .. n
        BY <1>2, <3>2, <3>3, <3>5
      <4>2. Is(k + 1, {"]"})
        BY <1>2, <3>5, <4>1 DEF Is
      <4>3. f[k] = f[k + 2]
        BY <1>1, <3>2, <3>5, <4>1, <4>2, Zenon DEF CloseStep
      <4> QED BY <2>1, <3>5, <4>1, <4>3
    <3>6. CASE k + 1 = e /\ sql[k] = "]"
      <4>1. ~(k > n)
        BY <1>2, <3>2, <3>6
      <4>2. ~Is(k + 1, {"]"})
        <5>1. e > n => ~(e \in DOMAIN sql)
          BY <1>2
        <5>2. e <= n => sql[e] # "]"
          BY <1>1
        <5>3. e > n \/ e <= n
          BY <1>2
        <5> QED BY <3>6, <5>1, <5>2, <5>3 DEF Is
      <4>3. f[k] = k + 1
        BY <1>1, <3>2, <3>6, <4>1, <4>2, Zenon DEF CloseStep
      <4> QED BY <3>6, <4>3
    <3>7. CASE k = e
      <4>1. ~(e <= n)
        BY <1>1, <3>1, <3>7
      <4>2. k > n /\ e = n + 1
        BY <1>2, <3>7, <4>1
      <4> QED BY <1>1, <3>2, <4>2 DEF CloseStep
    <3>8. \/ k < e /\ sql[k] # "]" /\ k + 1 \in C
          \/ k + 1 < e /\ sql[k] = "]" /\ sql[k + 1] = "]" /\ k + 2 \in C
          \/ k + 1 = e /\ sql[k] = "]"
          \/ k = e
      BY <3>1, Zenon DEF Walks
    <3> QED BY <3>4, <3>5, <3>6, <3>7, <3>8
  <2>2. from \in Nat /\ e \in Nat
    BY <1>2
  <2> HIDE DEF S
  <2> QED BY ONLY <2>1, <2>2, FromBehind
<1>7. from \in C /\ from \in from .. e
  BY <1>2 DEF Walks
<1> QED BY <1>5, <1>6, <1>7

-----------------------------------------------------------------------------
(* Letters *)

Gap == " "
Sep == ","
OtherMarks == {"]", "-", "=", ".", ":"}

\* What the letters are, and how they differ.
LEMMA LettersAre ==
  /\ SqlText = Letters \cup Numerals \cup OtherMarks \cup
                 {"'", "?", "#", "@", "[", "(", ")", Sep} \cup {Gap, "nl"}
  /\ Spaces = {Gap, "nl"}
  /\ Marks \ {"'", "?", "#", "@", "[", "(", ")", ","} = OtherMarks
  /\ "end" \notin SqlText
BY Zenon DEF SqlText, Letters, Numerals, Marks, Spaces, OtherMarks, Gap, Sep

\* The letters a name may go on with.
LEMMA IdentIs ==
  /\ IdentCont \in SUBSET SqlText
  /\ Gap \notin IdentCont /\ Sep \notin IdentCont /\ Gap # Sep
  /\ Gap \notin OtherMarks \cup {"'", "?", "#", "@", "[", "(", ")", "nl", "p_", "P", "N"}
  /\ Sep \notin OtherMarks \cup {"'", "?", "#", "@", "[", "(", ")", "nl", "p_", "P", "N"}
BY Zenon DEF IdentCont, SqlText, Letters, Numerals, Marks, Spaces, OtherMarks, Gap, Sep

\* The beginning of a text.
LEMMA Beginning ==
  ASSUME NEW U, NEW o \in Seq(U), NEW m \in 0 .. Len(o)
  PROVE  /\ SubSeq(o, 1, m) \in Seq(U) /\ Len(SubSeq(o, 1, m)) = m
         /\ \A i \in 1 .. m : SubSeq(o, 1, m)[i] = o[i]
<1>1. Len(o) \in Nat /\ m \in Nat /\ m <= Len(o) /\ \A i \in 1 .. m : i \in 1 .. Len(o)
  OBVIOUS
<1>2. \A i \in 1 .. m : o[i] \in U
  BY <1>1
<1> QED BY <1>1, <1>2, SubSeqProperties

\* The end of the beginning of a text.
LEMMA BeginningEnds ==
  ASSUME NEW U, NEW o \in Seq(U), NEW m \in 0 .. Len(o)
  PROVE  /\ m = 0 <=> SubSeq(o, 1, m) = <<>>
         /\ m > 0 => /\ Last(SubSeq(o, 1, m)) = o[m]
                     /\ Front(SubSeq(o, 1, m)) = SubSeq(o, 1, m - 1)
         /\ \A n \in 0 .. m : SubSeq(SubSeq(o, 1, m), 1, n) = SubSeq(o, 1, n)
<1>1. PICK s : s = SubSeq(o, 1, m)
  OBVIOUS
<1>2. /\ s \in Seq(U) /\ Len(s) = m /\ \A i \in 1 .. m : s[i] = o[i]
      /\ Len(o) \in Nat /\ m \in Nat /\ m <= Len(o)
  BY <1>1, Beginning
<1>3. m = 0 <=> s = <<>>
  BY <1>2
<1>4. \A n \in 0 .. m : SubSeq(s, 1, n) = SubSeq(o, 1, n)
  <2>1. ASSUME NEW n \in 0 .. m PROVE SubSeq(s, 1, n) = SubSeq(o, 1, n)
    <3>1. n \in 0 .. Len(o) /\ n \in 0 .. Len(s)
      BY <1>2
    <3>2. PICK a, b : a = SubSeq(s, 1, n) /\ b = SubSeq(o, 1, n)
      OBVIOUS
    <3>3. /\ a \in Seq(U) /\ Len(a) = n /\ \A i \in 1 .. n : a[i] = s[i]
          /\ b \in Seq(U) /\ Len(b) = n /\ \A i \in 1 .. n : b[i] = o[i]
      BY <1>2, <3>1, <3>2, Beginning
    <3>4. \A i \in 1 .. n : i \in 1 .. m
      BY <1>2
    <3>5. a = b
      BY <1>2, <3>3, <3>4, SeqSame
    <3> QED BY <3>2, <3>5
  <2> QED BY <2>1
<1>5. m > 0 => Last(s) = o[m] /\ Front(s) = SubSeq(s, 1, m - 1) /\ m - 1 \in 0 .. m
  BY <1>2 DEF Last, Front
<1> QED BY <1>1, <1>3, <1>4, <1>5

\* The place before a space, where one ends a text.
Unspaced(o, m) == IF m > 0 /\ o[m] = Gap THEN m - 1 ELSE m

\* What it is that a beginning ends with.
LEMMA EndsIs ==
  ASSUME NEW U, NEW o \in Seq(U), NEW m \in 0 .. Len(o)
  PROVE  /\ \A c : Ends(SubSeq(o, 1, m), c) <=> (m > 0 /\ o[m] = c)
         /\ Trimmed(SubSeq(o, 1, m)) = SubSeq(o, 1, Unspaced(o, m))
         /\ Unspaced(o, m) \in 0 .. m /\ (Unspaced(o, m) = m \/ Unspaced(o, m) = m - 1)
<1>1. m \in Nat
  OBVIOUS
<1>2. \A c : Ends(SubSeq(o, 1, m), c) <=> (m > 0 /\ o[m] = c)
  <2>1. m > 0 <=> ~(m = 0)
    BY <1>1
  <2> QED BY <2>1, BeginningEnds, Zenon DEF Ends
<1>3. Trimmed(SubSeq(o, 1, m)) = IF m > 0 /\ o[m] = Gap THEN Front(SubSeq(o, 1, m)) ELSE SubSeq(o, 1, m)
  BY <1>2, Zenon DEF Trimmed, Gap
<1>4. m > 0 => Front(SubSeq(o, 1, m)) = SubSeq(o, 1, m - 1)
  BY BeginningEnds
<1>5. Trimmed(SubSeq(o, 1, m)) = SubSeq(o, 1, Unspaced(o, m))
  <2>1. CASE m > 0 /\ o[m] = Gap
    BY <1>3, <1>4, <2>1 DEF Unspaced
  <2>2. CASE ~(m > 0 /\ o[m] = Gap)
    BY <1>3, <2>2 DEF Unspaced
  <2> QED BY <2>1, <2>2
<1>6. Unspaced(o, m) \in 0 .. m /\ (Unspaced(o, m) = m \/ Unspaced(o, m) = m - 1)
  <2>1. CASE m > 0 /\ o[m] = Gap
    BY <1>1, <2>1 DEF Unspaced
  <2>2. CASE ~(m > 0 /\ o[m] = Gap)
    BY <1>1, <2>2 DEF Unspaced
  <2> QED BY <2>1, <2>2
<1> QED BY <1>2, <1>5, <1>6

\* Where a list's comma follows a ?, and the place behind that ?.
CommaAt(o, p) == Unspaced(o, p)
HoleAt(o, p) == Unspaced(o, Unspaced(o, p) - 1)
FoldsAt(o, p) ==
  /\ Unspaced(o, p) > 0 /\ o[Unspaced(o, p)] = Sep
  /\ HoleAt(o, p) > 0 /\ o[HoleAt(o, p)] = "?"

Listed(g) == g # <<>> /\ Last(g) # "none" /\ Len(g) <= ListDepth
Rowed(g) == Listed(g) /\ Last(g) = "rows"

\* A ? is written, or the text ends with the ? before.
LEMMA PlaceholderIs ==
  ASSUME NEW U, NEW o \in Seq(U), NEW p \in 0 .. Len(o), out = SubSeq(o, 1, p)
  PROVE  /\ Listed(groups) /\ FoldsAt(o, p) => WithPlaceholder = SubSeq(o, 1, HoleAt(o, p))
         /\ ~(Listed(groups) /\ FoldsAt(o, p)) => WithPlaceholder = Append(out, "?")
<1>1. PICK a, b : a = Unspaced(o, p) /\ b = HoleAt(o, p)
  OBVIOUS
<1>2. Trimmed(out) = SubSeq(o, 1, a) /\ a \in 0 .. p /\ a \in 0 .. Len(o) /\ a \in Nat
  <2>1. Trimmed(out) = SubSeq(o, 1, a) /\ a \in 0 .. p
    BY <1>1, EndsIs
  <2>2. a \in 0 .. Len(o) /\ a \in Nat
    BY <2>1
  <2> QED BY <2>1, <2>2
<1>3. Ends(Trimmed(out), ",") <=> (a > 0 /\ o[a] = Sep)
  <2>1. Ends(SubSeq(o, 1, a), Sep) <=> (a > 0 /\ o[a] = Sep)
    BY <1>2, EndsIs
  <2> QED BY <1>2, <2>1, Zenon DEF Sep
<1>4. ASSUME a > 0
      PROVE  /\ Trimmed(Front(Trimmed(out))) = SubSeq(o, 1, b)
             /\ Ends(SubSeq(o, 1, b), "?") <=> (b > 0 /\ o[b] = "?")
  <2>1. Front(Trimmed(out)) = SubSeq(o, 1, a - 1)
    BY <1>2, <1>4, BeginningEnds
  <2>2. a - 1 \in 0 .. Len(o)
    BY <1>2, <1>4
  <2>3. Trimmed(SubSeq(o, 1, a - 1)) = SubSeq(o, 1, b) /\ b \in 0 .. a - 1
    BY <1>1, <2>2, EndsIs DEF HoleAt
  <2>4. b \in 0 .. Len(o)
    BY <2>2, <2>3
  <2> QED BY <2>1, <2>3, <2>4, EndsIs
<1>5. InList <=> Listed(groups)
  BY Zenon DEF InList, Listed
<1>6. Listed(groups) /\ FoldsAt(o, p) <=>
        InList /\ Ends(Trimmed(out), ",") /\ Ends(Trimmed(Front(Trimmed(out))), "?")
  BY <1>1, <1>3, <1>4, <1>5, Zenon DEF FoldsAt
<1>7. Listed(groups) /\ FoldsAt(o, p) => Trimmed(Front(Trimmed(out))) = SubSeq(o, 1, b)
  BY <1>1, <1>4, Zenon DEF FoldsAt
<1> QED BY <1>1, <1>6, <1>7, Zenon DEF WithPlaceholder

\* Where a row of VALUES follows one, and the place behind that one.
LastRow(o, p) == Unspaced(o, Unspaced(o, p - 2) - 1)
RowsAt(o, p) ==
  /\ p >= 2 /\ o[p] = "?" /\ o[p - 1] = "("
  /\ Unspaced(o, p - 2) > 0 /\ o[Unspaced(o, p - 2)] = Sep
  /\ LastRow(o, p) >= 3 /\ o[LastRow(o, p)] = ")" /\ o[LastRow(o, p) - 1] = "?"
  /\ o[LastRow(o, p) - 2] = "("

\* A text ends with a row where its last three letters are one.
LEMMA RowIs ==
  ASSUME NEW U, NEW o \in Seq(U), NEW m \in 0 .. Len(o)
  PROVE  EndsWithRow(SubSeq(o, 1, m)) <=> (m >= 3 /\ o[m] = ")" /\ o[m - 1] = "?" /\ o[m - 2] = "(")
<1>1. PICK s : s = SubSeq(o, 1, m)
  OBVIOUS
<1>2. /\ s \in Seq(U) /\ Len(s) = m /\ \A i \in 1 .. m : s[i] = o[i]
      /\ m \in Nat
  BY <1>1, Beginning
<1>3. CASE m >= 3
  <2>1. PICK t : t = SubSeq(s, m - 2, m)
    OBVIOUS
  <2>2. m - 2 \in 1 .. m /\ m - 1 \in 1 .. m /\ m \in 1 .. m
    BY <1>2, <1>3
  <2>3. Len(t) = 3 /\ t[1] = s[m - 2] /\ t[2] = s[m - 1] /\ t[3] = s[m] /\ t \in Seq(U)
    BY <1>2, <1>3, <2>1, <2>2
  <2>4. t = <<"(", "?", ")">> <=> (t[1] = "(" /\ t[2] = "?" /\ t[3] = ")")
    BY <2>3
  <2>5. EndsWithRow(s) <=> t = <<"(", "?", ")">>
    BY <1>2, <1>3, <2>1 DEF EndsWithRow, Row1
  <2> QED BY <1>1, <1>2, <1>3, <2>2, <2>3, <2>4, <2>5
<1>4. CASE ~(m >= 3)
  BY <1>1, <1>2, <1>4 DEF EndsWithRow
<1> QED BY <1>3, <1>4

\* A row ends the text, or the text ends with the row before.
LEMMA CollapseIs ==
  ASSUME NEW U, ")" \in U, NEW o \in Seq(U), NEW p \in 0 .. Len(o), out = SubSeq(o, 1, p)
  PROVE  /\ RowsAt(o, p) => CollapseRows(Append(out, ")")) = SubSeq(o, 1, LastRow(o, p))
         /\ ~RowsAt(o, p) => CollapseRows(Append(out, ")")) = Append(out, ")")
<1>1. PICK s, q : s = Append(out, ")") /\ q = p + 1
  OBVIOUS
<1>2. out \in Seq(U) /\ Len(out) = p /\ (\A i \in 1 .. p : out[i] = o[i]) /\ p \in Nat /\ p <= Len(o)
      /\ Len(o) \in Nat
  BY Beginning
<1>3. /\ s \in Seq(U) /\ Len(s) = q /\ s[q] = ")" /\ \A i \in 1 .. p : s[i] = o[i]
      /\ q \in Nat /\ q - 3 = p - 2
  BY <1>1, <1>2
<1>4. SubSeq(s, 1, q) = s
  <2>1. SubSeq(s, 1, q) \in Seq(U) /\ Len(SubSeq(s, 1, q)) = q /\ \A i \in 1 .. q : SubSeq(s, 1, q)[i] = s[i]
    BY <1>3, Beginning
  <2> QED BY <1>3, <2>1, SeqSame
<1>5. EndsWithRow(s) <=> (p >= 2 /\ o[p] = "?" /\ o[p - 1] = "(")
  <2>1. EndsWithRow(s) <=> (q >= 3 /\ s[q] = ")" /\ s[q - 1] = "?" /\ s[q - 2] = "(")
    <3>1. q \in 0 .. Len(s)
      BY <1>3
    <3>2. EndsWithRow(SubSeq(s, 1, q)) <=> (q >= 3 /\ s[q] = ")" /\ s[q - 1] = "?" /\ s[q - 2] = "(")
      BY <1>3, <3>1, RowIs
    <3> QED BY <1>4, <3>2
  <2>2. q - 1 = p /\ q - 2 = p - 1 /\ (q >= 3 <=> p >= 2)
    BY <1>1, <1>2
  <2>3. p >= 2 => s[p] = o[p] /\ s[p - 1] = o[p - 1]
    BY <1>2, <1>3
  <2> QED BY <1>3, <2>1, <2>2, <2>3
<1>6. CASE ~(p >= 2 /\ o[p] = "?" /\ o[p - 1] = "(")
  <2>1. ~RowsAt(o, p)
    BY <1>6, Zenon DEF RowsAt
  <2>2. CollapseRows(s) = s
    BY <1>5, <1>6, Zenon DEF CollapseRows
  <2> QED BY <1>1, <2>1, <2>2
<1>7. CASE p >= 2 /\ o[p] = "?" /\ o[p - 1] = "("
  <2>1. p - 2 \in 0 .. Len(o) /\ p - 2 \in 0 .. p /\ p - 2 \in 0 .. q /\ p - 2 \in Nat
    BY <1>2, <1>3, <1>7
  <2>2. SubSeq(s, 1, q - 3) = SubSeq(o, 1, p - 2)
    <3>1. PICK a, b : a = SubSeq(s, 1, q - 3) /\ b = SubSeq(o, 1, p - 2)
      OBVIOUS
    <3>2. /\ a \in Seq(U) /\ Len(a) = p - 2 /\ \A i \in 1 .. p - 2 : a[i] = s[i]
          /\ b \in Seq(U) /\ Len(b) = p - 2 /\ \A i \in 1 .. p - 2 : b[i] = o[i]
      BY <1>3, <2>1, <3>1, Beginning
    <3>3. \A i \in 1 .. p - 2 : i \in 1 .. p
      BY <1>2
    <3>4. a = b
      BY <1>3, <3>2, <3>3, SeqSame
    <3> QED BY <3>1, <3>4
  <2>3. PICK a, b : a = Unspaced(o, p - 2) /\ b = LastRow(o, p)
    OBVIOUS
  <2>4. Trimmed(SubSeq(o, 1, p - 2)) = SubSeq(o, 1, a) /\ a \in 0 .. Len(o) /\ a \in Nat
    <3>1. Trimmed(SubSeq(o, 1, p - 2)) = SubSeq(o, 1, a) /\ a \in 0 .. p - 2
      BY <2>1, <2>3, EndsIs
    <3> QED BY <1>2, <2>1, <3>1
  <2>5. Ends(SubSeq(o, 1, a), ",") <=> (a > 0 /\ o[a] = Sep)
    <3>1. Ends(SubSeq(o, 1, a), Sep) <=> (a > 0 /\ o[a] = Sep)
      BY <2>4, EndsIs
    <3> QED BY <3>1, Zenon DEF Sep
  <2>6. ASSUME a > 0
        PROVE  /\ Trimmed(Front(SubSeq(o, 1, a))) = SubSeq(o, 1, b)
               /\ EndsWithRow(SubSeq(o, 1, b)) <=>
                    (b >= 3 /\ o[b] = ")" /\ o[b - 1] = "?" /\ o[b - 2] = "(")
    <3>1. Front(SubSeq(o, 1, a)) = SubSeq(o, 1, a - 1)
      BY <2>4, <2>6, BeginningEnds
    <3>2. a - 1 \in 0 .. Len(o)
      BY <2>4, <2>6
    <3>3. Trimmed(SubSeq(o, 1, a - 1)) = SubSeq(o, 1, b) /\ b \in 0 .. a - 1
      BY <2>3, <3>2, EndsIs DEF LastRow
    <3>4. b \in 0 .. Len(o)
      BY <3>2, <3>3
    <3> QED BY <3>1, <3>3, <3>4, RowIs
  <2>7. PICK c : c = Trimmed(SubSeq(s, 1, Len(s) - 3))
    OBVIOUS
  <2>8. c = SubSeq(o, 1, a)
    BY <1>3, <2>2, <2>4, <2>7
  <2>9. CollapseRows(s) =
          IF EndsWithRow(s) /\ Ends(c, ",") /\ EndsWithRow(Trimmed(Front(c))) THEN Trimmed(Front(c)) ELSE s
    BY <2>7, Zenon DEF CollapseRows
  <2>10. RowsAt(o, p) <=> Ends(c, ",") /\ EndsWithRow(Trimmed(Front(c)))
    BY <1>7, <2>3, <2>5, <2>6, <2>8, Zenon DEF RowsAt
  <2>11. RowsAt(o, p) => Trimmed(Front(c)) = SubSeq(o, 1, b)
    BY <2>3, <2>6, <2>8, Zenon DEF RowsAt
  <2> QED BY <1>1, <1>5, <1>7, <2>3, <2>9, <2>10, <2>11, Zenon
<1> QED BY <1>6, <1>7

-----------------------------------------------------------------------------
(* The tokens of a norm *)

\* What is known between two tokens.
Kw == {"none", "list", "rows"}
Ctx == [groups : Seq(Kw), kw : Kw, cont : BOOLEAN, ident : BOOLEAN]
Begun == [groups |-> <<>>, kw |-> "none", cont |-> FALSE, ident |-> FALSE]
Known == [groups |-> groups, kw |-> pendingKw, cont |-> valuesCont, ident |-> prevIdent]
Passed(s, i) == [groups |-> s.groups, kw |-> "none", cont |-> FALSE, ident |-> i]

\* The letters of o behind p, up to q, are a token that leads from s to t.
TokBlank(o, p, q, s, t) ==
  /\ o[p + 1] = Gap /\ q = p + 1 /\ p > 0 /\ o[p] # Gap
  /\ t = [groups |-> s.groups, kw |-> s.kw, cont |-> s.cont, ident |-> FALSE]
TokHole(o, p, q, s, t) ==
  /\ o[p + 1] = "?" /\ q = p + 1 /\ ~(Listed(s.groups) /\ FoldsAt(o, p))
  /\ t = Passed(s, FALSE)
TokWord(o, p, q, s, t) ==
  /\ o[p + 1] \in Letters /\ \A i \in p + 1 .. q : o[i] \in IdentCont
  /\ t = [groups |-> s.groups, kw |-> Keyword(SubSeq(o, p + 1, q)), cont |-> FALSE, ident |-> TRUE]
TokDigit(o, p, q, s, t) == o[p + 1] \in Numerals /\ q = p + 1 /\ s.ident /\ t = s
TokTemp(o, p, q, s, t) ==
  /\ o[p + 1] = "#" /\ \A i \in p + 2 .. q : o[i] \in IdentCont \ Numerals
  /\ t = Passed(s, TRUE)
TokVariable(o, p, q, s, t) ==
  /\ o[p + 1] = "@" /\ \A i \in p + 2 .. q : o[i] \in IdentCont
  /\ ~(p + 3 <= q /\ o[p + 2] = "P" /\ o[p + 3] \in Numerals)
  /\ t = Passed(s, TRUE)
TokBracket(o, p, q, s, t) ==
  /\ o[p + 1] = "[" /\ \E C : Walks(o, p + 2, q + 1, C)
  /\ t = Passed(s, TRUE)
TokOpen(o, p, q, s, t) ==
  /\ o[p + 1] = "(" /\ q = p + 1
  /\ t = [groups |-> Append(s.groups, IF s.cont THEN "rows" ELSE s.kw), kw |-> "none",
          cont |-> FALSE, ident |-> FALSE]
TokClose(o, p, q, s, t) ==
  /\ o[p + 1] = ")" /\ q = p + 1 /\ ~(Rowed(s.groups) /\ RowsAt(o, p))
  /\ t = [groups |-> IF s.groups = <<>> THEN <<>> ELSE Front(s.groups), kw |-> "none",
          cont |-> Rowed(s.groups), ident |-> FALSE]
TokComma(o, p, q, s, t) ==
  /\ o[p + 1] = Sep /\ q = p + 1
  /\ t = [groups |-> s.groups, kw |-> "none", cont |-> s.cont, ident |-> FALSE]
TokOther(o, p, q, s, t) == o[p + 1] \in OtherMarks /\ q = p + 1 /\ t = Passed(s, FALSE)

Tok(o, p, q, s, t) ==
  \/ TokBlank(o, p, q, s, t) \/ TokHole(o, p, q, s, t) \/ TokWord(o, p, q, s, t)
  \/ TokDigit(o, p, q, s, t) \/ TokTemp(o, p, q, s, t) \/ TokVariable(o, p, q, s, t)
  \/ TokBracket(o, p, q, s, t) \/ TokOpen(o, p, q, s, t) \/ TokClose(o, p, q, s, t)
  \/ TokComma(o, p, q, s, t) \/ TokOther(o, p, q, s, t)

\* A token is not longer: c is the letter behind it, or "end".
Greedy == Letters \cup {"#", "@"}
Closed(o, p, q) == \E C : Walks(o, p + 2, q + 1, C) /\ q + 1 \notin C /\ o[q] = "]"
Meets(o, p, q, c) ==
  /\ o[p + 1] \in Greedy => c \notin IdentCont
  /\ o[p + 1] = "[" /\ c # "end" => c # "]" /\ Closed(o, p, q)

LetterAt(o, i, c) == IF i <= Len(o) THEN o[i] ELSE c
Link(o, G, p, q, c) == Tok(o, p, q, G[p], G[q]) /\ Meets(o, p, q, LetterAt(o, q + 1, c))

\* o falls into tokens that begin at the places of B, where G tells what is known; c is
\* the letter that comes behind.
Traced(o, B, G, c) ==
  /\ o \in Seq(SqlText) /\ B \in SUBSET (0 .. Len(o)) /\ 0 \in B /\ Len(o) \in B
  /\ G \in [Nat -> Ctx] /\ G[0] = Begun
  /\ \A p \in B : p < Len(o) =>
       \E q \in B : p < q /\ Link(o, G, p, q, c) /\ \A r \in B : ~(p < r /\ r < q)
  /\ \A q \in B : q > 0 =>
       \E p \in B : p < q /\ Link(o, G, p, q, c) /\ \A r \in B : ~(p < r /\ r < q)

-----------------------------------------------------------------------------
(* A token depends on the letters before it and in it *)

Same(o, u, q) == \A i \in 1 .. q : u[i] = o[i]

\* So does a space's place.
LEMMA CutSame ==
  ASSUME NEW o, NEW u, NEW q \in Nat, Same(o, u, q), NEW m \in 0 .. q
  PROVE  Unspaced(u, m) = Unspaced(o, m) /\ Unspaced(o, m) \in Int /\ Unspaced(o, m) <= m /\ m - 1 <= Unspaced(o, m)
                /\ (m > 0 => Unspaced(o, m) \in 0 .. q)
<1>1. m > 0 => m \in 1 .. q
  OBVIOUS
<1>2. m > 0 => u[m] = o[m]
  BY <1>1 DEF Same
<1>3. CASE m > 0 /\ o[m] = Gap
  <2>1. Unspaced(u, m) = m - 1 /\ Unspaced(o, m) = m - 1
    BY <1>2, <1>3 DEF Unspaced
  <2>2. m \in Nat
    OBVIOUS
  <2> QED BY <1>3, <2>1, <2>2
<1>4. CASE ~(m > 0 /\ o[m] = Gap)
  <2>1. Unspaced(u, m) = m /\ Unspaced(o, m) = m
    BY <1>2, <1>4 DEF Unspaced
  <2>2. m \in Nat
    OBVIOUS
  <2> QED BY <1>4, <2>1, <2>2
<1> QED BY <1>3, <1>4

\* Whether a ? is folded away.
LEMMA FoldSame ==
  ASSUME NEW o, NEW u, NEW q \in Nat, Same(o, u, q), NEW p \in 0 .. q
  PROVE  FoldsAt(u, p) <=> FoldsAt(o, p)
<1>1. PICK a, b : a = Unspaced(o, p) /\ b = Unspaced(o, a - 1)
  OBVIOUS
<1>2. Unspaced(u, p) = a /\ a \in Int /\ a <= p /\ p \in Nat /\ p <= q
  BY <1>1, CutSame
<1>3. CASE a > 0
  <2>1. a \in 1 .. q /\ a - 1 \in 0 .. q
    BY <1>2, <1>3
  <2>2. Unspaced(u, a - 1) = b /\ b \in Int /\ b <= a - 1
    BY <1>1, <2>1, CutSame
  <2>3. b > 0 => b \in 1 .. q
    BY <2>1, <2>2
  <2>4. u[a] = o[a] /\ (b > 0 => u[b] = o[b])
    BY <2>1, <2>3 DEF Same
  <2> QED BY <1>1, <1>2, <2>2, <2>4 DEF FoldsAt, HoleAt
<1>4. CASE ~(a > 0)
  BY <1>1, <1>2, <1>4 DEF FoldsAt
<1> QED BY <1>3, <1>4

\* Whether a row is folded away.
LEMMA RowSame ==
  ASSUME NEW o, NEW u, NEW q \in Nat, Same(o, u, q), NEW p \in 0 .. q
  PROVE  RowsAt(u, p) <=> RowsAt(o, p)
<1>1. PICK a, b : a = Unspaced(o, p - 2) /\ b = Unspaced(o, a - 1)
  OBVIOUS
<1>2. p \in Nat /\ p <= q
  OBVIOUS
<1>3. CASE p >= 2
  <2>1. p \in 1 .. q /\ p - 1 \in 1 .. q /\ p - 2 \in 0 .. q
    BY <1>2, <1>3
  <2>2. Unspaced(u, p - 2) = a /\ a \in Int /\ a <= p - 2
    BY <1>1, <2>1, CutSame
  <2>3. u[p] = o[p] /\ u[p - 1] = o[p - 1]
    BY <2>1 DEF Same
  <2>4. CASE a > 0
    <3>1. a \in 1 .. q /\ a - 1 \in 0 .. q
      BY <1>2, <2>2, <2>4
    <3>2. Unspaced(u, a - 1) = b /\ b \in Int /\ b <= a - 1
      BY <1>1, <3>1, CutSame
    <3>3. b >= 3 => b \in 1 .. q /\ b - 1 \in 1 .. q /\ b - 2 \in 1 .. q
      BY <3>1, <3>2
    <3>4. u[a] = o[a] /\ (b >= 3 => u[b] = o[b] /\ u[b - 1] = o[b - 1] /\ u[b - 2] = o[b - 2])
      BY <3>1, <3>3 DEF Same
    <3> QED BY <1>1, <2>2, <2>3, <3>2, <3>4 DEF RowsAt, LastRow
  <2>5. CASE ~(a > 0)
    BY <1>1, <2>2, <2>5 DEF RowsAt
  <2> QED BY <2>4, <2>5
<1>4. CASE ~(p >= 2)
  BY <1>4 DEF RowsAt
<1> QED BY <1>3, <1>4

\* A walk through a [name].
LEMMA WalksSame ==
  ASSUME NEW o, NEW u, NEW q \in Nat, Same(o, u, q), NEW from \in Nat, from >= 1, NEW C,
         Walks(o, from, q + 1, C)
  PROVE  Walks(u, from, q + 1, C)
<1>1. C \in SUBSET (from .. q + 1) /\ from \in C
  BY DEF Walks
<1>2. \A j \in C : \/ j < q + 1 /\ o[j] # "]" /\ j + 1 \in C
                   \/ j + 1 < q + 1 /\ o[j] = "]" /\ o[j + 1] = "]" /\ j + 2 \in C
                   \/ j + 1 = q + 1 /\ o[j] = "]"
                   \/ j = q + 1
  BY Zenon DEF Walks
<1>3. \A j \in C : /\ j < q + 1 \/ j + 1 = q + 1 => u[j] = o[j]
                   /\ j + 1 < q + 1 => u[j] = o[j] /\ u[j + 1] = o[j + 1]
  <2>1. \A j \in C : /\ j < q + 1 \/ j + 1 = q + 1 => j \in 1 .. q
                     /\ j + 1 < q + 1 => j \in 1 .. q /\ j + 1 \in 1 .. q
    BY <1>1
  <2> QED BY <2>1 DEF Same
<1>4. \A j \in C : \/ j < q + 1 /\ u[j] # "]" /\ j + 1 \in C
                   \/ j + 1 < q + 1 /\ u[j] = "]" /\ u[j + 1] = "]" /\ j + 2 \in C
                   \/ j + 1 = q + 1 /\ u[j] = "]"
                   \/ j = q + 1
  BY <1>2, <1>3
<1> QED BY <1>1, <1>4, Zenon DEF Walks

\* A token.
LEMMA TokSame ==
  ASSUME NEW o \in Seq(SqlText), NEW u \in Seq(SqlText), NEW q \in Nat, q <= Len(o), q <= Len(u),
         Same(o, u, q), NEW p \in Nat, p < q, NEW s, NEW t, Tok(o, p, q, s, t)
  PROVE  Tok(u, p, q, s, t)
<1>1. \A i \in 1 .. q : u[i] = o[i]
  BY DEF Same
<1>2. p + 1 \in 1 .. q /\ p \in 0 .. q /\ (p > 0 => p \in 1 .. q)
      /\ (\A i \in p + 1 .. q : i \in 1 .. q) /\ (\A i \in p + 2 .. q : i \in 1 .. q)
      /\ (p + 3 <= q => p + 2 \in 1 .. q /\ p + 3 \in 1 .. q)
  OBVIOUS
<1>3. u[p + 1] = o[p + 1] /\ (p > 0 => u[p] = o[p])
      /\ (\A i \in p + 1 .. q : u[i] = o[i]) /\ (\A i \in p + 2 .. q : u[i] = o[i])
      /\ (p + 3 <= q => u[p + 2] = o[p + 2] /\ u[p + 3] = o[p + 3])
  BY <1>1, <1>2
<1>4. CASE TokBlank(o, p, q, s, t)
  BY <1>3, <1>4, Zenon DEF TokBlank, Tok
<1>5. CASE TokHole(o, p, q, s, t)
  <2>1. FoldsAt(u, p) <=> FoldsAt(o, p)
    BY <1>2, FoldSame
  <2> QED BY <1>3, <1>5, <2>1, Zenon DEF TokHole, Tok
<1>6. CASE TokWord(o, p, q, s, t)
  <2>1. SubSeq(u, p + 1, q) = SubSeq(o, p + 1, q)
    <3>1. PICK a, b : a = SubSeq(u, p + 1, q) /\ b = SubSeq(o, p + 1, q)
      OBVIOUS
    <3>2. /\ a \in Seq(SqlText) /\ b \in Seq(SqlText) /\ Len(a) = q - p /\ Len(b) = q - p
          /\ \A k \in 1 .. q - p : a[k] = u[p + k] /\ b[k] = o[p + k]
      <4>1. p + 1 \in 1 .. Len(u) + 1 /\ p + 1 \in 1 .. Len(o) + 1 /\ q \in p .. Len(u) /\ q \in p .. Len(o)
        OBVIOUS
      <4>2. (p + 1) + 1 <= q + 1 /\ (q - (p + 1)) + 1 = q - p /\ \A k \in 1 .. q - p : (p + 1) + k - 1 = p + k
        OBVIOUS
      <4>3. \A i \in p + 1 .. q : u[i] \in SqlText /\ o[i] \in SqlText
        OBVIOUS
      <4> QED BY <3>1, <4>1, <4>2, <4>3, SubSeqProperties
    <3>3. \A k \in 1 .. q - p : p + k \in 1 .. q
      OBVIOUS
    <3>4. a = b
      <4>1. \A k \in 1 .. Len(a) : a[k] = b[k]
        BY <1>1, <3>2, <3>3
      <4> QED BY <3>2, <4>1, SeqSame
    <3> QED BY <3>1, <3>4
  <2> QED BY <1>3, <1>6, <2>1, Zenon DEF TokWord, Tok
<1>7. CASE TokDigit(o, p, q, s, t)
  BY <1>3, <1>7, Zenon DEF TokDigit, Tok
<1>8. CASE TokTemp(o, p, q, s, t)
  BY <1>3, <1>8, Zenon DEF TokTemp, Tok
<1>9. CASE TokVariable(o, p, q, s, t)
  BY <1>3, <1>9, Zenon DEF TokVariable, Tok
<1>10. CASE TokBracket(o, p, q, s, t)
  <2>1. \A C : Walks(o, p + 2, q + 1, C) => Walks(u, p + 2, q + 1, C)
    BY WalksSame
  <2> QED BY <1>3, <1>10, <2>1, Zenon DEF TokBracket, Tok
<1>11. CASE TokOpen(o, p, q, s, t)
  BY <1>3, <1>11, Zenon DEF TokOpen, Tok
<1>12. CASE TokClose(o, p, q, s, t)
  <2>1. RowsAt(u, p) <=> RowsAt(o, p)
    BY <1>2, RowSame
  <2> QED BY <1>3, <1>12, <2>1, Zenon DEF TokClose, Tok
<1>13. CASE TokComma(o, p, q, s, t)
  BY <1>3, <1>13, Zenon DEF TokComma, Tok
<1>14. CASE TokOther(o, p, q, s, t)
  BY <1>3, <1>14, Zenon DEF TokOther, Tok
<1> QED BY <1>4, <1>5, <1>6, <1>7, <1>8, <1>9, <1>10, <1>11, <1>12, <1>13, <1>14, Zenon DEF Tok

\* What a token must not be followed by.
LEMMA MeetsSame ==
  ASSUME NEW o, NEW u, NEW q \in Nat, Same(o, u, q), NEW p \in Nat, p < q, NEW c, Meets(o, p, q, c)
  PROVE  Meets(u, p, q, c)
<1>1. p + 1 \in 1 .. q /\ q \in 1 .. q /\ p + 2 \in Nat /\ p + 2 >= 1
  OBVIOUS
<1>2. u[p + 1] = o[p + 1] /\ u[q] = o[q]
  BY <1>1 DEF Same
<1>3. \A C : Walks(o, p + 2, q + 1, C) => Walks(u, p + 2, q + 1, C)
  BY <1>1, WalksSame
<1>4. Closed(o, p, q) => Closed(u, p, q)
  BY <1>2, <1>3, Zenon DEF Closed
<1> QED BY <1>2, <1>4, Zenon DEF Meets

\* The first letter tells the kind of a token.
LEMMA TokOf ==
  ASSUME NEW o, NEW p, NEW q, NEW s, NEW t, Tok(o, p, q, s, t)
  PROVE  /\ o[p + 1] = Gap => TokBlank(o, p, q, s, t)
         /\ o[p + 1] = "?" => TokHole(o, p, q, s, t)
         /\ o[p + 1] \in Letters => TokWord(o, p, q, s, t)
         /\ o[p + 1] \in Numerals => TokDigit(o, p, q, s, t)
         /\ o[p + 1] = "#" => TokTemp(o, p, q, s, t)
         /\ o[p + 1] = "@" => TokVariable(o, p, q, s, t)
         /\ o[p + 1] = "[" => TokBracket(o, p, q, s, t)
         /\ o[p + 1] = "(" => TokOpen(o, p, q, s, t)
         /\ o[p + 1] = ")" => TokClose(o, p, q, s, t)
         /\ o[p + 1] = Sep => TokComma(o, p, q, s, t)
         /\ o[p + 1] \in OtherMarks => TokOther(o, p, q, s, t)
         /\ o[p + 1] \in Letters \cup Numerals \cup OtherMarks \cup {"#", "@", "?", "[", "(", ")", Gap, Sep}
<1>1. PICK x : x = o[p + 1]
  OBVIOUS
<1>2. /\ TokBlank(o, p, q, s, t) => x = Gap
      /\ TokHole(o, p, q, s, t) => x = "?"
      /\ TokWord(o, p, q, s, t) => x \in Letters
      /\ TokDigit(o, p, q, s, t) => x \in Numerals
      /\ TokTemp(o, p, q, s, t) => x = "#"
      /\ TokVariable(o, p, q, s, t) => x = "@"
      /\ TokBracket(o, p, q, s, t) => x = "["
      /\ TokOpen(o, p, q, s, t) => x = "("
      /\ TokClose(o, p, q, s, t) => x = ")"
      /\ TokComma(o, p, q, s, t) => x = Sep
      /\ TokOther(o, p, q, s, t) => x \in OtherMarks
  BY <1>1, Zenon DEF TokBlank, TokHole, TokWord, TokDigit, TokTemp, TokVariable, TokBracket,
     TokOpen, TokClose, TokComma, TokOther
<1>3. /\ x = Gap => x \notin Letters /\ x \notin Numerals /\ x \notin OtherMarks
                    /\ x \notin {"?", "#", "@", "[", "(", ")", Sep}
      /\ x = Sep => x \notin Letters /\ x \notin Numerals /\ x \notin OtherMarks
                    /\ x \notin {"?", "#", "@", "[", "(", ")", Gap}
  BY IdentIs, Zenon DEF IdentCont
<1>4. /\ x \in Letters => x \notin Numerals /\ x \notin OtherMarks
                          /\ x \notin {"?", "#", "@", "[", "(", ")"}
      /\ x \in Numerals => x \notin OtherMarks /\ x \notin {"?", "#", "@", "[", "(", ")"}
      /\ x \in OtherMarks => x \notin {"?", "#", "@", "[", "(", ")"}
  BY DEF Letters, Numerals, OtherMarks
<1>5. \/ TokBlank(o, p, q, s, t) \/ TokHole(o, p, q, s, t) \/ TokWord(o, p, q, s, t)
      \/ TokDigit(o, p, q, s, t) \/ TokTemp(o, p, q, s, t) \/ TokVariable(o, p, q, s, t)
      \/ TokBracket(o, p, q, s, t) \/ TokOpen(o, p, q, s, t) \/ TokClose(o, p, q, s, t)
      \/ TokComma(o, p, q, s, t) \/ TokOther(o, p, q, s, t)
  BY Zenon DEF Tok
<1> HIDE DEF Letters, Numerals, OtherMarks
<1>6. /\ x = Gap => TokBlank(o, p, q, s, t)
      /\ x = "?" => TokHole(o, p, q, s, t)
      /\ x \in Letters => TokWord(o, p, q, s, t)
      /\ x \in Numerals => TokDigit(o, p, q, s, t)
      /\ x = "#" => TokTemp(o, p, q, s, t)
      /\ x = "@" => TokVariable(o, p, q, s, t)
      /\ x = "[" => TokBracket(o, p, q, s, t)
      /\ x = "(" => TokOpen(o, p, q, s, t)
      /\ x = ")" => TokClose(o, p, q, s, t)
      /\ x = Sep => TokComma(o, p, q, s, t)
      /\ x \in OtherMarks => TokOther(o, p, q, s, t)
      /\ x \in Letters \cup Numerals \cup OtherMarks \cup {"#", "@", "?", "[", "(", ")", Gap, Sep}
  BY <1>2, <1>3, <1>4, <1>5
<1> QED BY <1>1, <1>6

\* A mark, or a space, is a token of its own.
Alone == {"?", "(", ")", Gap, Sep}

\* A token that ends in a letter standing alone is that letter.
LEMMA TokEnds ==
  ASSUME NEW o, NEW p \in Nat, NEW q \in Nat, p < q, NEW s, NEW t, Tok(o, p, q, s, t),
         NEW c, c # "end", Meets(o, p, q, c), o[q] \in Alone
  PROVE  q = p + 1
<1>1. o[q] \notin IdentCont /\ o[q] # "]"
  <2>1. Alone \cap (IdentCont \cup {"]"}) = {}
    BY Zenon DEF Alone, IdentCont, Letters, Numerals, Gap, Sep
  <2> QED BY <2>1
<1>2. q \in p + 1 .. q /\ (q # p + 1 => q \in p + 2 .. q)
  OBVIOUS
<1>3. CASE TokWord(o, p, q, s, t)
  <2>1. \A i \in p + 1 .. q : o[i] \in IdentCont
    BY <1>3, Zenon DEF TokWord
  <2> QED BY <1>1, <1>2, <2>1
<1>4. CASE TokTemp(o, p, q, s, t)
  <2>1. \A i \in p + 2 .. q : o[i] \in IdentCont
    BY <1>4, Zenon DEF TokTemp
  <2> QED BY <1>1, <1>2, <2>1
<1>5. CASE TokVariable(o, p, q, s, t)
  <2>1. \A i \in p + 2 .. q : o[i] \in IdentCont
    BY <1>5, Zenon DEF TokVariable
  <2> QED BY <1>1, <1>2, <2>1
<1>6. CASE TokBracket(o, p, q, s, t)
  <2>1. Closed(o, p, q)
    BY <1>6, Zenon DEF TokBracket, Meets
  <2> QED BY <1>1, <2>1, Zenon DEF Closed
<1>7. CASE q = p + 1
  BY <1>7
<1> QED BY <1>3, <1>4, <1>5, <1>6, <1>7, Zenon DEF Tok, TokBlank, TokHole, TokDigit, TokOpen,
        TokClose, TokComma, TokOther

\* Nothing is asked of the end of a text.
LEMMA MeetsEnd ==
  ASSUME NEW o, NEW p, NEW q
  PROVE  Meets(o, p, q, "end")
<1>1. "end" \notin IdentCont
  BY Zenon DEF IdentCont, Letters, Numerals
<1> QED BY <1>1, Zenon DEF Meets

\* Nor of what comes behind a mark or a space.
LEMMA MeetsAlone ==
  ASSUME NEW o, NEW p, NEW q, NEW c, o[p + 1] \in Alone \cup Numerals \cup OtherMarks
  PROVE  Meets(o, p, q, c)
<1>1. (Alone \cup Numerals \cup OtherMarks) \cap (Greedy \cup {"["}) = {}
  BY Zenon DEF Alone, Greedy, Letters, Numerals, OtherMarks, Gap, Sep
<1> QED BY <1>1, Zenon DEF Meets

\* A text with one token more.
LEMMA Extend ==
  ASSUME NEW o, NEW B, NEW G, NEW c, Traced(o, B, G, c),
         NEW u \in Seq(SqlText), Len(o) < Len(u), Same(o, u, Len(o)),
         \A p \in Nat : Meets(o, p, Len(o), c) => Meets(o, p, Len(o), u[Len(o) + 1]),
         NEW t \in Ctx, Tok(u, Len(o), Len(u), G[Len(o)], t),
         NEW d, Meets(u, Len(o), Len(u), d)
  PROVE  \E C, H : Traced(u, C, H, d) /\ H[Len(u)] = t
<1>1. PICK m, n : m = Len(o) /\ n = Len(u)
  OBVIOUS
<1>2. /\ o \in Seq(SqlText) /\ B \in SUBSET (0 .. m) /\ 0 \in B /\ m \in B
      /\ G \in [Nat -> Ctx] /\ G[0] = Begun
      /\ \A p \in B : p < m =>
           \E q \in B : p < q /\ Link(o, G, p, q, c) /\ \A r \in B : ~(p < r /\ r < q)
      /\ \A q \in B : q > 0 =>
           \E p \in B : p < q /\ Link(o, G, p, q, c) /\ \A r \in B : ~(p < r /\ r < q)
  BY <1>1, Zenon DEF Traced
<1>3. m \in Nat /\ n \in Nat /\ m < n
  BY <1>1, <1>2
<1>4. PICK C, H : C = B \cup {n} /\ H = [i \in Nat |-> IF i = n THEN t ELSE G[i]]
  OBVIOUS
<1>5. /\ H \in [Nat -> Ctx] /\ H[n] = t /\ \A i \in Nat : i # n => H[i] = G[i]
  BY <1>2, <1>3, <1>4
<1>6. \A p \in B : p \in Nat /\ p <= m /\ p # n /\ p < n /\ H[p] = G[p] /\ p \in C
  BY <1>2, <1>3, <1>4, <1>5
<1>7. ASSUME NEW p \in B, NEW q \in B, p < q, Link(o, G, p, q, c) PROVE Link(u, H, p, q, d)
  <2>1. Tok(o, p, q, G[p], G[q]) /\ Meets(o, p, q, LetterAt(o, q + 1, c))
    BY <1>7, Zenon DEF Link
  <2>2. p \in Nat /\ q \in Nat /\ q <= m /\ q <= n
    BY <1>3, <1>6
  <2>3. Same(o, u, q)
    <3>1. \A i \in 1 .. q : i \in 1 .. m
      BY <1>3, <2>2
    <3> QED BY <1>1, <3>1 DEF Same
  <2>4. Tok(u, p, q, H[p], H[q])
    <3>1. Tok(u, p, q, G[p], G[q])
      BY <1>1, <1>2, <1>7, <2>1, <2>2, <2>3, TokSame
    <3> QED BY <1>6, <3>1
  <2>5. Meets(o, p, q, u[q + 1])
    <3>1. CASE q = m
      <4>1. LetterAt(o, q + 1, c) = c
        <5>1. ~(q + 1 <= m)
          BY <1>3, <3>1
        <5> QED BY <1>1, <5>1, Zenon DEF LetterAt
      <4> QED BY <1>1, <2>1, <2>2, <3>1, <4>1
    <3>2. CASE q # m
      <4>1. q + 1 <= m /\ q + 1 \in 1 .. m
        BY <1>3, <2>2, <3>2
      <4>2. LetterAt(o, q + 1, c) = o[q + 1]
        BY <1>1, <4>1, Zenon DEF LetterAt
      <4>3. u[q + 1] = o[q + 1]
        BY <1>1, <4>1 DEF Same
      <4> QED BY <2>1, <4>2, <4>3
    <3> QED BY <3>1, <3>2
  <2>6. Meets(u, p, q, u[q + 1])
    BY <1>7, <2>2, <2>3, <2>5, MeetsSame
  <2>7. LetterAt(u, q + 1, d) = u[q + 1]
    <3>1. q + 1 <= n
      BY <1>3, <2>2
    <3> QED BY <1>1, <3>1, Zenon DEF LetterAt
  <2> QED BY <2>4, <2>6, <2>7 DEF Link
<1>8. Link(u, H, m, n, d)
  <2>1. H[m] = G[m] /\ H[n] = t
    BY <1>2, <1>5, <1>6
  <2>2. LetterAt(u, n + 1, d) = d
    <3>1. ~(n + 1 <= n)
      BY <1>3
    <3> QED BY <1>1, <3>1, Zenon DEF LetterAt
  <2> QED BY <1>1, <2>1, <2>2, Zenon DEF Link
<1>9. C \in SUBSET (0 .. n) /\ 0 \in C /\ n \in C /\ H[0] = Begun
  BY <1>2, <1>3, <1>4, <1>6
<1>10. ASSUME NEW p \in C, p < n
       PROVE  \E q \in C : p < q /\ Link(u, H, p, q, d) /\ \A r \in C : ~(p < r /\ r < q)
  <2>1. p \in B /\ p \in Nat /\ p <= m
    <3>1. p # n
      BY <1>3, <1>10
    <3> QED BY <1>4, <1>6, <3>1
  <2>2. CASE p = m
    <3>1. \A r \in C : ~(m < r /\ r < n)
      <4>1. \A r \in B : ~(m < r)
        BY <1>3, <1>6
      <4> QED BY <1>3, <1>4, <4>1
    <3> QED BY <1>3, <1>8, <1>9, <2>2, <3>1
  <2>3. CASE p < m
    <3>1. PICK q \in B : p < q /\ Link(o, G, p, q, c) /\ \A r \in B : ~(p < r /\ r < q)
      BY <1>2, <2>1, <2>3
    <3>2. \A r \in C : ~(p < r /\ r < q)
      <4>1. ~(n < q)
        BY <1>3, <1>6
      <4> QED BY <1>4, <3>1, <4>1
    <3> QED BY <1>6, <1>7, <2>1, <3>1, <3>2
  <2> QED BY <1>3, <2>1, <2>2, <2>3
<1>11. ASSUME NEW q \in C, q > 0
       PROVE  \E p \in C : p < q /\ Link(u, H, p, q, d) /\ \A r \in C : ~(p < r /\ r < q)
  <2>1. CASE q = n
    <3>1. \A r \in C : ~(m < r /\ r < n)
      <4>1. \A r \in B : ~(m < r)
        BY <1>3, <1>6
      <4> QED BY <1>3, <1>4, <4>1
    <3> QED BY <1>2, <1>3, <1>6, <1>8, <2>1, <3>1
  <2>2. CASE q \in B
    <3>1. PICK p \in B : p < q /\ Link(o, G, p, q, c) /\ \A r \in B : ~(p < r /\ r < q)
      BY <1>2, <1>11, <2>2
    <3>2. \A r \in C : ~(p < r /\ r < q)
      <4>1. ~(n < q)
        BY <1>3, <1>6, <2>2
      <4> QED BY <1>4, <3>1, <4>1
    <3> QED BY <1>6, <1>7, <2>2, <3>1, <3>2
  <2> QED BY <1>4, <2>1, <2>2
<1>12. Traced(u, C, H, d)
  BY <1>1, <1>5, <1>9, <1>10, <1>11, Zenon DEF Traced
<1> QED BY <1>1, <1>5, <1>12

\* What comes behind a token is a letter, if the text goes on.
LEMMA NextLetter ==
  ASSUME NEW o, NEW B, NEW G, NEW c, Traced(o, B, G, c), NEW q \in B,
         q < Len(o) \/ c # "end"
  PROVE  LetterAt(o, q + 1, c) # "end"
<1>1. o \in Seq(SqlText) /\ B \in SUBSET (0 .. Len(o))
  BY Zenon DEF Traced
<1>2. q \in Nat /\ Len(o) \in Nat /\ q <= Len(o)
  BY <1>1
<1>3. CASE q < Len(o)
  <2>1. q + 1 \in 1 .. Len(o) /\ q + 1 <= Len(o)
    BY <1>2, <1>3
  <2>2. o[q + 1] \in SqlText
    BY <1>1, <2>1
  <2>3. LetterAt(o, q + 1, c) = o[q + 1]
    BY <2>1, Zenon DEF LetterAt
  <2> QED BY <2>2, <2>3, LettersAre, Zenon
<1>4. CASE ~(q < Len(o))
  <2>1. ~(q + 1 <= Len(o)) /\ c # "end"
    BY <1>2, <1>4
  <2> QED BY <2>1, Zenon DEF LetterAt
<1> QED BY <1>3, <1>4

\* A mark at the end of a token is the token.
LEMMA BackOne ==
  ASSUME NEW o, NEW B, NEW G, NEW c, Traced(o, B, G, c), NEW q \in B,
         q < Len(o) \/ c # "end", q > 0, o[q] \in Alone
  PROVE  /\ q - 1 \in B /\ q \in Nat /\ (q - 1) + 1 = q
         /\ Tok(o, q - 1, q, G[q - 1], G[q])
<1>1. B \in SUBSET (0 .. Len(o)) /\ o \in Seq(SqlText)
      /\ \A r \in B : r > 0 =>
           \E p \in B : p < r /\ Link(o, G, p, r, c) /\ \A x \in B : ~(p < x /\ x < r)
  BY Zenon DEF Traced
<1>2. PICK p \in B : p < q /\ Link(o, G, p, q, c)
  BY <1>1
<1>3. p \in Nat /\ q \in Nat /\ LetterAt(o, q + 1, c) # "end"
  BY <1>1, NextLetter
<1>4. Tok(o, p, q, G[p], G[q]) /\ Meets(o, p, q, LetterAt(o, q + 1, c))
  BY <1>2, Zenon DEF Link
<1>5. q = p + 1
  BY <1>2, <1>3, <1>4, TokEnds
<1>6. q - 1 = p
  BY <1>3, <1>5
<1> QED BY <1>2, <1>3, <1>4, <1>5, <1>6

\* A text that ends where one of its tokens ends.
LEMMA CutTrace ==
  ASSUME NEW o, NEW B, NEW G, NEW c, Traced(o, B, G, c), NEW m \in B, NEW d,
         \/ d = "end" \/ m = 0 \/ d = LetterAt(o, m + 1, c)
         \/ o[m] \in Alone /\ (m < Len(o) \/ c # "end")
  PROVE  Traced(SubSeq(o, 1, m), B \cap (0 .. m), G, d)
<1>1. PICK u, n : u = SubSeq(o, 1, m) /\ n = Len(o)
  OBVIOUS
<1>2. /\ o \in Seq(SqlText) /\ B \in SUBSET (0 .. n) /\ 0 \in B /\ n \in B
      /\ G \in [Nat -> Ctx] /\ G[0] = Begun
      /\ \A p \in B : p < n =>
           \E q \in B : p < q /\ Link(o, G, p, q, c) /\ \A r \in B : ~(p < r /\ r < q)
      /\ \A q \in B : q > 0 =>
           \E p \in B : p < q /\ Link(o, G, p, q, c) /\ \A r \in B : ~(p < r /\ r < q)
  BY <1>1, Zenon DEF Traced
<1>3. m \in Nat /\ n \in Nat /\ m <= n /\ m \in 0 .. n /\ \A p \in B : p \in Nat /\ p <= n
  BY <1>1, <1>2
<1>4. u \in Seq(SqlText) /\ Len(u) = m /\ \A i \in 1 .. m : u[i] = o[i]
  BY <1>1, <1>2, <1>3, Beginning
<1>5. PICK C : C = B \cap (0 .. m)
  OBVIOUS
<1>6. C \in SUBSET (0 .. m) /\ 0 \in C /\ m \in C /\ \A p \in B : p <= m => p \in C
  BY <1>2, <1>3, <1>5
<1>7. ASSUME NEW p \in B, NEW q \in B, p < q, q <= m, Link(o, G, p, q, c) PROVE Link(u, G, p, q, d)
  <2>1. Tok(o, p, q, G[p], G[q]) /\ Meets(o, p, q, LetterAt(o, q + 1, c))
    BY <1>7, Zenon DEF Link
  <2>2. p \in Nat /\ q \in Nat /\ q <= n /\ q > 0
    BY <1>3, <1>7
  <2>3. Same(o, u, q)
    <3>1. \A i \in 1 .. q : i \in 1 .. m
      BY <1>3, <1>7, <2>2
    <3> QED BY <1>4, <3>1 DEF Same
  <2>4. Tok(u, p, q, G[p], G[q])
    <3>1. q <= Len(o) /\ q <= Len(u) /\ p < q
      BY <1>1, <1>4, <1>7, <2>2
    <3> QED BY <1>2, <1>4, <2>1, <2>2, <2>3, <3>1, TokSame
  <2>5. CASE q < m
    <3>1. q + 1 <= m /\ q + 1 <= n /\ q + 1 \in 1 .. m
      BY <1>3, <2>2, <2>5
    <3>2. LetterAt(u, q + 1, d) = u[q + 1] /\ LetterAt(o, q + 1, c) = o[q + 1]
      BY <1>1, <1>4, <3>1, Zenon DEF LetterAt
    <3>3. Meets(o, p, q, LetterAt(u, q + 1, d))
      BY <1>4, <2>1, <3>1, <3>2
    <3>4. Meets(u, p, q, LetterAt(u, q + 1, d))
      BY <1>7, <2>2, <2>3, <3>3, MeetsSame
    <3> QED BY <2>4, <3>4, Zenon DEF Link
  <2>6. CASE q = m
    <3>1. LetterAt(u, q + 1, d) = d
      <4>1. ~(q + 1 <= m)
        BY <1>3, <2>6
      <4> QED BY <1>4, <4>1, Zenon DEF LetterAt
    <3>2. CASE d = "end"
      BY <2>4, <3>1, <3>2, MeetsEnd, Zenon DEF Link
    <3>3. CASE o[m] \in Alone /\ (m < Len(o) \/ c # "end")
      <4>1. LetterAt(o, q + 1, c) # "end"
        BY <2>6, <3>3, NextLetter
      <4>2. q = p + 1
        BY <1>7, <2>1, <2>2, <2>6, <3>3, <4>1, TokEnds
      <4>3. u[p + 1] = o[m]
        <5>1. m \in 1 .. m
          BY <1>3, <2>2, <2>6
        <5> QED BY <1>4, <2>6, <4>2, <5>1
      <4>4. Meets(u, p, q, d)
        <5>1. u[p + 1] \in Alone \cup Numerals \cup OtherMarks
          BY <3>3, <4>3
        <5> QED BY <5>1, MeetsAlone
      <4> QED BY <2>4, <3>1, <4>4, Zenon DEF Link
    <3>4. CASE d = LetterAt(o, m + 1, c)
      <4>1. Meets(o, p, q, d)
        BY <2>1, <2>6, <3>4
      <4>2. Meets(u, p, q, d)
        BY <1>7, <2>2, <2>3, <4>1, MeetsSame
      <4> QED BY <2>4, <3>1, <4>2, Zenon DEF Link
    <3> QED BY <2>2, <2>6, <3>2, <3>3, <3>4
  <2> QED BY <1>3, <1>7, <2>2, <2>5, <2>6
<1>8. ASSUME NEW p \in C, p < m
      PROVE  \E q \in C : p < q /\ Link(u, G, p, q, d) /\ \A r \in C : ~(p < r /\ r < q)
  <2>1. p \in B /\ p < n
    BY <1>3, <1>5, <1>8
  <2>2. PICK q \in B : p < q /\ Link(o, G, p, q, c) /\ \A r \in B : ~(p < r /\ r < q)
    BY <1>2, <2>1
  <2>3. q <= m
    <3>1. ~(m < q)
      BY <1>8, <2>2
    <3> QED BY <1>3, <3>1
  <2> QED BY <1>5, <1>6, <1>7, <2>1, <2>2, <2>3
<1>9. ASSUME NEW q \in C, q > 0
      PROVE  \E p \in C : p < q /\ Link(u, G, p, q, d) /\ \A r \in C : ~(p < r /\ r < q)
  <2>1. q \in B /\ q <= m /\ q \in Nat
    BY <1>3, <1>5
  <2>2. PICK p \in B : p < q /\ Link(o, G, p, q, c) /\ \A r \in B : ~(p < r /\ r < q)
    BY <1>2, <1>9, <2>1
  <2>3. p <= m
    BY <1>3, <2>1, <2>2
  <2> QED BY <1>5, <1>6, <1>7, <2>1, <2>2, <2>3
<1>10. Traced(u, C, G, d)
  BY <1>2, <1>4, <1>6, <1>8, <1>9, Zenon DEF Traced
<1> QED BY <1>1, <1>5, <1>10

\* A beginning that is all.
LEMMA AllOf ==
  ASSUME NEW U, NEW o \in Seq(U)
  PROVE  SubSeq(o, 1, Len(o)) = o
<1>1. Len(o) \in 0 .. Len(o)
  OBVIOUS
<1>2. PICK u : u = SubSeq(o, 1, Len(o))
  OBVIOUS
<1>3. u \in Seq(U) /\ Len(u) = Len(o) /\ \A i \in 1 .. Len(o) : u[i] = o[i]
  BY <1>1, <1>2, Beginning
<1>4. u = o
  BY <1>3, SeqSame
<1> QED BY <1>2, <1>4

\* Behind a space, or before the first token, any letter may come.
LEMMA Reletter ==
  ASSUME NEW o, NEW B, NEW G, NEW c, Traced(o, B, G, c), c # "end", NEW d,
         Len(o) = 0 \/ o[Len(o)] = Gap
  PROVE  Traced(o, B, G, d) /\ ~G[Len(o)].ident
<1>1. /\ o \in Seq(SqlText) /\ B \in SUBSET (0 .. Len(o)) /\ Len(o) \in B /\ G[0] = Begun
  BY Zenon DEF Traced
<1>2. B \cap (0 .. Len(o)) = B
  BY <1>1
<1>3. Gap \in Alone
  BY DEF Alone
<1>4. Traced(o, B, G, d)
  <2>1. Traced(SubSeq(o, 1, Len(o)), B \cap (0 .. Len(o)), G, d)
    BY <1>1, <1>3, CutTrace
  <2>2. SubSeq(o, 1, Len(o)) = o
    BY <1>1, AllOf
  <2> QED BY <1>2, <2>1, <2>2
<1>5. CASE Len(o) = 0
  BY <1>1, <1>4, <1>5 DEF Begun
<1>6. CASE Len(o) # 0 /\ o[Len(o)] = Gap
  <2>1. Len(o) > 0
    BY <1>1, <1>6
  <2>2. Tok(o, Len(o) - 1, Len(o), G[Len(o) - 1], G[Len(o)]) /\ (Len(o) - 1) + 1 = Len(o)
    BY <1>1, <1>3, <1>6, <2>1, BackOne
  <2>3. o[(Len(o) - 1) + 1] = Gap
    BY <1>6, <2>2
  <2>4. TokBlank(o, Len(o) - 1, Len(o), G[Len(o) - 1], G[Len(o)])
    BY <2>2, <2>3, TokOf
  <2> QED BY <1>4, <2>4 DEF TokBlank
<1> QED BY <1>4, <1>5, <1>6

\* A space changes nothing but that a digit behind it is no part of a name.
LEMMA CutBack ==
  ASSUME NEW o, NEW B, NEW G, NEW c, Traced(o, B, G, c), NEW q \in B, q < Len(o) \/ c # "end"
  PROVE  /\ Unspaced(o, q) \in B /\ Unspaced(o, q) \in Nat /\ Unspaced(o, q) <= q /\ q \in Nat
         /\ G[Unspaced(o, q)].groups = G[q].groups /\ G[Unspaced(o, q)].kw = G[q].kw
         /\ G[Unspaced(o, q)].cont = G[q].cont
<1>1. B \in SUBSET (0 .. Len(o)) /\ o \in Seq(SqlText)
  BY Zenon DEF Traced
<1>2. q \in Nat
  BY <1>1
<1>3. CASE q > 0 /\ o[q] = Gap
  <2>1. Unspaced(o, q) = q - 1
    BY <1>3 DEF Unspaced
  <2>2. Gap \in Alone
    BY DEF Alone
  <2>3. q - 1 \in B /\ Tok(o, q - 1, q, G[q - 1], G[q]) /\ (q - 1) + 1 = q
    BY <1>3, <2>2, BackOne
  <2>4. TokBlank(o, q - 1, q, G[q - 1], G[q])
    BY <1>3, <2>3, TokOf
  <2>5. q - 1 \in Nat /\ q - 1 <= q
    BY <1>2, <1>3
  <2> QED BY <1>2, <2>1, <2>3, <2>4, <2>5 DEF TokBlank
<1>4. CASE ~(q > 0 /\ o[q] = Gap)
  <2>1. Unspaced(o, q) = q
    BY <1>4 DEF Unspaced
  <2> QED BY <1>2, <2>1
<1> QED BY <1>3, <1>4

\* A text that ends with the ? of a list before, and what is known there.
LEMMA FoldTrace ==
  ASSUME NEW o, NEW B, NEW G, NEW c, Traced(o, B, G, c), c # "end", FoldsAt(o, Len(o)), NEW d
  PROVE  /\ HoleAt(o, Len(o)) \in B /\ G[HoleAt(o, Len(o))] = Passed(G[Len(o)], FALSE)
         /\ Traced(SubSeq(o, 1, HoleAt(o, Len(o))), B \cap (0 .. HoleAt(o, Len(o))), G, d)
<1>1. B \in SUBSET (0 .. Len(o)) /\ o \in Seq(SqlText) /\ Len(o) \in B /\ Len(o) \in Nat
  BY Zenon, LenProperties DEF Traced
<1>2. PICK n, a, b : n = Len(o) /\ a = Unspaced(o, n) /\ b = HoleAt(o, n)
  OBVIOUS
<1>3. a > 0 /\ o[a] = Sep /\ b > 0 /\ o[b] = "?" /\ b = Unspaced(o, a - 1)
  BY <1>2, Zenon DEF FoldsAt, HoleAt
<1>4. a \in B /\ a \in Nat /\ a <= n /\ G[a].groups = G[n].groups
  BY <1>1, <1>2, CutBack
<1>5. Sep \in Alone /\ "?" \in Alone
  BY DEF Alone
<1>6. a - 1 \in B /\ Tok(o, a - 1, a, G[a - 1], G[a]) /\ (a - 1) + 1 = a
  BY <1>2, <1>3, <1>4, <1>5, BackOne
<1>7. TokComma(o, a - 1, a, G[a - 1], G[a])
  BY <1>3, <1>6, TokOf
<1>8. G[a].groups = G[a - 1].groups
  BY <1>7 DEF TokComma
<1>9. b \in B /\ b \in Nat /\ b <= a - 1 /\ G[b].groups = G[a - 1].groups
  BY <1>2, <1>3, <1>6, CutBack
<1>10. b - 1 \in B /\ Tok(o, b - 1, b, G[b - 1], G[b]) /\ (b - 1) + 1 = b
  BY <1>2, <1>3, <1>5, <1>9, BackOne
<1>11. TokHole(o, b - 1, b, G[b - 1], G[b])
  BY <1>3, <1>10, TokOf
<1>12. G[b] = Passed(G[n], FALSE)
  <2>1. G[b] = Passed(G[b - 1], FALSE)
    BY <1>11, Zenon DEF TokHole
  <2>2. G[b].groups = G[b - 1].groups
    BY <2>1 DEF Passed
  <2> QED BY <1>4, <1>8, <1>9, <2>1, <2>2 DEF Passed
<1>13. Traced(SubSeq(o, 1, b), B \cap (0 .. b), G, d)
  BY <1>2, <1>3, <1>5, <1>9, CutTrace
<1> QED BY <1>2, <1>9, <1>12, <1>13

\* The last of an appended list.
LEMMA AppendEnds ==
  ASSUME NEW U, NEW s \in Seq(U), NEW x \in U
  PROVE  /\ Append(s, x) \in Seq(U) /\ Append(s, x) # <<>> /\ Last(Append(s, x)) = x
         /\ Front(Append(s, x)) = s
<1>1. PICK t : t = Append(s, x)
  OBVIOUS
<1>2. t \in Seq(U) /\ Len(t) = Len(s) + 1 /\ t[Len(s) + 1] = x /\ Len(s) \in Nat
      /\ \A i \in 1 .. Len(s) : t[i] = s[i]
  BY <1>1
<1>3. t # <<>> /\ Last(t) = x
  BY <1>2 DEF Last
<1>4. Front(t) = SubSeq(t, 1, Len(s))
  BY <1>2 DEF Front
<1>5. Len(s) \in 0 .. Len(t)
  BY <1>2
<1>6. PICK u : u = SubSeq(t, 1, Len(s))
  OBVIOUS
<1>7. u \in Seq(U) /\ Len(u) = Len(s) /\ \A i \in 1 .. Len(s) : u[i] = t[i]
  BY <1>2, <1>5, <1>6, Beginning
<1>8. u = s
  BY <1>2, <1>7, SeqSame
<1> QED BY <1>1, <1>2, <1>3, <1>4, <1>6, <1>8

\* A text that ends with the row of VALUES before, and what is known there.
LEMMA RowTrace ==
  ASSUME NEW o, NEW B, NEW G, NEW c, Traced(o, B, G, c), c # "end", RowsAt(o, Len(o)),
         Rowed(G[Len(o)].groups), NEW d
  PROVE  /\ LastRow(o, Len(o)) \in B
         /\ G[LastRow(o, Len(o))] =
              [groups |-> Front(G[Len(o)].groups), kw |-> "none", cont |-> TRUE, ident |-> FALSE]
         /\ Traced(SubSeq(o, 1, LastRow(o, Len(o))), B \cap (0 .. LastRow(o, Len(o))), G, d)
<1>1. /\ B \in SUBSET (0 .. Len(o)) /\ o \in Seq(SqlText) /\ Len(o) \in B /\ Len(o) \in Nat
      /\ G \in [Nat -> Ctx]
  BY Zenon, LenProperties DEF Traced
<1>2. PICK n, a, b : n = Len(o) /\ a = Unspaced(o, n - 2) /\ b = LastRow(o, n)
  OBVIOUS
<1>3. /\ n >= 2 /\ o[n] = "?" /\ o[n - 1] = "(" /\ a > 0 /\ o[a] = Sep
      /\ b >= 3 /\ o[b] = ")" /\ b = Unspaced(o, a - 1)
  BY <1>2, Zenon DEF RowsAt, LastRow
<1>4. Sep \in Alone /\ "?" \in Alone /\ "(" \in Alone /\ ")" \in Alone
  BY DEF Alone
<1>5. n - 1 \in B /\ Tok(o, n - 1, n, G[n - 1], G[n]) /\ (n - 1) + 1 = n
  BY <1>1, <1>2, <1>3, <1>4, BackOne
<1>6. TokHole(o, n - 1, n, G[n - 1], G[n])
  BY <1>3, <1>5, TokOf
<1>7. G[n].groups = G[n - 1].groups
  BY <1>6 DEF TokHole, Passed
<1>8. /\ n - 2 \in B /\ Tok(o, n - 2, n - 1, G[n - 2], G[n - 1]) /\ (n - 2) + 1 = n - 1
      /\ n - 2 \in Nat
  <2>1. n - 1 > 0 /\ n - 1 < n /\ (n - 1) - 1 = n - 2 /\ n - 2 \in Nat
    BY <1>1, <1>2, <1>3
  <2> QED BY <1>2, <1>3, <1>4, <1>5, <2>1, BackOne
<1>9. TokOpen(o, n - 2, n - 1, G[n - 2], G[n - 1])
  BY <1>3, <1>8, TokOf
<1>10. G[n - 1].groups = Append(G[n - 2].groups, IF G[n - 2].cont THEN "rows" ELSE G[n - 2].kw)
  BY <1>9 DEF TokOpen
<1>11. G[n - 2] \in Ctx
  BY <1>1, <1>8
<1>12. /\ Last(G[n].groups) = IF G[n - 2].cont THEN "rows" ELSE G[n - 2].kw
       /\ Front(G[n].groups) = G[n - 2].groups
  <2>1. G[n - 2].groups \in Seq(Kw) /\ (IF G[n - 2].cont THEN "rows" ELSE G[n - 2].kw) \in Kw
    BY <1>11 DEF Ctx, Kw
  <2> QED BY <1>7, <1>10, <2>1, AppendEnds
<1>13. /\ a \in B /\ a \in Nat /\ a <= n - 2 /\ G[a].groups = G[n - 2].groups
       /\ G[a].kw = G[n - 2].kw /\ G[a].cont = G[n - 2].cont
  BY <1>2, <1>8, <1>1, CutBack
<1>14. a - 1 \in B /\ Tok(o, a - 1, a, G[a - 1], G[a]) /\ (a - 1) + 1 = a /\ a - 1 < n /\ a < n
  <2>1. a < n /\ a - 1 < n
    BY <1>1, <1>2, <1>13
  <2> QED BY <1>2, <1>3, <1>4, <1>13, <2>1, BackOne
<1>15. TokComma(o, a - 1, a, G[a - 1], G[a])
  BY <1>3, <1>14, TokOf
<1>16. G[a].groups = G[a - 1].groups /\ G[a].kw = "none" /\ G[a].cont = G[a - 1].cont
  BY <1>15 DEF TokComma
<1>17. /\ b \in B /\ b \in Nat /\ b <= a - 1 /\ G[b].groups = G[a - 1].groups
       /\ G[b].cont = G[a - 1].cont
  BY <1>2, <1>3, <1>14, CutBack
<1>18. b - 1 \in B /\ Tok(o, b - 1, b, G[b - 1], G[b]) /\ (b - 1) + 1 = b
  <2>1. b > 0 /\ b < n
    BY <1>1, <1>2, <1>3, <1>13, <1>17
  <2> QED BY <1>2, <1>3, <1>4, <1>17, <2>1, BackOne
<1>19. TokClose(o, b - 1, b, G[b - 1], G[b])
  BY <1>3, <1>18, TokOf
<1>20. G[b].cont
  <2>1. Last(G[n].groups) = "rows"
    BY <1>2 DEF Rowed
  <2>2. G[n - 2].kw = "none"
    BY <1>13, <1>16
  <2>3. G[n - 2].cont
    BY <1>12, <2>1, <2>2
  <2> QED BY <1>13, <1>16, <1>17, <2>3
<1>21. G[b] = [groups |-> Front(G[n].groups), kw |-> "none", cont |-> TRUE, ident |-> FALSE]
  <2>1. G[b].kw = "none" /\ G[b].ident = FALSE
    BY <1>19 DEF TokClose
  <2>2. G[b].groups = Front(G[n].groups)
    BY <1>12, <1>13, <1>16, <1>17
  <2>3. G[b] \in Ctx
    BY <1>1, <1>17
  <2>4. G[b].cont = TRUE
    BY <1>20, <2>3 DEF Ctx
  <2> QED BY <2>1, <2>2, <2>3, <2>4 DEF Ctx
<1>22. Traced(SubSeq(o, 1, b), B \cap (0 .. b), G, d)
  BY <1>2, <1>3, <1>4, <1>17, CutTrace
<1> QED BY <1>2, <1>17, <1>21, <1>22

\* A scan of a [name] that comes to a place behind a space came to the space.
LEMMA WalksShorter ==
  ASSUME NEW o, NEW from \in Nat, NEW m \in Nat, from <= m, NEW C, Walks(o, from, m + 1, C),
         o[m] = Gap
  PROVE  Walks(o, from, m, C \ {m + 1})
<1>1. C \in SUBSET (from .. m + 1) /\ from \in C
  BY Zenon DEF Walks
<1>2. \A j \in C : \/ j < m + 1 /\ o[j] # "]" /\ j + 1 \in C
                   \/ j + 1 < m + 1 /\ o[j] = "]" /\ o[j + 1] = "]" /\ j + 2 \in C
                   \/ j + 1 = m + 1 /\ o[j] = "]"
                   \/ j = m + 1
  BY Zenon DEF Walks
<1>3. Gap # "]"
  BY Zenon DEF Gap
<1>4. PICK D : D = C \ {m + 1}
  OBVIOUS
<1>5. D \in SUBSET (from .. m) /\ from \in D
  <2>1. \A j \in from .. m + 1 : j # m + 1 => j \in from .. m
    OBVIOUS
  <2>2. from # m + 1
    OBVIOUS
  <2> QED BY <1>1, <1>4, <2>1, <2>2
<1>6. ASSUME NEW j \in D
      PROVE  \/ j < m /\ o[j] # "]" /\ j + 1 \in D
             \/ j + 1 < m /\ o[j] = "]" /\ o[j + 1] = "]" /\ j + 2 \in D
             \/ j + 1 = m /\ o[j] = "]"
             \/ j = m
  <2>1. j \in C /\ j \in Nat /\ j <= m
    BY <1>4, <1>5
  <2>2. CASE j = m
    BY <2>2
  <2>3. CASE j < m /\ o[j] # "]" /\ j + 1 \in C
    <3>1. j + 1 # m + 1
      BY <2>1, <2>3
    <3> QED BY <1>4, <2>3, <3>1
  <2>4. CASE j < m /\ j + 1 < m + 1 /\ o[j] = "]" /\ o[j + 1] = "]" /\ j + 2 \in C
    <3>1. j + 1 # m
      BY <1>3, <2>4
    <3>2. j + 1 < m /\ j + 2 # m + 1
      BY <2>1, <2>4, <3>1
    <3> QED BY <1>4, <2>4, <3>2
  <2>5. j < m \/ j = m
    BY <2>1
  <2>6. j + 1 # m + 1 \/ j = m
    BY <2>1
  <2>7. j # m + 1
    BY <2>1
  <2> QED BY <1>2, <2>1, <2>2, <2>3, <2>4, <2>5, <2>6, <2>7
<1>7. Walks(o, from, m, D)
  BY <1>5, <1>6, Zenon DEF Walks
<1> QED BY <1>4, <1>7

\* The letters of names.
LEMMA GapEnds ==
  ASSUME NEW o, NEW p \in Nat, NEW q \in Nat, p < q, NEW s, NEW t, Tok(o, p, q, s, t), o[q] = Gap
  PROVE  q = p + 1 \/ TokBracket(o, p, q, s, t)
<1>1. o[q] \notin IdentCont
  BY IdentIs
<1>2. q \in p + 1 .. q /\ (q # p + 1 => q \in p + 2 .. q)
  OBVIOUS
<1>3. CASE TokWord(o, p, q, s, t)
  <2>1. \A i \in p + 1 .. q : o[i] \in IdentCont
    BY <1>3, Zenon DEF TokWord
  <2> QED BY <1>1, <1>2, <2>1
<1>4. CASE TokTemp(o, p, q, s, t)
  <2>1. \A i \in p + 2 .. q : o[i] \in IdentCont
    BY <1>4, Zenon DEF TokTemp
  <2> QED BY <1>1, <1>2, <2>1
<1>5. CASE TokVariable(o, p, q, s, t)
  <2>1. \A i \in p + 2 .. q : o[i] \in IdentCont
    BY <1>5, Zenon DEF TokVariable
  <2> QED BY <1>1, <1>2, <2>1
<1> QED BY <1>3, <1>4, <1>5, Zenon DEF Tok, TokBlank, TokHole, TokDigit, TokOpen,
        TokClose, TokComma, TokOther

\* A text whose last space is taken away.
LEMMA TrimTrace ==
  ASSUME NEW o, NEW B, NEW G, NEW c, Traced(o, B, G, c)
  PROVE  \E C, H : Traced(SubSeq(o, 1, Unspaced(o, Len(o))), C, H, "end")
<1>1. /\ B \in SUBSET (0 .. Len(o)) /\ o \in Seq(SqlText) /\ Len(o) \in B /\ Len(o) \in Nat
      /\ G \in [Nat -> Ctx]
      /\ \A q \in B : q > 0 =>
           \E p \in B : p < q /\ Link(o, G, p, q, c) /\ \A r \in B : ~(p < r /\ r < q)
  BY Zenon, LenProperties DEF Traced
<1>2. PICK n : n = Len(o)
  OBVIOUS
<1>3. CASE ~(n > 0 /\ o[n] = Gap)
  <2>1. Unspaced(o, n) = n
    BY <1>3 DEF Unspaced
  <2>2. Traced(SubSeq(o, 1, n), B \cap (0 .. n), G, "end")
    BY <1>1, <1>2, CutTrace
  <2> QED BY <1>2, <2>1, <2>2
<1>4. CASE n > 0 /\ o[n] = Gap
  <2>1. Unspaced(o, n) = n - 1
    BY <1>4 DEF Unspaced
  <2>2. PICK p \in B : p < n /\ Link(o, G, p, n, c)
    BY <1>1, <1>2, <1>4
  <2>3. p \in Nat /\ n \in Nat /\ n = Len(o)
    BY <1>1, <1>2
  <2>4. Tok(o, p, n, G[p], G[n])
    BY <2>2, Zenon DEF Link
  <2>5. CASE n = p + 1
    <3>1. n - 1 = p
      BY <2>3, <2>5
    <3>2. Traced(SubSeq(o, 1, p), B \cap (0 .. p), G, "end")
      BY CutTrace
    <3> QED BY <1>2, <2>1, <3>1, <3>2
  <2>6. CASE n # p + 1
    <3>1. TokBracket(o, p, n, G[p], G[n])
      BY <1>4, <2>2, <2>3, <2>4, <2>6, GapEnds
    <3>2. PICK W : Walks(o, p + 2, n + 1, W)
      BY <3>1, Zenon DEF TokBracket
    <3>3. o[p + 1] = "[" /\ G[n] = Passed(G[p], TRUE)
      BY <3>1, Zenon DEF TokBracket
    <3>4. PICK m : m = n - 1
      OBVIOUS
    <3>5. m \in Nat /\ p < m /\ n = m + 1 /\ p + 2 \in Nat /\ p + 2 <= n /\ m <= Len(o) /\ p + 2 >= 1
      BY <2>2, <2>3, <2>6, <3>4
    <3>6. PICK v, u : v = SubSeq(o, 1, p) /\ u = SubSeq(o, 1, m)
      OBVIOUS
    <3>7. /\ v \in Seq(SqlText) /\ Len(v) = p /\ \A i \in 1 .. p : v[i] = o[i]
          /\ u \in Seq(SqlText) /\ Len(u) = m /\ \A i \in 1 .. m : u[i] = o[i]
      <4>1. p \in 0 .. Len(o) /\ m \in 0 .. Len(o)
        BY <1>2, <2>2, <2>3, <3>5
      <4> QED BY <1>1, <3>6, <4>1, Beginning
    <3>8. Walks(u, p + 2, m + 1, W \ {n + 1})
      <4>1. Walks(o, p + 2, n, W \ {n + 1})
        BY <1>4, <2>3, <3>2, <3>5, WalksShorter
      <4>2. Same(o, u, m)
        BY <3>7 DEF Same
      <4> QED BY <3>5, <4>1, <4>2, WalksSame
    <3>9. p + 1 \in 1 .. m /\ p + 1 <= Len(o)
      BY <2>3, <3>5
    <3>10. TokBracket(u, p, m, G[p], G[n])
      BY <3>3, <3>7, <3>8, <3>9, Zenon DEF TokBracket
    <3>11. Traced(v, B \cap (0 .. p), G, "[")
      <4>1. LetterAt(o, p + 1, c) = "["
        BY <3>3, <3>9, Zenon DEF LetterAt
      <4> QED BY <3>6, <4>1, CutTrace
    <3>12. Same(v, u, p)
      <4>1. \A i \in 1 .. p : i \in 1 .. m
        BY <2>3, <3>5
      <4> QED BY <3>7, <4>1 DEF Same
    <3>13. u[p + 1] = "["
      BY <3>3, <3>7, <3>9
    <3>14. Tok(u, p, m, G[p], G[n]) /\ G[n] \in Ctx
      BY <1>1, <2>3, <3>10, Zenon DEF Tok
    <3>15. Meets(u, p, m, "end")
      BY MeetsEnd
    <3>16. \E C, H : Traced(u, C, H, "end") /\ H[Len(u)] = G[n]
      BY <3>5, <3>7, <3>11, <3>12, <3>13, <3>14, <3>15, Extend
    <3> QED BY <1>2, <2>1, <3>4, <3>6, <3>16
  <2> QED BY <2>5, <2>6
<1> QED BY <1>3, <1>4

-----------------------------------------------------------------------------
(* The first pass: what is written falls into tokens *)

\* A walk in a copy of the text.
LEMMA WalksShift ==
  ASSUME NEW o, NEW u, NEW from \in Nat, NEW e \in Nat, from <= e, NEW d \in Int,
         \A i \in from .. e - 1 : u[i + d] = o[i], NEW C, Walks(o, from, e, C)
  PROVE  \E D : Walks(u, from + d, e + d, D) /\ (e \notin C => e + d \notin D)
<1>1. PICK D : D = {i \in from + d .. e + d : i - d \in C}
  OBVIOUS
<1>2. C \in SUBSET (from .. e) /\ from \in C
  BY DEF Walks
<1>3. \A j \in C : \/ j < e /\ o[j] # "]" /\ j + 1 \in C
                   \/ j + 1 < e /\ o[j] = "]" /\ o[j + 1] = "]" /\ j + 2 \in C
                   \/ j + 1 = e /\ o[j] = "]"
                   \/ j = e
  BY Zenon DEF Walks
<1>4. D \in SUBSET (from + d .. e + d) /\ from + d \in D /\ (e \notin C => e + d \notin D)
  BY <1>1, <1>2
<1>5. ASSUME NEW i \in D
      PROVE  \/ i < e + d /\ u[i] # "]" /\ i + 1 \in D
             \/ i + 1 < e + d /\ u[i] = "]" /\ u[i + 1] = "]" /\ i + 2 \in D
             \/ i + 1 = e + d /\ u[i] = "]"
             \/ i = e + d
  <2>1. PICK j : j = i - d
    OBVIOUS
  <2>2. j \in C /\ j \in Nat /\ from <= j /\ j <= e /\ i = j + d /\ i \in Int
    BY <1>1, <1>2, <2>1
  <2>3. CASE j < e /\ o[j] # "]" /\ j + 1 \in C
    <3>1. u[i] = o[j]
      BY <2>2, <2>3
    <3>2. i + 1 \in from + d .. e + d /\ (i + 1) - d = j + 1
      BY <2>2, <2>3
    <3> QED BY <1>1, <2>2, <2>3, <3>1, <3>2
  <2>4. CASE j + 1 < e /\ o[j] = "]" /\ o[j + 1] = "]" /\ j + 2 \in C
    <3>1. u[i] = o[j]
      BY <2>2, <2>4
    <3>2. u[i + 1] = o[j + 1]
      <4>1. j + 1 \in from .. e - 1 /\ i + 1 = (j + 1) + d
        BY <2>2, <2>4
      <4> QED BY <4>1
    <3>3. i + 2 \in from + d .. e + d /\ (i + 2) - d = j + 2
      BY <2>2, <2>4
    <3> QED BY <1>1, <2>2, <2>4, <3>1, <3>2, <3>3
  <2>5. CASE j + 1 = e /\ o[j] = "]"
    BY <2>2, <2>5
  <2>6. CASE j = e
    BY <2>2, <2>6
  <2> QED BY <1>3, <2>2, <2>3, <2>4, <2>5, <2>6
<1> QED BY <1>4, <1>5, Zenon DEF Walks

\* A ? or a space ends a token where the letter that came behind it did.
LEMMA MeetsMark ==
  ASSUME NEW o, NEW p, NEW q, NEW c, c # "end", Meets(o, p, q, c), NEW x, x \in {c, "?", Gap}
  PROVE  Meets(o, p, q, x)
<1>1. "?" \notin IdentCont /\ Gap \notin IdentCont /\ Gap # "]" /\ "?" # "]"
  BY Zenon DEF IdentCont, Letters, Numerals, Gap
<1>2. x = c \/ (x \notin IdentCont /\ x # "]")
  BY <1>1
<1> QED BY <1>2, Zenon DEF Meets

\* A text with one token more, which begins with the letter at hand, a ? or a space.
LEMMA Grow ==
  ASSUME NEW o, NEW B, NEW G, NEW c, c \in SqlText, Traced(o, B, G, c),
         NEW u \in Seq(SqlText), Len(o) < Len(u), Same(o, u, Len(o)),
         u[Len(o) + 1] = c \/ u[Len(o) + 1] = "?" \/ u[Len(o) + 1] = Gap,
         NEW t \in Ctx, Tok(u, Len(o), Len(u), G[Len(o)], t),
         NEW d, Meets(u, Len(o), Len(u), d)
  PROVE  \E C, H : Traced(u, C, H, d) /\ H[Len(u)] = t
<1>1. c # "end"
  BY LettersAre
<1>2. \A p \in Nat : Meets(o, p, Len(o), c) => Meets(o, p, Len(o), u[Len(o) + 1])
  <2>1. u[Len(o) + 1] \in {c, "?", Gap}
    OBVIOUS
  <2> QED BY <1>1, <2>1, MeetsMark
<1> QED BY ONLY u \in Seq(SqlText), Len(o) < Len(u), Same(o, u, Len(o)), <1>2, Extend,
        Traced(o, B, G, c), t \in Ctx, Tok(u, Len(o), Len(u), G[Len(o)], t),
        Meets(u, Len(o), Len(u), d), SMTT(30)

\* A slice of the text.
LEMMA SliceIs ==
  ASSUME sql \in Seq(SqlText), NEW m \in 1 .. Len(sql) + 1, NEW e \in m .. Len(sql) + 1
  PROVE  /\ SubSeq(sql, m, e - 1) \in Seq(SqlText) /\ Len(SubSeq(sql, m, e - 1)) = e - m
         /\ \A i \in 1 .. e - m : SubSeq(sql, m, e - 1)[i] = sql[m + i - 1]
<1>1. m \in Int /\ e - 1 \in Int /\ (\A i \in m .. e - 1 : i \in 1 .. Len(sql))
  OBVIOUS
<1>2. \A i \in m .. e - 1 : sql[i] \in SqlText
  BY <1>1
<1>3. (e - 1) - m + 1 = e - m /\ (IF m <= e - 1 THEN (e - 1) - m + 1 ELSE 0) = e - m
  OBVIOUS
<1> QED BY <1>1, <1>2, <1>3, SubSeqProperties

\* u is o with the letters of the text from m up to e behind it.
Copied(o, u, m, e) ==
  /\ u \in Seq(SqlText) /\ Len(u) = Len(o) + (e - m) /\ Len(o) \in Nat
  /\ Len(o) < Len(u) /\ Same(o, u, Len(o)) /\ u[Len(o) + 1] = sql[m]
  /\ \A i \in Len(o) + 1 .. Len(u) :
       u[i] = sql[i - Len(o) + m - 1] /\ i - Len(o) + m - 1 \in m .. e - 1
  /\ SubSeq(u, Len(o) + 1, Len(u)) = SubSeq(sql, m, e - 1)

\* A slice behind what is written.
LEMMA CopyIs ==
  ASSUME sql \in Seq(SqlText), NEW m \in 1 .. Len(sql), NEW e \in m + 1 .. Len(sql) + 1,
         NEW o \in Seq(SqlText)
  PROVE  Copied(o, o \o SubSeq(sql, m, e - 1), m, e)
<1>0. PICK w, u : w = SubSeq(sql, m, e - 1) /\ u = o \o w
  OBVIOUS
<1>1. PICK n, k : n = Len(o) /\ k = e - m
  OBVIOUS
<1>2. n \in Nat /\ k \in Nat /\ k > 0 /\ m \in Nat /\ e \in Nat /\ m \in 1 .. Len(sql) + 1 /\ e \in m .. Len(sql) + 1
  BY <1>1
<1>3. w \in Seq(SqlText) /\ Len(w) = k /\ \A i \in 1 .. k : w[i] = sql[m + i - 1]
  BY <1>0, <1>1, <1>2, SliceIs
<1>4. w[1] = sql[m]
  <2>1. 1 \in 1 .. k /\ m + 1 - 1 = m
    BY <1>2
  <2> QED BY <1>3, <2>1
<1>5. /\ u \in Seq(SqlText) /\ Len(u) = n + k
      /\ \A i \in 1 .. n + k : u[i] = IF i <= n THEN o[i] ELSE w[i - n]
  BY <1>0, <1>1, <1>3, ConcatProperties
<1>6. \A i \in n + 1 .. n + k : u[i] = w[i - n] /\ i - n \in 1 .. k
  <2>1. \A i \in n + 1 .. n + k : i \in 1 .. n + k /\ ~(i <= n) /\ i - n \in 1 .. k
    BY <1>2
  <2> QED BY <1>5, <2>1
<1>7. \A i \in n + 1 .. n + k : u[i] = sql[i - n + m - 1] /\ i - n + m - 1 \in m .. e - 1
  <2>1. \A i \in n + 1 .. n + k : m + (i - n) - 1 = i - n + m - 1 /\ i - n + m - 1 \in m .. e - 1
    BY <1>1, <1>2
  <2> QED BY <1>3, <1>6, <2>1
<1>8. SubSeq(u, n + 1, n + k) = w
  <2>1. PICK v : v = SubSeq(u, n + 1, n + k)
    OBVIOUS
  <2>2. v \in Seq(SqlText) /\ Len(v) = k /\ \A i \in 1 .. k : v[i] = u[n + i]
    <3>1. n + 1 \in Int /\ n + k \in Int /\ (\A i \in n + 1 .. n + k : i \in 1 .. n + k)
          /\ (n + k) - (n + 1) + 1 = k /\ (IF n + 1 <= n + k THEN (n + k) - (n + 1) + 1 ELSE 0) = k
          /\ (\A i \in 1 .. k : (n + 1) + i - 1 = n + i)
      BY <1>2
    <3>2. \A i \in n + 1 .. n + k : u[i] \in SqlText
      BY <1>5, <3>1
    <3>3. /\ v \in Seq(SqlText) /\ Len(v) = IF n + 1 <= n + k THEN (n + k) - (n + 1) + 1 ELSE 0
          /\ \A i \in 1 .. (n + k) - (n + 1) + 1 : v[i] = u[(n + 1) + i - 1]
      <4>1. n + 1 \in Int /\ n + k \in Int
        BY <3>1
      <4> QED BY ONLY <2>1, <4>1, <3>2, SubSeqProperties
    <3> QED BY <3>1, <3>3
  <2>3. \A i \in 1 .. Len(v) : v[i] = w[i]
    <3>1. \A i \in 1 .. k : n + i \in n + 1 .. n + k /\ (n + i) - n = i
      BY <1>2
    <3> QED BY <1>6, <2>2, <3>1
  <2> QED BY <1>3, <2>1, <2>2, <2>3, SeqSame
<1>9. n < n + k /\ n + 1 \in n + 1 .. n + k /\ (n + 1) - n + m - 1 = m
  BY <1>2
<1>10. Same(o, u, n)
  <2>1. \A i \in 1 .. n : i \in 1 .. n + k /\ i <= n
    BY <1>2
  <2> QED BY <1>5, <2>1 DEF Same
<1>11. u[n + 1] = sql[m]
  BY <1>7, <1>9
<1> QED BY <1>0, <1>1, <1>2, <1>5, <1>7, <1>8, <1>9, <1>10, <1>11 DEF Copied

\* A text, what is known behind it, and the letter that comes next.
Reached(o, s, d) == \E B, G : Traced(o, B, G, d) /\ G[Len(o)] = s

Letter(k) == IF k \in DOMAIN sql THEN sql[k] ELSE "end"

\* In the text, at a letter.
Reading == sql \in Seq(SqlText) /\ pos \in 1 .. Len(sql) /\ Reached(out, Known, sql[pos])

\* What falls into tokens is a text.
LEMMA ReachedIs ==
  ASSUME NEW o, NEW s, NEW d, Reached(o, s, d)
  PROVE  o \in Seq(SqlText) /\ Len(o) \in Nat /\ s \in Ctx
<1>1. PICK B, G : Traced(o, B, G, d) /\ G[Len(o)] = s
  BY Zenon DEF Reached
<1>2. o \in Seq(SqlText) /\ G \in [Nat -> Ctx]
  BY <1>1, Zenon DEF Traced
<1>3. Len(o) \in Nat
  BY <1>2
<1> QED BY <1>1, <1>2, <1>3

\* In the text there is a letter at hand.
LEMMA ReadingIs ==
  ASSUME Reading
  PROVE  /\ sql \in Seq(SqlText) /\ pos \in 1 .. Len(sql) /\ pos \in Nat /\ Len(sql) \in Nat
         /\ sql[pos] \in SqlText /\ sql[pos] # "end"
         /\ out \in Seq(SqlText) /\ Len(out) \in Nat /\ Known \in Ctx
<1>1. sql \in Seq(SqlText) /\ pos \in 1 .. Len(sql)
  BY Zenon DEF Reading
<1>2. out \in Seq(SqlText) /\ Len(out) \in Nat /\ Known \in Ctx
  BY ReachedIs, Zenon DEF Reading
<1>3. sql[pos] \in SqlText /\ pos \in Nat /\ Len(sql) \in Nat
  BY <1>1
<1> QED BY <1>1, <1>2, <1>3, LettersAre

\* One token more is written.
LEMMA WrittenToken ==
  ASSUME Reading, NEW u \in Seq(SqlText), Len(out) < Len(u), Same(out, u, Len(out)),
         u[Len(out) + 1] = sql[pos] \/ u[Len(out) + 1] = "?" \/ u[Len(out) + 1] = Gap,
         NEW t \in Ctx, Tok(u, Len(out), Len(u), Known, t),
         NEW d, Meets(u, Len(out), Len(u), d)
  PROVE  Reached(u, t, d)
<1>1. PICK B, G : Traced(out, B, G, sql[pos]) /\ G[Len(out)] = Known
  BY Zenon DEF Reading, Reached
<1>2. \E C, H : Traced(u, C, H, d) /\ H[Len(u)] = t
  <2>1. PICK o, c : o = out /\ c = sql[pos]
    OBVIOUS
  <2>2. Traced(o, B, G, c)
    BY <1>1, <2>1
  <2>3. Tok(u, Len(o), Len(u), G[Len(o)], t)
    BY <1>1, <2>1
  <2>4. Meets(u, Len(o), Len(u), d) /\ Len(o) < Len(u) /\ Same(o, u, Len(o)) /\ c \in SqlText
    BY <2>1, ReadingIs
  <2>5. u[Len(o) + 1] = c \/ u[Len(o) + 1] = "?" \/ u[Len(o) + 1] = Gap
    BY <2>1
  <2> QED BY ONLY <2>2, <2>3, <2>4, <2>5, u \in Seq(SqlText), t \in Ctx, Grow, SMTT(30)
<1> QED BY <1>2, Zenon DEF Reached

\* One letter more.
LEMMA OneMore ==
  ASSUME NEW o \in Seq(SqlText), NEW x \in SqlText, NEW u, u = Append(o, x)
  PROVE  /\ u = o \o <<x>> /\ u \in Seq(SqlText) /\ Len(u) = Len(o) + 1 /\ u[Len(o) + 1] = x
         /\ Len(o) \in Nat /\ Same(o, u, Len(o)) /\ <<x>> \in Seq(SqlText) /\ Len(<<x>>) = 1
         /\ <<x>>[1] = x
<1>1. u \in Seq(SqlText) /\ Len(u) = Len(o) + 1 /\ u[Len(o) + 1] = x /\ Len(o) \in Nat
      /\ \A i \in 1 .. Len(o) : u[i] = o[i]
  BY AppendProperties
<1>2. <<x>> \in Seq(SqlText) /\ Len(<<x>>) = 1 /\ <<x>>[1] = x
  OBVIOUS
<1>3. PICK v : v = o \o <<x>>
  OBVIOUS
<1>4. /\ v \in Seq(SqlText) /\ Len(v) = Len(o) + 1
      /\ \A i \in 1 .. Len(o) + 1 : v[i] = IF i <= Len(o) THEN o[i] ELSE <<x>>[i - Len(o)]
  BY <1>2, <1>3, ConcatProperties
<1>5. \A i \in 1 .. Len(u) : u[i] = v[i]
  <2>1. ASSUME NEW i \in 1 .. Len(o) + 1 PROVE u[i] = v[i]
    <3>1. CASE i <= Len(o)
      BY <1>1, <1>4, <3>1
    <3>2. CASE i = Len(o) + 1
      <4>1. ~(i <= Len(o)) /\ i - Len(o) = 1
        BY <1>1, <3>2
      <4> QED BY <1>1, <1>2, <1>4, <3>2, <4>1
    <3> QED BY <1>1, <3>1, <3>2
  <2> QED BY <1>1, <2>1
<1>6. u = v
  BY <1>1, <1>4, <1>5, SeqSame
<1> QED BY <1>1, <1>2, <1>3, <1>6 DEF Same

\* A mark, a digit or a space more.
LEMMA WrittenOne ==
  ASSUME Reading, NEW x \in Alone \cup Numerals \cup OtherMarks, x \in {sql[pos], "?", Gap},
         NEW t \in Ctx, Tok(Append(out, x), Len(out), Len(out) + 1, Known, t), NEW d
  PROVE  Reached(Append(out, x), t, d)
<1>1. PICK u : u = Append(out, x)
  OBVIOUS
<1>2. Alone \cup Numerals \cup OtherMarks \in SUBSET SqlText
  BY Zenon DEF Alone, Numerals, OtherMarks, SqlText, Marks, Spaces, Gap, Sep
<1>3. x \in SqlText
  BY <1>2
<1>4. out \in Seq(SqlText)
  BY ReadingIs
<1>5. /\ u = out \o <<x>> /\ Len(u) = Len(out) + 1 /\ u[Len(out) + 1] = x
  BY <1>1, <1>3, <1>4, OneMore
<1>6. Len(out) < Len(u) /\ Same(out, u, Len(out)) /\ u \in Seq(SqlText)
  <2>1. Same(out, u, Len(out)) /\ u \in Seq(SqlText) /\ Len(out) \in Nat
    BY <1>1, <1>3, <1>4, OneMore
  <2>2. Len(out) < Len(u)
    BY <1>5, <2>1
  <2> QED BY <2>1, <2>2
<1>7. u[Len(out) + 1] = sql[pos] \/ u[Len(out) + 1] = "?" \/ u[Len(out) + 1] = Gap
  BY <1>5
<1>8. Meets(u, Len(out), Len(u), d)
  <2>1. u[Len(out) + 1] \in Alone \cup Numerals \cup OtherMarks
    BY <1>5
  <2> QED BY ONLY <2>1, MeetsAlone
<1>9. Tok(u, Len(out), Len(u), Known, t)
  BY <1>1, <1>5
<1>10. Reached(u, t, d)
  BY ONLY <1>6, <1>7, <1>8, <1>9, Reading, t \in Ctx, WrittenToken, SMTT(30)
<1> QED BY <1>1, <1>10

\* What is known behind a token without more to it.
LEMMA PassedType ==
  ASSUME NEW s \in Ctx, NEW i \in BOOLEAN
  PROVE  Passed(s, i) \in Ctx
BY DEF Passed, Ctx, Kw

\* For a literal or a placeholder a ? is written, or nothing in a list.
LEMMA HoleTrace ==
  ASSUME Reading, NEW d
  PROVE  Reached(WithPlaceholder, Passed(Known, FALSE), d)
<1>1. PICK n : n = Len(out)
  OBVIOUS
<1>2. out \in Seq(SqlText) /\ n \in Nat /\ Known \in Ctx
  BY <1>1, ReadingIs
<1>3. n \in 0 .. Len(out) /\ out = SubSeq(out, 1, n)
  BY <1>1, <1>2, AllOf
<1>4. Known.groups = groups
  BY Zenon DEF Known
<1>5. /\ Listed(groups) /\ FoldsAt(out, n) => WithPlaceholder = SubSeq(out, 1, HoleAt(out, n))
      /\ ~(Listed(groups) /\ FoldsAt(out, n)) => WithPlaceholder = Append(out, "?")
  BY <1>2, <1>3, PlaceholderIs
<1>6. CASE Listed(groups) /\ FoldsAt(out, n)
  <2>1. PICK B, G : Traced(out, B, G, sql[pos]) /\ G[n] = Known
    BY <1>1, Zenon DEF Reading, Reached
  <2>2. sql[pos] # "end"
    BY ReadingIs
  <2>3. PICK h, v : h = HoleAt(out, n) /\ v = SubSeq(out, 1, h)
    OBVIOUS
  <2>4. /\ h \in B /\ G[h] = Passed(Known, FALSE)
        /\ Traced(v, B \cap (0 .. h), G, d)
    BY <1>1, <1>6, <2>1, <2>2, <2>3, FoldTrace
  <2>5. B \in SUBSET (0 .. n)
    BY <1>1, <2>1, Zenon DEF Traced
  <2>6. Len(v) = h
    BY <1>1, <1>2, <2>3, <2>4, <2>5, Beginning
  <2>7. Reached(v, Passed(Known, FALSE), d)
    BY <2>4, <2>6, Zenon DEF Reached
  <2> QED BY <1>5, <1>6, <2>3, <2>7
<1>7. CASE ~(Listed(groups) /\ FoldsAt(out, n))
  <2>1. PICK u : u = Append(out, "?")
    OBVIOUS
  <2>2. "?" \in SqlText /\ "?" \in Alone \cup Numerals \cup OtherMarks
    BY Zenon DEF SqlText, Marks, Alone
  <2>3. u[n + 1] = "?" /\ Same(out, u, n)
    BY <1>1, <1>2, <2>1, <2>2, OneMore
  <2>4. FoldsAt(u, n) <=> FoldsAt(out, n)
    BY <1>2, <1>3, <2>3, FoldSame
  <2>5. TokHole(u, n, n + 1, Known, Passed(Known, FALSE))
    BY <1>4, <1>7, <2>3, <2>4, Zenon DEF TokHole
  <2>6. Tok(Append(out, "?"), Len(out), Len(out) + 1, Known, Passed(Known, FALSE))
    BY <1>1, <2>1, <2>5, Zenon DEF Tok
  <2>7. Passed(Known, FALSE) \in Ctx
    BY <1>2, PassedType
  <2>8. Reached(Append(out, "?"), Passed(Known, FALSE), d)
    BY <2>2, <2>6, <2>7, WrittenOne
  <2> QED BY <1>5, <1>7, <2>8
<1> QED BY <1>6, <1>7

\* Spaces and line ends are one space, and none at the start.
LEMMA BlankTrace ==
  ASSUME Reading, NEW d, NEW u, u = IF out = <<>> \/ Ends(out, Gap) THEN out ELSE Append(out, Gap)
  PROVE  Reached(u, [groups |-> groups, kw |-> pendingKw, cont |-> valuesCont, ident |-> FALSE], d)
<1>1. PICK n, t : /\ n = Len(out)
                  /\ t = [groups |-> groups, kw |-> pendingKw, cont |-> valuesCont, ident |-> FALSE]
  OBVIOUS
<1>2. out \in Seq(SqlText) /\ n \in Nat /\ Known \in Ctx
  BY <1>1, ReadingIs
<1>3. n \in 0 .. Len(out) /\ SubSeq(out, 1, n) = out
  BY <1>1, <1>2, AllOf
<1>4. /\ \A c : Ends(out, c) <=> (n > 0 /\ out[n] = c)
      /\ n = 0 <=> out = <<>>
  <2>1. \A c : Ends(SubSeq(out, 1, n), c) <=> (n > 0 /\ out[n] = c)
    BY <1>2, <1>3, EndsIs
  <2>2. n = 0 <=> SubSeq(out, 1, n) = <<>>
    BY <1>2, <1>3, BeginningEnds
  <2> QED BY <1>3, <2>1, <2>2, Zenon
<1>5. u = IF n = 0 \/ (n > 0 /\ out[n] = Gap) THEN out ELSE Append(out, Gap)
  BY <1>4, Zenon DEF Gap
<1>6. Known.groups = groups /\ Known.kw = pendingKw /\ Known.cont = valuesCont /\ Known.ident = prevIdent
      /\ Known = [groups |-> groups, kw |-> pendingKw, cont |-> valuesCont, ident |-> prevIdent]
  BY Zenon DEF Known
<1>7. CASE n = 0 \/ (n > 0 /\ out[n] = Gap)
  <2>1. PICK B, G : Traced(out, B, G, sql[pos]) /\ G[n] = Known
    BY <1>1, Zenon DEF Reading, Reached
  <2>2. sql[pos] # "end"
    BY ReadingIs
  <2>3. Traced(out, B, G, d) /\ ~G[Len(out)].ident
    <3>1. Len(out) = 0 \/ out[Len(out)] = Gap
      BY <1>1, <1>7
    <3> QED BY <2>1, <2>2, <3>1, Reletter
  <2>4. Known = t
    <3>1. Known.ident = FALSE
      BY <1>1, <1>2, <2>1, <2>3 DEF Ctx
    <3> QED BY <1>1, <1>6, <3>1
  <2>5. Reached(out, t, d)
    BY <1>1, <2>1, <2>3, <2>4, Zenon DEF Reached
  <2> QED BY <1>1, <1>5, <1>7, <2>5
<1>8. CASE ~(n = 0 \/ (n > 0 /\ out[n] = Gap))
  <2>1. n > 0 /\ out[n] # Gap
    BY <1>2, <1>8
  <2>2. PICK v : v = Append(out, Gap)
    OBVIOUS
  <2>3. Gap \in SqlText /\ Gap \in Alone \cup Numerals \cup OtherMarks
    BY Zenon DEF SqlText, Spaces, Alone, Gap
  <2>4. v[n + 1] = Gap /\ Same(out, v, n)
    BY <1>1, <1>2, <2>2, <2>3, OneMore
  <2>5. v[n] = out[n]
    <3>1. n \in 1 .. n
      BY <1>2, <2>1
    <3> QED BY <2>4, <3>1 DEF Same
  <2>6. t = [groups |-> Known.groups, kw |-> Known.kw, cont |-> Known.cont, ident |-> FALSE]
    BY <1>1, <1>6
  <2>7. TokBlank(v, n, n + 1, Known, t)
    BY <2>1, <2>4, <2>5, <2>6, Zenon DEF TokBlank
  <2>8. Tok(Append(out, Gap), Len(out), Len(out) + 1, Known, t)
    BY <1>1, <2>2, <2>7, Zenon DEF Tok
  <2>9. t \in Ctx
    BY <1>2, <2>6 DEF Ctx
  <2>10. Reached(Append(out, Gap), t, d)
    BY <2>3, <2>8, <2>9, WrittenOne
  <2> QED BY <1>1, <1>5, <1>8, <2>10
<1> QED BY <1>7, <1>8

\* A letter that is copied and is a token of its own.
LEMMA CopiedOne ==
  ASSUME Reading, NEW u, u = out \o SubSeq(sql, pos, (pos + 1) - 1)
  PROVE  u = Append(out, sql[pos]) /\ u[Len(out) + 1] = sql[pos] /\ Same(out, u, Len(out))
<1>1. /\ sql \in Seq(SqlText) /\ pos \in 1 .. Len(sql) /\ pos \in Nat /\ Len(sql) \in Nat
      /\ sql[pos] \in SqlText /\ out \in Seq(SqlText)
  BY ReadingIs
<1>2. PICK w : w = SubSeq(sql, pos, (pos + 1) - 1)
  OBVIOUS
<1>3. pos + 1 \in pos + 1 .. Len(sql) + 1 /\ (pos + 1) - pos = 1
  BY <1>1
<1>4. w \in Seq(SqlText) /\ w[1] = sql[pos]
  <2>1. pos \in 1 .. Len(sql) + 1 /\ pos + 1 \in pos .. Len(sql) + 1 /\ 1 \in 1 .. (pos + 1) - pos
        /\ pos + 1 - 1 = pos
    BY <1>1
  <2> QED BY <1>1, <1>2, <2>1, SliceIs
<1>5. Len(w) = 1
  <2>1. pos \in 1 .. Len(sql) + 1 /\ pos + 1 \in pos .. Len(sql) + 1
    BY <1>1
  <2>2. Len(SubSeq(sql, pos, (pos + 1) - 1)) = (pos + 1) - pos
    BY <1>1, <2>1, SliceIs
  <2> QED BY <1>2, <1>3, <2>2
<1>6. w = <<sql[pos]>>
  <2>1. <<sql[pos]>> \in Seq(SqlText) /\ Len(<<sql[pos]>>) = 1 /\ <<sql[pos]>>[1] = sql[pos]
    BY <1>1
  <2>2. \A k \in 1 .. Len(w) : w[k] = <<sql[pos]>>[k]
    BY <1>4, <1>5, <2>1
  <2> QED BY <1>4, <1>5, <2>1, <2>2, SeqSame
<1>7. Append(out, sql[pos]) = out \o <<sql[pos]>>
  BY <1>1, AppendIsConcat
<1>8. u = Append(out, sql[pos])
  BY <1>2, <1>6, <1>7
<1> QED BY <1>1, <1>8, OneMore

\* The letter at a place that holds none of S.
LEMMA LetterNot ==
  ASSUME NEW S, "end" \notin S, NEW k, ~Is(k, S)
  PROVE  Letter(k) \notin S
BY Zenon DEF Letter, Is

\* The letters of names.
LEMMA NameLetters ==
  /\ "end" \notin IdentCont /\ "end" \notin IdentCont \ Numerals
  /\ Letters \in SUBSET IdentCont /\ Numerals \in SUBSET IdentCont
  /\ "P" \in IdentCont \ Numerals /\ "@" \in SqlText /\ "P" \in SqlText
BY DEF IdentCont, Letters, Numerals, SqlText, Marks

\* A word.
LEMMA WordTrace ==
  ASSUME Reading, sql[pos] \in Letters, NEW e, e = Past(pos, IdentCont),
         NEW u, u = out \o SubSeq(sql, pos, e - 1)
  PROVE  /\ e \in pos + 1 .. Len(sql) + 1
         /\ Reached(u, [groups |-> groups, kw |-> Keyword(SubSeq(sql, pos, e - 1)), cont |-> FALSE,
                        ident |-> TRUE], Letter(e))
<1>1. /\ sql \in Seq(SqlText) /\ pos \in 1 .. Len(sql) /\ pos \in Nat /\ Len(sql) \in Nat
      /\ sql[pos] \in SqlText /\ out \in Seq(SqlText) /\ Len(out) \in Nat /\ Known \in Ctx
  BY ReadingIs
<1>2. e \in pos .. Len(sql) + 1 /\ ~Is(e, IdentCont) /\ \A m \in pos .. e - 1 : Is(m, IdentCont)
  <2>1. pos \in 1 .. Len(sql) + 1
    BY <1>1
  <2> QED BY <1>1, <2>1, PastIs
<1>3. e # pos
  <2>1. Is(pos, IdentCont)
    BY <1>1, NameLetters DEF Is
  <2> QED BY <1>2, <2>1
<1>4. e \in pos + 1 .. Len(sql) + 1
  BY <1>1, <1>2, <1>3
<1>5. PICK w : w = SubSeq(sql, pos, e - 1)
  OBVIOUS
<1>6. PICK n, q, t :
        n = Len(out) /\ q = Len(u) /\ t = [groups |-> groups, kw |-> Keyword(w), cont |-> FALSE, ident |-> TRUE]
  OBVIOUS
<1>7. /\ u \in Seq(SqlText) /\ n < q /\ Same(out, u, n) /\ u[n + 1] = sql[pos]
      /\ \A i \in n + 1 .. q : u[i] = sql[i - n + pos - 1] /\ i - n + pos - 1 \in pos .. e - 1
      /\ SubSeq(u, n + 1, q) = w
  <2>1. Copied(out, u, pos, e)
    BY <1>1, <1>4, CopyIs
  <2> QED BY <1>5, <1>6, <2>1 DEF Copied
<1>8. Known.groups = groups
  BY Zenon DEF Known
<1>9. TokWord(u, n, q, Known, t)
  <2>1. \A i \in n + 1 .. q : u[i] \in IdentCont
    BY <1>2, <1>7 DEF Is
  <2> QED BY <1>6, <1>7, <1>8, <2>1, Zenon DEF TokWord
<1>10. Tok(u, n, q, Known, t)
  BY <1>9, Zenon DEF Tok
<1>11. t \in Ctx
  <2>1. groups \in Seq(Kw) /\ Keyword(w) \in Kw
    BY <1>1, <1>8 DEF Ctx, Keyword, Kw
  <2> QED BY <1>6, <2>1 DEF Ctx
<1>12. Meets(u, n, q, Letter(e))
  <2>1. Letter(e) \notin IdentCont
    BY <1>2, NameLetters, LetterNot
  <2>2. u[n + 1] # "["
    BY <1>7 DEF Letters
  <2> QED BY <2>1, <2>2, Zenon DEF Meets
<1>13. Reached(u, t, Letter(e))
  <2>1. Len(out) < Len(u) /\ Same(out, u, Len(out)) /\ u \in Seq(SqlText)
    BY <1>6, <1>7
  <2>2. u[Len(out) + 1] = sql[pos]
    BY <1>6, <1>7
  <2>3. Tok(u, Len(out), Len(u), Known, t) /\ Meets(u, Len(out), Len(u), Letter(e))
    BY <1>6, <1>10, <1>12
  <2> QED BY ONLY Reading, <1>11, <2>1, <2>2, <2>3, WrittenToken, SMTT(30)
<1> QED BY <1>4, <1>5, <1>6, <1>13

\* A digit of a name.
LEMMA DigitTrace ==
  ASSUME Reading, sql[pos] \in Numerals, prevIdent, NEW d
  PROVE  Reached(out \o SubSeq(sql, pos, (pos + 1) - 1), Known, d)
<1>1. PICK u, x, n : u = out \o SubSeq(sql, pos, (pos + 1) - 1) /\ x = sql[pos] /\ n = Len(out)
  OBVIOUS
<1>2. u = Append(out, x) /\ u[n + 1] = x
  BY <1>1, CopiedOne
<1>3. Known \in Ctx
  BY ReadingIs
<1>4. Known.ident
  <2>1. Known.ident = prevIdent
    BY Zenon DEF Known
  <2> QED BY <2>1
<1>5. TokDigit(u, n, n + 1, Known, Known)
  BY <1>1, <1>2, <1>4, Zenon DEF TokDigit
<1>6. Tok(Append(out, x), Len(out), Len(out) + 1, Known, Known)
  BY <1>1, <1>2, <1>5, Zenon DEF Tok
<1>7. x \in Alone \cup Numerals \cup OtherMarks /\ x \in {sql[pos], "?", Gap}
  BY <1>1
<1> QED BY <1>1, <1>2, <1>3, <1>6, <1>7, WrittenOne

\* A bracket that opens.
LEMMA OpenTrace ==
  ASSUME Reading, sql[pos] = "(", NEW d
  PROVE  Reached(out \o SubSeq(sql, pos, (pos + 1) - 1),
                 [groups |-> Append(groups, IF valuesCont THEN "rows" ELSE pendingKw), kw |-> "none",
                  cont |-> FALSE, ident |-> FALSE], d)
<1>1. PICK u, x, n : u = out \o SubSeq(sql, pos, (pos + 1) - 1) /\ x = sql[pos] /\ n = Len(out)
  OBVIOUS
<1>2. u = Append(out, x) /\ u[n + 1] = x
  BY <1>1, CopiedOne
<1>3. Known \in Ctx
  BY ReadingIs
<1>4. Known.groups = groups /\ Known.cont = valuesCont /\ Known.kw = pendingKw
  BY Zenon DEF Known
<1>5. PICK t : t = [groups |-> Append(groups, IF valuesCont THEN "rows" ELSE pendingKw), kw |-> "none",
                    cont |-> FALSE, ident |-> FALSE]
  OBVIOUS
<1>6. TokOpen(u, n, n + 1, Known, t)
  BY <1>1, <1>2, <1>4, <1>5, Zenon DEF TokOpen
<1>7. Tok(Append(out, x), Len(out), Len(out) + 1, Known, t)
  BY <1>1, <1>2, <1>6, Zenon DEF Tok
<1>8. t \in Ctx
  <2>1. groups \in Seq(Kw) /\ pendingKw \in Kw /\ "rows" \in Kw /\ "none" \in Kw
    BY <1>3, <1>4 DEF Ctx, Kw
  <2>2. Append(groups, IF valuesCont THEN "rows" ELSE pendingKw) \in Seq(Kw)
    BY <2>1
  <2> QED BY <1>5, <2>1, <2>2 DEF Ctx
<1>9. x \in Alone \cup Numerals \cup OtherMarks /\ x \in {sql[pos], "?", Gap}
  BY <1>1, Zenon DEF Alone
<1> QED BY <1>1, <1>2, <1>5, <1>7, <1>8, <1>9, WrittenOne

\* A comma.
LEMMA CommaTrace ==
  ASSUME Reading, sql[pos] = Sep, NEW d
  PROVE  Reached(out \o SubSeq(sql, pos, (pos + 1) - 1),
                 [groups |-> groups, kw |-> "none", cont |-> valuesCont, ident |-> FALSE], d)
<1>1. PICK u, x, n : u = out \o SubSeq(sql, pos, (pos + 1) - 1) /\ x = sql[pos] /\ n = Len(out)
  OBVIOUS
<1>2. u = Append(out, x) /\ u[n + 1] = x
  BY <1>1, CopiedOne
<1>3. Known \in Ctx
  BY ReadingIs
<1>4. Known.groups = groups /\ Known.cont = valuesCont
  BY Zenon DEF Known
<1>5. PICK t : t = [groups |-> groups, kw |-> "none", cont |-> valuesCont, ident |-> FALSE]
  OBVIOUS
<1>6. TokComma(u, n, n + 1, Known, t)
  BY <1>1, <1>2, <1>4, <1>5, Zenon DEF TokComma
<1>7. Tok(Append(out, x), Len(out), Len(out) + 1, Known, t)
  BY <1>1, <1>2, <1>6, Zenon DEF Tok
<1>8. t \in Ctx
  <2>1. groups \in Seq(Kw) /\ valuesCont \in BOOLEAN /\ "none" \in Kw
    BY <1>3, <1>4 DEF Ctx, Kw
  <2> QED BY <1>5, <2>1 DEF Ctx
<1>9. x \in Alone \cup Numerals \cup OtherMarks /\ x \in {sql[pos], "?", Gap}
  BY <1>1, Zenon DEF Alone
<1> QED BY <1>1, <1>2, <1>5, <1>7, <1>8, <1>9, WrittenOne

\* Another mark.
LEMMA OtherTrace ==
  ASSUME Reading, sql[pos] \in OtherMarks, NEW d
  PROVE  Reached(out \o SubSeq(sql, pos, (pos + 1) - 1), Passed(Known, FALSE), d)
<1>1. PICK u, x, n : u = out \o SubSeq(sql, pos, (pos + 1) - 1) /\ x = sql[pos] /\ n = Len(out)
  OBVIOUS
<1>2. u = Append(out, x) /\ u[n + 1] = x
  BY <1>1, CopiedOne
<1>3. Passed(Known, FALSE) \in Ctx
  BY ReadingIs, PassedType
<1>4. TokOther(u, n, n + 1, Known, Passed(Known, FALSE))
  BY <1>1, <1>2, Zenon DEF TokOther
<1>5. Tok(Append(out, x), Len(out), Len(out) + 1, Known, Passed(Known, FALSE))
  BY <1>1, <1>2, <1>4, Zenon DEF Tok
<1>6. x \in Alone \cup Numerals \cup OtherMarks /\ x \in {sql[pos], "?", Gap}
  BY <1>1
<1> QED BY <1>1, <1>2, <1>3, <1>5, <1>6, WrittenOne

\* The letters of a name behind its first: where the name ends.
LEMMA NameIs ==
  ASSUME Reading, NEW S, S \in SUBSET SqlText, "end" \notin S, NEW e, e = Past(pos + 1, S)
  PROVE  /\ e \in pos + 1 .. Len(sql) + 1 /\ Letter(e) \notin S
         /\ \A m \in pos + 1 .. e - 1 : m \in 1 .. Len(sql) /\ sql[m] \in S
<1>1. sql \in Seq(SqlText) /\ pos \in 1 .. Len(sql) /\ pos \in Nat /\ Len(sql) \in Nat
  BY ReadingIs
<1>2. pos + 1 \in 1 .. Len(sql) + 1
  BY <1>1
<1>3. e \in pos + 1 .. Len(sql) + 1 /\ ~Is(e, S) /\ \A m \in pos + 1 .. e - 1 : Is(m, S)
  BY <1>1, <1>2, PastIs
<1>4. \A m \in pos + 1 .. e - 1 : m \in DOMAIN sql /\ sql[m] \in S
  BY <1>3 DEF Is
<1>5. Letter(e) \notin S
  BY <1>3, LetterNot
<1> QED BY <1>1, <1>3, <1>4, <1>5

\* A temporary table, without the digits of its name's end.
LEMMA TempTrace ==
  ASSUME Reading, sql[pos] = "#"
  PROVE  Reached(out \o SubSeq(sql, pos, Past(pos + 1, IdentCont \ Numerals) - 1),
                 Passed(Known, TRUE), Letter(Past(pos + 1, IdentCont)))
<1>1. /\ sql \in Seq(SqlText) /\ pos \in 1 .. Len(sql) /\ pos \in Nat /\ Len(sql) \in Nat
      /\ out \in Seq(SqlText) /\ Len(out) \in Nat /\ Known \in Ctx
  BY ReadingIs
<1>2. PICK e, w, u : /\ e = Past(pos + 1, IdentCont \ Numerals) /\ w = SubSeq(sql, pos, e - 1)
                     /\ u = out \o w
  OBVIOUS
<1>3. /\ e \in pos + 1 .. Len(sql) + 1
      /\ \A m \in pos + 1 .. e - 1 : m \in 1 .. Len(sql) /\ sql[m] \in IdentCont \ Numerals
  <2>1. IdentCont \ Numerals \in SUBSET SqlText /\ "end" \notin IdentCont \ Numerals
    BY IdentIs, NameLetters
  <2> QED BY <1>2, <2>1, NameIs
<1>4. Letter(Past(pos + 1, IdentCont)) \notin IdentCont
  BY IdentIs, NameLetters, NameIs
<1>5. PICK n, q, t, d :
        n = Len(out) /\ q = Len(u) /\ t = Passed(Known, TRUE) /\ d = Letter(Past(pos + 1, IdentCont))
  OBVIOUS
<1>6. /\ u \in Seq(SqlText) /\ n < q /\ Same(out, u, n) /\ u[n + 1] = sql[pos] /\ n \in Nat /\ q \in Nat
      /\ \A i \in n + 1 .. q : u[i] = sql[i - n + pos - 1] /\ i - n + pos - 1 \in pos .. e - 1
  <2>1. Copied(out, u, pos, e)
    BY <1>1, <1>2, <1>3, CopyIs
  <2>2. Len(u) \in Nat
    BY <2>1 DEF Copied
  <2> QED BY <1>1, <1>5, <2>1, <2>2 DEF Copied
<1>7. TokTemp(u, n, q, Known, t)
  <2>1. \A i \in n + 2 .. q : u[i] \in IdentCont \ Numerals
    <3>1. \A i \in n + 2 .. q : i \in n + 1 .. q /\ i - n + pos - 1 # pos
      BY <1>1, <1>6
    <3>2. \A m \in pos .. e - 1 : m # pos => m \in pos + 1 .. e - 1
      BY <1>1, <1>3
    <3> QED BY <1>3, <1>6, <3>1, <3>2
  <2> QED BY <1>5, <1>6, <2>1, Zenon DEF TokTemp
<1>8. Tok(u, n, q, Known, t) /\ t \in Ctx
  BY <1>1, <1>5, <1>7, PassedType, Zenon DEF Tok
<1>9. Meets(u, n, q, d)
  <2>1. u[n + 1] # "["
    BY <1>6
  <2> QED BY <1>4, <1>5, <2>1, Zenon DEF Meets
<1>10. Reached(u, t, d)
  <2>1. Len(out) < Len(u) /\ Same(out, u, Len(out)) /\ u \in Seq(SqlText)
    BY <1>5, <1>6
  <2>2. u[Len(out) + 1] = sql[pos]
    BY <1>5, <1>6
  <2>3. Tok(u, Len(out), Len(u), Known, t) /\ Meets(u, Len(out), Len(u), d)
    BY <1>5, <1>8, <1>9
  <2> QED BY ONLY Reading, <1>8, <2>1, <2>2, <2>3, WrittenToken, SMTT(30)
<1> QED BY <1>2, <1>5, <1>10

\* A [name].
LEMMA BracketTrace ==
  ASSUME Reading, sql[pos] = "["
  PROVE  Reached(out \o SubSeq(sql, pos, BracketEnd(pos + 1) - 1), Passed(Known, TRUE),
                 Letter(BracketEnd(pos + 1)))
<1>1. /\ sql \in Seq(SqlText) /\ pos \in 1 .. Len(sql) /\ pos \in Nat /\ Len(sql) \in Nat
      /\ out \in Seq(SqlText) /\ Len(out) \in Nat /\ Known \in Ctx
  BY ReadingIs
<1>2. PICK e, w, u : e = BracketEnd(pos + 1) /\ w = SubSeq(sql, pos, e - 1) /\ u = out \o w
  OBVIOUS
<1>3. /\ e \in pos + 1 .. Len(sql) + 1
      /\ \E C : Walks(sql, pos + 1, e, C) /\ (e <= Len(sql) => e \notin C)
      /\ e <= Len(sql) => e > pos + 1 /\ sql[e - 1] = "]" /\ sql[e] # "]"
  <2>1. pos + 1 \in 1 .. Len(sql) + 1
    BY <1>1
  <2> QED BY <1>1, <1>2, <2>1, BracketIs
<1>4. PICK C : Walks(sql, pos + 1, e, C) /\ (e <= Len(sql) => e \notin C)
  BY <1>3
<1>5. PICK n, q, t, d :
        n = Len(out) /\ q = Len(u) /\ t = Passed(Known, TRUE) /\ d = Letter(e)
  OBVIOUS
<1>6. /\ u \in Seq(SqlText) /\ n < q /\ Same(out, u, n) /\ u[n + 1] = sql[pos] /\ n \in Nat /\ q = n + (e - pos)
      /\ \A i \in n + 1 .. q : u[i] = sql[i - n + pos - 1] /\ i - n + pos - 1 \in pos .. e - 1
  <2>1. Copied(out, u, pos, e)
    BY <1>1, <1>2, <1>3, CopyIs
  <2> QED BY <1>1, <1>5, <2>1 DEF Copied
<1>7. PICK D : Walks(u, n + 2, q + 1, D) /\ (e \notin C => q + 1 \notin D)
  <2>1. PICK k : k = n + 1 - pos
    OBVIOUS
  <2>2. /\ pos + 1 \in Nat /\ e \in Nat /\ pos + 1 <= e /\ k \in Int
        /\ (pos + 1) + k = n + 2 /\ e + k = q + 1
    BY <1>1, <1>3, <1>6, <2>1
  <2>3. \A i \in pos + 1 .. e - 1 : u[i + k] = sql[i]
    <3>1. \A i \in pos + 1 .. e - 1 : i + k \in n + 1 .. q /\ (i + k) - n + pos - 1 = i
      BY <1>1, <1>3, <1>6, <2>1
    <3> QED BY <1>6, <3>1
  <2>4. \E D : Walks(u, (pos + 1) + k, e + k, D) /\ (e \notin C => e + k \notin D)
    BY <1>4, <2>2, <2>3, WalksShift
  <2> QED BY <2>2, <2>4
<1>8. TokBracket(u, n, q, Known, t)
  BY <1>5, <1>6, <1>7, Zenon DEF TokBracket
<1>9. Tok(u, n, q, Known, t) /\ t \in Ctx
  BY <1>1, <1>5, <1>8, PassedType, Zenon DEF Tok
<1>10. Meets(u, n, q, d)
  <2>1. u[n + 1] = "[" /\ "[" \notin Greedy
    BY <1>6 DEF Greedy, Letters
  <2>2. ASSUME d # "end" PROVE d # "]" /\ Closed(u, n, q)
    <3>1. e \in DOMAIN sql /\ d = sql[e]
      BY <1>5, <2>2, Zenon DEF Letter
    <3>2. e <= Len(sql) /\ e \in Nat
      BY <1>1, <3>1
    <3>3. e > pos + 1 /\ sql[e - 1] = "]" /\ d # "]"
      BY <1>3, <3>1, <3>2
    <3>4. u[q] = "]"
      <4>1. q \in n + 1 .. q /\ q - n + pos - 1 = e - 1
        BY <1>1, <1>3, <1>6
      <4> QED BY <1>6, <3>3, <4>1
    <3>5. q + 1 \notin D
      BY <1>4, <1>7, <3>2
    <3> QED BY <1>7, <3>3, <3>4, <3>5, Zenon DEF Closed
  <2> QED BY <2>1, <2>2, Zenon DEF Meets
<1>11. Reached(u, t, d)
  <2>1. Len(out) < Len(u) /\ Same(out, u, Len(out)) /\ u \in Seq(SqlText)
    BY <1>5, <1>6
  <2>2. u[Len(out) + 1] = sql[pos]
    BY <1>5, <1>6
  <2>3. Tok(u, Len(out), Len(u), Known, t) /\ Meets(u, Len(out), Len(u), d)
    BY <1>5, <1>9, <1>10
  <2> QED BY ONLY Reading, <1>9, <2>1, <2>2, <2>3, WrittenToken, SMTT(30)
<1> QED BY <1>2, <1>5, <1>11

\* A bracket that closes; a row of values behind a row is left out.
LEMMA CloseTrace ==
  ASSUME Reading, sql[pos] = ")", NEW d, NEW u,
         u = IF Rowed(groups) THEN CollapseRows(Append(out, ")")) ELSE Append(out, ")")
  PROVE  Reached(u, [groups |-> IF groups = <<>> THEN <<>> ELSE Front(groups), kw |-> "none",
                     cont |-> Rowed(groups), ident |-> FALSE], d)
<1>1. PICK n, t : /\ n = Len(out)
                  /\ t = [groups |-> IF groups = <<>> THEN <<>> ELSE Front(groups), kw |-> "none",
                          cont |-> Rowed(groups), ident |-> FALSE]
  OBVIOUS
<1>2. out \in Seq(SqlText) /\ n \in Nat /\ Known \in Ctx
  BY <1>1, ReadingIs
<1>3. n \in 0 .. Len(out) /\ out = SubSeq(out, 1, n)
  BY <1>1, <1>2, AllOf
<1>4. Known.groups = groups
  BY Zenon DEF Known
<1>5. ")" \in SqlText
  BY DEF SqlText, Marks
<1>6. /\ RowsAt(out, n) => CollapseRows(Append(out, ")")) = SubSeq(out, 1, LastRow(out, n))
      /\ ~RowsAt(out, n) => CollapseRows(Append(out, ")")) = Append(out, ")")
  BY <1>2, <1>3, <1>5, CollapseIs
<1>7. CASE Rowed(groups) /\ RowsAt(out, n)
  <2>1. PICK B, G : Traced(out, B, G, sql[pos]) /\ G[n] = Known
    BY <1>1, Zenon DEF Reading, Reached
  <2>2. sql[pos] # "end"
    BY ReadingIs
  <2>3. PICK h, v : h = LastRow(out, n) /\ v = SubSeq(out, 1, h)
    OBVIOUS
  <2>4. /\ h \in B
        /\ G[h] = [groups |-> Front(groups), kw |-> "none", cont |-> TRUE, ident |-> FALSE]
        /\ Traced(v, B \cap (0 .. h), G, d)
    BY <1>1, <1>4, <1>7, <2>1, <2>2, <2>3, RowTrace
  <2>5. B \in SUBSET (0 .. n)
    BY <1>1, <2>1, Zenon DEF Traced
  <2>6. Len(v) = h
    BY <1>1, <1>2, <2>3, <2>4, <2>5, Beginning
  <2>7. G[h] = t
    <3>1. groups # <<>> /\ Rowed(groups) = TRUE
      BY <1>7, Zenon DEF Rowed, Listed
    <3> QED BY <1>1, <2>4, <3>1
  <2>8. Reached(v, t, d)
    BY <2>4, <2>6, <2>7, Zenon DEF Reached
  <2> QED BY <1>1, <1>6, <1>7, <2>3, <2>8
<1>8. CASE ~(Rowed(groups) /\ RowsAt(out, n))
  <2>1. u = Append(out, ")")
    BY <1>6, <1>8
  <2>2. ")" \in Alone \cup Numerals \cup OtherMarks
    BY Zenon DEF Alone
  <2>3. u[n + 1] = ")" /\ Same(out, u, n)
    BY <1>1, <1>2, <1>5, <2>1, OneMore
  <2>4. RowsAt(u, n) <=> RowsAt(out, n)
    BY <1>2, <1>3, <2>3, RowSame
  <2>5. TokClose(u, n, n + 1, Known, t)
    BY <1>1, <1>4, <1>8, <2>3, <2>4, Zenon DEF TokClose
  <2>6. Tok(Append(out, ")"), Len(out), Len(out) + 1, Known, t)
    BY <1>1, <2>1, <2>5, Zenon DEF Tok
  <2>7. t \in Ctx
    <3>1. groups \in Seq(Kw) /\ "none" \in Kw /\ Rowed(groups) \in BOOLEAN
      BY <1>2, <1>4, Zenon DEF Ctx, Kw, Rowed
    <3>2. groups # <<>> => Front(groups) \in Seq(Kw)
      BY <3>1 DEF Front
    <3> QED BY <1>1, <3>1, <3>2 DEF Ctx
  <2>8. Reached(Append(out, ")"), t, d)
    BY <2>2, <2>6, <2>7, WrittenOne
  <2> QED BY <1>1, <2>1, <2>8
<1> QED BY <1>7, <1>8

\* The letters of u behind n, up to q, are those of a variable, not P and digits.
NameOf(u, n, q) ==
  /\ u \in Seq(SqlText) /\ n < q /\ Same(out, u, n) /\ u[n + 1] = "@"
  /\ \A i \in n + 2 .. q : u[i] \in IdentCont
  /\ ~(n + 3 <= q /\ u[n + 2] = "P" /\ u[n + 3] \in Numerals)

\* Such letters are a token.
LEMMA NameWritten ==
  ASSUME Reading, sql[pos] = "@", NEW u, NEW d, NameOf(u, Len(out), Len(u)), d \notin IdentCont
  PROVE  Reached(u, Passed(Known, TRUE), d)
<1>0. /\ u \in Seq(SqlText) /\ Len(out) < Len(u) /\ Same(out, u, Len(out)) /\ u[Len(out) + 1] = "@"
      /\ \A i \in Len(out) + 2 .. Len(u) : u[i] \in IdentCont
      /\ ~(Len(out) + 3 <= Len(u) /\ u[Len(out) + 2] = "P" /\ u[Len(out) + 3] \in Numerals)
  BY Zenon DEF NameOf
<1>1. PICK t : t = Passed(Known, TRUE)
  OBVIOUS
<1>2. TokVariable(u, Len(out), Len(u), Known, t)
  BY <1>0, <1>1, Zenon DEF TokVariable
<1>3. Tok(u, Len(out), Len(u), Known, t)
  BY <1>2, Zenon DEF Tok
<1>4. Meets(u, Len(out), Len(u), d)
  <2>1. u[Len(out) + 1] # "["
    BY <1>0
  <2> QED BY <2>1, Zenon DEF Meets
<1>5. t \in Ctx
  BY <1>1, ReadingIs, PassedType
<1>6. u \in Seq(SqlText) /\ Len(out) < Len(u) /\ Same(out, u, Len(out))
  BY <1>0
<1>7. u[Len(out) + 1] = sql[pos]
  BY <1>0
<1>8. Reached(u, t, d)
  BY ONLY Reading, <1>3, <1>4, <1>5, <1>6, <1>7, WrittenToken, SMTT(30)
<1> QED BY <1>1, <1>8

\* A variable; @P and digits lose the digits.
LEMMA VariableIs ==
  ASSUME Reading, sql[pos] = "@", NEW e, e = Past(pos + 1, IdentCont),
         NEW f, f = IF Is(pos + 1, {"P"}) THEN Past(pos + 2, Numerals) ELSE pos + 2,
         NEW u, u = IF f > pos + 2 THEN out \o <<"@", "P">> \o SubSeq(sql, f, e - 1)
                    ELSE out \o SubSeq(sql, pos, e - 1)
  PROVE  NameOf(u, Len(out), Len(u)) /\ Letter(e) \notin IdentCont
<1>1. /\ sql \in Seq(SqlText) /\ pos \in 1 .. Len(sql) /\ pos \in Nat /\ Len(sql) \in Nat
      /\ out \in Seq(SqlText) /\ Len(out) \in Nat
  BY ReadingIs
<1>2. PICK n : n = Len(out)
  OBVIOUS
<1>3. /\ e \in pos + 1 .. Len(sql) + 1 /\ Letter(e) \notin IdentCont
      /\ \A m \in pos + 1 .. e - 1 : m \in 1 .. Len(sql) /\ sql[m] \in IdentCont
  BY IdentIs, NameLetters, NameIs
<1>4. Is(pos + 1, {"P"}) => /\ pos + 1 \in 1 .. Len(sql) /\ sql[pos + 1] = "P"
                            /\ f \in pos + 2 .. Len(sql) + 1 /\ ~Is(f, Numerals)
                            /\ \A m \in pos + 2 .. f - 1 : Is(m, Numerals)
  <2>1. ASSUME Is(pos + 1, {"P"})
        PROVE  pos + 1 \in 1 .. Len(sql) /\ sql[pos + 1] = "P" /\ pos + 2 \in 1 .. Len(sql) + 1
    <3>1. pos + 1 \in DOMAIN sql /\ sql[pos + 1] = "P"
      BY <2>1, Zenon DEF Is
    <3> QED BY <1>1, <3>1
  <2> QED BY <1>1, <2>1, PastIs
<1>5. CASE f > pos + 2
  <2>1. Is(pos + 1, {"P"})
    BY <1>1, <1>5
  <2>2. /\ pos + 1 \in 1 .. Len(sql) /\ sql[pos + 1] = "P" /\ f \in pos + 2 .. Len(sql) + 1 /\ ~Is(f, Numerals)
        /\ \A m \in pos + 2 .. f - 1 : Is(m, Numerals)
    BY <1>4, <2>1
  <2>3. f <= e /\ f \in Nat /\ e \in Nat
    <3>1. ~Is(e, IdentCont)
      <4>1. e \in DOMAIN sql => Letter(e) = sql[e]
        BY Zenon DEF Letter
      <4> QED BY <1>3, <4>1, Zenon DEF Is
    <3>2. \A m \in pos + 1 .. f - 1 : Is(m, IdentCont)
      <4>1. Is(pos + 1, IdentCont)
        BY <2>1, NameLetters, Zenon DEF Is
      <4>2. \A m \in pos + 2 .. f - 1 : Is(m, IdentCont)
        BY <2>2, NameLetters DEF Is
      <4>3. \A m \in pos + 1 .. f - 1 : m = pos + 1 \/ m \in pos + 2 .. f - 1
        BY <1>1, <2>2
      <4> QED BY <4>1, <4>2, <4>3
    <3>3. f > e => e \in pos + 1 .. f - 1
      BY <1>1, <1>3, <2>2
    <3>4. ~(f > e)
      BY <3>1, <3>2, <3>3
    <3>5. f \in Nat /\ e \in Nat
      BY ONLY <1>1, <1>3, <2>2
    <3> QED BY ONLY <3>4, <3>5
  <2>4. PICK k, x, v : k = e - f /\ x = SubSeq(sql, f, e - 1) /\ v = out \o <<"@", "P">>
    OBVIOUS
  <2>5. k \in Nat /\ x \in Seq(SqlText) /\ Len(x) = k /\ \A i \in 1 .. k : x[i] = sql[f + i - 1]
    <3>1. f \in 1 .. Len(sql) + 1 /\ e \in f .. Len(sql) + 1 /\ k \in Nat
      BY ONLY <1>1, <1>3, <2>3, <2>2, <2>4
    <3>2. sql \in Seq(SqlText)
      BY <1>1
    <3> QED BY ONLY <2>4, <3>1, <3>2, SliceIs
  <2>6. /\ v \in Seq(SqlText) /\ Len(v) = n + 2 /\ v[n + 1] = "@" /\ v[n + 2] = "P"
        /\ \A i \in 1 .. n : v[i] = out[i]
    <3>1. <<"@", "P">> \in Seq(SqlText) /\ Len(<<"@", "P">>) = 2 /\ <<"@", "P">>[1] = "@" /\ <<"@", "P">>[2] = "P"
      BY NameLetters
    <3>2. /\ v \in Seq(SqlText) /\ Len(v) = n + 2
          /\ \A i \in 1 .. n + 2 : v[i] = IF i <= n THEN out[i] ELSE <<"@", "P">>[i - n]
      BY <1>1, <1>2, <2>4, <3>1, ConcatProperties
    <3>3. /\ n + 1 \in 1 .. n + 2 /\ n + 2 \in 1 .. n + 2 /\ ~(n + 1 <= n) /\ ~(n + 2 <= n)
          /\ (n + 1) - n = 1 /\ (n + 2) - n = 2 /\ (\A i \in 1 .. n : i \in 1 .. n + 2 /\ i <= n)
      BY <1>1, <1>2
    <3> QED BY <3>1, <3>2, <3>3
  <2>7. /\ u \in Seq(SqlText) /\ Len(u) = n + 2 + k
        /\ \A i \in 1 .. n + 2 + k : u[i] = IF i <= n + 2 THEN v[i] ELSE x[i - (n + 2)]
    <3>1. u = v \o x
      BY <1>5, <2>4
    <3>2. /\ u \in Seq(SqlText) /\ Len(u) = Len(v) + Len(x)
          /\ \A i \in 1 .. Len(v) + Len(x) : u[i] = IF i <= Len(v) THEN v[i] ELSE x[i - Len(v)]
      <4>1. v \in Seq(SqlText) /\ x \in Seq(SqlText)
        BY <2>5, <2>6
      <4> QED BY ONLY <3>1, <4>1, ConcatProperties
    <3> QED BY <2>5, <2>6, <3>2
  <2>8. PICK q : q = n + 2 + k
    OBVIOUS
  <2>9. /\ q = Len(u) /\ n < q /\ u[n + 1] = "@" /\ u[n + 2] = "P" /\ Same(out, u, n)
    <3>1. /\ n + 1 \in 1 .. n + 2 + k /\ n + 2 \in 1 .. n + 2 + k /\ n + 1 <= n + 2 /\ n < q
          /\ (\A i \in 1 .. n : i \in 1 .. n + 2 + k /\ i <= n + 2)
      BY ONLY <1>1, <1>2, <2>5, <2>8
    <3>2. q = Len(u) /\ u[n + 1] = v[n + 1] /\ u[n + 2] = v[n + 2]
      BY ONLY <2>7, <2>8, <3>1
    <3>3. \A i \in 1 .. n : u[i] = out[i]
      BY ONLY <2>6, <2>7, <3>1
    <3> QED BY <2>6, <3>1, <3>2, <3>3 DEF Same
  <2>10. \A i \in n + 3 .. q : u[i] = sql[f + (i - (n + 2)) - 1] /\ f + (i - (n + 2)) - 1 \in f .. e - 1
    <3>1. \A i \in n + 3 .. q : /\ i \in 1 .. n + 2 + k /\ ~(i <= n + 2) /\ i - (n + 2) \in 1 .. k
                                /\ f + (i - (n + 2)) - 1 \in f .. e - 1
      BY ONLY <1>1, <1>2, <2>3, <2>4, <2>5, <2>8
    <3> QED BY <2>5, <2>7, <3>1
  <2>11. \A i \in n + 2 .. q : u[i] \in IdentCont
    <3>1. u[n + 2] \in IdentCont
      BY <2>9, NameLetters
    <3>2. \A i \in n + 3 .. q : u[i] \in IdentCont
      <4>1. \A m \in f .. e - 1 : m \in pos + 1 .. e - 1
        BY <1>1, <2>2
      <4> QED BY <1>3, <2>10, <4>1
    <3>3. \A i \in n + 2 .. q : i = n + 2 \/ i \in n + 3 .. q
      BY <1>1, <1>2, <2>5, <2>8
    <3> QED BY <3>1, <3>2, <3>3
  <2>12. ~(n + 3 <= q /\ u[n + 2] = "P" /\ u[n + 3] \in Numerals)
    <3>1. ASSUME n + 3 <= q PROVE u[n + 3] \notin Numerals
      <4>1. n + 3 \in n + 3 .. q /\ f + ((n + 3) - (n + 2)) - 1 = f
        BY <1>1, <1>2, <2>3, <2>5, <2>8, <3>1
      <4>2. u[n + 3] = sql[f] /\ f \in f .. e - 1
        BY <2>10, <4>1
      <4>3. f \in DOMAIN sql
        BY <1>1, <1>3, <2>2, <4>2
      <4> QED BY <2>2, <4>2, <4>3, Zenon DEF Is
    <3> QED BY <3>1
  <2>13. NameOf(u, Len(out), Len(u))
    <3>1. NameOf(u, n, q)
      BY <2>7, <2>9, <2>11, <2>12, Zenon DEF NameOf
    <3>2. n = Len(out) /\ q = Len(u)
      BY <1>2, <2>9
    <3> QED BY ONLY <3>1, <3>2
  <2>14. Letter(e) \notin IdentCont
    BY <1>3
  <2> QED BY ONLY <2>13, <2>14
<1>6. CASE ~(f > pos + 2)
  <2>1. u = out \o SubSeq(sql, pos, e - 1)
    BY <1>6
  <2>2. PICK q : q = Len(u)
    OBVIOUS
  <2>3. /\ u \in Seq(SqlText) /\ n < q /\ Same(out, u, n) /\ u[n + 1] = "@" /\ n \in Nat /\ q = n + (e - pos)
        /\ \A i \in n + 1 .. q : u[i] = sql[i - n + pos - 1] /\ i - n + pos - 1 \in pos .. e - 1
    <3>1. Copied(out, u, pos, e)
      BY <1>1, <1>3, <2>1, CopyIs
    <3> QED BY <1>2, <2>2, <3>1 DEF Copied
  <2>4. \A i \in n + 2 .. q : u[i] \in IdentCont
    <3>1. \A i \in n + 2 .. q : i \in n + 1 .. q /\ i - n + pos - 1 # pos
      BY <1>1, <2>3
    <3>2. \A m \in pos .. e - 1 : m # pos => m \in pos + 1 .. e - 1
      BY <1>1, <1>3
    <3> QED BY <1>3, <2>3, <3>1, <3>2
  <2>5. ~(n + 3 <= q /\ u[n + 2] = "P" /\ u[n + 3] \in Numerals)
    <3>1. ASSUME n + 3 <= q, u[n + 2] = "P" PROVE u[n + 3] \notin Numerals
      <4>1. /\ n + 2 \in n + 1 .. q /\ n + 3 \in n + 1 .. q
            /\ (n + 2) - n + pos - 1 = pos + 1 /\ (n + 3) - n + pos - 1 = pos + 2
        BY <1>1, <1>3, <2>3, <3>1
      <4>2. sql[pos + 1] = "P" /\ u[n + 3] = sql[pos + 2] /\ pos + 1 \in pos .. e - 1 /\ pos + 2 \in pos .. e - 1
        BY <2>3, <3>1, <4>1
      <4>3. pos + 1 \in DOMAIN sql /\ pos + 2 \in DOMAIN sql
        BY <1>1, <1>3, <4>2
      <4>4. Is(pos + 1, {"P"})
        BY <4>2, <4>3 DEF Is
      <4>5. f = pos + 2
        BY <1>1, <1>4, <1>6, <4>4
      <4>6. ~Is(pos + 2, Numerals)
        BY <1>4, <4>4, <4>5
      <4> QED BY <4>2, <4>3, <4>6, Zenon DEF Is
    <3> QED BY <3>1
  <2>6. NameOf(u, Len(out), Len(u))
    <3>1. NameOf(u, n, q)
      BY <2>3, <2>4, <2>5, Zenon DEF NameOf
    <3>2. n = Len(out) /\ q = Len(u)
      BY <1>2, <2>2
    <3> QED BY ONLY <3>1, <3>2
  <2>7. Letter(e) \notin IdentCont
    BY <1>3
  <2> QED BY ONLY <2>6, <2>7
<1> QED BY <1>5, <1>6

\* A variable is a token.
LEMMA VariableTrace ==
  ASSUME Reading, sql[pos] = "@", NEW e, e = Past(pos + 1, IdentCont),
         NEW f, f = IF Is(pos + 1, {"P"}) THEN Past(pos + 2, Numerals) ELSE pos + 2,
         NEW u, u = IF f > pos + 2 THEN out \o <<"@", "P">> \o SubSeq(sql, f, e - 1)
                    ELSE out \o SubSeq(sql, pos, e - 1)
  PROVE  Reached(u, Passed(Known, TRUE), Letter(e))
<1>1. NameOf(u, Len(out), Len(u)) /\ Letter(e) \notin IdentCont
  BY VariableIs
<1> QED BY ONLY Reading, sql[pos] = "@", <1>1, NameWritten

-----------------------------------------------------------------------------
(* The steps of the first pass *)

\* The scan went on, and what is written falls into tokens.
Stepped == pos' # 0 /\ Reached(out', Known', Letter(pos'))

\* A token begins with a letter at hand.
LEMMA AtLetter ==
  ASSUME sql \in Seq(SqlText), Reached(out, Known, Letter(pos)), NEW S, Is(pos, S)
  PROVE  Reading /\ sql[pos] \in S
<1>1. pos \in DOMAIN sql /\ sql[pos] \in S
  BY Zenon DEF Is
<1>2. Letter(pos) = sql[pos]
  BY <1>1, Zenon DEF Letter
<1>3. pos \in 1 .. Len(sql)
  BY <1>1
<1> QED BY <1>1, <1>2, <1>3, Zenon DEF Reading

\* Where a number ends.
LEMMA NumberType ==
  ASSUME sql \in Seq(SqlText), NEW k \in 1 .. Len(sql)
  PROVE  NumberEnd(k) \in k .. Len(sql) + 1
<1>1. PICK n : n = Len(sql)
  OBVIOUS
<1>2. n \in Nat /\ k \in 1 .. n /\ DOMAIN sql = 1 .. n
  BY <1>1
<1>3. PICK f, w : f = (IF Is(k, {"-"}) THEN k + 1 ELSE k) /\ w = Past(f, Numerals)
  OBVIOUS
<1>4. f \in k .. n + 1 /\ f \in 1 .. Len(sql) + 1
  BY <1>1, <1>2, <1>3
<1>5. w \in f .. n + 1
  <2>1. Past(f, Numerals) \in f .. Len(sql) + 1
    BY ONLY sql \in Seq(SqlText), <1>4, PastIs
  <2> QED BY <1>1, <1>3, <2>1
<1>6. Is(w, {"."}) => w \in 1 .. n /\ w + 1 \in 1 .. Len(sql) + 1
  <2>1. Is(w, {"."}) => w \in DOMAIN sql
    BY Zenon DEF Is
  <2> QED BY <1>1, <1>2, <2>1
<1>7. Is(w, {"."}) => Past(w + 1, Numerals) \in w + 1 .. n + 1
  BY <1>1, <1>6, PastIs
<1>8. NumberEnd(k) = IF Is(w, {"."}) THEN Past(w + 1, Numerals) ELSE w
  BY <1>3, Zenon DEF NumberEnd
<1>9. CASE Is(w, {"."})
  BY <1>1, <1>2, <1>4, <1>5, <1>6, <1>7, <1>8, <1>9
<1>10. CASE ~Is(w, {"."})
  BY <1>1, <1>2, <1>4, <1>5, <1>8, <1>10
<1> QED BY <1>9, <1>10

\* A literal or a placeholder.
LEMMA HoleStepped ==
  ASSUME Reading, out' = WithPlaceholder, pos' \in pos .. Len(sql) + 1, After(FALSE, FALSE),
         groups' = groups
  PROVE  Stepped
<1>1. Reached(WithPlaceholder, Passed(Known, FALSE), Letter(pos'))
  BY HoleTrace
<1>2. Known' = Passed(Known, FALSE)
  BY DEF Known, Passed, After
<1>3. pos' # 0
  BY ReadingIs
<1> QED BY <1>1, <1>2, <1>3, Zenon DEF Stepped

\* Spaces and line ends.
LEMMA BlankSteps ==
  ASSUME sql \in Seq(SqlText), Reached(out, Known, Letter(pos)), Blank
  PROVE  Stepped
<1>1. Is(pos, Spaces)
  BY Zenon DEF Blank, Token
<1>2. Reading
  BY <1>1, AtLetter
<1>3. /\ pos' = Blanks(pos).next
      /\ out' = IF out = <<>> \/ Ends(out, Gap) THEN out ELSE Append(out, Gap)
      /\ prevIdent' = FALSE /\ groups' = groups /\ pendingKw' = pendingKw /\ valuesCont' = valuesCont
  BY Zenon DEF Blank, Gap
<1>4. pos' # 0
  <2>1. pos \in 1 .. Len(sql) + 1 /\ pos \in 1 .. Len(sql) /\ Len(sql) \in Nat
    BY <1>2, ReadingIs
  <2>2. Blanks(pos) \in Parsed(pos, Len(sql) + 1)
    BY <2>1, BlankType
  <2>3. Blanks(pos).next \in pos .. Len(sql) + 1
    BY <2>2 DEF Parsed
  <2> QED BY <1>3, <2>1, <2>3
<1>5. Known' = [groups |-> groups, kw |-> pendingKw, cont |-> valuesCont, ident |-> FALSE]
  BY <1>3 DEF Known
<1>6. Reached(out', [groups |-> groups, kw |-> pendingKw, cont |-> valuesCont, ident |-> FALSE], Letter(pos'))
  BY <1>2, <1>3, BlankTrace
<1> QED BY <1>4, <1>5, <1>6, Zenon DEF Stepped

\* A string.
LEMMA StringSteps ==
  ASSUME sql \in Seq(SqlText), Reached(out, Known, Letter(pos)), String
  PROVE  Stepped
<1>1. Is(pos, {"'"})
  BY Zenon DEF String, Token
<1>2. Reading
  BY <1>1, AtLetter
<1>3. out' = WithPlaceholder /\ pos' = ScanString(pos + 1).next /\ After(FALSE, FALSE) /\ groups' = groups
  BY Zenon DEF String, Literal
<1>4. pos' \in pos .. Len(sql) + 1
  <2>1. pos \in 1 .. Len(sql) /\ Len(sql) \in Nat /\ pos + 1 \in 1 .. Len(sql) + 1
    BY <1>2, ReadingIs
  <2>2. ScanString(pos + 1) \in Scanned(Seq(SqlText), pos + 1, Len(sql) + 1)
    BY <2>1, ScanType
  <2>3. ScanString(pos + 1).next \in pos + 1 .. Len(sql) + 1
    BY <2>2 DEF Scanned
  <2> QED BY <1>3, <2>1, <2>3
<1> QED BY <1>2, <1>3, <1>4, HoleStepped

\* A string behind N.
LEMMA UnicodeSteps ==
  ASSUME sql \in Seq(SqlText), Reached(out, Known, Letter(pos)), Unicode
  PROVE  Stepped
<1>1. Is(pos, {"N"}) /\ Is(pos + 1, {"'"})
  BY Zenon DEF Unicode, Token
<1>2. Reading
  BY <1>1, AtLetter
<1>3. out' = WithPlaceholder /\ pos' = ScanString(pos + 2).next /\ After(FALSE, FALSE) /\ groups' = groups
  BY Zenon DEF Unicode, Literal
<1>4. pos' \in pos .. Len(sql) + 1
  <2>1. pos + 1 \in DOMAIN sql
    BY <1>1, Zenon DEF Is
  <2>2. pos \in 1 .. Len(sql) /\ Len(sql) \in Nat /\ pos + 2 \in 1 .. Len(sql) + 1
    BY <1>2, <2>1, ReadingIs
  <2>3. ScanString(pos + 2) \in Scanned(Seq(SqlText), pos + 2, Len(sql) + 1)
    BY <2>2, ScanType
  <2>4. ScanString(pos + 2).next \in pos + 2 .. Len(sql) + 1
    BY <2>3 DEF Scanned
  <2> QED BY <1>3, <2>2, <2>4
<1> QED BY <1>2, <1>3, <1>4, HoleStepped

\* A number.
LEMMA NumberSteps ==
  ASSUME sql \in Seq(SqlText), Reached(out, Known, Letter(pos)), Number
  PROVE  Stepped
<1>1. Is(pos, Numerals) \/ Is(pos, {"."}) \/ Is(pos, {"-"})
  BY Zenon DEF Number, NumberAt, SignedNumber
<1>2. Reading
  BY <1>1, AtLetter
<1>3. out' = WithPlaceholder /\ pos' = NumberEnd(pos) /\ After(FALSE, FALSE) /\ groups' = groups
  BY Zenon DEF Number, Literal
<1>4. pos' \in pos .. Len(sql) + 1
  <2>1. pos \in 1 .. Len(sql)
    BY <1>2, ReadingIs
  <2> QED BY <1>3, <2>1, NumberType
<1> QED BY <1>2, <1>3, <1>4, HoleStepped

\* A ?.
LEMMA PlaceholderSteps ==
  ASSUME sql \in Seq(SqlText), Reached(out, Known, Letter(pos)), Placeholder
  PROVE  Stepped
<1>1. Is(pos, {"?"})
  BY Zenon DEF Placeholder, Token
<1>2. Reading
  BY <1>1, AtLetter
<1>3. out' = WithPlaceholder /\ pos' = pos + 1 /\ After(FALSE, FALSE) /\ groups' = groups
  BY Zenon DEF Placeholder
<1>4. pos' \in pos .. Len(sql) + 1
  <2>1. pos \in 1 .. Len(sql) /\ Len(sql) \in Nat
    BY <1>2, ReadingIs
  <2> QED BY <1>3, <2>1
<1> QED BY <1>2, <1>3, <1>4, HoleStepped

\* A word.
LEMMA WordSteps ==
  ASSUME sql \in Seq(SqlText), Reached(out, Known, Letter(pos)), Word
  PROVE  Stepped
<1>1. Is(pos, Letters)
  BY Zenon DEF Word, Token
<1>2. Reading /\ sql[pos] \in Letters
  BY <1>1, AtLetter
<1>3. PICK e : e = Past(pos, IdentCont)
  OBVIOUS
<1>4. /\ out' = out \o SubSeq(sql, pos, e - 1) /\ pos' = e /\ groups' = groups
      /\ pendingKw' = Keyword(SubSeq(sql, pos, pos' - 1)) /\ prevIdent' = TRUE /\ valuesCont' = FALSE
  BY <1>3, Zenon DEF Word, Copy
<1>5. /\ e \in pos + 1 .. Len(sql) + 1
      /\ Reached(out', [groups |-> groups, kw |-> Keyword(SubSeq(sql, pos, e - 1)), cont |-> FALSE,
                        ident |-> TRUE], Letter(e))
  BY <1>2, <1>3, <1>4, WordTrace
<1>6. Known' = [groups |-> groups, kw |-> Keyword(SubSeq(sql, pos, e - 1)), cont |-> FALSE, ident |-> TRUE]
  BY <1>4 DEF Known
<1>7. pos' # 0
  <2>1. pos \in Nat /\ Len(sql) \in Nat
    BY <1>2, ReadingIs
  <2> QED BY <1>4, <1>5, <2>1
<1> QED BY <1>4, <1>5, <1>6, <1>7, Zenon DEF Stepped

\* A digit of a name.
LEMMA DigitSteps ==
  ASSUME sql \in Seq(SqlText), Reached(out, Known, Letter(pos)), DigitOfName
  PROVE  Stepped
<1>1. Is(pos, Numerals) /\ prevIdent
  BY Zenon DEF DigitOfName, Token
<1>2. Reading /\ sql[pos] \in Numerals
  BY <1>1, AtLetter
<1>3. /\ out' = out \o SubSeq(sql, pos, (pos + 1) - 1) /\ pos' = pos + 1 /\ groups' = groups
      /\ pendingKw' = pendingKw /\ prevIdent' = prevIdent /\ valuesCont' = valuesCont
  BY Zenon DEF DigitOfName, Copy, context
<1>4. Reached(out', Known, Letter(pos'))
  BY <1>1, <1>2, <1>3, DigitTrace
<1>5. Known' = Known
  BY <1>3 DEF Known
<1>6. pos' # 0
  BY <1>2, <1>3, ReadingIs
<1> QED BY <1>4, <1>5, <1>6, Zenon DEF Stepped

\* A temporary table.
LEMMA TempSteps ==
  ASSUME sql \in Seq(SqlText), Reached(out, Known, Letter(pos)), TempTable
  PROVE  Stepped
<1>1. Is(pos, {"#"})
  BY Zenon DEF TempTable, Token
<1>2. Reading /\ sql[pos] = "#"
  BY <1>1, AtLetter
<1>3. /\ out' = out \o SubSeq(sql, pos, Past(pos + 1, IdentCont \ Numerals) - 1)
      /\ pos' = Past(pos + 1, IdentCont) /\ After(TRUE, FALSE) /\ groups' = groups
  BY Zenon DEF TempTable
<1>4. Reached(out', Passed(Known, TRUE), Letter(pos'))
  BY <1>2, <1>3, TempTrace
<1>5. Known' = Passed(Known, TRUE)
  BY <1>3 DEF Known, Passed, After
<1>6. pos' # 0
  <2>1. pos \in Nat /\ Len(sql) \in Nat
    BY <1>2, ReadingIs
  <2>2. pos' \in pos + 1 .. Len(sql) + 1
    BY <1>2, <1>3, IdentIs, NameLetters, NameIs
  <2> QED BY <2>1, <2>2
<1> QED BY <1>4, <1>5, <1>6, Zenon DEF Stepped

\* A variable.
LEMMA VariableSteps ==
  ASSUME sql \in Seq(SqlText), Reached(out, Known, Letter(pos)), Variable
  PROVE  Stepped
<1>1. Is(pos, {"@"})
  BY Zenon DEF Variable, Token
<1>2. Reading /\ sql[pos] = "@"
  BY <1>1, AtLetter
<1>3. PICK e, f : /\ e = Past(pos + 1, IdentCont)
                  /\ f = IF Is(pos + 1, {"P"}) THEN Past(pos + 2, Numerals) ELSE pos + 2
  OBVIOUS
<1>4. /\ out' = IF f > pos + 2 THEN out \o <<"@", "P">> \o SubSeq(sql, f, e - 1)
                ELSE out \o SubSeq(sql, pos, e - 1)
      /\ pos' = e /\ After(TRUE, FALSE) /\ groups' = groups
  BY <1>3, Zenon DEF Variable
<1>5. Reached(out', Passed(Known, TRUE), Letter(e))
  BY <1>2, <1>3, <1>4, VariableTrace
<1>6. Known' = Passed(Known, TRUE)
  BY <1>4 DEF Known, Passed, After
<1>7. pos' # 0
  <2>1. pos \in Nat /\ Len(sql) \in Nat
    BY <1>2, ReadingIs
  <2>2. e \in pos + 1 .. Len(sql) + 1
    BY <1>2, <1>3, IdentIs, NameLetters, NameIs
  <2> QED BY <1>4, <2>1, <2>2
<1> QED BY <1>4, <1>5, <1>6, <1>7, Zenon DEF Stepped

\* A [name].
LEMMA BracketSteps ==
  ASSUME sql \in Seq(SqlText), Reached(out, Known, Letter(pos)), Bracketed
  PROVE  Stepped
<1>1. Is(pos, {"["})
  BY Zenon DEF Bracketed, Token
<1>2. Reading /\ sql[pos] = "["
  BY <1>1, AtLetter
<1>3. /\ out' = out \o SubSeq(sql, pos, BracketEnd(pos + 1) - 1)
      /\ pos' = BracketEnd(pos + 1) /\ After(TRUE, FALSE) /\ groups' = groups
  BY Zenon DEF Bracketed, Copy
<1>4. Reached(out', Passed(Known, TRUE), Letter(pos'))
  BY <1>2, <1>3, BracketTrace
<1>5. Known' = Passed(Known, TRUE)
  BY <1>3 DEF Known, Passed, After
<1>6. pos' # 0
  <2>1. pos \in Nat /\ Len(sql) \in Nat /\ pos + 1 \in 1 .. Len(sql) + 1
    BY <1>2, ReadingIs
  <2>2. pos' \in pos + 1 .. Len(sql) + 1
    BY <1>3, <2>1, BracketIs
  <2> QED BY <2>1, <2>2
<1> QED BY <1>4, <1>5, <1>6, Zenon DEF Stepped

\* An opening bracket.
LEMMA OpenSteps ==
  ASSUME sql \in Seq(SqlText), Reached(out, Known, Letter(pos)), OpenParen
  PROVE  Stepped
<1>1. Is(pos, {"("})
  BY Zenon DEF OpenParen, Token
<1>2. Reading /\ sql[pos] = "("
  BY <1>1, AtLetter
<1>3. /\ out' = out \o SubSeq(sql, pos, (pos + 1) - 1) /\ pos' = pos + 1
      /\ groups' = Append(groups, IF valuesCont THEN "rows" ELSE pendingKw) /\ After(FALSE, FALSE)
  BY Zenon DEF OpenParen, Copy
<1>4. Reached(out', [groups |-> Append(groups, IF valuesCont THEN "rows" ELSE pendingKw), kw |-> "none",
                     cont |-> FALSE, ident |-> FALSE], Letter(pos'))
  BY <1>2, <1>3, OpenTrace
<1>5. Known' = [groups |-> Append(groups, IF valuesCont THEN "rows" ELSE pendingKw), kw |-> "none",
                cont |-> FALSE, ident |-> FALSE]
  BY <1>3 DEF Known, After
<1>6. pos' # 0
  BY <1>2, <1>3, ReadingIs
<1> QED BY <1>4, <1>5, <1>6, Zenon DEF Stepped

\* A closing bracket.
LEMMA CloseSteps ==
  ASSUME sql \in Seq(SqlText), Reached(out, Known, Letter(pos)), CloseParen
  PROVE  Stepped
<1>1. Is(pos, {")"})
  BY Zenon DEF CloseParen, Token
<1>2. Reading /\ sql[pos] = ")"
  BY <1>1, AtLetter
<1>3. (InList /\ Last(groups) = "rows") <=> Rowed(groups)
  BY Zenon DEF InList, Rowed, Listed
<1>4. /\ out' = IF Rowed(groups) THEN CollapseRows(Append(out, ")")) ELSE Append(out, ")")
      /\ prevIdent' = FALSE /\ pendingKw' = "none" /\ valuesCont' = Rowed(groups)
      /\ groups' = (IF groups = <<>> THEN <<>> ELSE Front(groups)) /\ pos' = pos + 1
  <2>1. PICK r : r = (InList /\ Last(groups) = "rows")
    OBVIOUS
  <2>2. /\ out' = IF r THEN CollapseRows(Append(out, ")")) ELSE Append(out, ")")
        /\ prevIdent' = FALSE /\ pendingKw' = "none" /\ valuesCont' = r
        /\ groups' = (IF groups = <<>> THEN <<>> ELSE Front(groups)) /\ pos' = pos + 1
    BY <2>1, Zenon DEF CloseParen, After
  <2>3. r = Rowed(groups)
    BY <1>3, <2>1, Zenon DEF Rowed, Listed
  <2> QED BY <2>2, <2>3, Zenon
<1>5. Reached(out', [groups |-> IF groups = <<>> THEN <<>> ELSE Front(groups), kw |-> "none",
                     cont |-> Rowed(groups), ident |-> FALSE], Letter(pos'))
  BY <1>2, <1>4, CloseTrace
<1>6. Known' = [groups |-> IF groups = <<>> THEN <<>> ELSE Front(groups), kw |-> "none",
                cont |-> Rowed(groups), ident |-> FALSE]
  BY <1>4 DEF Known
<1>7. pos' # 0
  BY <1>2, <1>4, ReadingIs
<1> QED BY <1>5, <1>6, <1>7, Zenon DEF Stepped

\* A comma.
LEMMA CommaSteps ==
  ASSUME sql \in Seq(SqlText), Reached(out, Known, Letter(pos)), Comma
  PROVE  Stepped
<1>1. Is(pos, {Sep})
  BY Zenon DEF Comma, Token, Sep
<1>2. Reading /\ sql[pos] = Sep
  BY <1>1, AtLetter
<1>3. /\ out' = out \o SubSeq(sql, pos, (pos + 1) - 1) /\ pos' = pos + 1
      /\ groups' = groups /\ prevIdent' = FALSE /\ pendingKw' = "none" /\ valuesCont' = valuesCont
  BY Zenon DEF Comma, Copy, After
<1>4. Reached(out', [groups |-> groups, kw |-> "none", cont |-> valuesCont, ident |-> FALSE], Letter(pos'))
  BY <1>2, <1>3, CommaTrace
<1>5. Known' = [groups |-> groups, kw |-> "none", cont |-> valuesCont, ident |-> FALSE]
  BY <1>3 DEF Known
<1>6. pos' # 0
  BY <1>2, <1>3, ReadingIs
<1> QED BY <1>4, <1>5, <1>6, Zenon DEF Stepped

\* Any other mark.
LEMMA OtherSteps ==
  ASSUME sql \in Seq(SqlText), Reached(out, Known, Letter(pos)), Other
  PROVE  Stepped
<1>1. Is(pos, OtherMarks)
  BY LettersAre, Zenon DEF Other, Token
<1>2. Reading /\ sql[pos] \in OtherMarks
  BY <1>1, AtLetter
<1>3. /\ out' = out \o SubSeq(sql, pos, (pos + 1) - 1) /\ pos' = pos + 1
      /\ groups' = groups /\ After(FALSE, FALSE)
  BY Zenon DEF Other, Copy
<1>4. Reached(out', Passed(Known, FALSE), Letter(pos'))
  BY <1>2, <1>3, OtherTrace
<1>5. Known' = Passed(Known, FALSE)
  BY <1>3 DEF Known, Passed, After
<1>6. pos' # 0
  BY <1>2, <1>3, ReadingIs
<1> QED BY <1>4, <1>5, <1>6, Zenon DEF Stepped

-----------------------------------------------------------------------------
(* The steps over the norm: each token is written as it is *)

\* In the norm, before the token from p to q.
Onward(B, G, p, q) ==
  /\ Traced(sql, B, G, "end") /\ p \in B /\ q \in B /\ p < q /\ Link(sql, G, p, q, "end")
  /\ pos = p + 1 /\ out = SubSeq(sql, 1, p) /\ Known = G[p]

\* The token was copied.
Moved(G, q) == pos' = q + 1 /\ out' = SubSeq(sql, 1, q) /\ Known' = G[q]

\* The token at hand.
LEMMA OnwardIs ==
  ASSUME NEW B, NEW G, NEW p, NEW q, Onward(B, G, p, q)
  PROVE  /\ sql \in Seq(SqlText) /\ Len(sql) \in Nat /\ DOMAIN sql = 1 .. Len(sql)
         /\ p \in Nat /\ q \in Nat /\ p < q /\ q <= Len(sql) /\ pos = p + 1 /\ pos \in 1 .. Len(sql)
         /\ p \in 0 .. Len(sql) /\ q \in 0 .. Len(sql) /\ q + 1 \in 1 .. Len(sql) + 1
         /\ out = SubSeq(sql, 1, p) /\ Known = G[p] /\ G[p] \in Ctx /\ G[q] \in Ctx
         /\ Tok(sql, p, q, G[p], G[q]) /\ Meets(sql, p, q, Letter(q + 1))
<1>1. /\ sql \in Seq(SqlText) /\ B \in SUBSET (0 .. Len(sql)) /\ G \in [Nat -> Ctx]
      /\ p \in B /\ q \in B /\ p < q /\ Link(sql, G, p, q, "end")
      /\ pos = p + 1 /\ out = SubSeq(sql, 1, p) /\ Known = G[p]
  BY Zenon DEF Onward, Traced
<1>2. Len(sql) \in Nat /\ DOMAIN sql = 1 .. Len(sql)
  BY <1>1, SqlDomain
<1>3. /\ p \in Nat /\ q \in Nat /\ q <= Len(sql) /\ p \in 0 .. Len(sql) /\ q \in 0 .. Len(sql)
      /\ q + 1 \in 1 .. Len(sql) + 1 /\ p + 1 \in 1 .. Len(sql)
  BY <1>1, <1>2
<1>4. Tok(sql, p, q, G[p], G[q]) /\ Meets(sql, p, q, LetterAt(sql, q + 1, "end"))
  BY <1>1, Zenon DEF Link
<1>5. LetterAt(sql, q + 1, "end") = Letter(q + 1)
  <2>1. q + 1 <= Len(sql) <=> q + 1 \in DOMAIN sql
    BY <1>2, <1>3
  <2> QED BY <2>1, Zenon DEF LetterAt, Letter
<1> QED BY <1>1, <1>2, <1>3, <1>4, <1>5

\* The token behind a place.
LEMMA NextTok ==
  ASSUME NEW o, NEW B, NEW G, NEW c, Traced(o, B, G, c), NEW q \in B, q < Len(o)
  PROVE  \E r \in B : q < r /\ r <= Len(o) /\ Tok(o, q, r, G[q], G[r])
<1>1. PICK r \in B : q < r /\ Link(o, G, q, r, c)
  BY Zenon DEF Traced
<1>2. Tok(o, q, r, G[q], G[r])
  BY <1>1, Zenon DEF Link
<1>3. r <= Len(o)
  <2>1. B \in SUBSET (0 .. Len(o)) /\ o \in Seq(SqlText)
    BY Zenon DEF Traced
  <2> QED BY <2>1
<1> QED BY <1>1, <1>2, <1>3

\* Where a token begins there is neither a quote nor a line's end, nor a digit but in a name.
LEMMA FirstLetter ==
  ASSUME NEW o, NEW B, NEW G, NEW c, Traced(o, B, G, c), NEW q \in B, q < Len(o)
  PROVE  /\ o[q + 1] # "'" /\ o[q + 1] # "nl"
         /\ o[q + 1] \in Numerals => G[q].ident
         /\ o[q + 1] = Gap => o[q] # Gap
<1>1. PICK r \in B : Tok(o, q, r, G[q], G[r])
  BY NextTok
<1>2. /\ o[q + 1] \in Letters \cup Numerals \cup OtherMarks \cup {"#", "@", "?", "[", "(", ")", Gap, Sep}
      /\ o[q + 1] \in Numerals => TokDigit(o, q, r, G[q], G[r])
      /\ o[q + 1] = Gap => TokBlank(o, q, r, G[q], G[r])
  BY <1>1, TokOf
<1>3. {"'", "nl"} \cap (Letters \cup Numerals \cup OtherMarks \cup {"#", "@", "?", "[", "(", ")", Gap, Sep}) = {}
  BY Zenon DEF Letters, Numerals, OtherMarks, Gap, Sep
<1> QED BY <1>2, <1>3, Zenon DEF TokDigit, TokBlank

\* A beginning with the letters up to q behind it.
LEMMA CopyOn ==
  ASSUME NEW o \in Seq(SqlText), NEW p \in Nat, NEW q \in Nat, p < q, q <= Len(o)
  PROVE  /\ SubSeq(o, 1, p) \o SubSeq(o, p + 1, q) = SubSeq(o, 1, q)
         /\ Append(SubSeq(o, 1, p), o[p + 1]) = SubSeq(o, 1, p + 1)
<1>1. ASSUME NEW k \in Nat, p < k, k <= Len(o)
      PROVE  /\ SubSeq(o, 1, p) \o SubSeq(o, p + 1, k) = SubSeq(o, 1, k)
             /\ Len(SubSeq(o, p + 1, k)) = k - p /\ SubSeq(o, p + 1, k) \in Seq(SqlText)
             /\ SubSeq(o, p + 1, k)[1] = o[p + 1]
  <2>1. PICK a, b, c : a = SubSeq(o, 1, p) /\ b = SubSeq(o, p + 1, k) /\ c = SubSeq(o, 1, k)
    OBVIOUS
  <2>2. p \in 0 .. Len(o) /\ k \in 0 .. Len(o)
    BY <1>1
  <2>3. a \in Seq(SqlText) /\ Len(a) = p /\ \A i \in 1 .. p : a[i] = o[i]
    BY <2>1, <2>2, Beginning
  <2>4. c \in Seq(SqlText) /\ Len(c) = k /\ \A i \in 1 .. k : c[i] = o[i]
    BY <2>1, <2>2, Beginning
  <2>5. b \in Seq(SqlText) /\ Len(b) = k - p /\ \A i \in 1 .. k - p : b[i] = o[p + i]
    <3>1. /\ p + 1 \in Int /\ k \in Int /\ (\A i \in p + 1 .. k : i \in 1 .. Len(o))
          /\ (IF p + 1 <= k THEN k - (p + 1) + 1 ELSE 0) = k - p /\ k - (p + 1) + 1 = k - p
          /\ \A i \in 1 .. k - p : (p + 1) + i - 1 = p + i
      BY <1>1
    <3>2. \A i \in p + 1 .. k : o[i] \in SqlText
      BY <3>1
    <3>3. /\ b \in Seq(SqlText) /\ Len(b) = IF p + 1 <= k THEN k - (p + 1) + 1 ELSE 0
          /\ \A i \in 1 .. k - (p + 1) + 1 : b[i] = o[(p + 1) + i - 1]
      <4>1. p + 1 \in Int /\ k \in Int
        BY <3>1
      <4> QED BY ONLY <2>1, <3>2, <4>1, SubSeqProperties
    <3> QED BY <3>1, <3>3
  <2>6. PICK d : d = a \o b
    OBVIOUS
  <2>7. /\ d \in Seq(SqlText) /\ Len(d) = p + (k - p)
        /\ \A i \in 1 .. p + (k - p) : d[i] = IF i <= p THEN a[i] ELSE b[i - p]
    <3>1. /\ d \in Seq(SqlText) /\ Len(d) = Len(a) + Len(b)
          /\ \A i \in 1 .. Len(a) + Len(b) : d[i] = IF i <= Len(a) THEN a[i] ELSE b[i - Len(a)]
      BY ONLY <2>3, <2>5, <2>6, ConcatProperties
    <3> QED BY ONLY <3>1, <2>3, <2>5
  <2>8. \A i \in 1 .. k : d[i] = c[i]
    <3>1. ASSUME NEW i \in 1 .. k PROVE d[i] = c[i]
      <4>1. i \in 1 .. p + (k - p)
        BY <1>1
      <4>2. CASE i <= p
        <5>1. i \in 1 .. p
          BY <4>2
        <5> QED BY <2>3, <2>4, <2>7, <4>1, <4>2, <5>1
      <4>3. CASE ~(i <= p)
        <5>1. i - p \in 1 .. k - p /\ p + (i - p) = i
          BY <1>1, <4>3
        <5>2. b[i - p] = o[i]
          BY <2>5, <5>1
        <5> QED BY <2>4, <2>7, <4>1, <4>3, <5>2
      <4> QED BY <4>2, <4>3
    <3> QED BY <3>1
  <2>9. d = c
    <3>1. Len(d) = k
      BY <1>1, <2>7
    <3> QED BY ONLY <2>4, <2>7, <2>8, <3>1, SeqSame
  <2>10. b[1] = o[p + 1]
    <3>1. 1 \in 1 .. k - p
      BY <1>1
    <3> QED BY <2>5, <3>1
  <2> QED BY <2>1, <2>5, <2>6, <2>9, <2>10
<1>2. SubSeq(o, 1, p) \o SubSeq(o, p + 1, q) = SubSeq(o, 1, q)
  BY <1>1
<1>3. Append(SubSeq(o, 1, p), o[p + 1]) = SubSeq(o, 1, p + 1)
  <2>1. PICK a, b, x : a = SubSeq(o, 1, p) /\ b = SubSeq(o, p + 1, p + 1) /\ x = o[p + 1]
    OBVIOUS
  <2>2. p + 1 \in Nat /\ p < p + 1 /\ p + 1 <= Len(o) /\ (p + 1) - p = 1 /\ p + 1 \in 1 .. Len(o)
        /\ p \in 0 .. Len(o)
    OBVIOUS
  <2>3. a \o b = SubSeq(o, 1, p + 1) /\ Len(b) = 1 /\ b \in Seq(SqlText) /\ b[1] = x
    BY <1>1, <2>1, <2>2
  <2>4. a \in Seq(SqlText) /\ x \in SqlText
    BY <2>1, <2>2, Beginning
  <2>5. <<x>> \in Seq(SqlText) /\ Len(<<x>>) = 1 /\ <<x>>[1] = x
    BY <2>4
  <2>6. b = <<x>>
    <3>1. \A i \in 1 .. Len(b) : b[i] = <<x>>[i]
      BY <2>3, <2>5
    <3> QED BY <2>3, <2>5, <3>1, SeqSame
  <2>7. Append(a, x) = a \o <<x>>
    BY <2>4, AppendIsConcat
  <2> QED BY <2>1, <2>3, <2>6, <2>7
<1> QED BY <1>2, <1>3

\* What is written when the token is copied.
LEMMA CopiedOn ==
  ASSUME NEW B, NEW G, NEW p, NEW q, Onward(B, G, p, q)
  PROVE  /\ out \o SubSeq(sql, pos, (q + 1) - 1) = SubSeq(sql, 1, q)
         /\ q = p + 1 => /\ out \o SubSeq(sql, pos, (pos + 1) - 1) = SubSeq(sql, 1, q)
                         /\ Append(out, sql[pos]) = SubSeq(sql, 1, q) /\ pos + 1 = q + 1
<1>1. /\ sql \in Seq(SqlText) /\ p \in Nat /\ q \in Nat /\ p < q /\ q <= Len(sql) /\ pos = p + 1
      /\ out = SubSeq(sql, 1, p)
  BY OnwardIs
<1>2. /\ SubSeq(sql, 1, p) \o SubSeq(sql, p + 1, q) = SubSeq(sql, 1, q)
      /\ Append(SubSeq(sql, 1, p), sql[p + 1]) = SubSeq(sql, 1, p + 1)
  BY <1>1, CopyOn
<1>3. (q + 1) - 1 = q /\ (q = p + 1 => (pos + 1) - 1 = q /\ pos + 1 = q + 1)
  BY <1>1
<1> QED BY <1>1, <1>2, <1>3

\* The letter at hand tells the token.
LEMMA TokAt ==
  ASSUME NEW B, NEW G, NEW p, NEW q, Onward(B, G, p, q)
  PROVE  /\ sql[pos] = Gap => TokBlank(sql, p, q, Known, G[q])
         /\ sql[pos] = "?" => TokHole(sql, p, q, Known, G[q])
         /\ sql[pos] \in Letters => TokWord(sql, p, q, Known, G[q])
         /\ sql[pos] \in Numerals => TokDigit(sql, p, q, Known, G[q])
         /\ sql[pos] = "#" => TokTemp(sql, p, q, Known, G[q])
         /\ sql[pos] = "@" => TokVariable(sql, p, q, Known, G[q])
         /\ sql[pos] = "[" => TokBracket(sql, p, q, Known, G[q])
         /\ sql[pos] = "(" => TokOpen(sql, p, q, Known, G[q])
         /\ sql[pos] = ")" => TokClose(sql, p, q, Known, G[q])
         /\ sql[pos] = Sep => TokComma(sql, p, q, Known, G[q])
         /\ sql[pos] \in OtherMarks => TokOther(sql, p, q, Known, G[q])
<1>1. pos = p + 1 /\ Known = G[p] /\ Tok(sql, p, q, G[p], G[q])
  BY OnwardIs
<1>2. Tok(sql, p, q, Known, G[q]) /\ sql[pos] = sql[p + 1]
  BY <1>1
<1> QED BY <1>2, TokOf, Zenon

\* The scan of a name ends where its token does.
LEMMA NameEnds ==
  ASSUME NEW B, NEW G, NEW p, NEW q, Onward(B, G, p, q), NEW S, NEW k \in Nat, pos <= k, k <= q + 1,
         \A i \in k .. q : sql[i] \in S, Letter(q + 1) \notin S
  PROVE  Past(k, S) = q + 1
<1>1. /\ sql \in Seq(SqlText) /\ DOMAIN sql = 1 .. Len(sql) /\ Len(sql) \in Nat
      /\ p \in Nat /\ q \in Nat /\ q <= Len(sql) /\ pos = p + 1
  BY OnwardIs
<1>2. k \in 1 .. Len(sql) + 1 /\ q + 1 \in k .. Len(sql) + 1
  BY <1>1
<1>3. ~Is(q + 1, S)
  BY Zenon DEF Is, Letter
<1>4. \A m \in k .. (q + 1) - 1 : m \in DOMAIN sql /\ sql[m] \in S
  <2>1. \A m \in k .. (q + 1) - 1 : m \in 1 .. Len(sql) /\ m \in k .. q
    BY <1>1
  <2> QED BY <1>1, <2>1
<1>5. \A m \in k .. (q + 1) - 1 : Is(m, S)
  BY <1>4 DEF Is
<1> QED BY ONLY <1>1, <1>2, <1>3, <1>5, PastAt

\* A word is copied, being as long as it was.
LEMMA WordOn ==
  ASSUME NEW B, NEW G, NEW p, NEW q, Onward(B, G, p, q), Word
  PROVE  Moved(G, q)
<1>1. sql[pos] \in Letters
  BY Zenon DEF Word, Token, Is
<1>2. TokWord(sql, p, q, Known, G[q])
  BY <1>1, TokAt
<1>3. /\ p \in Nat /\ q \in Nat /\ p < q /\ pos = p + 1
      /\ Meets(sql, p, q, Letter(q + 1))
  BY OnwardIs
<1>4. Letter(q + 1) \notin IdentCont
  <2>1. sql[p + 1] \in Greedy
    BY <1>1, <1>3 DEF Greedy
  <2> QED BY <1>3, <2>1, Zenon DEF Meets
<1>5. /\ \A i \in pos .. q : sql[i] \in IdentCont
      /\ G[q] = [groups |-> Known.groups, kw |-> Keyword(SubSeq(sql, pos, q)), cont |-> FALSE, ident |-> TRUE]
  BY <1>2, <1>3, Zenon DEF TokWord
<1>6. Past(pos, IdentCont) = q + 1
  <2>1. pos \in Nat /\ pos <= pos /\ pos <= q + 1
    BY <1>3
  <2> QED BY <1>4, <1>5, <2>1, NameEnds
<1>7. /\ pos' = q + 1 /\ out' = out \o SubSeq(sql, pos, (q + 1) - 1) /\ groups' = groups
      /\ pendingKw' = Keyword(SubSeq(sql, pos, pos' - 1)) /\ prevIdent' = TRUE /\ valuesCont' = FALSE
  BY <1>6, Zenon DEF Word, Copy
<1>8. pos' - 1 = q
  BY <1>3, <1>7
<1>9. Known' = G[q]
  BY <1>5, <1>7, <1>8 DEF Known
<1>10. out' = SubSeq(sql, 1, q)
  BY <1>7, CopiedOn
<1> QED BY <1>7, <1>9, <1>10, Zenon DEF Moved

\* A digit of a name is copied.
LEMMA DigitOn ==
  ASSUME NEW B, NEW G, NEW p, NEW q, Onward(B, G, p, q), DigitOfName
  PROVE  Moved(G, q)
<1>1. sql[pos] \in Numerals
  BY Zenon DEF DigitOfName, Token, Is
<1>2. TokDigit(sql, p, q, Known, G[q])
  BY <1>1, TokAt
<1>3. q = p + 1 /\ G[q] = Known
  BY <1>2, Zenon DEF TokDigit
<1>4. /\ out' = out \o SubSeq(sql, pos, (pos + 1) - 1) /\ pos' = pos + 1 /\ groups' = groups
      /\ pendingKw' = pendingKw /\ prevIdent' = prevIdent /\ valuesCont' = valuesCont
  BY Zenon DEF DigitOfName, Copy, context
<1>5. Known' = Known
  BY <1>4 DEF Known
<1> QED BY <1>3, <1>4, <1>5, CopiedOn DEF Moved

\* An opening bracket is copied.
LEMMA OpenOn ==
  ASSUME NEW B, NEW G, NEW p, NEW q, Onward(B, G, p, q), OpenParen
  PROVE  Moved(G, q)
<1>1. sql[pos] = "("
  BY Zenon DEF OpenParen, Token, Is
<1>2. TokOpen(sql, p, q, Known, G[q])
  BY <1>1, TokAt
<1>3. /\ q = p + 1
      /\ G[q] = [groups |-> Append(Known.groups, IF Known.cont THEN "rows" ELSE Known.kw), kw |-> "none",
                 cont |-> FALSE, ident |-> FALSE]
  BY <1>2, Zenon DEF TokOpen
<1>4. /\ out' = out \o SubSeq(sql, pos, (pos + 1) - 1) /\ pos' = pos + 1
      /\ groups' = Append(groups, IF valuesCont THEN "rows" ELSE pendingKw) /\ After(FALSE, FALSE)
  BY Zenon DEF OpenParen, Copy
<1>5. Known' = G[q]
  BY <1>3, <1>4 DEF Known, After
<1> QED BY <1>3, <1>4, <1>5, CopiedOn DEF Moved

\* A comma is copied.
LEMMA CommaOn ==
  ASSUME NEW B, NEW G, NEW p, NEW q, Onward(B, G, p, q), Comma
  PROVE  Moved(G, q)
<1>1. sql[pos] = Sep
  BY Zenon DEF Comma, Token, Is, Sep
<1>2. TokComma(sql, p, q, Known, G[q])
  BY <1>1, TokAt
<1>3. q = p + 1 /\ G[q] = [groups |-> Known.groups, kw |-> "none", cont |-> Known.cont, ident |-> FALSE]
  BY <1>2, Zenon DEF TokComma
<1>4. /\ out' = out \o SubSeq(sql, pos, (pos + 1) - 1) /\ pos' = pos + 1
      /\ groups' = groups /\ prevIdent' = FALSE /\ pendingKw' = "none" /\ valuesCont' = valuesCont
  BY Zenon DEF Comma, Copy, After
<1>5. Known' = G[q]
  BY <1>3, <1>4 DEF Known
<1> QED BY <1>3, <1>4, <1>5, CopiedOn DEF Moved

\* Any other mark is copied: no number begins with it.
LEMMA OtherOn ==
  ASSUME NEW B, NEW G, NEW p, NEW q, Onward(B, G, p, q), Other
  PROVE  Moved(G, q)
<1>1. sql[pos] \in OtherMarks
  BY LettersAre, Zenon DEF Other, Token, Is
<1>2. TokOther(sql, p, q, Known, G[q])
  BY <1>1, TokAt
<1>3. q = p + 1 /\ G[q] = Passed(Known, FALSE)
  BY <1>2, Zenon DEF TokOther
<1>4. /\ out' = out \o SubSeq(sql, pos, (pos + 1) - 1) /\ pos' = pos + 1
      /\ groups' = groups /\ After(FALSE, FALSE)
  BY Zenon DEF Other, Copy
<1>5. Known' = G[q]
  BY <1>3, <1>4 DEF Known, Passed, After
<1> QED BY <1>3, <1>4, <1>5, CopiedOn DEF Moved

\* A closing bracket is copied: no row before it is left to fold.
LEMMA CloseOn ==
  ASSUME NEW B, NEW G, NEW p, NEW q, Onward(B, G, p, q), CloseParen
  PROVE  Moved(G, q)
<1>1. sql[pos] = ")"
  BY Zenon DEF CloseParen, Token, Is
<1>2. TokClose(sql, p, q, Known, G[q])
  BY <1>1, TokAt
<1>3. Known.groups = groups
  BY Zenon DEF Known
<1>4. /\ q = p + 1 /\ ~(Rowed(groups) /\ RowsAt(sql, p))
      /\ G[q] = [groups |-> IF groups = <<>> THEN <<>> ELSE Front(groups), kw |-> "none",
                 cont |-> Rowed(groups), ident |-> FALSE]
  BY <1>2, <1>3, Zenon DEF TokClose
<1>5. /\ out' = IF Rowed(groups) THEN CollapseRows(Append(out, ")")) ELSE Append(out, ")")
      /\ prevIdent' = FALSE /\ pendingKw' = "none" /\ valuesCont' = Rowed(groups)
      /\ groups' = (IF groups = <<>> THEN <<>> ELSE Front(groups)) /\ pos' = pos + 1
  <2>1. PICK r : r = (InList /\ Last(groups) = "rows")
    OBVIOUS
  <2>2. /\ out' = IF r THEN CollapseRows(Append(out, ")")) ELSE Append(out, ")")
        /\ prevIdent' = FALSE /\ pendingKw' = "none" /\ valuesCont' = r
        /\ groups' = (IF groups = <<>> THEN <<>> ELSE Front(groups)) /\ pos' = pos + 1
    BY <2>1, Zenon DEF CloseParen, After
  <2>3. r = Rowed(groups)
    BY <2>1, Zenon DEF Rowed, Listed, InList
  <2> QED BY <2>2, <2>3, Zenon
<1>6. ~RowsAt(sql, p) => CollapseRows(Append(out, ")")) = Append(out, ")")
  <2>1. ")" \in SqlText
    BY DEF SqlText, Marks
  <2>2. sql \in Seq(SqlText) /\ p \in 0 .. Len(sql) /\ out = SubSeq(sql, 1, p)
    BY OnwardIs
  <2> QED BY <2>1, <2>2, CollapseIs
<1>7. out' = Append(out, ")")
  BY <1>4, <1>5, <1>6
<1>8. Known' = G[q]
  BY <1>4, <1>5 DEF Known
<1> QED BY <1>1, <1>4, <1>5, <1>7, <1>8, CopiedOn DEF Moved

\* A ? is written: none before it is left to fold it into.
LEMMA HoleOn ==
  ASSUME NEW B, NEW G, NEW p, NEW q, Onward(B, G, p, q), Placeholder
  PROVE  Moved(G, q) /\ sql[p + 1] = "?" /\ q = p + 1
<1>1. sql[pos] = "?"
  BY Zenon DEF Placeholder, Token, Is
<1>2. TokHole(sql, p, q, Known, G[q])
  BY <1>1, TokAt
<1>3. Known.groups = groups
  BY Zenon DEF Known
<1>4. q = p + 1 /\ ~(Listed(groups) /\ FoldsAt(sql, p)) /\ G[q] = Passed(Known, FALSE)
  BY <1>2, <1>3, Zenon DEF TokHole
<1>5. out' = WithPlaceholder /\ pos' = pos + 1 /\ After(FALSE, FALSE) /\ groups' = groups
  BY Zenon DEF Placeholder
<1>6. WithPlaceholder = Append(out, "?")
  <2>1. sql \in Seq(SqlText) /\ p \in 0 .. Len(sql) /\ out = SubSeq(sql, 1, p)
    BY OnwardIs
  <2> QED BY <1>4, <2>1, PlaceholderIs
<1>7. Known' = G[q]
  BY <1>4, <1>5 DEF Known, Passed, After
<1>8. Moved(G, q)
  BY <1>1, <1>4, <1>5, <1>6, <1>7, CopiedOn DEF Moved
<1>9. pos = p + 1
  BY OnwardIs
<1> QED BY <1>1, <1>4, <1>8, <1>9

\* A space is written: none is before it, and no tail begins behind it.
LEMMA BlankOn ==
  ASSUME NEW B, NEW G, NEW p, NEW q, Onward(B, G, p, q), Blank
  PROVE  Moved(G, q) /\ tails' = tails \o <<>>
<1>1. /\ sql \in Seq(SqlText) /\ DOMAIN sql = 1 .. Len(sql) /\ Len(sql) \in Nat
      /\ p \in Nat /\ q \in Nat /\ p < q /\ q <= Len(sql) /\ pos = p + 1 /\ pos \in 1 .. Len(sql)
      /\ p \in 0 .. Len(sql) /\ out = SubSeq(sql, 1, p)
  BY OnwardIs
<1>2. Traced(sql, B, G, "end") /\ p \in B /\ q \in B
  BY Zenon DEF Onward
<1>3. sql[pos] = Gap
  <2>1. sql[pos] \in {Gap, "nl"}
    BY LettersAre, Zenon DEF Blank, Token, Is
  <2>2. sql[p + 1] # "nl"
    BY <1>1, <1>2, FirstLetter
  <2> QED BY <1>1, <2>1, <2>2
<1>4. TokBlank(sql, p, q, Known, G[q])
  BY <1>3, TokAt
<1>5. /\ q = p + 1 /\ p > 0 /\ sql[p] # Gap
      /\ G[q] = [groups |-> Known.groups, kw |-> Known.kw, cont |-> Known.cont, ident |-> FALSE]
  BY <1>4, Zenon DEF TokBlank
<1>6. pos + 1 \notin DOMAIN sql \/ sql[pos + 1] \notin {Gap, "nl"}
  <2>1. ASSUME pos + 1 \in DOMAIN sql PROVE sql[pos + 1] \notin {Gap, "nl"}
    <3>1. q < Len(sql) /\ q + 1 = pos + 1
      BY <1>1, <1>5, <2>1
    <3>2. sql[q + 1] # "nl" /\ (sql[q + 1] = Gap => sql[q] # Gap)
      BY <1>2, <3>1, FirstLetter
    <3>3. sql[q] = Gap
      BY <1>1, <1>3, <1>5
    <3> QED BY <3>1, <3>2, <3>3
  <2> QED BY <2>1
<1>7. ~Is(pos + 1, Spaces)
  BY <1>6, LettersAre, Zenon DEF Is
<1>8. Blanks(pos) = [values |-> <<>>, next |-> pos + 1]
  <2>1. sql[pos] = " "
    BY <1>3, Zenon DEF Gap
  <2> QED BY <1>1, <1>7, <2>1, BlankAlone, Zenon
<1>9. /\ pos' = pos + 1 /\ tails' = tails \o <<>>
      /\ out' = IF out = <<>> \/ Ends(out, Gap) THEN out ELSE Append(out, Gap)
      /\ prevIdent' = FALSE /\ groups' = groups /\ pendingKw' = pendingKw /\ valuesCont' = valuesCont
  <2>1. Blanks(pos).values = <<>> /\ Blanks(pos).next = pos + 1
    BY ONLY <1>8
  <2> QED BY <2>1, Zenon DEF Blank, Gap
<1>10. ~(out = <<>> \/ Ends(out, Gap))
  <2>1. Ends(out, Gap) <=> (p > 0 /\ sql[p] = Gap)
    BY ONLY <1>1, EndsIs
  <2>2. p = 0 <=> out = <<>>
    BY ONLY <1>1, BeginningEnds
  <2>3. p # 0
    BY ONLY <1>5, <1>1
  <2> QED BY <1>5, <2>1, <2>2, <2>3, Zenon
<1>11. out' = Append(out, sql[pos])
  BY <1>3, <1>9, <1>10, Zenon
<1>12. Append(out, sql[pos]) = SubSeq(sql, 1, q) /\ pos + 1 = q + 1
  BY ONLY <1>5, Onward(B, G, p, q), CopiedOn
<1>13. Known' = G[q]
  BY ONLY <1>5, <1>9 DEF Known
<1> QED BY <1>9, <1>11, <1>12, <1>13, Zenon DEF Moved

\* There is no string in a norm.
LEMMA NoString ==
  ASSUME NEW B, NEW G, NEW p, NEW q, Onward(B, G, p, q)
  PROVE  ~String /\ ~Unicode
<1>1. /\ DOMAIN sql = 1 .. Len(sql) /\ Len(sql) \in Nat
      /\ p \in Nat /\ q \in Nat /\ p < q /\ q <= Len(sql) /\ pos = p + 1
  BY OnwardIs
<1>2. Traced(sql, B, G, "end") /\ p \in B /\ q \in B
  BY Zenon DEF Onward
<1>3. sql[pos] # "'"
  BY <1>1, <1>2, FirstLetter
<1>4. ASSUME sql[pos] = "N", pos + 1 \in DOMAIN sql, sql[pos + 1] = "'" PROVE FALSE
  <2>1. sql[pos] \in Letters
    BY <1>4 DEF Letters
  <2>2. TokWord(sql, p, q, Known, G[q])
    BY <2>1, TokAt
  <2>3. \A i \in p + 1 .. q : sql[i] \in IdentCont
    BY <2>2, Zenon DEF TokWord
  <2>4. "'" \notin IdentCont
    BY DEF IdentCont, Letters, Numerals
  <2>5. CASE q = p + 1
    <3>1. q < Len(sql) /\ q + 1 = pos + 1
      BY <1>1, <1>4, <2>5
    <3> QED BY <1>2, <1>4, <3>1, FirstLetter
  <2>6. CASE q # p + 1
    <3>1. pos + 1 \in p + 1 .. q
      BY <1>1, <2>6
    <3> QED BY <1>4, <2>3, <2>4, <3>1
  <2> QED BY <2>5, <2>6
<1> QED BY <1>3, <1>4, Zenon DEF String, Unicode, Token, Is

\* Nor a number.
LEMMA NoNumber ==
  ASSUME NEW B, NEW G, NEW p, NEW q, Onward(B, G, p, q)
  PROVE  ~Number
<1>1. /\ DOMAIN sql = 1 .. Len(sql) /\ Len(sql) \in Nat
      /\ p \in Nat /\ q \in Nat /\ p < q /\ q <= Len(sql) /\ pos = p + 1
  BY OnwardIs
<1>2. Traced(sql, B, G, "end") /\ p \in B /\ q \in B
  BY Zenon DEF Onward
<1>3. Known.ident = prevIdent /\ Known = G[p]
  BY OnwardIs, Zenon DEF Known
<1>4. sql[pos] \in Numerals => prevIdent
  BY <1>1, <1>2, <1>3, FirstLetter
<1>5. ASSUME sql[pos] \in OtherMarks
      PROVE  q = p + 1 /\ ~G[q].ident
  <2>1. TokOther(sql, p, q, Known, G[q])
    BY <1>5, TokAt
  <2>2. q = p + 1 /\ G[q] = Passed(Known, FALSE)
    BY <2>1, Zenon DEF TokOther
  <2> QED BY <2>2 DEF Passed
<1>6. ASSUME sql[pos] \in OtherMarks, pos + 1 \in DOMAIN sql PROVE sql[pos + 1] \notin Numerals
  <2>1. q < Len(sql) /\ q + 1 = pos + 1 /\ ~G[q].ident
    BY <1>1, <1>5, <1>6
  <2> QED BY <1>2, <2>1, FirstLetter
<1>7. ASSUME sql[pos] \in OtherMarks, pos + 1 \in DOMAIN sql, sql[pos + 1] = ".",
             (pos + 1) + 1 \in DOMAIN sql
      PROVE  sql[(pos + 1) + 1] \notin Numerals
  <2>1. q < Len(sql) /\ q + 1 = pos + 1 /\ q + 2 = (pos + 1) + 1
    BY <1>1, <1>5, <1>7
  <2>2. PICK r \in B : q < r /\ r <= Len(sql) /\ Tok(sql, q, r, G[q], G[r])
    BY <1>2, <2>1, NextTok
  <2>3. sql[q + 1] \in OtherMarks
    BY <1>7, <2>1 DEF OtherMarks
  <2>4. TokOther(sql, q, r, G[q], G[r])
    BY <2>2, <2>3, TokOf
  <2>5. r = q + 1 /\ ~G[r].ident
    <3>1. r = q + 1 /\ G[r] = Passed(G[q], FALSE)
      BY <2>4, Zenon DEF TokOther
    <3> QED BY <3>1 DEF Passed
  <2>6. r < Len(sql) /\ r + 1 = (pos + 1) + 1
    BY <1>1, <1>7, <2>1, <2>5
  <2> QED BY <1>2, <2>5, <2>6, FirstLetter
<1>8. {".", "-"} \in SUBSET OtherMarks
  BY DEF OtherMarks
<1>9. ~(NumberAt(pos) /\ ~prevIdent)
  BY <1>4, <1>6, <1>8, Zenon DEF NumberAt, Is
<1>10. ~SignedNumber
  <2>1. ASSUME Is(pos, {"-"}), NumberAt(pos + 1) PROVE FALSE
    <3>1. sql[pos] \in OtherMarks
      BY <1>8, <2>1, Zenon DEF Is
    <3>2. CASE Is(pos + 1, Numerals)
      BY <1>6, <3>1, <3>2, Zenon DEF Is
    <3>3. CASE Is(pos + 1, {"."}) /\ Is((pos + 1) + 1, Numerals)
      <4>1. /\ pos + 1 \in DOMAIN sql /\ sql[pos + 1] = "." /\ (pos + 1) + 1 \in DOMAIN sql
            /\ sql[(pos + 1) + 1] \in Numerals
        BY <3>3, Zenon DEF Is
      <4> QED BY <1>7, <3>1, <4>1
    <3> QED BY <2>1, <3>2, <3>3, Zenon DEF NumberAt
  <2> QED BY <2>1, Zenon DEF SignedNumber
<1> QED BY <1>9, <1>10, Zenon DEF Number

\* A temporary table is copied: it has no digits left.
LEMMA TempOn ==
  ASSUME NEW B, NEW G, NEW p, NEW q, Onward(B, G, p, q), TempTable
  PROVE  Moved(G, q)
<1>1. sql[pos] = "#"
  BY Zenon DEF TempTable, Token, Is
<1>2. TokTemp(sql, p, q, Known, G[q])
  BY <1>1, TokAt
<1>3. p \in Nat /\ q \in Nat /\ p < q /\ pos = p + 1 /\ Meets(sql, p, q, Letter(q + 1))
  BY OnwardIs
<1>4. Letter(q + 1) \notin IdentCont
  <2>1. sql[p + 1] \in Greedy
    BY <1>1, <1>3 DEF Greedy
  <2> QED BY <1>3, <2>1, Zenon DEF Meets
<1>5. (\A i \in p + 2 .. q : sql[i] \in IdentCont \ Numerals) /\ G[q] = Passed(Known, TRUE)
  BY <1>2, Zenon DEF TokTemp
<1>6. pos + 1 \in Nat /\ pos <= pos + 1 /\ pos + 1 <= q + 1
      /\ (\A i \in pos + 1 .. q : sql[i] \in IdentCont \ Numerals) /\ (\A i \in pos + 1 .. q : sql[i] \in IdentCont)
  <2>1. \A i \in pos + 1 .. q : i \in p + 2 .. q
    BY <1>3
  <2> QED BY <1>3, <1>5, <2>1
<1>7. Past(pos + 1, IdentCont \ Numerals) = q + 1
  <2>1. Letter(q + 1) \notin IdentCont \ Numerals
    BY <1>4
  <2> QED BY ONLY Onward(B, G, p, q), <1>6, <2>1, NameEnds
<1>8. Past(pos + 1, IdentCont) = q + 1
  BY ONLY Onward(B, G, p, q), <1>4, <1>6, NameEnds
<1>9. /\ out' = out \o SubSeq(sql, pos, (q + 1) - 1) /\ pos' = q + 1
      /\ After(TRUE, FALSE) /\ groups' = groups
  BY <1>7, <1>8, Zenon DEF TempTable
<1>10. Known' = G[q]
  BY <1>5, <1>9 DEF Known, Passed, After
<1> QED BY <1>9, <1>10, CopiedOn, Zenon DEF Moved

\* A variable is copied: a parameter has no number left.
LEMMA VariableOn ==
  ASSUME NEW B, NEW G, NEW p, NEW q, Onward(B, G, p, q), Variable
  PROVE  Moved(G, q)
<1>1. sql[pos] = "@"
  BY Zenon DEF Variable, Token, Is
<1>2. TokVariable(sql, p, q, Known, G[q])
  BY <1>1, TokAt
<1>3. /\ p \in Nat /\ q \in Nat /\ p < q /\ pos = p + 1 /\ Meets(sql, p, q, Letter(q + 1))
      /\ sql \in Seq(SqlText) /\ Len(sql) \in Nat /\ DOMAIN sql = 1 .. Len(sql) /\ q <= Len(sql)
  BY OnwardIs
<1>4. Letter(q + 1) \notin IdentCont
  <2>1. sql[p + 1] \in Greedy
    BY <1>1, <1>3 DEF Greedy
  <2> QED BY <1>3, <2>1, Zenon DEF Meets
<1>5. /\ \A i \in p + 2 .. q : sql[i] \in IdentCont
      /\ ~(p + 3 <= q /\ sql[p + 2] = "P" /\ sql[p + 3] \in Numerals)
      /\ G[q] = Passed(Known, TRUE)
  BY <1>2, Zenon DEF TokVariable
<1>6. pos + 1 \in Nat /\ pos <= pos + 1 /\ pos + 1 <= q + 1 /\ (\A i \in pos + 1 .. q : sql[i] \in IdentCont)
  <2>1. \A i \in pos + 1 .. q : i \in p + 2 .. q
    BY <1>3
  <2> QED BY <1>3, <1>5, <2>1
<1>7. Past(pos + 1, IdentCont) = q + 1
  BY ONLY Onward(B, G, p, q), <1>4, <1>6, NameEnds
<1>8. Is(pos + 1, {"P"}) => Past(pos + 2, Numerals) = pos + 2
  <2>1. ASSUME Is(pos + 1, {"P"}) PROVE Past(pos + 2, Numerals) = pos + 2
    <3>1. pos + 1 \in DOMAIN sql /\ sql[pos + 1] = "P"
      BY <2>1, Zenon DEF Is
    <3>2. pos + 1 # q + 1
      <4>1. pos + 1 = q + 1 => Letter(q + 1) = "P"
        BY <3>1, Zenon DEF Letter
      <4> QED BY <1>4, <4>1, NameLetters
    <3>3. pos + 1 <= q /\ pos + 2 \in 1 .. Len(sql) + 1 /\ pos + 2 = p + 3 /\ pos + 1 = p + 2
      BY <1>3, <3>1, <3>2
    <3>4. ~Is(pos + 2, Numerals)
      <4>1. CASE p + 3 <= q
        BY <1>5, <3>1, <3>3, <4>1, Zenon DEF Is
      <4>2. CASE ~(p + 3 <= q)
        <5>1. pos + 2 = q + 1
          BY <1>3, <3>3, <4>2
        <5>2. Letter(pos + 2) \notin Numerals
          BY <1>4, <5>1, NameLetters
        <5> QED BY <5>2, Zenon DEF Is, Letter
      <4> QED BY <4>1, <4>2
    <3>5. pos + 2 \in pos + 2 .. Len(sql) + 1 /\ \A m \in pos + 2 .. (pos + 2) - 1 : Is(m, Numerals)
      BY <1>3, <3>3
    <3> QED BY ONLY <1>3, <3>3, <3>4, <3>5, PastAt
  <2> QED BY <2>1
<1>9. PICK f : f = IF Is(pos + 1, {"P"}) THEN Past(pos + 2, Numerals) ELSE pos + 2
  OBVIOUS
<1>10. f = pos + 2 /\ ~(f > pos + 2)
  <2>1. f = pos + 2
    BY <1>8, <1>9, Zenon
  <2> QED BY ONLY <2>1, <1>3
<1>11. /\ out' = IF f > pos + 2 THEN out \o <<"@", "P">> \o SubSeq(sql, f, (q + 1) - 1)
                 ELSE out \o SubSeq(sql, pos, (q + 1) - 1)
       /\ pos' = q + 1 /\ After(TRUE, FALSE) /\ groups' = groups
  BY <1>7, <1>9, Zenon DEF Variable
<1>12. out' = out \o SubSeq(sql, pos, (q + 1) - 1)
  BY <1>10, <1>11, Zenon
<1>13. Known' = G[q]
  BY ONLY <1>5, <1>11 DEF Known, Passed, After
<1> QED BY <1>11, <1>12, <1>13, CopiedOn, Zenon DEF Moved

\* A [name] is copied.
LEMMA BracketOn ==
  ASSUME NEW B, NEW G, NEW p, NEW q, Onward(B, G, p, q), Bracketed
  PROVE  Moved(G, q)
<1>1. sql[pos] = "["
  BY Zenon DEF Bracketed, Token, Is
<1>2. TokBracket(sql, p, q, Known, G[q])
  BY <1>1, TokAt
<1>3. /\ p \in Nat /\ q \in Nat /\ p < q /\ pos = p + 1 /\ Meets(sql, p, q, Letter(q + 1))
      /\ sql \in Seq(SqlText) /\ Len(sql) \in Nat /\ DOMAIN sql = 1 .. Len(sql) /\ q <= Len(sql)
  BY OnwardIs
<1>4. PICK C0 : Walks(sql, p + 2, q + 1, C0)
  BY <1>2, Zenon DEF TokBracket
<1>5. \E C : Walks(sql, p + 2, q + 1, C) /\ (q + 1 <= Len(sql) => q + 1 \notin C /\ sql[q + 1] # "]")
  <2>1. CASE q + 1 <= Len(sql)
    <3>1. Letter(q + 1) = sql[q + 1]
      <4>1. q + 1 \in DOMAIN sql
        BY <1>3, <2>1
      <4> QED BY <4>1, Zenon DEF Letter
    <3>2. sql[q + 1] # "end"
      <4>1. q + 1 \in 1 .. Len(sql)
        BY <1>3, <2>1
      <4>2. sql[q + 1] \in SqlText
        BY <1>3, <4>1
      <4> QED BY <4>2, LettersAre
    <3>3. sql[q + 1] # "]" /\ Closed(sql, p, q)
      <4>1. sql[p + 1] = "["
        BY <1>1, <1>3
      <4> QED BY <1>3, <3>1, <3>2, <4>1, Zenon DEF Meets
    <3> QED BY <3>3, Zenon DEF Closed
  <2>2. CASE ~(q + 1 <= Len(sql))
    BY <1>4, <2>2
  <2> QED BY <2>1, <2>2
<1>6. BracketEnd(p + 2) = q + 1
  <2>1. PICK C : Walks(sql, p + 2, q + 1, C) /\ (q + 1 <= Len(sql) => q + 1 \notin C /\ sql[q + 1] # "]")
    BY <1>5
  <2>2. p + 2 \in 1 .. Len(sql) + 1 /\ q + 1 \in p + 2 .. Len(sql) + 1
    BY <1>3
  <2> QED BY ONLY <1>3, <2>1, <2>2, BracketAt
<1>7. pos + 1 = p + 2
  BY <1>3
<1>8. /\ out' = out \o SubSeq(sql, pos, (q + 1) - 1) /\ pos' = q + 1
      /\ After(TRUE, FALSE) /\ groups' = groups
  BY <1>6, <1>7, Zenon DEF Bracketed, Copy
<1>9. G[q] = Passed(Known, TRUE)
  BY <1>2, Zenon DEF TokBracket
<1>10. Known' = G[q]
  BY <1>8, <1>9 DEF Known, Passed, After
<1> QED BY <1>8, <1>10, CopiedOn, Zenon DEF Moved

-----------------------------------------------------------------------------
(* The norm is a fixed point *)

TokenNext ==
  \/ Blank \/ String \/ Unicode \/ Word \/ DigitOfName \/ Number \/ Placeholder
  \/ TempTable \/ Variable \/ Bracketed \/ OpenParen \/ CloseParen \/ Comma \/ Other

\* What no token changes, and where it may be.
LEMMA TokenFrame ==
  ASSUME TokenNext
  PROVE  /\ given' = given /\ pass' = pass /\ key' = key /\ sql' = sql /\ finished' = finished
         /\ ~finished /\ pos \in DOMAIN sql
<1>1. SameText
  BY Zenon DEF TokenNext, Blank, String, Unicode, Word, DigitOfName, Number, Placeholder, TempTable,
     Variable, Bracketed, OpenParen, CloseParen, Comma, Other, Literal
<1>2. ~finished /\ pos \in DOMAIN sql
  BY Zenon DEF TokenNext, Blank, String, Unicode, Word, DigitOfName, Number, Placeholder, TempTable,
     Variable, Bracketed, OpenParen, CloseParen, Comma, Other, Token, Is, NumberAt, SignedNumber
<1> QED BY <1>1, <1>2, Zenon DEF SameText

\* A token of the statement.
LEMMA FirstTokens ==
  ASSUME sql \in Seq(SqlText), Reached(out, Known, Letter(pos)), TokenNext
  PROVE  Stepped
BY BlankSteps, StringSteps, UnicodeSteps, WordSteps, DigitSteps, NumberSteps, PlaceholderSteps,
   TempSteps, VariableSteps, BracketSteps, OpenSteps, CloseSteps, CommaSteps, OtherSteps, Zenon
   DEF TokenNext

\* A token of the norm.
LEMMA NormTokens ==
  ASSUME NEW B, NEW G, NEW p, NEW q, Onward(B, G, p, q), TokenNext, tails = <<>>
  PROVE  /\ Moved(G, q) /\ tails' = <<>>
         /\ \/ params' = params /\ sql[pos] # "?"
            \/ params' = Append(params, <<"?">>) /\ sql[pos] = "?" /\ q = pos
<1>1. CASE Blank
  <2>1. Moved(G, q) /\ tails' = tails \o <<>>
    BY <1>1, BlankOn
  <2>2. <<>> \o <<>> = <<>>
    <3>1. <<>> \in Seq({0})
      OBVIOUS
    <3> QED BY <3>1, ConcatEmptySeq
  <2>3. params' = params /\ sql[pos] \in Spaces
    BY <1>1, Zenon DEF Blank, Token, Is
  <2>4. "?" \notin Spaces
    BY Zenon DEF Spaces
  <2> QED BY <2>1, <2>2, <2>3, <2>4, Zenon
<1>2. CASE Placeholder
  <2>1. Moved(G, q) /\ sql[p + 1] = "?" /\ q = p + 1
    BY <1>2, HoleOn
  <2>2. params' = Append(params, <<"?">>) /\ tails' = tails
    BY <1>2, Zenon DEF Placeholder
  <2>3. pos = p + 1
    BY OnwardIs
  <2> QED BY <2>1, <2>2, <2>3
<1>3. CASE String \/ Unicode \/ Number
  BY <1>3, NoString, NoNumber
<1>4. CASE Word \/ DigitOfName \/ TempTable \/ Variable \/ Bracketed \/ OpenParen \/ CloseParen \/ Comma
           \/ Other
  <2>1. Moved(G, q)
    BY <1>4, WordOn, DigitOn, TempOn, VariableOn, BracketOn, OpenOn, CloseOn, CommaOn, OtherOn
  <2>2. params' = params /\ tails' = tails
    BY <1>4, Zenon DEF Word, DigitOfName, TempTable, Variable, Bracketed, OpenParen, CloseParen, Comma, Other
  <2>3. sql[pos] \in Letters \cup Numerals \cup {"#", "@", "[", "(", ")", Sep} \cup OtherMarks
    BY <1>4, LettersAre, Zenon DEF Word, DigitOfName, TempTable, Variable, Bracketed, OpenParen, CloseParen,
       Comma, Other, Token, Is, Sep
  <2>4. "?" \notin Letters \cup Numerals \cup {"#", "@", "[", "(", ")", Sep} \cup OtherMarks
    BY Zenon DEF Letters, Numerals, Sep, OtherMarks
  <2> QED BY <2>1, <2>2, <2>3, <2>4
<1> QED BY <1>1, <1>2, <1>3, <1>4, Zenon DEF TokenNext

\* The ?s of a text up to n.
Holes(o, n) == {i \in 1 .. n : o[i] = "?"}

\* A token that is no ? and no [name] holds no ?.
LEMMA HolesSame ==
  ASSUME NEW B, NEW G, NEW p, NEW q, Onward(B, G, p, q), sql[pos] # "?", sql[pos] # "["
  PROVE  Holes(sql, q) = Holes(sql, p)
<1>1. p \in Nat /\ q \in Nat /\ p < q /\ pos = p + 1 /\ Tok(sql, p, q, G[p], G[q])
  BY OnwardIs
<1>2. "?" \notin IdentCont
  BY DEF IdentCont, Letters, Numerals
<1>3. \A i \in p + 1 .. q : sql[i] # "?"
  <2>1. \/ q = p + 1
        \/ \A i \in p + 1 .. q : sql[i] \in IdentCont
        \/ \A i \in p + 2 .. q : sql[i] \in IdentCont
    <3>1. ~TokBracket(sql, p, q, G[p], G[q])
      BY <1>1, Zenon DEF TokBracket
    <3> QED BY <1>1, <3>1, Zenon DEF Tok, TokBlank, TokHole, TokWord, TokDigit, TokTemp, TokVariable, TokOpen,
            TokClose, TokComma, TokOther
  <2>2. \A i \in p + 1 .. q : i = p + 1 \/ (i \in p + 2 .. q /\ q # p + 1)
    BY <1>1
  <2> QED BY <1>1, <1>2, <2>1, <2>2
<1>4. \A i \in 1 .. q : i \in 1 .. p \/ i \in p + 1 .. q
  BY <1>1
<1>5. \A i \in 1 .. p : i \in 1 .. q
  BY <1>1
<1> QED BY <1>3, <1>4, <1>5 DEF Holes

\* A ? is one more.
LEMMA HolesMore ==
  ASSUME NEW o, NEW p \in Nat, o[p + 1] = "?"
  PROVE  Cardinality(Holes(o, p + 1)) = Cardinality(Holes(o, p)) + 1
<1>1. Holes(o, p + 1) = Holes(o, p) \cup {p + 1} /\ p + 1 \notin Holes(o, p)
  BY DEF Holes
<1>2. IsFiniteSet(Holes(o, p))
  <2>1. IsFiniteSet(1 .. p) /\ Holes(o, p) \subseteq 1 .. p
    BY FS_Interval DEF Holes
  <2> QED BY <2>1, FS_Subset
<1> QED BY <1>1, <1>2, FS_AddElement

-----------------------------------------------------------------------------
(* A ? of the norm has a parameter *)

NoName(o) == \A i \in 1 .. Len(o) : o[i] # "["
Asks(o) == Cardinality(Holes(o, Len(o)))
IsList(s) == \E V : s \in Seq(V)

\* The ?s written, but for those in a [name], have their parameters.
Asked == IsList(params) /\ (NoName(out) => Asks(out) <= Len(params))

\* The length of a list is a number, and one more element makes it longer.
LEMMA ListGrows ==
  ASSUME NEW s, IsList(s), NEW x
  PROVE  Len(s) \in Nat /\ IsList(Append(s, x)) /\ Len(Append(s, x)) = Len(s) + 1
<1>1. PICK V : s \in Seq(V)
  BY DEF IsList
<1>2. PICK W : W = V \cup {x}
  OBVIOUS
<1>3. s \in Seq(W) /\ x \in W /\ Len(s) \in Nat
  BY <1>1, <1>2
<1>4. Append(s, x) \in Seq(W) /\ Len(Append(s, x)) = Len(s) + 1
  BY ONLY <1>3, AppendProperties
<1> QED BY <1>3, <1>4 DEF IsList

\* The number of ?s.
LEMMA HolesCount ==
  ASSUME NEW o, NEW n \in Nat
  PROVE  IsFiniteSet(Holes(o, n)) /\ Cardinality(Holes(o, n)) \in Nat
<1>1. IsFiniteSet(1 .. n) /\ Holes(o, n) \subseteq 1 .. n
  BY FS_Interval DEF Holes
<1> QED BY <1>1, FS_Subset, FS_CardinalityType

\* What is written behind has no ?.
LEMMA AsksSame ==
  ASSUME NEW o, NEW u, Len(o) \in Nat, Len(u) \in Nat, Len(o) <= Len(u), Same(o, u, Len(o)),
         \A i \in Len(o) + 1 .. Len(u) : u[i] # "?"
  PROVE  Asks(u) = Asks(o) /\ (NoName(u) => NoName(o))
<1>1. \A i \in 1 .. Len(o) : u[i] = o[i] /\ i \in 1 .. Len(u)
  BY DEF Same
<1>2. \A i \in 1 .. Len(u) : i \in 1 .. Len(o) \/ i \in Len(o) + 1 .. Len(u)
  OBVIOUS
<1>3. Holes(u, Len(u)) = Holes(o, Len(o))
  BY <1>1, <1>2 DEF Holes
<1>4. NoName(u) => NoName(o)
  BY <1>1 DEF NoName
<1> QED BY <1>3, <1>4, Zenon DEF Asks

\* A ? is written.
LEMMA AsksMore ==
  ASSUME NEW o, NEW u, Len(o) \in Nat, Len(u) = Len(o) + 1, Same(o, u, Len(o)), u[Len(o) + 1] = "?"
  PROVE  Asks(u) = Asks(o) + 1 /\ (NoName(u) => NoName(o))
<1>1. PICK n : n = Len(o)
  OBVIOUS
<1>2. \A i \in 1 .. n : u[i] = o[i] /\ i \in 1 .. n + 1
  BY <1>1 DEF Same
<1>3. Holes(u, n) = Holes(o, n)
  BY <1>2 DEF Holes
<1>4. Cardinality(Holes(u, n + 1)) = Cardinality(Holes(u, n)) + 1
  BY <1>1, HolesMore
<1>5. NoName(u) => NoName(o)
  BY <1>1, <1>2 DEF NoName
<1>6. Asks(u) = Cardinality(Holes(u, n + 1)) /\ Asks(o) = Cardinality(Holes(o, n))
  BY <1>1 DEF Asks
<1> QED BY <1>3, <1>4, <1>5, <1>6

\* The end of it is taken back, which is no [name].
LEMMA AsksLess ==
  ASSUME NEW o \in Seq(SqlText), NEW k \in 0 .. Len(o), \A i \in k + 1 .. Len(o) : o[i] # "["
  PROVE  /\ Asks(SubSeq(o, 1, k)) \in Nat /\ Asks(o) \in Nat /\ Asks(SubSeq(o, 1, k)) <= Asks(o)
         /\ NoName(SubSeq(o, 1, k)) => NoName(o)
<1>1. PICK u, n : u = SubSeq(o, 1, k) /\ n = Len(o)
  OBVIOUS
<1>2. n \in Nat /\ k \in Nat /\ k <= n
  BY <1>1
<1>3. Len(u) = k /\ \A i \in 1 .. k : u[i] = o[i]
  BY <1>1, Beginning
<1>4. Holes(u, k) \subseteq Holes(o, n)
  <2>1. \A i \in 1 .. k : i \in 1 .. n
    BY <1>2
  <2> QED BY <1>3, <2>1 DEF Holes
<1>5. Cardinality(Holes(u, k)) <= Cardinality(Holes(o, n))
  BY <1>2, <1>4, HolesCount, FS_Subset
<1>6. Cardinality(Holes(u, k)) \in Nat /\ Cardinality(Holes(o, n)) \in Nat
  BY <1>2, HolesCount
<1>7. NoName(u) => NoName(o)
  <2>1. \A i \in 1 .. n : i \in 1 .. k \/ i \in k + 1 .. n
    BY <1>2
  <2> QED BY <1>1, <1>3, <2>1 DEF NoName
<1>8. Asks(u) = Cardinality(Holes(u, k)) /\ Asks(o) = Cardinality(Holes(o, n))
  BY <1>1, <1>3 DEF Asks
<1> QED BY <1>1, <1>5, <1>6, <1>7, <1>8

\* What a place before a space leaves out.
LEMMA CutLeaves ==
  ASSUME NEW o, NEW m \in Int, m <= Len(o)
  PROVE  /\ Unspaced(o, m) \in Int /\ m - 1 <= Unspaced(o, m) /\ Unspaced(o, m) <= m
         /\ \A i \in Unspaced(o, m) + 1 .. m : o[i] = Gap
<1>1. CASE m > 0 /\ o[m] = Gap
  <2>1. Unspaced(o, m) = m - 1
    BY <1>1 DEF Unspaced
  <2>2. \A i \in (m - 1) + 1 .. m : i = m
    OBVIOUS
  <2> QED BY <1>1, <2>1, <2>2
<1>2. CASE ~(m > 0 /\ o[m] = Gap)
  <2>1. Unspaced(o, m) = m
    BY <1>2 DEF Unspaced
  <2> QED BY <2>1
<1> QED BY <1>1, <1>2

\* Neither is what folding a ? takes back.
LEMMA FoldLeaves ==
  ASSUME NEW o, Len(o) \in Nat, NEW n \in 0 .. Len(o), FoldsAt(o, n)
  PROVE  HoleAt(o, n) \in 0 .. n /\ \A i \in HoleAt(o, n) + 1 .. n : o[i] # "["
<1>1. PICK a, b : a = Unspaced(o, n) /\ b = HoleAt(o, n)
  OBVIOUS
<1>2. b = Unspaced(o, a - 1) /\ a > 0 /\ o[a] = Sep /\ b > 0
  BY <1>1, Zenon DEF FoldsAt, HoleAt
<1>3. a \in Int /\ a <= n /\ \A i \in a + 1 .. n : o[i] = Gap
  BY <1>1, CutLeaves
<1>4. b \in Int /\ b <= a - 1 /\ \A i \in b + 1 .. a - 1 : o[i] = Gap
  BY <1>2, <1>3, CutLeaves
<1>5. \A i \in b + 1 .. n : i \in b + 1 .. a - 1 \/ i = a \/ i \in a + 1 .. n
  BY <1>3, <1>4
<1>6. Gap # "[" /\ Sep # "["
  BY IdentIs
<1>7. b \in 0 .. n
  BY <1>2, <1>3, <1>4
<1> QED BY <1>1, <1>2, <1>3, <1>4, <1>5, <1>6, <1>7

\* Nor what folding a row takes back.
LEMMA RowLeaves ==
  ASSUME NEW o, Len(o) \in Nat, NEW n \in 0 .. Len(o), RowsAt(o, n)
  PROVE  LastRow(o, n) \in 0 .. n /\ \A i \in LastRow(o, n) + 1 .. n : o[i] # "["
<1>1. PICK a, b : a = Unspaced(o, n - 2) /\ b = LastRow(o, n)
  OBVIOUS
<1>2. b = Unspaced(o, a - 1) /\ a > 0 /\ o[a] = Sep /\ b >= 3 /\ o[n] = "?" /\ o[n - 1] = "("
  BY <1>1, Zenon DEF RowsAt, LastRow
<1>3. a \in Int /\ a <= n - 2 /\ \A i \in a + 1 .. n - 2 : o[i] = Gap
  BY <1>1, CutLeaves
<1>4. b \in Int /\ b <= a - 1 /\ \A i \in b + 1 .. a - 1 : o[i] = Gap
  BY <1>2, <1>3, CutLeaves
<1>5. \A i \in b + 1 .. n : i \in b + 1 .. a - 1 \/ i = a \/ i \in a + 1 .. n - 2 \/ i = n - 1 \/ i = n
  BY <1>3, <1>4
<1>6. Gap # "[" /\ Sep # "["
  BY IdentIs
<1>7. b \in 0 .. n
  BY <1>2, <1>3, <1>4
<1> QED BY <1>1, <1>2, <1>3, <1>4, <1>5, <1>6, <1>7

\* A literal or a placeholder has a parameter, and is a ? or none.
LEMMA HoleAsked ==
  ASSUME Asked, out \in Seq(SqlText), out' = WithPlaceholder, NEW x, params' = Append(params, x)
  PROVE  Asked'
<1>1. IsList(params')
  BY ListGrows DEF Asked
<1>2. Len(params) \in Nat /\ Len(params') = Len(params) + 1
  BY ListGrows DEF Asked
<1>3. PICK n : n = Len(out)
  OBVIOUS
<1>4. n \in Nat /\ n \in 0 .. Len(out) /\ out = SubSeq(out, 1, n)
  BY <1>3, AllOf
<1>5. /\ Listed(groups) /\ FoldsAt(out, n) => WithPlaceholder = SubSeq(out, 1, HoleAt(out, n))
      /\ ~(Listed(groups) /\ FoldsAt(out, n)) => WithPlaceholder = Append(out, "?")
  BY <1>4, PlaceholderIs
<1>6. ASSUME NoName(out') PROVE Asks(out') <= Len(params')
  <2>1. CASE Listed(groups) /\ FoldsAt(out, n)
    <3>1. PICK k : k = HoleAt(out, n)
      OBVIOUS
    <3>2. out' = SubSeq(out, 1, k)
      BY <1>5, <2>1, <3>1
    <3>3. k \in 0 .. n /\ \A i \in k + 1 .. n : out[i] # "["
      BY <1>3, <1>4, <2>1, <3>1, FoldLeaves
    <3>4. /\ Asks(out') \in Nat /\ Asks(out) \in Nat /\ Asks(out') <= Asks(out)
          /\ NoName(out') => NoName(out)
      BY <1>3, <3>2, <3>3, AsksLess
    <3>5. Asks(out) <= Len(params)
      BY <1>6, <3>4 DEF Asked
    <3> QED BY <1>2, <3>4, <3>5
  <2>2. CASE ~(Listed(groups) /\ FoldsAt(out, n))
    <3>1. out' = Append(out, "?")
      BY <1>5, <2>2
    <3>2. Len(out') = Len(out) + 1 /\ Same(out, out', Len(out)) /\ out'[Len(out) + 1] = "?"
      <4>1. "?" \in SqlText
        BY DEF SqlText, Marks
      <4> QED BY <3>1, <4>1, OneMore
    <3>3. Asks(out') = Asks(out) + 1 /\ (NoName(out') => NoName(out))
      BY <1>3, <1>4, <3>2, AsksMore
    <3>4. Asks(out) <= Len(params)
      BY <1>6, <3>3 DEF Asked
    <3>5. Asks(out) \in Nat
      BY <1>3, <1>4, HolesCount DEF Asks
    <3> QED BY <1>2, <3>3, <3>4, <3>5
  <2> QED BY <2>1, <2>2
<1> QED BY <1>1, <1>6 DEF Asked

\* Letters that are no ? are written.
LEMMA CopyAsked ==
  ASSUME Asked, params' = params, Len(out) \in Nat, Len(out') \in Nat, Len(out) <= Len(out'),
         Same(out, out', Len(out)), \A i \in Len(out) + 1 .. Len(out') : out'[i] # "?"
  PROVE  Asked'
<1>1. PICK u : u = out'
  OBVIOUS
<1>2. Asks(u) = Asks(out) /\ (NoName(u) => NoName(out))
  BY <1>1, AsksSame
<1> QED BY <1>1, <1>2 DEF Asked

\* Letters of the text are written, none of them a ?.
LEMMA SliceAsked ==
  ASSUME Asked, params' = params, Reading, NEW e \in pos + 1 .. Len(sql) + 1,
         out' = out \o SubSeq(sql, pos, e - 1), \A m \in pos .. e - 1 : sql[m] # "?"
  PROVE  Asked'
<1>1. /\ sql \in Seq(SqlText) /\ pos \in 1 .. Len(sql) /\ out \in Seq(SqlText) /\ Len(out) \in Nat
  BY ReadingIs
<1>2. Copied(out, out', pos, e)
  BY <1>1, CopyIs
<1>3. out' \in Seq(SqlText) /\ Len(out) < Len(out') /\ Same(out, out', Len(out))
      /\ \A i \in Len(out) + 1 .. Len(out') :
           out'[i] = sql[i - Len(out) + pos - 1] /\ i - Len(out) + pos - 1 \in pos .. e - 1
  BY <1>2, Zenon DEF Copied
<1>4. \A i \in Len(out) + 1 .. Len(out') : out'[i] # "?"
  BY <1>3
<1>5. Len(out') \in Nat /\ Len(out) <= Len(out')
  BY <1>1, <1>3
<1> QED BY <1>1, <1>3, <1>4, <1>5, CopyAsked

\* A letter that is no ? is written.
LEMMA LetterAsked ==
  ASSUME Asked, params' = params, out \in Seq(SqlText), NEW x \in SqlText, x # "?",
         out' = Append(out, x)
  PROVE  Asked'
<1>1. /\ out' \in Seq(SqlText) /\ Len(out') = Len(out) + 1 /\ out'[Len(out) + 1] = x /\ Len(out) \in Nat
      /\ Same(out, out', Len(out))
  BY OneMore
<1>2. \A i \in Len(out) + 1 .. Len(out') : i = Len(out) + 1
  BY <1>1
<1> QED BY <1>1, <1>2, CopyAsked

\* A [name] is written.
LEMMA NameAsked ==
  ASSUME Asked, params' = params, Reading, sql[pos] = "[", NEW e \in pos + 1 .. Len(sql) + 1,
         out' = out \o SubSeq(sql, pos, e - 1)
  PROVE  Asked'
<1>1. /\ sql \in Seq(SqlText) /\ pos \in 1 .. Len(sql) /\ out \in Seq(SqlText) /\ Len(out) \in Nat
  BY ReadingIs
<1>2. Copied(out, out', pos, e)
  BY <1>1, CopyIs
<1>3. out' \in Seq(SqlText) /\ Len(out) < Len(out') /\ out'[Len(out) + 1] = "["
  BY <1>2, Zenon DEF Copied
<1>4. Len(out) + 1 \in 1 .. Len(out')
  BY <1>1, <1>3
<1>5. ~NoName(out')
  BY <1>3, <1>4 DEF NoName
<1> QED BY <1>5 DEF Asked

\* A token of the statement keeps it.
LEMMA TokensAsked ==
  ASSUME Asked, sql \in Seq(SqlText), Reached(out, Known, Letter(pos)), TokenNext
  PROVE  Asked'
<1>1. out \in Seq(SqlText) /\ Len(out) \in Nat
  BY ReachedIs
<1>2. pos \in DOMAIN sql
  BY TokenFrame
<1>3. Reading
  <2>1. Is(pos, {sql[pos]})
    BY <1>2 DEF Is
  <2> QED BY <2>1, AtLetter
<1>4. /\ pos \in 1 .. Len(sql) /\ pos \in Nat /\ Len(sql) \in Nat /\ pos + 1 \in pos + 1 .. Len(sql) + 1
      /\ pos \in 1 .. Len(sql) + 1 /\ pos + 1 \in 1 .. Len(sql) + 1 /\ sql[pos] \in SqlText
  BY <1>3, ReadingIs
<1>5. "?" \notin IdentCont
  BY DEF IdentCont, Letters, Numerals
<1>6. CASE String \/ Unicode \/ Number \/ Placeholder
  <2>1. out' = WithPlaceholder /\ \E x : params' = Append(params, x)
    BY <1>6, Zenon DEF String, Unicode, Number, Placeholder, Literal
  <2> QED BY <1>1, <2>1, HoleAsked
<1>7. CASE Blank
  <2>1. params' = params /\ out' = IF out = <<>> \/ Ends(out, Gap) THEN out ELSE Append(out, Gap)
    BY <1>7, Zenon DEF Blank, Gap
  <2>2. Gap \in SqlText /\ Gap # "?"
    BY LettersAre, IdentIs
  <2>3. CASE out' = out
    BY <2>1, <2>3 DEF Asked
  <2>4. CASE out' = Append(out, Gap)
    BY <1>1, <2>1, <2>2, <2>4, LetterAsked
  <2> QED BY <2>1, <2>3, <2>4
<1>8. CASE DigitOfName \/ OpenParen \/ Comma \/ Other
  <2>1. params' = params /\ out' = out \o SubSeq(sql, pos, (pos + 1) - 1)
    BY <1>8, Zenon DEF DigitOfName, OpenParen, Comma, Other, Copy
  <2>2. sql[pos] # "?"
    <3>1. sql[pos] \in Numerals \cup {"(", ","} \cup OtherMarks
      BY <1>8, LettersAre, Zenon DEF DigitOfName, OpenParen, Comma, Other, Token, Is
    <3>2. "?" \notin Numerals \cup {"(", ","} \cup OtherMarks
      BY Zenon DEF Numerals, OtherMarks
    <3> QED BY <3>1, <3>2, Zenon
  <2>3. \A m \in pos .. (pos + 1) - 1 : m = pos
    BY <1>4
  <2> QED BY <1>3, <1>4, <2>1, <2>2, <2>3, SliceAsked
<1>9. CASE Word
  <2>1. PICK e : e = Past(pos, IdentCont)
    OBVIOUS
  <2>2. /\ params' = params /\ out' = out \o SubSeq(sql, pos, e - 1) /\ sql[pos] \in Letters
    BY <1>9, <2>1, Zenon DEF Word, Copy, Token, Is
  <2>3. e \in pos + 1 .. Len(sql) + 1
    BY <1>3, <2>1, <2>2, WordTrace
  <2>4. \A m \in pos .. e - 1 : Is(m, IdentCont)
    BY <1>4, <2>1, PastIs
  <2>5. \A m \in pos .. e - 1 : sql[m] # "?"
    BY <1>5, <2>4, Zenon DEF Is
  <2> QED BY <1>3, <2>2, <2>3, <2>5, SliceAsked
<1>10. CASE TempTable
  <2>1. PICK e : e = Past(pos + 1, IdentCont \ Numerals)
    OBVIOUS
  <2>2. params' = params /\ out' = out \o SubSeq(sql, pos, e - 1) /\ sql[pos] = "#"
    BY <1>10, <2>1, Zenon DEF TempTable, Token, Is
  <2>3. /\ e \in pos + 1 .. Len(sql) + 1
        /\ \A m \in pos + 1 .. e - 1 : sql[m] \in IdentCont \ Numerals
    <3>1. IdentCont \ Numerals \in SUBSET SqlText /\ "end" \notin IdentCont \ Numerals
      BY IdentIs, NameLetters
    <3> QED BY <1>3, <2>1, <3>1, NameIs
  <2>4. \A m \in pos .. e - 1 : m = pos \/ m \in pos + 1 .. e - 1
    BY <1>4, <2>3
  <2>5. \A m \in pos .. e - 1 : sql[m] # "?"
    BY <1>5, <2>2, <2>3, <2>4
  <2> QED BY <1>3, <2>2, <2>3, <2>5, SliceAsked
<1>11. CASE Variable
  <2>1. PICK e, f : /\ e = Past(pos + 1, IdentCont)
                    /\ f = IF Is(pos + 1, {"P"}) THEN Past(pos + 2, Numerals) ELSE pos + 2
    OBVIOUS
  <2>2. /\ out' = IF f > pos + 2 THEN out \o <<"@", "P">> \o SubSeq(sql, f, e - 1)
                  ELSE out \o SubSeq(sql, pos, e - 1)
        /\ params' = params /\ sql[pos] = "@"
    BY <1>11, <2>1, Zenon DEF Variable, Token, Is
  <2>3. NameOf(out', Len(out), Len(out'))
    BY <1>3, <2>1, <2>2, VariableIs
  <2>4. /\ out' \in Seq(SqlText) /\ Len(out) < Len(out') /\ Same(out, out', Len(out))
        /\ out'[Len(out) + 1] = "@" /\ \A i \in Len(out) + 2 .. Len(out') : out'[i] \in IdentCont
    BY <2>3, Zenon DEF NameOf
  <2>5. Len(out') \in Nat /\ Len(out) <= Len(out')
    BY <1>1, <2>4
  <2>6. \A i \in Len(out) + 1 .. Len(out') : i = Len(out) + 1 \/ i \in Len(out) + 2 .. Len(out')
    BY <1>1, <2>5
  <2>7. \A i \in Len(out) + 1 .. Len(out') : out'[i] # "?"
    BY <1>5, <2>4, <2>6
  <2> QED BY <1>1, <2>2, <2>4, <2>5, <2>7, CopyAsked
<1>12. CASE Bracketed
  <2>1. PICK e : e = BracketEnd(pos + 1)
    OBVIOUS
  <2>2. params' = params /\ out' = out \o SubSeq(sql, pos, e - 1) /\ sql[pos] = "["
    BY <1>12, <2>1, Zenon DEF Bracketed, Copy, Token, Is
  <2>3. e \in pos + 1 .. Len(sql) + 1
    BY <1>4, <2>1, BracketIs
  <2> QED BY <1>3, <2>2, <2>3, NameAsked
<1>13. CASE CloseParen
  <2>1. params' = params /\ out' \in {CollapseRows(Append(out, ")")), Append(out, ")")}
    BY <1>13, Zenon DEF CloseParen
  <2>2. PICK n : n = Len(out)
    OBVIOUS
  <2>3. n \in 0 .. Len(out) /\ out = SubSeq(out, 1, n) /\ ")" \in SqlText /\ ")" # "?"
    <3>1. ")" \in SqlText
      BY DEF SqlText, Marks
    <3> QED BY <1>1, <2>2, <3>1, AllOf
  <2>4. /\ RowsAt(out, n) => CollapseRows(Append(out, ")")) = SubSeq(out, 1, LastRow(out, n))
        /\ ~RowsAt(out, n) => CollapseRows(Append(out, ")")) = Append(out, ")")
    BY <1>1, <2>3, CollapseIs
  <2>5. CASE out' = Append(out, ")")
    BY <1>1, <2>1, <2>3, <2>5, LetterAsked
  <2>6. CASE RowsAt(out, n) /\ out' = SubSeq(out, 1, LastRow(out, n))
    <3>1. PICK k : k = LastRow(out, n)
      OBVIOUS
    <3>2. k \in 0 .. n /\ \A i \in k + 1 .. n : out[i] # "["
      BY <1>1, <2>3, <2>6, <3>1, RowLeaves
    <3>3. /\ Asks(out') \in Nat /\ Asks(out) \in Nat /\ Asks(out') <= Asks(out)
          /\ NoName(out') => NoName(out)
      BY <1>1, <2>2, <2>6, <3>1, <3>2, AsksLess
    <3>4. IsList(params) /\ Len(params) \in Nat
      BY ListGrows DEF Asked
    <3>5. ASSUME NoName(out') PROVE Asks(out') <= Len(params)
      BY <3>3, <3>4, <3>5 DEF Asked
    <3> QED BY <2>1, <3>4, <3>5 DEF Asked
  <2> QED BY <2>1, <2>4, <2>5, <2>6
<1> QED BY <1>6, <1>7, <1>8, <1>9, <1>10, <1>11, <1>12, <1>13, Zenon DEF TokenNext

\* In the norm a quote is found in a [name] only.
LEMMA NoQuotes ==
  ASSUME NEW o, NEW B, NEW G, NEW c, Traced(o, B, G, c), NoName(o)
  PROVE  \A i \in 1 .. Len(o) : o[i] # "'"
<1>1. PICK n : n = Len(o)
  OBVIOUS
<1>2. o \in Seq(SqlText) /\ B \in SUBSET (0 .. n) /\ 0 \in B /\ n \in Nat
  <2>1. o \in Seq(SqlText) /\ B \in SUBSET (0 .. n) /\ 0 \in B
    BY <1>1, Zenon DEF Traced
  <2> QED BY <1>1, <2>1
<1>3. PICK S : S = {m \in Nat : \E b \in B : b <= m /\ \A r \in B : ~(b < r /\ r <= m)}
  OBVIOUS
<1>4. \A m \in 0 .. n : m \in S
  <2>1. 0 \in S
    <3>1. \A r \in B : ~(0 < r /\ r <= 0)
      BY <1>2
    <3> QED BY <1>2, <1>3, <3>1
  <2>2. ASSUME NEW m \in Nat, m \in S PROVE m + 1 \in S
    <3>1. PICK b \in B : b <= m /\ \A r \in B : ~(b < r /\ r <= m)
      BY <1>3, <2>2
    <3>2. CASE m + 1 \in B
      <4>1. \A r \in B : ~(m + 1 < r /\ r <= m + 1)
        BY <1>2
      <4> QED BY <1>3, <3>2, <4>1
    <3>3. CASE m + 1 \notin B
      <4>1. \A r \in B : ~(b < r /\ r <= m + 1)
        BY <1>2, <3>1, <3>3
      <4> QED BY <1>2, <1>3, <3>1, <4>1
    <3> QED BY <3>2, <3>3
  <2> QED BY <1>2, <2>1, <2>2, Induct
<1>5. ASSUME NEW i \in 1 .. n PROVE o[i] # "'"
  <2>1. i - 1 \in 0 .. n /\ i - 1 \in Nat /\ i - 1 < n
    BY <1>2
  <2>2. PICK b \in B : b <= i - 1 /\ \A r \in B : ~(b < r /\ r <= i - 1)
    BY <1>3, <1>4, <2>1
  <2>3. b \in Nat /\ b < n /\ b + 1 \in 1 .. n
    BY <1>2, <2>1, <2>2
  <2>4. PICK q \in B : b < q /\ q <= n /\ Tok(o, b, q, G[b], G[q])
    BY <1>1, <2>3, NextTok
  <2>5. i \in b + 1 .. q
    BY <1>2, <2>1, <2>2, <2>4
  <2>6. o[b + 1] # "'" /\ o[b + 1] # "["
    <3>1. o[b + 1] # "'"
      BY <1>1, <2>3, FirstLetter
    <3>2. o[b + 1] # "["
      BY <1>1, <2>3 DEF NoName
    <3> QED BY <3>1, <3>2
  <2>7. \/ q = b + 1
        \/ \A j \in b + 1 .. q : o[j] \in IdentCont
        \/ \A j \in b + 2 .. q : o[j] \in IdentCont
    <3>1. ~TokBracket(o, b, q, G[b], G[q])
      BY <2>6, Zenon DEF TokBracket
    <3> QED BY <2>4, <3>1, Zenon DEF Tok, TokBlank, TokHole, TokWord, TokDigit, TokTemp, TokVariable, TokOpen,
            TokClose, TokComma, TokOther
  <2>8. "'" \notin IdentCont
    BY DEF IdentCont, Letters, Numerals
  <2>9. i = b + 1 \/ (i \in b + 2 .. q /\ q # b + 1)
    BY <2>3, <2>4, <2>5
  <2> QED BY <2>5, <2>6, <2>7, <2>8, <2>9
<1> QED BY <1>1, <1>5

\* The letters written of the norm so far.
ReadSoFar == IF pos = 0 THEN 0 ELSE pos - 1

\* Over the statement: what is written falls into tokens, the norm in the end, and each
\* ? of it has its parameter.
FirstPass ==
  /\ sql \in Seq(SqlText)
  /\ ~finished /\ pos = 0 => out = <<>> /\ Known = Begun
  /\ ~finished /\ pos # 0 => Reached(out, Known, Letter(pos))
  /\ ~finished => Asked
  /\ finished => (\E B, G : Traced(key, B, G, "end")) /\ ValuesAreOut

\* Over the norm: what is written is what was read, and a parameter is a ?.
Repeats ==
  /\ pos \in Nat
  /\ \E B, G : /\ Traced(sql, B, G, "end") /\ ReadSoFar \in B
               /\ out = SubSeq(sql, 1, ReadSoFar) /\ Known = G[ReadSoFar]
  /\ tails = <<>> /\ params \in Seq({<<"?">>})
  /\ "[" \notin ToSet(sql) => Len(params) = Cardinality(Holes(sql, ReadSoFar))

\* A norm that is a key.
Clean == TailLine(1) = 0 /\ ~Ends(key, " ")

Fixed ==
  /\ out = key
  /\ \A n \in DOMAIN params : params[n] = <<"?">>
  /\ "[" \notin ToSet(key) => Len(params) = Cardinality({n \in DOMAIN key : key[n] = "?"})

NormPass == sql = key /\ (Clean => IF finished THEN Fixed ELSE Repeats)

\* The passes over a statement and its norm.
NormInv ==
  /\ pass = "none" => finished
  /\ pass = "first" => FirstPass
  /\ pass = "norm" => NormPass

\* A statement's text is a list of letters.
LEMMA TextType ==
  ASSUME NEW st \in Statements
  PROVE  TextOf(st) \in Seq(SqlText)
<1>1. st \in Seq(SqlPiece)
  BY StatementsAreTexts
<1>2. PICK ss : ss = [k \in DOMAIN st |-> st[k].text]
  OBVIOUS
<1>3. \A k \in DOMAIN st : st[k].text \in Seq(SqlText)
  <2>1. \A k \in DOMAIN st : st[k] \in SqlPiece
    BY <1>1
  <2>2. \A x \in SqlPiece : x.text \in Seq(SqlText)
    BY DEF SqlPiece
  <2> QED BY <2>1, <2>2
<1>4. ss \in Seq(Seq(SqlText))
  <2>1. Len(st) \in Nat /\ DOMAIN st = 1 .. Len(st)
    BY <1>1
  <2>2. ss \in [1 .. Len(st) -> Seq(SqlText)]
    BY <1>2, <1>3, <2>1
  <2> QED BY <2>1, <2>2
<1>5. PICK f : Joins(f, ss, Len(ss), SqlText)
  BY <1>4, FlatIs
<1>6. FlattenSeq(ss) \in Seq(SqlText)
  BY <1>5 DEF Joins
<1> QED BY <1>2, <1>6 DEF TextOf

\* Nothing written falls into tokens.
LEMMA NothingWritten ==
  ASSUME NEW d
  PROVE  Reached(<<>>, Begun, d)
<1>1. PICK B, G : B = {0} /\ G = [n \in Nat |-> Begun]
  OBVIOUS
<1>2. Begun \in Ctx
  BY DEF Begun, Ctx, Kw
<1>3. G \in [Nat -> Ctx] /\ G[0] = Begun
  BY <1>1, <1>2
<1>4. Len(<<>>) = 0 /\ <<>> \in Seq(SqlText)
  OBVIOUS
<1>5. Traced(<<>>, B, G, d)
  <2>1. B \in SUBSET (0 .. 0) /\ 0 \in B /\ \A q \in B : ~(q > 0) /\ ~(q < 0)
    BY <1>1
  <2> QED BY <1>3, <1>4, <2>1 DEF Traced
<1> QED BY <1>3, <1>4, <1>5, Zenon DEF Reached

\* It asks for no parameter, and there is none.
LEMMA NothingAsked == IsList(<<>>) /\ (NoName(<<>>) => Asks(<<>>) <= Len(<<>>))
<1>1. Len(<<>>) = 0 /\ <<>> \in Seq({})
  OBVIOUS
<1>2. Holes(<<>>, 0) = {}
  BY DEF Holes
<1>3. Asks(<<>>) = 0
  BY <1>1, <1>2, FS_EmptySet DEF Asks
<1> QED BY <1>1, <1>3 DEF IsList

\* A call begins.
LEMMA FirstBegins ==
  ASSUME First
  PROVE  NormInv'
<1>1. PICK st \in Statements : Scratch(TextOf(st))
  BY Zenon DEF First
<1>2. /\ sql' = TextOf(st) /\ pos' = 0 /\ out' = <<>> /\ groups' = <<>> /\ finished' = FALSE
      /\ prevIdent' = FALSE /\ pendingKw' = "none" /\ valuesCont' = FALSE /\ params' = <<>>
  BY <1>1, Zenon DEF Scratch, After
<1>3. sql' \in Seq(SqlText)
  BY <1>2, TextType
<1>4. Known' = Begun
  BY <1>2 DEF Known, Begun
<1>5. pass' = "first"
  BY Zenon DEF First
<1>6. Asked'
  <2>1. out' = <<>> /\ params' = <<>>
    BY <1>2
  <2>2. IsList(params') /\ (NoName(out') => Asks(out') <= Len(params'))
    BY <2>1, NothingAsked
  <2> QED BY <2>2 DEF Asked
<1> QED BY <1>2, <1>3, <1>4, <1>5, <1>6, Zenon DEF NormInv, FirstPass

\* The norm, or another text, is next.
LEMMA NormBegins ==
  ASSUME NormInv, Again
  PROVE  NormInv'
<1>1. CASE pass' = "other"
  BY <1>1 DEF NormInv
<1>2. CASE pass' = "norm" /\ Scratch(key)
  <2>1. /\ sql' = key /\ key' = key /\ pos' = 0 /\ out' = <<>> /\ groups' = <<>> /\ finished' = FALSE
        /\ prevIdent' = FALSE /\ pendingKw' = "none" /\ valuesCont' = FALSE
        /\ tails' = <<>> /\ params' = <<>>
    BY <1>2, Zenon DEF Scratch, After, Again
  <2>2. PICK B, G : Traced(key, B, G, "end")
    BY DEF Again, NormInv, FirstPass
  <2>3. Known' = Begun
    BY <2>1 DEF Known, Begun
  <2>4. 0 \in B /\ G[0] = Begun
    BY <2>2, Zenon DEF Traced
  <2>5. ReadSoFar' = 0 /\ pos' \in Nat
    BY <2>1 DEF ReadSoFar
  <2>6. SubSeq(key, 1, 0) = <<>>
    OBVIOUS
  <2>7. Len(<<>>) = Cardinality(Holes(key, 0)) /\ <<>> \in Seq({<<"?">>})
    <3>1. Holes(key, 0) = {}
      BY DEF Holes
    <3> QED BY <3>1, FS_EmptySet
  <2>8. Repeats'
    <3>1. /\ Traced(sql', B, G, "end") /\ ReadSoFar' \in B
          /\ out' = SubSeq(sql', 1, ReadSoFar') /\ Known' = G[ReadSoFar']
      BY <2>1, <2>2, <2>3, <2>4, <2>5, <2>6
    <3>2. tails' = <<>> /\ params' \in Seq({<<"?">>}) /\ Len(params') = Cardinality(Holes(sql', ReadSoFar'))
      BY <2>1, <2>5, <2>7
    <3>3. Repeats' <=> /\ pos' \in Nat
                       /\ \E C, H : /\ Traced(sql', C, H, "end") /\ ReadSoFar' \in C
                                    /\ out' = SubSeq(sql', 1, ReadSoFar') /\ Known' = H[ReadSoFar']
                       /\ tails' = <<>> /\ params' \in Seq({<<"?">>})
                       /\ "[" \notin ToSet(sql') => Len(params') = Cardinality(Holes(sql', ReadSoFar'))
      BY Zenon DEF Repeats
    <3> QED BY <2>5, <3>1, <3>2, <3>3, Zenon
  <2>9. NormPass'
    BY <2>1, <2>8 DEF NormPass
  <2> QED BY <1>2, <2>9 DEF NormInv
<1> QED BY <1>1, <1>2, Zenon DEF Again

\* What begins with the first letter does not end the scan.
LEMMA StartsAt ==
  ASSUME sql \in Seq(SqlText), Start
  PROVE  /\ pos' \in Nat \ {0} /\ out' = out /\ Known' = Known /\ params' = params
         /\ TailLine(1) = 0 => pos' = 1 /\ tails' = tails
<1>1. TailLine(1) = 0 => pos' = 1 /\ tails' = tails
  BY Zenon DEF Start
<1>2. out' = out /\ Known' = Known /\ params' = params
  BY DEF Start, Known, context
<1>3. ASSUME TailLine(1) # 0 PROVE pos' \in Nat \ {0}
  <2>1. TailLine(1) \in 1 + 2 .. Len(sql) + 1
    BY ONLY sql \in Seq(SqlText), <1>3, TailLineType
  <2>2. TailLine(1) \in 1 .. Len(sql) + 1 /\ TailLine(1) \in Nat
    BY <2>1
  <2>3. ParseTail(TailLine(1)) \in Parsed(TailLine(1), Len(sql) + 1)
    BY ONLY sql \in Seq(SqlText), <2>2, ParseType
  <2>4. ParseTail(TailLine(1)).next \in TailLine(1) .. Len(sql) + 1
    BY <2>3 DEF Parsed
  <2>5. pos' = ParseTail(TailLine(1)).next
    BY <1>3, Zenon DEF Start
  <2> QED BY <2>1, <2>4, <2>5
<1> QED BY <1>1, <1>2, <1>3

\* What is known of the norm does not change with the text at hand.
LEMMA CleanStays ==
  ASSUME sql' = sql, key' = key
  PROVE  Clean' <=> Clean
<1>1. TailLine(1)' = TailLine(1)
  BY DEF TailLine, Past, Is
<1>2. Ends(key, " ")' <=> Ends(key, " ")
  BY Zenon DEF Ends
<1> QED BY <1>1, <1>2, Zenon DEF Clean

\* The scan of a text begins.
LEMMA TextStarts ==
  ASSUME NormInv, Start
  PROVE  NormInv'
<1>1. /\ pass' = pass /\ key' = key /\ sql' = sql /\ finished' = finished /\ ~finished /\ pos = 0
  BY Zenon DEF Start, SameText
<1>2. CASE pass = "first"
  <2>1. sql \in Seq(SqlText) /\ out = <<>> /\ Known = Begun
    BY <1>1, <1>2, Zenon DEF NormInv, FirstPass
  <2>2. pos' # 0 /\ out' = out /\ Known' = Known
    BY <2>1, StartsAt
  <2>3. Reached(out', Known', Letter(pos)')
    BY <2>1, <2>2, NothingWritten, Zenon
  <2>4. out' = out /\ params' = params /\ Asked
    BY <1>1, <1>2, <2>1, StartsAt, Zenon DEF NormInv, FirstPass
  <2>5. Asked'
    BY <2>4, Zenon DEF Asked
  <2> QED BY <1>1, <1>2, <2>1, <2>2, <2>3, <2>5, Zenon DEF NormInv, FirstPass
<1>3. CASE pass = "norm"
  <2>1. sql = key /\ (Clean => Repeats)
    BY <1>1, <1>3, Zenon DEF NormInv, NormPass
  <2>2. ASSUME Clean PROVE Repeats'
    <3>1. PICK B, G : /\ Traced(sql, B, G, "end") /\ ReadSoFar \in B
                      /\ out = SubSeq(sql, 1, ReadSoFar) /\ Known = G[ReadSoFar]
      BY <2>1, <2>2, Zenon DEF Repeats
    <3>2. sql \in Seq(SqlText)
      BY <3>1, Zenon DEF Traced
    <3>3. pos' = 1 /\ tails' = tails /\ out' = out /\ Known' = Known /\ params' = params
      BY <2>2, <3>2, StartsAt, Zenon DEF Clean
    <3>4. ReadSoFar = 0 /\ ReadSoFar' = 0
      BY <1>1, <3>3 DEF ReadSoFar
    <3>5. /\ tails = <<>> /\ params \in Seq({<<"?">>})
          /\ "[" \notin ToSet(sql) => Len(params) = Cardinality(Holes(sql, ReadSoFar))
      BY <2>1, <2>2, Zenon DEF Repeats
    <3>6. Repeats' <=> /\ pos' \in Nat
                       /\ \E C, H : /\ Traced(sql', C, H, "end") /\ ReadSoFar' \in C
                                    /\ out' = SubSeq(sql', 1, ReadSoFar') /\ Known' = H[ReadSoFar']
                       /\ tails' = <<>> /\ params' \in Seq({<<"?">>})
                       /\ "[" \notin ToSet(sql') => Len(params') = Cardinality(Holes(sql', ReadSoFar'))
      BY Zenon DEF Repeats
    <3> QED BY <1>1, <3>1, <3>3, <3>4, <3>5, <3>6
  <2>3. NormPass'
    BY <1>1, <2>1, <2>2, CleanStays, Zenon DEF NormPass
  <2> QED BY <1>1, <1>3, <2>3, Zenon DEF NormInv
<1>4. CASE pass \notin {"first", "norm"}
  BY <1>1, <1>4, Zenon DEF NormInv
<1> QED BY <1>2, <1>3, <1>4

\* The spaces taken off the end of a text are no [name].
LEMMA TrimLeaves ==
  ASSUME NEW o \in Seq(SqlText)
  PROVE  Unspaced(o, Len(o)) \in 0 .. Len(o) /\ \A i \in Unspaced(o, Len(o)) + 1 .. Len(o) : o[i] # "["
<1>1. PICK n : n = Len(o)
  OBVIOUS
<1>2. n \in Nat
  BY <1>1
<1>3. /\ Unspaced(o, n) \in Int /\ Unspaced(o, n) <= n
      /\ \A i \in Unspaced(o, n) + 1 .. n : o[i] = Gap
  BY <1>1, <1>2, CutLeaves
<1>4. Unspaced(o, n) >= 0
  BY <1>2 DEF Unspaced
<1>5. Gap # "["
  BY IdentIs
<1> QED BY <1>1, <1>2, <1>3, <1>4, <1>5

\* The tails give the parameters their values, and take none away.
LEMMA ParamsStay ==
  ASSUME Finish, IsList(params)
  PROVE  IsList(params') /\ Len(params') = Len(params)
<1>1. PICK V : params \in Seq(V)
  BY DEF IsList
<1>2. PICK f : f = params'
  OBVIOUS
<1>3. f = [n \in DOMAIN params |->
             IF \E k \in DOMAIN slots \cap DOMAIN tails : slots[k] = n
               THEN tails[CHOOSE k \in DOMAIN slots : slots[k] = n] ELSE params[n]]
  BY <1>2, Zenon DEF Finish
<1>4. PICK n : n = Len(params) /\ DOMAIN params = 1 .. n /\ n \in Nat
  BY <1>1
<1>5. PICK W : W = {f[i] : i \in 1 .. n}
  OBVIOUS
<1>6. f \in [1 .. n -> W]
  <2>1. DOMAIN f = 1 .. n /\ f = [i \in 1 .. n |-> f[i]]
    <3>1. DOMAIN f = DOMAIN params
      BY <1>3, Zenon
    <3>2. DOMAIN f = 1 .. n
      BY <1>4, <3>1
    <3>3. f = [i \in DOMAIN f |-> f[i]]
      BY <1>3
    <3> QED BY <3>2, <3>3
  <2>2. \A i \in 1 .. n : f[i] \in W
    BY <1>5
  <2> QED BY ONLY <2>1, <2>2
<1>7. f \in Seq(W) /\ Len(f) = n
  BY ONLY <1>4, <1>6
<1> QED BY <1>2, <1>4, <1>7 DEF IsList

\* The norm of what was asked for.
LEMMA KeyIsOut ==
  ASSUME out \in Seq(SqlText), Asked, NEW k \in 0 .. Len(out), \A i \in k + 1 .. Len(out) : out[i] # "[",
         key' = SubSeq(out, 1, k), Len(params') = Len(params),
         NEW B, NEW G, Traced(key', B, G, "end")
  PROVE  ValuesAreOut'
<1>1. PICK o : o = key'
  OBVIOUS
<1>2. /\ Asks(o) \in Nat /\ Asks(out) \in Nat /\ Asks(o) <= Asks(out)
      /\ NoName(o) => NoName(out)
  BY <1>1, AsksLess
<1>3. Len(params) \in Nat
  BY ListGrows DEF Asked
<1>4. o \in Seq(SqlText)
  BY <1>1, Zenon DEF Traced
<1>5. DOMAIN o = 1 .. Len(o) /\ ToSet(o) = {o[i] : i \in 1 .. Len(o)}
  BY <1>4 DEF ToSet
<1>6. ASSUME "[" \notin ToSet(o)
      PROVE  "'" \notin ToSet(o) /\ Cardinality({i \in DOMAIN o : o[i] = "?"}) <= Len(params)
  <2>1. NoName(o)
    BY <1>5, <1>6 DEF NoName
  <2>2. \A i \in 1 .. Len(o) : o[i] # "'"
    BY <1>1, <2>1, NoQuotes
  <2>3. Asks(out) <= Len(params)
    BY <1>2, <2>1 DEF Asked
  <2>4. Holes(o, Len(o)) = {i \in DOMAIN o : o[i] = "?"}
    BY <1>5 DEF Holes
  <2>5. Cardinality({i \in DOMAIN o : o[i] = "?"}) = Asks(o)
    BY <2>4 DEF Asks
  <2>6. Asks(o) <= Len(params)
    BY <1>2, <1>3, <2>3
  <2> QED BY <1>5, <2>2, <2>5, <2>6
<1> QED BY <1>1, <1>6 DEF ValuesAreOut

\* A text ends: the norm falls into tokens, or is found as it was.
LEMMA TextFinishes ==
  ASSUME NormInv, Finish
  PROVE  NormInv'
<1>1. /\ pass' = pass /\ sql' = sql /\ finished' = TRUE /\ ~finished /\ pos = Len(sql) + 1 /\ pos' = pos
      /\ out' = Trimmed(out)
      /\ key' = IF pass = "first" THEN out' ELSE key
  BY Zenon DEF Finish
<1>2. CASE pass = "first"
  <2>1. sql \in Seq(SqlText)
    BY <1>2, Zenon DEF NormInv, FirstPass
  <2>2. Len(sql) \in Nat /\ pos # 0
    BY <1>1, <2>1
  <2>3. PICK B, G : Traced(out, B, G, Letter(pos))
    BY <1>1, <1>2, <2>2, Zenon DEF NormInv, FirstPass, Reached
  <2>4. out \in Seq(SqlText)
    BY <2>3, Zenon DEF Traced
  <2>5. Trimmed(out) = SubSeq(out, 1, Unspaced(out, Len(out)))
    <3>1. Len(out) \in 0 .. Len(out) /\ SubSeq(out, 1, Len(out)) = out
      BY <2>4, AllOf
    <3> QED BY <2>4, <3>1, EndsIs
  <2>6. \E C, H : Traced(SubSeq(out, 1, Unspaced(out, Len(out))), C, H, "end")
    BY <2>3, TrimTrace
  <2>7. \E C, H : Traced(key', C, H, "end")
    BY <1>1, <1>2, <2>5, <2>6, Zenon
  <2>8. ValuesAreOut'
    <3>1. PICK k : k = Unspaced(out, Len(out))
      OBVIOUS
    <3>2. key' = SubSeq(out, 1, k)
      BY <1>1, <1>2, <2>5, <3>1
    <3>3. Asked
      BY <1>1, <1>2, Zenon DEF NormInv, FirstPass
    <3>4. k \in 0 .. Len(out) /\ \A i \in k + 1 .. Len(out) : out[i] # "["
      BY <2>4, <3>1, TrimLeaves
    <3>5. IsList(params') /\ Len(params') = Len(params)
      BY <3>3, ParamsStay DEF Asked
    <3>6. PICK C, H : Traced(key', C, H, "end")
      BY <2>7
    <3> QED BY <2>4, <3>2, <3>3, <3>4, <3>5, <3>6, KeyIsOut
  <2> QED BY <1>1, <1>2, <2>1, <2>7, <2>8, Zenon DEF NormInv, FirstPass
<1>3. CASE pass = "norm"
  <2>1. sql = key /\ key' = key /\ (Clean => Repeats)
    BY <1>1, <1>3, Zenon DEF NormInv, NormPass
  <2>2. ASSUME Clean PROVE Fixed'
    <3>1. /\ tails = <<>> /\ params \in Seq({<<"?">>})
          /\ "[" \notin ToSet(sql) => Len(params) = Cardinality(Holes(sql, ReadSoFar))
      BY <2>1, <2>2, Zenon DEF Repeats
    <3>2. PICK B, G : Traced(sql, B, G, "end") /\ out = SubSeq(sql, 1, ReadSoFar)
      BY <2>1, <2>2, Zenon DEF Repeats
    <3>3. sql \in Seq(SqlText) /\ Len(sql) \in Nat
      <4>1. sql \in Seq(SqlText)
        BY <3>2, Zenon DEF Traced
      <4> QED BY <4>1
    <3>4. ReadSoFar = Len(sql)
      BY <1>1, <3>3 DEF ReadSoFar
    <3>5. out = sql
      BY <3>2, <3>3, <3>4, AllOf, Zenon
    <3>6. out' = key'
      <4>1. ~Ends(out, " ")
        BY <2>1, <2>2, <3>5, Zenon DEF Clean
      <4>2. Trimmed(out) = out
        BY <4>1, Zenon DEF Trimmed
      <4> QED BY <1>1, <2>1, <3>5, <4>2
    <3>7. params' = params
      <4>1. params' = [n \in DOMAIN params |->
                        IF \E k \in DOMAIN slots \cap DOMAIN tails : slots[k] = n
                          THEN tails[CHOOSE k \in DOMAIN slots : slots[k] = n] ELSE params[n]]
        BY Zenon DEF Finish
      <4>2. DOMAIN tails = {}
        BY <3>1
      <4>3. \A n \in DOMAIN params : params'[n] = params[n]
        BY <4>1, <4>2, Zenon
      <4>4. params = [n \in DOMAIN params |-> params[n]] /\ DOMAIN params' = DOMAIN params
        BY <3>1, <4>1
      <4>5. params' = [n \in DOMAIN params |-> params[n]]
        BY <4>1, <4>2
      <4> QED BY <4>4, <4>5
    <3>8. \A n \in DOMAIN params : params[n] = <<"?">>
      BY <3>1
    <3>9. Holes(sql, ReadSoFar) = {n \in DOMAIN sql : sql[n] = "?"}
      <4>1. DOMAIN sql = 1 .. ReadSoFar
        BY <3>3, <3>4
      <4> QED BY <4>1, Zenon DEF Holes
    <3> QED BY <2>1, <3>1, <3>6, <3>7, <3>8, <3>9 DEF Fixed
  <2>3. Clean' <=> Clean
    BY <1>1, <2>1, CleanStays
  <2> QED BY <1>1, <1>3, <2>1, <2>2, <2>3, Zenon DEF NormInv, NormPass
<1>4. CASE pass \notin {"first", "norm"}
  BY <1>1, <1>4, Zenon DEF NormInv
<1> QED BY <1>2, <1>3, <1>4

\* A token of the norm is found as it is.
LEMMA RepeatsOn ==
  ASSUME Repeats, TokenNext
  PROVE  Repeats'
<1>1. sql' = sql /\ pos \in DOMAIN sql
  BY TokenFrame
<1>2. PICK B, G : /\ Traced(sql, B, G, "end") /\ ReadSoFar \in B
                  /\ out = SubSeq(sql, 1, ReadSoFar) /\ Known = G[ReadSoFar]
  BY Zenon DEF Repeats
<1>3. /\ tails = <<>> /\ params \in Seq({<<"?">>}) /\ pos \in Nat
      /\ "[" \notin ToSet(sql) => Len(params) = Cardinality(Holes(sql, ReadSoFar))
  BY Zenon DEF Repeats
<1>4. sql \in Seq(SqlText)
  BY <1>2, Zenon DEF Traced
<1>5. PICK p : p = ReadSoFar
  OBVIOUS
<1>6. Len(sql) \in Nat /\ pos = p + 1 /\ p \in Nat /\ p < Len(sql)
  BY <1>1, <1>3, <1>4, <1>5 DEF ReadSoFar
<1>7. PICK q \in B : p < q /\ Link(sql, G, p, q, "end")
  BY <1>2, <1>5, <1>6, Zenon DEF Traced
<1>8. Onward(B, G, p, q)
  BY <1>2, <1>5, <1>6, <1>7, Zenon DEF Onward
<1>9. /\ Moved(G, q) /\ tails' = <<>>
      /\ \/ params' = params /\ sql[pos] # "?"
         \/ params' = Append(params, <<"?">>) /\ sql[pos] = "?" /\ q = pos
  BY <1>3, <1>8, NormTokens
<1>10. q \in Nat /\ p < q
  BY <1>8, OnwardIs
<1>11. /\ pos' = q + 1 /\ out' = SubSeq(sql, 1, q) /\ Known' = G[q] /\ ReadSoFar' = q /\ pos' \in Nat
  <2>1. pos' = q + 1 /\ out' = SubSeq(sql, 1, q) /\ Known' = G[q]
    BY <1>9, Zenon DEF Moved
  <2> QED BY <1>10, <2>1 DEF ReadSoFar
<1>12. params' \in Seq({<<"?">>})
  <2>1. PICK V, x : V = {x} /\ x = <<"?">>
    OBVIOUS
  <2>2. params \in Seq(V) /\ (params' = params \/ params' = Append(params, x)) /\ x \in V
    BY <1>3, <1>9, <2>1
  <2>3. params' \in Seq(V)
    BY ONLY <2>2
  <2> QED BY <2>1, <2>3
<1>13. ASSUME "[" \notin ToSet(sql) PROVE Len(params') = Cardinality(Holes(sql, q))
  <2>1. sql[pos] # "["
    BY <1>1, <1>4, <1>13 DEF ToSet
  <2>2. Len(params) = Cardinality(Holes(sql, p))
    BY <1>3, <1>5, <1>13
  <2>3. CASE params' = params /\ sql[pos] # "?"
    BY <1>8, <2>1, <2>2, <2>3, HolesSame
  <2>4. CASE params' = Append(params, <<"?">>) /\ sql[pos] = "?" /\ q = pos
    <3>1. Cardinality(Holes(sql, p + 1)) = Cardinality(Holes(sql, p)) + 1
      BY <1>6, <2>4, HolesMore
    <3>2. Len(params') = Len(params) + 1
      BY <1>3, <2>4
    <3> QED BY <1>6, <2>2, <2>4, <3>1, <3>2
  <2> QED BY <1>9, <2>3, <2>4
<1>14. Repeats' <=> /\ pos' \in Nat
                    /\ \E C, H : /\ Traced(sql', C, H, "end") /\ ReadSoFar' \in C
                                 /\ out' = SubSeq(sql', 1, ReadSoFar') /\ Known' = H[ReadSoFar']
                    /\ tails' = <<>> /\ params' \in Seq({<<"?">>})
                    /\ "[" \notin ToSet(sql') => Len(params') = Cardinality(Holes(sql', ReadSoFar'))
  BY Zenon DEF Repeats
<1> QED BY <1>1, <1>2, <1>7, <1>9, <1>11, <1>12, <1>13, <1>14, Zenon

\* A token keeps the invariant.
LEMMA TokensKeep ==
  ASSUME NormInv, TokenNext
  PROVE  NormInv'
<1>1. pass' = pass /\ key' = key /\ sql' = sql /\ finished' = finished /\ ~finished /\ pos \in DOMAIN sql
  BY TokenFrame
<1>2. CASE pass = "first"
  <2>1. sql \in Seq(SqlText)
    BY <1>2, Zenon DEF NormInv, FirstPass
  <2>2. pos # 0
    BY <1>1, <2>1
  <2>3. Stepped
    BY <1>1, <1>2, <2>1, <2>2, FirstTokens, Zenon DEF NormInv, FirstPass
  <2>4. pos' # 0 /\ Reached(out', Known', Letter(pos'))
    BY <2>3, Zenon DEF Stepped
  <2>5. Letter(pos)' = Letter(pos')
    BY <1>1 DEF Letter
  <2>6. Reached(out, Known, Letter(pos)) /\ Asked
    BY <1>1, <1>2, <2>2, Zenon DEF NormInv, FirstPass
  <2>7. Asked'
    BY <2>1, <2>6, TokensAsked
  <2> QED BY <1>1, <1>2, <2>1, <2>4, <2>5, <2>7, Zenon DEF NormInv, FirstPass
<1>3. CASE pass = "norm"
  <2>1. sql = key /\ (Clean => Repeats)
    BY <1>1, <1>3, Zenon DEF NormInv, NormPass
  <2>2. Clean => Repeats'
    BY <2>1, RepeatsOn, Zenon
  <2>3. NormPass'
    BY <1>1, <2>1, <2>2, CleanStays, Zenon DEF NormPass
  <2> QED BY <1>1, <1>3, <2>3, Zenon DEF NormInv
<1>4. CASE pass \notin {"first", "norm"}
  BY <1>1, <1>4, Zenon DEF NormInv
<1> QED BY <1>2, <1>3, <1>4

\* The norm of every statement is a key: it falls into tokens that the second pass copies.
THEOREM NormStays == SqlSpec => []NormIsKey
<1>1. SqlInit => NormInv
  BY Zenon DEF SqlInit, NormInv
<1>2. NormInv /\ [SqlNext]_sqlVars => NormInv'
  <2> SUFFICES ASSUME NormInv, [SqlNext]_sqlVars PROVE NormInv'
    OBVIOUS
  <2>1. CASE First
    BY <2>1, FirstBegins
  <2>2. CASE Again
    BY <2>2, NormBegins
  <2>3. CASE Start
    BY <2>3, TextStarts
  <2>4. CASE Finish
    BY <2>4, TextFinishes
  <2>5. CASE TokenNext
    BY <2>5, TokensKeep
  <2>6. CASE UNCHANGED sqlVars
    BY <2>6 DEF sqlVars, context, NormInv, FirstPass, NormPass, Repeats, Fixed, Known, Letter, ReadSoFar, Clean,
       TailLine, Past, Is, Ends, Asked, ValuesAreOut
  <2> QED BY <2>1, <2>2, <2>3, <2>4, <2>5, <2>6, Zenon DEF SqlNext, TokenNext
<1>3. NormInv => NormIsKey
  BY Zenon DEF NormInv, FirstPass, NormPass, NormIsKey, NormIsFixed, Fixed, Clean
<1> QED BY <1>1, <1>2, <1>3, PTL DEF SqlSpec
==============================================================================
