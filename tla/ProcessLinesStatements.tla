----------------------- MODULE ProcessLinesStatements -----------------------
(***************************************************************************)
(* What ProcessLines makes of the groups, for every parser, every number   *)
(* of workers and every log: the query of a mysql event is the last        *)
(* statement of its entry, and every statement that arrives whole is sent, *)
(* once.                                                                   *)
(*                                                                         *)
(* QueryOf is a recursion over the lines of a group.  Induction is taken   *)
(* in the form of sets of numbers, from the least-element property of a    *)
(* well-founded relation (WFMin), because a predicate cannot be a          *)
(* parameter of a theorem that is cited.                                   *)
(***************************************************************************)
EXTENDS ProcessLinesProofs, WellFoundedInduction, FiniteSetTheorems

(* A set with 0 and the successor of each number in it has every number.   *)
LEMMA SetInduction ==
  ASSUME NEW S, 0 \in S, \A n \in Nat : n \in S => n + 1 \in S
  PROVE  Nat \subseteq S
<1> DEFINE missing == Nat \ S
           R == OpToRel(<, Nat)
<1> SUFFICES ASSUME missing # {} PROVE FALSE
  OBVIOUS
<1>1. IsWellFoundedOn(R, Nat)
  BY NatLessThanWellFounded
<1>2. \E m \in missing : \A k \in missing : <<k, m>> \notin R
  <2> HIDE DEF R
  <2> QED
    BY <1>1, WFMin
<1>3. PICK m \in missing : \A k \in missing : <<k, m>> \notin R
  BY <1>2
<1>4. m - 1 \in missing
  <2>1. m \in Nat /\ m # 0 /\ m \notin S
    BY <1>3
  <2>2. m - 1 \in Nat /\ (m - 1) + 1 = m
    BY <2>1
  <2> QED
    BY <2>1, <2>2
<1>5. <<m - 1, m>> \in R
  BY <1>3, <1>4 DEF OpToRel
<1> QED
  BY <1>3, <1>4, <1>5
-----------------------------------------------------------------------------
(* The text and the query that handleEvent's loop has after each line of   *)
(* group g.                                                                *)
Nothing == [text |-> {}, query |-> {}]
ReadsTo(f, g, last) ==
  f = [k \in (g.from - 1) .. last |-> IF k < g.from THEN Nothing ELSE HandleLine(f[k - 1], k)]

(* The recursion of QueryOf defines a function, up to any line.            *)
LEMMA ReadingExists ==
  ASSUME NEW g \in Span
  PROVE  \A n \in Nat : \E f : ReadsTo(f, g, g.from - 1 + n)
<1> DEFINE first == g.from - 1
           S == {n \in Nat : \E f : ReadsTo(f, g, first + n)}
<1>0. first \in Int /\ g.from \in Int
  BY DEF Span
<1>1. 0 \in S
  <2>1. ReadsTo([k \in first .. first |-> Nothing], g, first + 0)
    BY <1>0 DEF ReadsTo
  <2> QED
    BY <2>1
<1>2. ASSUME NEW n \in Nat, n \in S PROVE n + 1 \in S
  <2>1. PICK f : ReadsTo(f, g, first + n)
    BY <1>2
  <2>2. PICK h : h = [k \in first .. first + n + 1 |->
                        IF k = first + n + 1 THEN HandleLine(f[k - 1], k) ELSE f[k]]
    OBVIOUS
  <2>3. \A k \in first .. first + n : h[k] = f[k]
    BY <1>0, <2>2
  <2>4. ASSUME NEW k \in first .. first + n + 1
        PROVE  h[k] = IF k < g.from THEN Nothing ELSE HandleLine(h[k - 1], k)
    <3>1. CASE k = first + n + 1
      <4>1. h[k] = HandleLine(f[k - 1], k)
        BY <2>2, <3>1
      <4>2. k - 1 \in first .. first + n /\ ~(k < g.from)
        BY <1>0, <3>1
      <4>3. h[k - 1] = f[k - 1]
        BY <2>3, <4>2
      <4> QED
        BY <4>1, <4>2, <4>3
    <3>2. CASE k \in first .. first + n
      <4>1. h[k] = f[k] /\ f[k] = IF k < g.from THEN Nothing ELSE HandleLine(f[k - 1], k)
        BY <2>1, <2>3, <3>2 DEF ReadsTo
      <4>2. ~(k < g.from) => k - 1 \in first .. first + n
        BY <1>0, <3>2
      <4>3. ~(k < g.from) => h[k - 1] = f[k - 1]
        BY <2>3, <4>2
      <4> QED
        BY <4>1, <4>3
    <3> QED
      BY <1>0, <3>1, <3>2
  <2>5. ReadsTo(h, g, first + n + 1)
    <3>1. h = [k \in first .. first + n + 1 |-> h[k]]
      BY <2>2
    <3> QED
      BY <2>4, <3>1 DEF ReadsTo
  <2>6. n + 1 \in Nat /\ first + (n + 1) = first + n + 1
    BY <1>0
  <2> QED
    BY <2>5, <2>6
<1>3. Nat \subseteq S
  <2> HIDE DEF S
  <2> QED
    BY <1>1, <1>2, SetInduction
<1> QED
  BY <1>3

LEMMA QueryIsRead ==
  ASSUME NEW g \in Span, g.from <= g.to
  PROVE  \E f : ReadsTo(f, g, g.to) /\ QueryOf(g) = f[g.to].query
<1>1. \E f : ReadsTo(f, g, g.to)
  <2>1. g.to - (g.from - 1) \in Nat /\ g.from - 1 + (g.to - (g.from - 1)) = g.to
    BY DEF Span
  <2> QED
    BY <2>1, ReadingExists
<1>2. PICK f : f = CHOOSE h : ReadsTo(h, g, g.to)
  OBVIOUS
<1>3. ReadsTo(f, g, g.to)
  BY <1>1, <1>2
<1>4. QueryOf(g) = f[g.to].query
  BY <1>2 DEF QueryOf, ReadsTo, Nothing
<1> QED
  BY <1>3, <1>4

(* What a line does to them.                                               *)
LEMMA LineIsRead ==
  ASSUME NEW a, NEW k
  PROVE  /\ Kind(k) \in {"comment", "set"} => HandleLine(a, k) = [a EXCEPT !.text = {}]
         /\ Kind(k) = "use"  => HandleLine(a, k) = [text |-> {}, query |-> {k}]
         /\ Kind(k) = "part" => HandleLine(a, k) = [a EXCEPT !.text = @ \cup {k}]
         /\ Kind(k) = "end"  => HandleLine(a, k) = [text |-> {}, query |-> a.text \cup {k}]
         /\ Kind(k) \in {"note", "ping"} => HandleLine(a, k) = a
<1>1. ASSUME Kind(k) \in {"comment", "set"} PROVE HandleLine(a, k) = [a EXCEPT !.text = {}]
  BY <1>1, Zenon DEF HandleLine
<1>2. ASSUME Kind(k) = "use" PROVE HandleLine(a, k) = [text |-> {}, query |-> {k}]
  BY <1>2, Zenon DEF HandleLine
<1>3. ASSUME Kind(k) = "part" PROVE HandleLine(a, k) = [a EXCEPT !.text = @ \cup {k}]
  BY <1>3, Zenon DEF HandleLine
<1>4. ASSUME Kind(k) = "end" PROVE HandleLine(a, k) = [text |-> {}, query |-> a.text \cup {k}]
  BY <1>4, Zenon DEF HandleLine
<1>5. ASSUME Kind(k) \in {"note", "ping"} PROVE HandleLine(a, k) = a
  BY <1>5, Zenon DEF HandleLine
<1> QED
  BY <1>1, <1>2, <1>3, <1>4, <1>5
-----------------------------------------------------------------------------
(* The lines of a statement and those with ";", among the lines of g up to *)
(* m, and the lines that name the database.                                *)
Sql(g, m)  == {k \in g.from .. m : Kind(k) \in {"part", "end"}}
Ends(g, m) == {k \in g.from .. m : Kind(k) = "end"}
Uses(g, m) == {k \in g.from .. m : Kind(k) = "use"}

(* A statement is at the end of its group, after the name of the database. *)
Ordered(g) ==
  /\ g \in Span /\ 1 <= g.from /\ g.from <= g.to /\ g.to <= Len(log)
  /\ \A k \in g.from .. g.to : Kind(k) \in {"comment", "note", "set", "use", "part", "end", "ping"}
  /\ \A j, k \in g.from .. g.to : j < k =>
       /\ Kind(j) \in {"part", "end"} => Kind(k) \in {"part", "end"}
       /\ Kind(j) = "use" => Kind(k) # "use"

(* The text and the query after line m.                                    *)
LastStatement(g, m) ==
  {k \in Sql(g, m) : \E j \in Ends(g, m) : k <= j /\ \A i \in Ends(g, m) : k <= i => i = j}

SoFar(g, m) ==
  [text  |-> {k \in Sql(g, m) : \A j \in Ends(g, m) : j < k},
   query |-> IF Ends(g, m) = {} THEN Uses(g, m) ELSE LastStatement(g, m)]

LEMMA ReadLine ==
  ASSUME NEW g, Ordered(g), NEW m \in Int, g.from - 1 <= m, m < g.to
  PROVE  HandleLine(SoFar(g, m), m + 1) = SoFar(g, m + 1)
<1> DEFINE k == m + 1
           a == SoFar(g, m)
<1>1. /\ g.from \in Int /\ g.to \in Int /\ k \in g.from .. g.to
      /\ g.from .. k = (g.from .. m) \cup {k} /\ \A j \in g.from .. m : j < k /\ j \in g.from .. g.to
  BY DEF Ordered, Span
<1>2. CASE Kind(k) \in {"comment", "note", "set", "ping"}
  <2>1. Sql(g, m) = {} /\ Ends(g, m) = {}
    BY <1>1, <1>2 DEF Ordered, Sql, Ends
  <2>2. Sql(g, k) = {} /\ Ends(g, k) = {} /\ Uses(g, k) = Uses(g, m)
    BY <1>1, <1>2, <2>1 DEF Sql, Ends, Uses
  <2>3. a = [text |-> {}, query |-> Uses(g, m)] /\ SoFar(g, k) = [text |-> {}, query |-> Uses(g, m)]
    BY <2>1, <2>2 DEF SoFar
  <2>4. HandleLine(a, k) = a
    <3>1. Kind(k) \in {"comment", "set"} \/ Kind(k) \in {"note", "ping"}
      BY <1>2
    <3>2. HandleLine(a, k) = [a EXCEPT !.text = {}] \/ HandleLine(a, k) = a
      BY <3>1, LineIsRead
    <3> QED
      BY <2>3, <3>2
  <2> QED
    BY <2>3, <2>4
<1>3. CASE Kind(k) = "use"
  <2>1. Sql(g, m) = {} /\ Ends(g, m) = {} /\ Uses(g, m) = {}
    BY <1>1, <1>3 DEF Ordered, Sql, Ends, Uses
  <2>2. Sql(g, k) = {} /\ Ends(g, k) = {} /\ Uses(g, k) = {k}
    BY <1>1, <1>3, <2>1 DEF Sql, Ends, Uses
  <2>3. SoFar(g, k) = [text |-> {}, query |-> {k}]
    BY <2>2 DEF SoFar
  <2> QED
    BY <1>3, <2>3, LineIsRead
<1>4. CASE Kind(k) = "part"
  <2>1. Sql(g, k) = Sql(g, m) \cup {k} /\ Ends(g, k) = Ends(g, m) /\ Uses(g, k) = Uses(g, m)
    BY <1>1, <1>4 DEF Sql, Ends, Uses
  <2>2. \A j \in Ends(g, m) : j < k /\ ~(k <= j)
    BY <1>1 DEF Ends
  <2>3. SoFar(g, k) = [text |-> a.text \cup {k}, query |-> a.query]
    <3>1. LastStatement(g, k) = LastStatement(g, m)
      BY <2>1, <2>2 DEF LastStatement
    <3>2. {i \in Sql(g, k) : \A j \in Ends(g, k) : j < i}
            = {i \in Sql(g, m) : \A j \in Ends(g, m) : j < i} \cup {k}
      BY <2>1, <2>2
    <3> QED
      BY <2>1, <3>1, <3>2 DEF SoFar
  <2>4. HandleLine(a, k) = [a EXCEPT !.text = @ \cup {k}]
    BY <1>4, LineIsRead
  <2>5. [a EXCEPT !.text = @ \cup {k}] = [text |-> a.text \cup {k}, query |-> a.query]
    <3>1. PICK x, y : a = [text |-> x, query |-> y]
      BY DEF SoFar
    <3>2. [[text |-> x, query |-> y] EXCEPT !.text = @ \cup {k}] = [text |-> x \cup {k}, query |-> y]
      OBVIOUS
    <3> HIDE DEF a
    <3> QED
      BY <3>1, <3>2
  <2> QED
    BY <2>3, <2>4, <2>5
<1>5. CASE Kind(k) = "end"
  <2>1. Sql(g, k) = Sql(g, m) \cup {k} /\ Ends(g, k) = Ends(g, m) \cup {k}
    BY <1>1, <1>5 DEF Sql, Ends
  <2>2. /\ \A j \in Ends(g, m) : j < k /\ j \in Int
        /\ \A j \in Sql(g, m) : j < k /\ j \in Int /\ k \in Int
    BY <1>1 DEF Ends, Sql
  <2>3. {i \in Sql(g, k) : \A j \in Ends(g, k) : j < i} = {}
    BY <2>1, <2>2
  <2>4. LastStatement(g, k) = a.text \cup {k}
    <3>1. ASSUME NEW i \in Sql(g, m)
          PROVE  i \in LastStatement(g, k) <=> \A j \in Ends(g, m) : j < i
      <4>1. i \in Sql(g, k) /\ i <= k /\ k \in Ends(g, k)
        BY <2>1, <2>2
      <4>2. i \in LastStatement(g, k) <=> \A j \in Ends(g, k) : i <= j => j = k
        BY <4>1 DEF LastStatement
      <4>3. (\A j \in Ends(g, k) : i <= j => j = k) <=> \A j \in Ends(g, m) : ~(i <= j)
        BY <2>1, <2>2
      <4>4. \A j \in Ends(g, m) : ~(i <= j) <=> j < i
        BY <2>2
      <4> QED
        BY <4>2, <4>3, <4>4
    <3>2. k \in LastStatement(g, k)
      BY <2>1, <2>2, <1>1 DEF LastStatement
    <3>3. \A i \in LastStatement(g, k) : i \in Sql(g, m) \/ i = k
      BY <2>1 DEF LastStatement
    <3>4. \A i : i \in a.text <=> i \in Sql(g, m) /\ \A j \in Ends(g, m) : j < i
      BY DEF SoFar
    <3> HIDE DEF a
    <3> QED
      BY <3>1, <3>2, <3>3, <3>4
  <2>5. SoFar(g, k) = [text |-> {}, query |-> a.text \cup {k}]
    BY <2>1, <2>3, <2>4 DEF SoFar
  <2>6. HandleLine(a, k) = [text |-> {}, query |-> a.text \cup {k}]
    BY <1>5, LineIsRead
  <2> QED
    BY <2>5, <2>6
<1> QED
  BY <1>1, <1>2, <1>3, <1>4, <1>5 DEF Ordered

(* The query is the last statement, or the line that names the database.   *)
LEMMA QueryOfOrdered ==
  ASSUME NEW g, Ordered(g)
  PROVE  QueryOf(g) = SoFar(g, g.to).query
<1>0. PICK first : first = g.from - 1
  OBVIOUS
<1>1. first \in Int /\ g.from \in Int /\ g.to \in Int /\ g \in Span /\ g.from <= g.to /\ first = g.from - 1
  BY <1>0 DEF Ordered, Span
<1>2. PICK f : ReadsTo(f, g, g.to) /\ QueryOf(g) = f[g.to].query
  BY <1>1, QueryIsRead
<1> DEFINE S == {n \in Nat : \A m \in Int : m = first + n /\ m <= g.to => f[m] = SoFar(g, m)}
<1>3. 0 \in S
  <2>1. f[first] = Nothing
    BY <1>1, <1>2 DEF ReadsTo
  <2>2. g.from .. first = {}
    BY <1>1
  <2>3. SoFar(g, first) = Nothing
    BY <2>2 DEF SoFar, Sql, Ends, Uses, Nothing
  <2>4. ASSUME NEW m \in Int, m = first + 0 PROVE m = first
    BY <1>1, <2>4
  <2> QED
    BY <2>1, <2>3, <2>4
<1>4. ASSUME NEW n \in Nat, n \in S PROVE n + 1 \in S
  <2> SUFFICES ASSUME NEW k \in Int, k = first + (n + 1), k <= g.to
               PROVE  f[k] = SoFar(g, k)
    OBVIOUS
  <2>1. PICK m \in Int : m = first + n
    BY <1>1
  <2>2. k = m + 1 /\ m < g.to /\ g.from - 1 <= m /\ m <= g.to
    BY <1>1, <2>1
  <2>3. f[m] = SoFar(g, m)
    BY <1>4, <2>1, <2>2
  <2>4. f[m + 1] = HandleLine(f[m], m + 1)
    BY <1>1, <1>2, <2>2 DEF ReadsTo
  <2> QED
    BY <2>2, <2>3, <2>4, ReadLine
<1>5. Nat \subseteq S
  <2> HIDE DEF S
  <2> QED
    BY <1>3, <1>4, SetInduction
<1>6. PICK n \in Nat : g.to = first + n
  <2>1. g.to - first \in Nat /\ first + (g.to - first) = g.to
    BY <1>1
  <2> QED
    BY <2>1
<1>7. f[g.to] = SoFar(g, g.to)
  <2>1. n \in S
    BY <1>5
  <2> QED
    BY <1>1, <1>6, <2>1
<1> QED
  BY <1>2, <1>7

(* Of one ";" at or after a line, Cardinality says the same.               *)
LEMMA OneEnd ==
  ASSUME NEW a \in Int, NEW b \in Int, NEW ends \in SUBSET (a .. b), NEW k
  PROVE  Cardinality({j \in ends : k <= j}) = 1
           <=> \E j \in ends : k <= j /\ \A i \in ends : k <= i => i = j
<1> DEFINE after == {j \in ends : k <= j}
<1>1. IsFiniteSet(a .. b) /\ after \in SUBSET (a .. b)
  BY FS_Interval
<1>2. IsFiniteSet(after)
  <2> HIDE DEF after
  <2> QED
    BY <1>1, FS_Subset
<1>3. Cardinality(after) = 1 <=> \E j : after = {j}
  <2> HIDE DEF after
  <2> QED
    BY <1>2, FS_Singleton
<1>4. ASSUME NEW j, after = {j} PROVE j \in ends /\ k <= j /\ \A i \in ends : k <= i => i = j
  BY <1>4
<1>5. ASSUME NEW j \in ends, k <= j, \A i \in ends : k <= i => i = j PROVE after = {j}
  BY <1>5
<1> QED
  BY <1>3, <1>4, <1>5
-----------------------------------------------------------------------------
(* In a mysql entry the lines of its statement come last, and the database *)
(* is named once.                                                          *)
LEMMA MySQLEntryOrder ==
  ASSUME NEW new \in Entries("mysql")
  PROVE  /\ \A i \in DOMAIN new : new[i] \in {"comment", "note", "set", "use", "part", "end", "ping"}
         /\ \A i \in DOMAIN new : new[i] = "ping" => Pings
         /\ \A i, j \in DOMAIN new : i < j =>
              /\ new[i] \in {"part", "end"} => new[j] \in {"part", "end"}
              /\ new[i] = "use" => new[j] # "use"
<1>1. new \in {<<"comment", "set", "end">>, <<"comment", "set", "end", "part", "end">>,
              <<"note", "use", "set", "part", "end">>,
              <<"comment", "use", "set", "note">>, <<"comment", "set", "note">>, <<"note">>}
             \cup (IF Pings THEN {<<"comment", "set", "ping">>} ELSE {})
  BY Zenon DEF Entries
<1>2. \/ new = <<"comment", "set", "end">>            \/ new = <<"comment", "set", "end", "part", "end">>
      \/ new = <<"note", "use", "set", "part", "end">>
      \/ new = <<"comment", "use", "set", "note">> \/ new = <<"comment", "set", "note">>
      \/ new = <<"note">>                          \/ (Pings /\ new = <<"comment", "set", "ping">>)
  BY <1>1
<1>3. CASE new = <<"comment", "set", "end">>
  BY <1>3
<1>4. CASE new = <<"comment", "set", "end", "part", "end">>
  BY <1>4
<1>5. CASE new = <<"note", "use", "set", "part", "end">>
  BY <1>5
<1>6. CASE new = <<"comment", "use", "set", "note">>
  BY <1>6
<1>7. CASE new = <<"comment", "set", "note">>
  BY <1>7
<1>8. CASE new = <<"note">>
  BY <1>8
<1>9. CASE Pings /\ new = <<"comment", "set", "ping">>
  BY <1>9
<1> QED
  BY <1>2, <1>3, <1>4, <1>5, <1>6, <1>7, <1>8, <1>9

(* The group of mysql that is offered has its statement at its end.        *)
LEMMA GroupOrdered ==
  ASSUME LogOK, Grouping, dialect = "mysql", found
  PROVE  Ordered(Group)
<1> DEFINE L == Len(log)
           E == Len(entries)
<1>1. /\ L \in Nat /\ from \in Nat /\ 1 <= from /\ from <= L /\ L \in DOMAIN log /\ DOMAIN log = 1 .. L
      /\ E \in Nat /\ log[L].of = E
  BY LogBounds DEF Grouping, LogOK
<1>2. Group.from = from /\ Group.to = L /\ Group \in Span
  BY <1>1 DEF Group, Span
<1>3. ASSUME NEW k \in from .. L
      PROVE  /\ k \in DOMAIN log /\ log[k].n \in DOMAIN entries[log[k].of] /\ entries[log[k].of] \in Entries("mysql")
             /\ Kind(k) \in {"comment", "note", "set", "use", "part", "end", "ping"}
  <2>1. k \in DOMAIN log
    BY <1>1
  <2>2. log[k].of \in DOMAIN entries /\ log[k].n \in DOMAIN entries[log[k].of]
    BY <2>1 DEF LogOK
  <2>3. entries[log[k].of] \in Entries("mysql")
    BY <2>2 DEF LogOK
  <2> QED
    BY <2>1, <2>2, <2>3, MySQLEntryOrder DEF Kind
<1>4. ASSUME NEW j \in from .. L, NEW k \in from .. L, j < k, Kind(j) \in {"use", "part", "end"}
      PROVE  /\ Kind(j) \in {"part", "end"} => Kind(k) \in {"part", "end"}
             /\ Kind(j) = "use" => Kind(k) # "use"
  <2>1. j \in DOMAIN log /\ k \in DOMAIN log /\ j <= k /\ k <= L
    BY <1>1, <1>4
  <2>2. log[j].of = E
    <3>1. Kind(j) \notin Comments
      BY <1>4 DEF Comments
    <3> QED
      BY <2>1, <3>1 DEF Grouping
  <2>3. log[k].of = E
    <3>1. log[j].of <= log[k].of /\ log[k].of <= log[L].of
      BY <1>1, <2>1 DEF LogOK
    <3> QED
      BY <1>1, <2>1, <2>2, <3>1, LogBounds
  <2>4. log[k].n - log[j].n = k - j
    BY <2>1, <2>2, <2>3 DEF LogOK
  <2>5. log[j].n < log[k].n
    BY <1>1, <1>4, <2>1, <2>4, LogBounds
  <2>6. PICK ent : ent = entries[E]
    OBVIOUS
  <2>7. ent \in Entries("mysql") /\ log[j].n \in DOMAIN ent /\ log[k].n \in DOMAIN ent
    BY <1>3, <2>2, <2>3, <2>6
  <2>8. Kind(j) = ent[log[j].n] /\ Kind(k) = ent[log[k].n]
    BY <2>2, <2>3, <2>6 DEF Kind
  <2> QED
    BY <2>5, <2>7, <2>8, MySQLEntryOrder
<1>5. \A k \in Group.from .. Group.to : Kind(k) \in {"comment", "note", "set", "use", "part", "end", "ping"}
  BY <1>2, <1>3
<1>6. \A j, k \in Group.from .. Group.to : j < k =>
        /\ Kind(j) \in {"part", "end"} => Kind(k) \in {"part", "end"}
        /\ Kind(j) = "use" => Kind(k) # "use"
  BY <1>2, <1>4
<1> QED
  BY <1>1, <1>2, <1>5, <1>6 DEF Ordered

(* How the lines of a group lie, for each parser.                          *)
Formed(g) ==
  /\ g \in Span /\ g.to <= Len(log)
  /\ dialect = "mysql" => Ordered(g)
  /\ dialect = "postgresql" => \A k \in LinesOf(g) : g.from \in DOMAIN log /\ log[k].of = log[g.from].of
  /\ dialect = "lines" => g.from = g.to /\ g.from \in DOMAIN log /\ log[g.from].kept

GroupsFormed ==
  /\ gpc \in {"offer", "offerLast"} => Formed(offered)
  /\ \A i \in 1 .. NumParsers : busy[i] # NoSpan => Formed(busy[i])
  /\ \A s \in DOMAIN sent : Formed(sent[s])

GroupsKnown == StatementsWhole /\ GroupsFormed

LEMMA FormedStays ==
  ASSUME LogOK, NEW kept \in BOOLEAN, NextLine(kept), NEW g, Formed(g)
  PROVE  Formed(g)'
<1>1. LogOK' /\ Added(kept) /\ dialect' = dialect /\ Len(log) \in Nat /\ Len(log') = Len(log) + 1
  BY NextLineAdds, LogBounds DEF Added
<1>2. g \in Span /\ g.from \in Int /\ g.to \in Int /\ g.to <= Len(log) /\ g.to <= Len(log')
  BY <1>1 DEF Formed, Span
<1>3. DOMAIN log = 1 .. Len(log) /\ DOMAIN log' = 1 .. Len(log')
  BY <1>1, LogBounds DEF LogOK
<1>4. \A k \in DOMAIN log : k \in DOMAIN log' /\ log'[k] = log[k] /\ Kind(k)' = Kind(k)
  BY <1>1 DEF Added
<1>5. dialect = "mysql" => Ordered(g)'
  <2> SUFFICES ASSUME dialect = "mysql" PROVE Ordered(g)'
    OBVIOUS
  <2>1. Ordered(g)
    BY DEF Formed
  <2>2. \A k \in g.from .. g.to : Kind(k)' = Kind(k)
    BY <1>2, <1>3, <1>4, <2>1 DEF Ordered
  <2> QED
    BY <1>2, <2>1, <2>2 DEF Ordered
<1>6. \A k \in LinesOf(g)' : k \in LinesOf(g)
  BY <1>2, <1>3, <1>4 DEF LinesOf
<1>7. dialect = "postgresql" => \A k \in LinesOf(g)' : g.from \in DOMAIN log' /\ log'[k].of = log'[g.from].of
  BY <1>4, <1>6 DEF Formed, LinesOf
<1> QED
  BY <1>1, <1>2, <1>4, <1>5, <1>7 DEF Formed

LEMMA FormedUntouched ==
  ASSUME UNCHANGED <<dialect, entries, log>>, NEW g, Formed(g)
  PROVE  Formed(g)'
<1>1. \A k : Kind(k)' = Kind(k)
  BY DEF Kind
<1>2. Ordered(g)' <=> Ordered(g)
  BY <1>1 DEF Ordered
<1>3. LinesOf(g)' = LinesOf(g)
  BY DEF LinesOf
<1> QED
  BY <1>2, <1>3 DEF Formed

LEMMA GroupsFormedStay ==
  ASSUME LogOK, NEW kept \in BOOLEAN, NextLine(kept), GroupsFormed
  PROVE  /\ gpc \in {"offer", "offerLast"} => \A g : g = offered => Formed(g)'
         /\ \A i \in 1 .. NumParsers : busy[i] # NoSpan => \A g : g = busy[i] => Formed(g)'
         /\ \A s \in DOMAIN sent : \A g : g = sent[s] => Formed(g)'
  BY FormedStays DEF GroupsFormed

LEMMA GroupsFormedUntouched ==
  ASSUME UNCHANGED <<dialect, entries, log>>, GroupsFormed
  PROVE  /\ gpc \in {"offer", "offerLast"} => \A g : g = offered => Formed(g)'
         /\ \A i \in 1 .. NumParsers : busy[i] # NoSpan => \A g : g = busy[i] => Formed(g)'
         /\ \A s \in DOMAIN sent : \A g : g = sent[s] => Formed(g)'
  BY FormedUntouched DEF GroupsFormed

(* It is enough to know it of the values that the groups take.             *)
LEMMA GroupsFormedNext ==
  ASSUME gpc' \in {"offer", "offerLast"} => \A g : g = offered' => Formed(g)',
         \A i \in 1 .. NumParsers : busy'[i] # NoSpan => \A g : g = busy'[i] => Formed(g)',
         \A s \in DOMAIN sent' : \A g : g = sent'[s] => Formed(g)'
  PROVE  GroupsFormed'
  BY DEF GroupsFormed, NoSpan, Formed, Ordered, LinesOf, Kind

(* Every step keeps the groups so.                                         *)
LEMMA GroupsStep ==
  ASSUME dialect = "postgresql" => "postgresql" \notin Sampled, GroupsKnown, [Next]_vars
  PROVE  GroupsKnown'
<1>1. LogOK /\ Grouping /\ GroupsWhole /\ GroupsFormed /\ StatementsWhole'
  BY StatementsStep DEF GroupsKnown, StatementsWhole
<1> SUFFICES GroupsFormed'
  BY <1>1 DEF GroupsKnown
<1>2. ASSUME UNCHANGED <<dialect, entries, log, gpc, offered, busy, sent>> PROVE GroupsFormed'
  BY <1>1, <1>2, GroupsFormedUntouched, GroupsFormedNext
<1>3. ASSUME NEW kept \in BOOLEAN, NextLine(kept), UNCHANGED <<gpc, offered, busy, sent>> PROVE GroupsFormed'
  BY <1>1, <1>3, GroupsFormedStay, GroupsFormedNext
<1>4. CASE DropLine
  <2>1. FALSE \in BOOLEAN /\ NextLine(FALSE) /\ UNCHANGED <<gpc, offered, busy, sent>>
    BY <1>4 DEF DropLine, grouper, workers, results
  <2> QED
    BY <1>3, <2>1
<1>5. CASE MySQLLine
  <2>1. TRUE \in BOOLEAN /\ NextLine(TRUE) /\ UNCHANGED <<busy, sent>> /\ dialect = "mysql" /\ gpc = "read"
    BY <1>5 DEF MySQLLine, workers, results
  <2>2. gpc' \in {"offer", "offerLast"} => found /\ offered' = Group
    BY <1>5, <2>1 DEF MySQLLine
  <2>3. ASSUME found, NEW g, g = Group PROVE Formed(g)'
    <3>1. Ordered(g)
      BY <1>1, <2>1, <2>3, GroupOrdered
    <3>2. Formed(g)
      BY <2>1, <3>1 DEF Formed, Ordered
    <3> QED
      BY <1>1, <2>1, <3>2, FormedStays
  <2>4. gpc' \in {"offer", "offerLast"} => \A g : g = offered' => Formed(g)'
    BY <2>2, <2>3
  <2> QED
    BY <1>1, <2>1, <2>4, GroupsFormedStay, GroupsFormedNext
<1>6. CASE MySQLEnd
  <2>1. UNCHANGED <<dialect, entries, log, busy, sent>> /\ dialect = "mysql"
    BY <1>6 DEF MySQLEnd, source, workers, results
  <2>2. gpc' \in {"offer", "offerLast"} => found /\ offered' = Group
    BY <1>6 DEF MySQLEnd
  <2>3. ASSUME found, NEW g, g = Group PROVE Formed(g)'
    <3>1. Ordered(g)
      BY <1>1, <2>1, <2>3, GroupOrdered
    <3>2. Formed(g)
      BY <2>1, <3>1 DEF Formed, Ordered
    <3> QED
      BY <2>1, <3>2, FormedUntouched
  <2>4. gpc' \in {"offer", "offerLast"} => \A g : g = offered' => Formed(g)'
    BY <2>2, <2>3
  <2> QED
    BY <1>1, <2>1, <2>4, GroupsFormedUntouched, GroupsFormedNext
<1>7. ASSUME dialect = "postgresql" PROVE Formed(Group)
  <2>1. Group \in Span /\ Group.from = from /\ Group.to = Len(log)
    BY <1>1, LogBounds DEF Group, Span, Grouping
  <2>2. ASSUME NEW k \in LinesOf(Group) PROVE from \in DOMAIN log /\ log[k].of = log[from].of
    <3>1. k \in DOMAIN log /\ from <= k /\ from \in DOMAIN log
      BY <1>1, <2>1, <2>2, LogBounds DEF LinesOf, Grouping
    <3>2. from <= from
      BY <1>1, <3>1, LogBounds
    <3> QED
      BY <1>1, <1>7, <3>1, <3>2 DEF Grouping
  <2>3. Group.to <= Len(log)
    BY <1>1, <2>1, LogBounds
  <2> QED
    BY <1>7, <2>1, <2>2, <2>3 DEF Formed
<1>8. CASE PostgreSQLLine
  <2>1. TRUE \in BOOLEAN /\ NextLine(TRUE) /\ UNCHANGED <<busy, sent>> /\ dialect = "postgresql" /\ gpc = "read"
    BY <1>8 DEF PostgreSQLLine, workers, results
  <2>2. gpc' \in {"offer", "offerLast"} => offered' = Group
    BY <1>8, <2>1 DEF PostgreSQLLine
  <2>3. \A g : g = Group => Formed(g)'
    BY <1>1, <1>7, <2>1, FormedStays
  <2> QED
    BY <1>1, <2>1, <2>2, <2>3, GroupsFormedStay, GroupsFormedNext
<1>9. CASE PostgreSQLEnd
  <2>1. UNCHANGED <<dialect, entries, log, busy, sent>> /\ dialect = "postgresql" /\ offered' = Group
    BY <1>9 DEF PostgreSQLEnd, source, workers, results
  <2>2. \A g : g = Group => Formed(g)'
    BY <1>7, <2>1, FormedUntouched
  <2> QED
    BY <1>1, <2>1, <2>2, GroupsFormedUntouched, GroupsFormedNext
<1>10. CASE Return
  <2>1. UNCHANGED <<dialect, entries, log, busy, sent>> /\ gpc' = "returned"
    BY <1>10 DEF Return, source, workers, results
  <2> QED
    BY <1>1, <2>1, GroupsFormedUntouched, GroupsFormedNext
<1>11. ASSUME NEW i \in 1 .. NumParsers, TakeGroup(i) PROVE GroupsFormed'
  <2>1. /\ UNCHANGED <<dialect, entries, log, sent>> /\ gpc \in {"offer", "offerLast"} /\ gpc' \in {"read", "wait"}
        /\ busy' = [busy EXCEPT ![i] = offered]
    BY <1>11 DEF TakeGroup, source, results
  <2>2. \A j \in 1 .. NumParsers : busy'[j] = offered \/ busy'[j] = busy[j]
    BY <1>1, <2>1 DEF GroupsWhole
  <2> QED
    BY <1>1, <2>1, <2>2, GroupsFormedUntouched, GroupsFormedNext
<1>12. ASSUME NEW i \in 1 .. NumParsers, TakeLine(i) PROVE GroupsFormed'
  <2>1. /\ TRUE \in BOOLEAN /\ NextLine(TRUE) /\ dialect = "lines" /\ UNCHANGED <<gpc, offered, sent>>
        /\ busy' = [busy EXCEPT ![i] = [from |-> Len(log'), to |-> Len(log')]]
    BY <1>12 DEF TakeLine, grouper, results
  <2>2. /\ Len(log') \in Nat /\ Len(log') \in DOMAIN log' /\ log'[Len(log')].kept /\ dialect' = "lines"
    <3>1. LogOK' /\ Added(TRUE)
      BY <1>1, <2>1, NextLineAdds
    <3>2. DOMAIN log' = 1 .. Len(log') /\ Len(log') = Len(log) + 1 /\ Len(log) \in Nat
      BY <1>1, <3>1, LogBounds DEF LogOK, Added
    <3> QED
      BY <2>1, <3>1, <3>2 DEF Added
  <2>3. \A g : g = [from |-> Len(log'), to |-> Len(log')] => Formed(g)'
    BY <2>2 DEF Formed, Span
  <2>4. \A j \in 1 .. NumParsers : busy'[j] = [from |-> Len(log'), to |-> Len(log')] \/ busy'[j] = busy[j]
    BY <1>1, <2>1 DEF GroupsWhole
  <2> QED
    BY <1>1, <2>1, <2>3, <2>4, GroupsFormedStay, GroupsFormedNext
<1>13. ASSUME NEW i \in 1 .. NumParsers, HandleEvent(i) PROVE GroupsFormed'
  <2>1. /\ UNCHANGED <<dialect, entries, log, gpc, offered>> /\ busy[i] # NoSpan
        /\ busy' = [busy EXCEPT ![i] = NoSpan]
        /\ sent' = IF MakesEvent(busy[i]) THEN Append(sent, busy[i]) ELSE sent
    BY <1>13 DEF HandleEvent, source, grouper
  <2>2. \A j \in 1 .. NumParsers : busy'[j] = NoSpan \/ busy'[j] = busy[j]
    BY <1>1, <2>1 DEF GroupsWhole
  <2>3. \A s \in DOMAIN sent' : sent'[s] = busy[i] \/ (s \in DOMAIN sent /\ sent'[s] = sent[s])
    BY <1>1, <2>1, Appended DEF GroupsWhole
  <2> QED
    BY <1>1, <2>1, <2>2, <2>3, GroupsFormedUntouched, GroupsFormedNext
<1>14. CASE UNCHANGED <<source, grouper, busy, results>>
  BY <1>2, <1>14 DEF source, grouper, results
<1>15. CASE CloseStream
  BY <1>2, <1>15 DEF CloseStream, grouper, workers, results
<1>16. ASSUME NEW i \in 1 .. NumParsers, TestPointer(i) \/ Dereference(i) \/ WorkerReturns(i)
       PROVE  GroupsFormed'
  BY <1>14, <1>16 DEF TestPointer, Dereference, WorkerReturns
<1> QED
  BY <1>4, <1>5, <1>6, <1>8, <1>9, <1>10, <1>11, <1>12, <1>13, <1>14, <1>15, <1>16
     DEF Next, GrouperStep, WorkerStep, ServerStep, workers, vars

(* WholeQuery: the query of a mysql event is the last statement of its     *)
(* group, or the line that names the database.  About handleEvent.         *)
THEOREM QueryIsLastStatement == Spec => []WholeQuery
<1> DEFINE Known == dialect = "mysql" => GroupsKnown
<1>1. Init => Known
  BY StatementsInit DEF Init, GroupsKnown, GroupsFormed
<1>2. Known /\ [Next]_vars => Known'
  <2>1. ASSUME [Next]_vars PROVE dialect' = dialect
    BY <2>1, NextLineKeepsDialect
       DEF Next, GrouperStep, WorkerStep, ServerStep, vars, source, CloseStream, DropLine, MySQLLine, MySQLEnd,
           PostgreSQLLine, PostgreSQLEnd, Return, TakeGroup, TakeLine, TestPointer, Dereference, HandleEvent,
           WorkerReturns
  <2> QED
    BY <2>1, GroupsStep
<1>3. Known => WholeQuery
  <2> SUFFICES ASSUME dialect = "mysql", GroupsKnown, NEW s \in DOMAIN sent
               PROVE  LET sql  == {k \in LinesOf(sent[s]) : Kind(k) \in {"part", "end"}}
                          ends == {k \in sql : Kind(k) = "end"}
                      IN QueryOf(sent[s]) = IF ends = {} THEN {k \in LinesOf(sent[s]) : Kind(k) = "use"}
                                            ELSE {k \in sql : Cardinality({j \in ends : k <= j}) = 1}
    BY DEF WholeQuery
  <2>1. PICK g : g = sent[s]
    OBVIOUS
  <2>2. Ordered(g) /\ LogOK /\ Grouping
    BY <2>1 DEF GroupsKnown, StatementsWhole, GroupsFormed, Formed
  <2>3. g.from \in Int /\ g.to \in Int
    BY <2>2 DEF Ordered, Span
  <2>4. LinesOf(g) = g.from .. g.to
    BY <2>2, <2>3, LogBounds DEF LinesOf, Ordered, Grouping
  <2>5. PICK sql, ends : sql = Sql(g, g.to) /\ ends = Ends(g, g.to)
    OBVIOUS
  <2>6. /\ sql = {k \in LinesOf(g) : Kind(k) \in {"part", "end"}}
        /\ ends = {k \in sql : Kind(k) = "end"}
        /\ Uses(g, g.to) = {k \in LinesOf(g) : Kind(k) = "use"}
        /\ ends \in SUBSET (g.from .. g.to)
    BY <2>4, <2>5 DEF Sql, Ends, Uses
  <2>7. LastStatement(g, g.to) = {k \in sql : Cardinality({j \in ends : k <= j}) = 1}
    <3>1. ASSUME NEW k
          PROVE  Cardinality({j \in ends : k <= j}) = 1
                   <=> \E j \in ends : k <= j /\ \A i \in ends : k <= i => i = j
      <4>1. PICK a \in Int, b \in Int : a = g.from /\ b = g.to
        BY <2>3
      <4>2. ends \in SUBSET (a .. b)
        BY <2>6, <4>1
      <4> QED
        BY <4>2, OneEnd
    <3>2. LastStatement(g, g.to) = {k \in sql : \E j \in ends : k <= j /\ \A i \in ends : k <= i => i = j}
      BY <2>5 DEF LastStatement
    <3> QED
      BY <3>1, <3>2, Zenon
  <2>8. QueryOf(g) = IF ends = {} THEN Uses(g, g.to) ELSE LastStatement(g, g.to)
    BY <2>2, <2>5, QueryOfOrdered DEF SoFar
  <2>9. QueryOf(g) = IF ends = {} THEN {k \in LinesOf(g) : Kind(k) = "use"}
                     ELSE {k \in sql : Cardinality({j \in ends : k <= j}) = 1}
    BY <2>6, <2>7, <2>8, Zenon
  <2> QED
    BY <2>1, <2>6, <2>9, Zenon
<1> QED
  BY <1>1, <1>2, <1>3, PTL DEF Spec
-----------------------------------------------------------------------------
(* The kinds of lines of the other parsers.                                *)
LEMMA OtherKinds ==
  /\ \A new \in Entries("postgresql") : \A i \in DOMAIN new : new[i] \in {"slow", "ignored", "other", "more"}
  /\ \A new \in Entries("lines") : \A i \in DOMAIN new : new[i] \in {"event", "skip"}
<1>1. ASSUME NEW new \in Entries("postgresql")
      PROVE  \A i \in DOMAIN new : new[i] \in {"slow", "ignored", "other", "more"}
  <2>1. new \in {<<"slow">>, <<"slow", "more">>, <<"ignored", "more">>, <<"other", "more">>}
    BY Zenon DEF Entries
  <2> QED
    BY <2>1
<1>2. ASSUME NEW new \in Entries("lines")
      PROVE  \A i \in DOMAIN new : new[i] \in {"event", "skip"}
  <2>1. new \in {<<"event">>, <<"skip">>}
    BY Zenon DEF Entries
  <2> QED
    BY <2>1
<1> QED
  BY <1>1, <1>2

LEMMA KindInEntry ==
  ASSUME LogOK, NEW k \in DOMAIN log
  PROVE  \E new \in Entries(dialect) : log[k].n \in DOMAIN new /\ Kind(k) = new[log[k].n]
<1>1. log[k].of \in DOMAIN entries /\ log[k].n \in DOMAIN entries[log[k].of]
  BY DEF LogOK
<1>2. entries[log[k].of] \in Entries(dialect)
  BY <1>1 DEF LogOK
<1> QED
  BY <1>1, <1>2 DEF Kind

(* Of the numbers of a finite range one is the largest.                    *)
LEMMA Largest ==
  ASSUME NEW a \in Int, NEW b \in Int, NEW S \in SUBSET (a .. b), S # {}
  PROVE  \E m \in S : \A j \in S : j <= m
<1> DEFINE distances == {n \in Nat : b - n \in S}
           R == OpToRel(<, Nat)
<1>1. IsWellFoundedOn(R, Nat)
  BY NatLessThanWellFounded
<1>2. \A j \in S : b - j \in distances /\ j \in Int /\ j <= b
  <2> SUFFICES ASSUME NEW j \in S PROVE b - j \in distances /\ j \in Int /\ j <= b
    OBVIOUS
  <2>1. j \in Int /\ j <= b
    OBVIOUS
  <2>2. b - j \in Nat /\ b - (b - j) = j
    BY <2>1
  <2> QED
    BY <2>1, <2>2
<1>3. distances # {}
  BY <1>2
<1>4. \E n \in distances : \A d \in distances : <<d, n>> \notin R
  <2>1. distances \subseteq Nat
    OBVIOUS
  <2> HIDE DEF R, distances
  <2> QED
    BY <1>1, <1>3, <2>1, WFMin
<1>5. PICK n \in distances : \A d \in distances : <<d, n>> \notin R
  BY <1>4
<1>6. ASSUME NEW j \in S PROVE j <= b - n
  <2>1. b - j \in distances /\ b - j \in Nat /\ n \in Nat
    BY <1>2, <1>5
  <2>2. ~(b - j < n)
    BY <1>5, <2>1 DEF OpToRel
  <2> QED
    BY <1>2, <2>1, <2>2
<1> QED
  BY <1>5, <1>6

(* A group makes an event just when it has a statement, or names the       *)
(* database.                                                               *)
LEMMA EventHasStatement ==
  ASSUME LogOK, Grouping, NEW g, Formed(g)
  PROVE  /\ MakesEvent(g) => \E k \in LinesOf(g) : Kind(k) \in Wanted
         /\ ~Pings /\ (\E k \in LinesOf(g) : Kind(k) \in Wanted) => MakesEvent(g)
<1>0. g \in Span /\ g.from \in Int /\ g.to \in Int /\ g.to <= Len(log) /\ dialect \in {"mysql", "postgresql", "lines"}
  BY DEF Formed, Span, LogOK
<1>1. CASE dialect = "mysql"
  <2>1. Ordered(g)
    BY <1>1 DEF Formed
  <2>2. LinesOf(g) = g.from .. g.to /\ \A k \in g.from .. g.to : k \in DOMAIN log
    BY <1>0, <1>1, <2>1, LogBounds DEF LinesOf, Ordered, Grouping
  <2>3. MakesEvent(g) <=> QueryOf(g) # {} /\ \A k \in LinesOf(g) : Kind(k) # "ping"
    <3>1. MakesEvent(g) <=> MySQLEvent(g)
      BY <1>1, Zenon DEF MakesEvent
    <3> QED
      BY <3>1 DEF MySQLEvent
  <2>4. ASSUME NEW k \in LinesOf(g), Kind(k) = "ping" PROVE Pings
    <3>1. PICK new \in Entries("mysql") : log[k].n \in DOMAIN new /\ Kind(k) = new[log[k].n]
      BY <1>1, <2>2, KindInEntry
    <3> QED
      BY <2>4, <3>1, MySQLEntryOrder
  <2>5. \A k \in LinesOf(g) : Kind(k) \in Wanted <=> k \in Ends(g, g.to) \/ k \in Uses(g, g.to)
    BY <2>1, <2>2 DEF Ordered, Wanted, Ends, Uses
  <2>6. QueryOf(g) = IF Ends(g, g.to) = {} THEN Uses(g, g.to) ELSE LastStatement(g, g.to)
    BY <2>1, QueryOfOrdered DEF SoFar
  <2>7. Ends(g, g.to) # {} => LastStatement(g, g.to) # {}
    <3> SUFFICES ASSUME Ends(g, g.to) # {} PROVE LastStatement(g, g.to) # {}
      OBVIOUS
    <3>1. PICK a \in Int, b \in Int : a = g.from /\ b = g.to
      BY <1>0
    <3>2. Ends(g, g.to) \in SUBSET (a .. b)
      BY <3>1 DEF Ends
    <3>3. PICK m \in Ends(g, g.to) : \A j \in Ends(g, g.to) : j <= m
      BY <3>2, Largest
    <3>4. m \in Int /\ \A j \in Ends(g, g.to) : j \in Int
      BY <3>2
    <3>5. m <= m /\ \A i \in Ends(g, g.to) : m <= i => i = m
      BY <3>3, <3>4
    <3>6. m \in Sql(g, g.to)
      BY <3>3 DEF Ends, Sql
    <3> QED
      BY <3>3, <3>5, <3>6 DEF LastStatement
  <2>8. Ends(g, g.to) \subseteq LinesOf(g) /\ Uses(g, g.to) \subseteq LinesOf(g)
    BY <2>2 DEF Ends, Uses
  <2>9. QueryOf(g) # {} <=> \E k \in LinesOf(g) : Kind(k) \in Wanted
    <3>1. CASE Ends(g, g.to) = {}
      BY <2>5, <2>6, <2>8, <3>1
    <3>2. CASE Ends(g, g.to) # {}
      BY <2>5, <2>6, <2>7, <2>8, <3>2
    <3> QED
      BY <3>1, <3>2
  <2> QED
    BY <2>3, <2>4, <2>9
<1>2. CASE dialect = "postgresql"
  <2>1. MakesEvent(g) <=> \E k \in LinesOf(g) : Kind(k) = "slow" /\ \A j \in LinesOf(g) : k <= j
    <3>1. MakesEvent(g) <=> PostgreSQLEvent(g)
      BY <1>2, Zenon DEF MakesEvent
    <3> QED
      BY <3>1 DEF PostgreSQLEvent
  <2>2. ASSUME NEW k \in LinesOf(g), Kind(k) \in Wanted
        PROVE  Kind(k) = "slow" /\ \A j \in LinesOf(g) : k <= j
    <3>1. k \in DOMAIN log /\ g.from <= k /\ g.from \in DOMAIN log /\ log[k].of = log[g.from].of
      BY <1>2 DEF LinesOf, Formed
    <3>2. PICK new \in Entries("postgresql") : log[k].n \in DOMAIN new /\ Kind(k) = new[log[k].n]
      BY <1>2, <3>1, KindInEntry
    <3>3. Kind(k) = "slow" /\ log[k].n = 1
      BY <2>2, <3>2, OtherKinds, PostgreSQLEntry DEF Wanted
    <3>4. log[g.from].n >= 1
      <4>1. PICK first \in Entries("postgresql") : log[g.from].n \in DOMAIN first
        BY <1>2, <3>1, KindInEntry
      <4> QED
        BY <4>1, PostgreSQLEntry
    <3>5. log[k].n - log[g.from].n = k - g.from
      BY <3>1 DEF LogOK
    <3>6. k = g.from
      BY <1>0, <3>1, <3>3, <3>4, <3>5, LogBounds
    <3> QED
      BY <3>3, <3>6 DEF LinesOf
  <2> QED
    BY <2>1, <2>2 DEF Wanted
<1>3. CASE dialect = "lines"
  <2>1. MakesEvent(g) <=> \A k \in LinesOf(g) : Kind(k) = "event"
    <3>1. MakesEvent(g) <=> LineEvent(g)
      BY <1>3, Zenon DEF MakesEvent
    <3> QED
      BY <3>1 DEF LineEvent
  <2>2. LinesOf(g) = {g.from}
    BY <1>0, <1>3 DEF Formed, LinesOf
  <2>3. Kind(g.from) \in {"event", "skip"}
    <3>1. PICK new \in Entries("lines") : log[g.from].n \in DOMAIN new /\ Kind(g.from) = new[log[g.from].n]
      BY <1>3, KindInEntry DEF Formed
    <3> QED
      BY <3>1, OtherKinds
  <2> QED
    BY <2>1, <2>2, <2>3 DEF Wanted
<1> QED
  BY <1>0, <1>1, <1>2, <1>3
-----------------------------------------------------------------------------
(* Where the goroutine of ProcessLines is; that of a parser without groups *)
(* only waits.  It stops to read when the stream is closed.                *)
Stages ==
  /\ gpc \in {"read", "offer", "offerLast", "wait", "returned"}
  /\ dialect = "lines" => gpc \in {"wait", "returned"}
  /\ dialect # "lines" /\ gpc \in {"offerLast", "wait", "returned"} => closed

Sending == gpc \in {"offer", "offerLast"}

(* The lines before this one have been grouped.                            *)
Ungrouped == IF gpc \in {"read", "offer"} THEN from ELSE Len(log) + 1

Covers(g, k) == g.from <= k /\ k <= g.to
Apart(g, h)  == g.to < h.from \/ h.to < g.from

(* No line is in two groups.                                               *)
GroupsApart ==
  /\ Sending => offered.to < Ungrouped
  /\ \A i \in 1 .. NumParsers : busy[i] # NoSpan =>
       /\ busy[i].to < Ungrouped
       /\ Sending => Apart(busy[i], offered)
       /\ \A j \in 1 .. NumParsers : i # j /\ busy[j] # NoSpan => Apart(busy[i], busy[j])
       /\ \A s \in DOMAIN sent : Apart(sent[s], busy[i])
  /\ \A s \in DOMAIN sent :
       /\ sent[s].to < Ungrouped
       /\ Sending => Apart(sent[s], offered)
       /\ \A r \in DOMAIN sent : r # s => Apart(sent[r], sent[s])

(* A line that makes a statement is not lost: it is in the group that is   *)
(* offered, with a worker, in an event, or was sampled.                    *)
Grouped(k) ==
  \/ Sending /\ Covers(offered, k)
  \/ \E i \in 1 .. NumParsers : busy[i] # NoSpan /\ Covers(busy[i], k)
  \/ \E s \in DOMAIN sent : Covers(sent[s], k)
  \/ \E g \in sampled : Covers(g, k)

NoneLost == \A k \in DOMAIN log : k < Ungrouped /\ log[k].kept /\ Kind(k) \in Wanted => Grouped(k)

SentWanted == \A s \in DOMAIN sent : \E k \in LinesOf(sent[s]) : Kind(k) \in Wanted

Accounted == GroupsKnown /\ Stages /\ GroupsApart /\ NoneLost /\ SentWanted

LEMMA DialectStays ==
  ASSUME [Next]_vars
  PROVE  dialect' = dialect
  BY NextLineKeepsDialect
     DEF Next, GrouperStep, WorkerStep, ServerStep, vars, source, CloseStream, DropLine, MySQLLine, MySQLEnd,
         PostgreSQLLine, PostgreSQLEnd, Return, TakeGroup, TakeLine, TestPointer, Dereference, HandleEvent,
         WorkerReturns

LEMMA StagesStep ==
  ASSUME Stages, [Next]_vars
  PROVE  Stages'
<1>1. dialect' = dialect
  BY DialectStays
<1>2. ASSUME NEW kept, NextLine(kept) PROVE ~closed /\ closed' = closed
  BY <1>2 DEF NextLine
<1>3. CASE UNCHANGED gpc /\ (closed => closed')
  BY <1>1, <1>3 DEF Stages
<1>4. CASE MySQLLine \/ PostgreSQLLine
  <2>1. NextLine(TRUE) /\ gpc' \in {"read", "offer"} /\ dialect \in {"mysql", "postgresql"}
    BY <1>4 DEF MySQLLine, PostgreSQLLine
  <2> QED
    BY <1>1, <2>1 DEF Stages
<1>5. CASE MySQLEnd \/ PostgreSQLEnd
  <2>1. closed /\ closed' = closed /\ gpc' \in {"offerLast", "wait"} /\ dialect \in {"mysql", "postgresql"}
    BY <1>5 DEF MySQLEnd, PostgreSQLEnd, source
  <2> QED
    BY <1>1, <2>1 DEF Stages
<1>6. CASE Return
  BY <1>1, <1>6 DEF Return, source, Stages
<1>7. ASSUME NEW i \in 1 .. NumParsers, TakeGroup(i) PROVE Stages'
  BY <1>1, <1>7 DEF TakeGroup, source, Stages
<1>8. ASSUME NEW i \in 1 .. NumParsers, TakeLine(i) PROVE Stages'
  BY <1>2, <1>3, <1>8 DEF TakeLine, grouper
<1>9. CASE DropLine
  BY <1>2, <1>3, <1>9 DEF DropLine, grouper
<1>10. ASSUME NEW i \in 1 .. NumParsers, TestPointer(i) \/ Dereference(i) \/ HandleEvent(i) \/ WorkerReturns(i)
       PROVE  Stages'
  BY <1>3, <1>10 DEF TestPointer, Dereference, HandleEvent, WorkerReturns, source, grouper
<1>11. CASE CloseStream \/ ServerStep \/ UNCHANGED vars
  BY <1>3, <1>11 DEF CloseStream, ServerStep, vars, source, grouper
<1> QED
  BY <1>4, <1>5, <1>6, <1>7, <1>8, <1>9, <1>10, <1>11 DEF Next, GrouperStep, WorkerStep

(* What a line adds to the log, once more.                                 *)
LEMMA LineAdded ==
  ASSUME LogOK, NEW kept \in BOOLEAN, NextLine(kept)
  PROVE  /\ Len(log) \in Nat /\ Len(log') = Len(log) + 1
         /\ DOMAIN log = 1 .. Len(log) /\ DOMAIN log' = 1 .. Len(log) + 1
         /\ log'[Len(log) + 1].kept = kept
         /\ \A k \in DOMAIN log : log'[k] = log[k] /\ Kind(k)' = Kind(k)
<1>1. LogOK' /\ Added(kept) /\ Len(log) \in Nat /\ DOMAIN log = 1 .. Len(log) /\ DOMAIN log' = 1 .. Len(log')
  BY NextLineAdds, LogBounds DEF LogOK
<1> QED
  BY <1>1 DEF Added

LEMMA EndsKnown ==
  ASSUME GroupsWhole, GroupsFormed
  PROVE  /\ Sending => offered \in Span /\ offered.to \in Int /\ offered.from \in Int
         /\ \A i \in 1 .. NumParsers : busy[i] \in Span /\ busy[i].to \in Int /\ busy[i].from \in Int
         /\ \A s \in DOMAIN sent : sent[s] \in Span /\ sent[s].to \in Int /\ sent[s].from \in Int
<1>1. Sending => offered \in Span
  BY DEF Sending, GroupsFormed, Formed
<1>2. \A i \in 1 .. NumParsers : busy[i] \in Span
  BY DEF GroupsWhole
<1>3. \A s \in DOMAIN sent : sent[s] \in Span
  BY DEF GroupsWhole
<1> QED
  BY <1>1, <1>2, <1>3 DEF Span

LEMMA ApartSame ==
  ASSUME GroupsWhole, GroupsFormed, GroupsApart, UNCHANGED <<offered, busy, sent>>, Sending' => Sending,
         Ungrouped \in Int, Ungrouped' \in Int, Ungrouped <= Ungrouped'
  PROVE  GroupsApart'
<1>1. NoSpan' = NoSpan
  BY DEF NoSpan
<1> QED
  BY <1>1, EndsKnown DEF GroupsApart, Apart

LEMMA ApartOffered ==
  ASSUME GroupsWhole, GroupsFormed, GroupsApart, UNCHANGED <<busy, sent>>,
         Ungrouped \in Int, Ungrouped' \in Int, Ungrouped <= Ungrouped',
         offered'.from = Ungrouped, offered'.to \in Int, offered'.to < Ungrouped'
  PROVE  GroupsApart'
<1>1. NoSpan' = NoSpan
  BY DEF NoSpan
<1> QED
  BY <1>1, EndsKnown DEF GroupsApart, Apart

(* No step puts a line into two groups.                                    *)
LEMMA ApartStep ==
  ASSUME LogOK, Grouping, GroupsWhole, GroupsFormed, Stages, GroupsApart, [Next]_vars
  PROVE  GroupsApart'
<1>0. Len(log) \in Nat /\ from \in Int /\ Ungrouped \in Int /\ from <= Len(log) + 1 /\ NoSpan' = NoSpan
  BY LogBounds DEF Grouping, Ungrouped, NoSpan
<1>1. ASSUME NEW kept \in BOOLEAN, NextLine(kept), UNCHANGED <<gpc, from>>
      PROVE  Ungrouped' \in Int /\ Ungrouped <= Ungrouped'
  BY <1>0, <1>1, LineAdded DEF Ungrouped
<1>2. ASSUME UNCHANGED <<log, gpc, from, offered, busy, sent>> PROVE GroupsApart'
  <2>1. Ungrouped' = Ungrouped /\ (Sending' => Sending)
    BY <1>2 DEF Ungrouped, Sending
  <2> QED
    BY <1>0, <1>2, <2>1, ApartSame
<1>3. CASE DropLine
  <2>1. FALSE \in BOOLEAN /\ NextLine(FALSE) /\ UNCHANGED <<gpc, from, offered, busy, sent>>
    BY <1>3 DEF DropLine, grouper, workers, results
  <2>2. Sending' => Sending
    BY <2>1 DEF Sending
  <2> QED
    BY <1>0, <1>1, <2>1, <2>2, ApartSame
<1>4. CASE MySQLLine \/ PostgreSQLLine
  <2>1. TRUE \in BOOLEAN /\ NextLine(TRUE) /\ UNCHANGED <<busy, sent>> /\ gpc = "read" /\ gpc' \in {"read", "offer"}
    BY <1>4 DEF MySQLLine, PostgreSQLLine, workers, results
  <2>2. Len(log') = Len(log) + 1 /\ Ungrouped = from /\ Ungrouped' = from'
    BY <2>1, LineAdded DEF Ungrouped
  <2>3. CASE gpc' = "offer"
    <3>1. offered' = Group /\ from' = Len(log) + 1
      BY <1>4, <2>1, <2>3 DEF MySQLLine, PostgreSQLLine
    <3>2. offered'.from = from /\ offered'.to = Len(log)
      BY <3>1 DEF Group
    <3> QED
      BY <1>0, <2>1, <2>2, <3>1, <3>2, ApartOffered
  <2>4. CASE gpc' = "read"
    <3>1. offered' = offered /\ from' \in {from, Len(log) + 1}
      BY <1>4, <2>1, <2>4 DEF MySQLLine, PostgreSQLLine
    <3>2. Sending' => Sending
      BY <2>4 DEF Sending
    <3> QED
      BY <1>0, <2>1, <2>2, <3>1, <3>2, ApartSame
  <2> QED
    BY <2>1, <2>3, <2>4
<1>5. CASE MySQLEnd \/ PostgreSQLEnd
  <2>1. UNCHANGED <<log, busy, sent, from>> /\ gpc = "read" /\ gpc' \in {"offerLast", "wait"}
    BY <1>5 DEF MySQLEnd, PostgreSQLEnd, source, workers, results
  <2>2. Ungrouped = from /\ Ungrouped' = Len(log) + 1
    BY <2>1 DEF Ungrouped
  <2>3. CASE gpc' = "offerLast"
    <3>1. offered' = Group
      BY <1>5, <2>1, <2>3 DEF MySQLEnd, PostgreSQLEnd
    <3>2. offered'.from = from /\ offered'.to = Len(log)
      BY <3>1 DEF Group
    <3> QED
      BY <1>0, <2>1, <2>2, <3>1, <3>2, ApartOffered
  <2>4. CASE gpc' = "wait"
    <3>1. offered' = offered
      BY <1>5, <2>1, <2>4 DEF MySQLEnd, PostgreSQLEnd
    <3>2. Sending' => Sending
      BY <2>4 DEF Sending
    <3> QED
      BY <1>0, <2>1, <2>2, <3>1, <3>2, ApartSame
  <2> QED
    BY <2>1, <2>3, <2>4
<1>6. CASE Return
  <2>1. UNCHANGED <<log, offered, busy, sent>> /\ gpc = "wait" /\ gpc' = "returned"
    BY <1>6 DEF Return, source, workers, results
  <2>2. Ungrouped' = Ungrouped /\ (Sending' => Sending)
    BY <2>1 DEF Ungrouped, Sending
  <2> QED
    BY <1>0, <2>1, <2>2, ApartSame
<1>7. ASSUME NEW i \in 1 .. NumParsers, TakeGroup(i) PROVE GroupsApart'
  <2>1. /\ UNCHANGED <<log, from, sent>> /\ busy[i] = NoSpan /\ busy' = [busy EXCEPT ![i] = offered]
        /\ Sending /\ ~Sending' /\ Ungrouped' = Ungrouped
    BY <1>7 DEF TakeGroup, Free, source, results, Sending, Ungrouped
  <2>2. busy'[i] = offered /\ \A j \in 1 .. NumParsers : j # i => busy'[j] = busy[j]
    BY <2>1 DEF GroupsWhole
  <2> QED
    BY <1>0, <2>1, <2>2, EndsKnown DEF GroupsApart, Apart
<1>8. ASSUME NEW i \in 1 .. NumParsers, TakeLine(i) PROVE GroupsApart'
  <2>1. /\ TRUE \in BOOLEAN /\ NextLine(TRUE) /\ dialect = "lines" /\ UNCHANGED <<gpc, from, offered, sent>>
        /\ busy' = [busy EXCEPT ![i] = [from |-> Len(log'), to |-> Len(log')]]
    BY <1>8 DEF TakeLine, grouper, results
  <2>2. ~Sending /\ ~Sending' /\ Len(log') = Len(log) + 1 /\ Ungrouped = Len(log) + 1 /\ Ungrouped' = Len(log) + 2
    <3>1. gpc \in {"wait", "returned"} /\ gpc' = gpc
      BY <2>1 DEF Stages
    <3>2. Len(log') = Len(log) + 1
      BY <2>1, LineAdded
    <3>3. Ungrouped' = Len(log') + 1
      BY <3>1 DEF Ungrouped
    <3>4. Ungrouped' = Len(log) + 2
      BY <1>0, <3>2, <3>3
    <3> QED
      BY <3>1, <3>2, <3>4 DEF Sending, Ungrouped
  <2>3. /\ busy'[i].from = Len(log) + 1 /\ busy'[i].to = Len(log) + 1
        /\ \A j \in 1 .. NumParsers : j # i => busy'[j] = busy[j]
    BY <2>1, <2>2 DEF GroupsWhole
  <2>4. /\ \A j \in 1 .. NumParsers : busy[j] # NoSpan => busy[j].to \in Int /\ busy[j].to < Len(log) + 1
        /\ \A s \in DOMAIN sent : sent[s].to \in Int /\ sent[s].to < Len(log) + 1
    BY <2>2, EndsKnown DEF GroupsApart
  <2>5. ASSUME NEW j \in 1 .. NumParsers, busy'[j] # NoSpan
        PROVE  /\ busy'[j].to < Ungrouped'
               /\ \A k \in 1 .. NumParsers : j # k /\ busy'[k] # NoSpan => Apart(busy'[j], busy'[k])
               /\ \A s \in DOMAIN sent : Apart(sent[s], busy'[j])
    <3>1. CASE j = i
      BY <1>0, <2>2, <2>3, <2>4, <2>5, <3>1 DEF Apart
    <3>2. CASE j # i
      <4>1. busy'[j] = busy[j] /\ busy[j] # NoSpan
        BY <2>3, <2>5, <3>2
      <4>2. busy[j].to < Len(log) + 1 /\ busy[j].to < Ungrouped'
        BY <1>0, <2>2, <2>4, <4>1
      <4>3. ASSUME NEW k \in 1 .. NumParsers, j # k, busy'[k] # NoSpan PROVE Apart(busy[j], busy'[k])
        <5>1. CASE k = i
          BY <2>3, <4>2, <5>1 DEF Apart
        <5>2. CASE k # i
          BY <2>3, <4>1, <4>3, <5>2 DEF GroupsApart
        <5> QED
          BY <5>1, <5>2
      <4>4. \A s \in DOMAIN sent : Apart(sent[s], busy[j])
        BY <4>1 DEF GroupsApart
      <4> QED
        BY <4>1, <4>2, <4>3, <4>4
    <3> QED
      BY <3>1, <3>2
  <2>6. ASSUME NEW s \in DOMAIN sent
        PROVE  sent[s].to < Ungrouped' /\ \A r \in DOMAIN sent : r # s => Apart(sent[r], sent[s])
    BY <1>0, <2>2, <2>4, <2>6 DEF GroupsApart
  <2> QED
    BY <1>0, <2>1, <2>2, <2>5, <2>6 DEF GroupsApart, Apart
<1>9. ASSUME NEW i \in 1 .. NumParsers, HandleEvent(i) PROVE GroupsApart'
  <2>1. /\ UNCHANGED <<log, gpc, from, offered>> /\ busy[i] # NoSpan /\ busy' = [busy EXCEPT ![i] = NoSpan]
        /\ sent' = IF MakesEvent(busy[i]) THEN Append(sent, busy[i]) ELSE sent
    BY <1>9 DEF HandleEvent, source, grouper
  <2>2. Ungrouped' = Ungrouped /\ (Sending' <=> Sending)
    BY <2>1 DEF Ungrouped, Sending
  <2>3. busy'[i] = NoSpan /\ \A j \in 1 .. NumParsers : j # i => busy'[j] = busy[j]
    BY <2>1 DEF GroupsWhole
  <2>4. \A s \in DOMAIN sent' : (s \in DOMAIN sent /\ sent'[s] = sent[s]) \/ (s = Len(sent) + 1 /\ sent'[s] = busy[i])
    BY <2>1, Appended DEF GroupsWhole
  <2>5. ASSUME NEW j \in 1 .. NumParsers, busy'[j] # NoSpan
        PROVE  /\ busy'[j].to < Ungrouped'
               /\ Sending => Apart(busy'[j], offered)
               /\ \A k \in 1 .. NumParsers : j # k /\ busy'[k] # NoSpan => Apart(busy'[j], busy'[k])
               /\ \A s \in DOMAIN sent' : Apart(sent'[s], busy'[j])
    <3>1. j # i /\ busy'[j] = busy[j] /\ busy[j] # NoSpan
      BY <2>3, <2>5
    <3>2. \A k \in 1 .. NumParsers : busy'[k] # NoSpan => busy'[k] = busy[k]
      BY <2>3
    <3>3. Apart(busy[i], busy[j])
      BY <2>1, <3>1 DEF GroupsApart
    <3> QED
      BY <2>2, <2>4, <3>1, <3>2, <3>3 DEF GroupsApart
  <2>6. ASSUME NEW s \in DOMAIN sent'
        PROVE  /\ sent'[s].to < Ungrouped'
               /\ Sending => Apart(sent'[s], offered)
               /\ \A r \in DOMAIN sent' : r # s => Apart(sent'[r], sent'[s])
    <3>1. CASE s \in DOMAIN sent /\ sent'[s] = sent[s]
      BY <2>1, <2>2, <2>4, <3>1 DEF GroupsApart, Apart
    <3>2. CASE s = Len(sent) + 1 /\ sent'[s] = busy[i]
      BY <2>1, <2>2, <2>4, <3>2 DEF GroupsApart, Apart
    <3> QED
      BY <2>4, <3>1, <3>2
  <2>7. Sending' => offered'.to < Ungrouped'
    BY <2>1, <2>2 DEF GroupsApart
  <2> QED
    BY <1>0, <2>1, <2>2, <2>5, <2>6, <2>7 DEF GroupsApart, Apart
<1>10. ASSUME NEW i \in 1 .. NumParsers, TestPointer(i) \/ Dereference(i) \/ WorkerReturns(i)
       PROVE  GroupsApart'
  BY <1>2, <1>10 DEF TestPointer, Dereference, WorkerReturns, source, grouper, results
<1>11. CASE CloseStream \/ ServerStep \/ UNCHANGED vars
  BY <1>2, <1>11 DEF CloseStream, ServerStep, vars, source, grouper, workers, results
<1> QED
  BY <1>3, <1>4, <1>5, <1>6, <1>7, <1>8, <1>9, <1>10, <1>11 DEF Next, GrouperStep, WorkerStep

LEMMA LineWanted ==
  ASSUME LogOK, NEW kept \in BOOLEAN, NextLine(kept), NEW k \in DOMAIN log', log'[k].kept, Kind(k)' \in Wanted
  PROVE  \/ k \in DOMAIN log /\ log[k].kept /\ Kind(k) \in Wanted
         \/ k = Len(log) + 1 /\ kept
<1>1. CASE k \in DOMAIN log
  BY <1>1, LineAdded
<1>2. CASE k = Len(log) + 1
  BY <1>2, LineAdded
<1> QED
  BY <1>1, <1>2, LineAdded

LEMMA GroupedSame ==
  ASSUME UNCHANGED <<offered, busy, sent>>, Sending => Sending', sampled \subseteq sampled', NEW k, Grouped(k)
  PROVE  Grouped(k)'
  BY DEF Grouped, Covers, NoSpan

LEMMA NoneLostNext ==
  ASSUME \A k \in DOMAIN log' : k < Ungrouped' /\ log'[k].kept /\ Kind(k)' \in Wanted => Grouped(k)'
  PROVE  NoneLost'
  BY DEF NoneLost, Wanted

(* No step loses a statement.                                              *)
LEMMA NoneLostStep ==
  ASSUME ~Pings, LogOK, Grouping, GroupsWhole, GroupsFormed, Stages, NoneLost, [Next]_vars
  PROVE  NoneLost'
<1>0. /\ Len(log) \in Nat /\ from \in Int /\ from <= Len(log) + 1 /\ DOMAIN log = 1 .. Len(log)
      /\ Group.from = from /\ Group.to = Len(log) /\ NoSpan' = NoSpan
  BY LogBounds DEF Grouping, Group, NoSpan
<1>1. ASSUME UNCHANGED <<entries, log, offered, busy, sent, sampled>>, Sending => Sending', Ungrouped' = Ungrouped
      PROVE  NoneLost'
  <2>1. \A k : Kind(k)' = Kind(k)
    BY <1>1 DEF Kind
  <2> QED
    BY <1>1, <2>1, GroupedSame, NoneLostNext DEF NoneLost
<1>2. ASSUME UNCHANGED <<entries, log, gpc, from, offered, busy, sent, sampled>> PROVE NoneLost'
  BY <1>1, <1>2 DEF Sending, Ungrouped
<1>3. CASE DropLine
  <2>1. /\ FALSE \in BOOLEAN /\ NextLine(FALSE) /\ UNCHANGED <<gpc, from, offered, busy, sent, sampled>>
    BY <1>3 DEF DropLine, grouper, workers, results
  <2>2. ASSUME NEW k \in DOMAIN log', k < Ungrouped', log'[k].kept, Kind(k)' \in Wanted PROVE Grouped(k)'
    <3>1. k \in DOMAIN log /\ log[k].kept /\ Kind(k) \in Wanted
      BY <2>1, <2>2, LineWanted
    <3>2. k < Ungrouped
      BY <1>0, <2>1, <2>2, <3>1 DEF Ungrouped
    <3>3. Grouped(k)
      BY <3>1, <3>2 DEF NoneLost
    <3> QED
      BY <2>1, <3>3, GroupedSame DEF Sending
  <2> QED
    BY <2>2, NoneLostNext
<1>4. CASE MySQLLine \/ PostgreSQLLine
  <2>1. /\ TRUE \in BOOLEAN /\ NextLine(TRUE) /\ UNCHANGED <<busy, sent>> /\ gpc = "read"
        /\ gpc' \in {"read", "offer"}
    BY <1>4 DEF MySQLLine, PostgreSQLLine, workers, results
  <2>2. \/ gpc' = "offer" /\ offered' = Group /\ sampled' = sampled /\ from' = Len(log) + 1
        \/ gpc' = "read" /\ sampled' = sampled \cup {Group} /\ from' = Len(log) + 1
        \/ gpc' = "read" /\ sampled' = sampled /\ from' = from
    BY <1>4, <2>1 DEF MySQLLine, PostgreSQLLine, results
  <2>3. ~Sending /\ Ungrouped = from /\ Ungrouped' = from' /\ sampled \subseteq sampled'
    BY <2>1, <2>2 DEF Sending, Ungrouped
  <2>4. ASSUME NEW k \in DOMAIN log', k < Ungrouped', log'[k].kept, Kind(k)' \in Wanted PROVE Grouped(k)'
    <3>1. k \in DOMAIN log /\ log[k].kept /\ Kind(k) \in Wanted
      <4>1. from' \in Int /\ from' <= Len(log) + 1
        BY <1>0, <2>2
      <4>2. k \in 1 .. Len(log) + 1
        BY <2>1, LineAdded
      <4>3. k # Len(log) + 1
        BY <1>0, <2>3, <2>4, <4>1, <4>2
      <4> QED
        BY <2>1, <2>4, <4>3, LineWanted
    <3>2. CASE k < from
      <4>1. Grouped(k)
        BY <2>3, <3>1, <3>2 DEF NoneLost
      <4> QED
        BY <2>1, <2>3, <4>1 DEF Grouped, Covers
    <3>3. CASE ~(k < from)
      <4>1. Covers(Group, k) /\ from' = Len(log) + 1
        BY <1>0, <2>2, <2>3, <2>4, <3>1, <3>3 DEF Covers
      <4>2. CASE gpc' = "offer" /\ offered' = Group
        BY <4>1, <4>2 DEF Grouped, Covers, Sending
      <4>3. CASE Group \in sampled'
        BY <4>1, <4>3 DEF Grouped, Covers
      <4> QED
        BY <1>0, <2>2, <3>1, <3>3, <4>1, <4>2, <4>3
    <3> QED
      BY <3>2, <3>3
  <2> QED
    BY <2>4, NoneLostNext
<1>5. CASE MySQLEnd \/ PostgreSQLEnd
  <2>1. UNCHANGED <<dialect, entries, log, busy, sent, from>> /\ gpc = "read" /\ gpc' \in {"offerLast", "wait"}
    BY <1>5 DEF MySQLEnd, PostgreSQLEnd, source, workers, results
  <2>2. \/ gpc' = "offerLast" /\ offered' = Group /\ sampled' = sampled
        \/ sampled' = sampled \cup {Group}
        \/ dialect = "mysql" /\ ~found /\ sampled' = sampled
    BY <1>5 DEF MySQLEnd, PostgreSQLEnd, results
  <2>3. ~Sending /\ Ungrouped = from /\ Ungrouped' = Len(log) + 1 /\ sampled \subseteq sampled'
    BY <2>1, <2>2 DEF Sending, Ungrouped
  <2>4. ASSUME NEW k \in DOMAIN log', log'[k].kept, Kind(k)' \in Wanted PROVE Grouped(k)'
    <3>1. k \in DOMAIN log /\ log[k].kept /\ Kind(k) \in Wanted
      BY <2>1, <2>4 DEF Kind
    <3>2. CASE k < from
      <4>1. Grouped(k)
        BY <2>3, <3>1, <3>2 DEF NoneLost
      <4> QED
        BY <2>1, <2>3, <4>1 DEF Grouped, Covers
    <3>3. CASE ~(k < from)
      <4>1. Covers(Group, k) /\ from <= k
        BY <1>0, <3>1, <3>3 DEF Covers
      <4>2. CASE gpc' = "offerLast" /\ offered' = Group
        BY <4>1, <4>2 DEF Grouped, Covers, Sending
      <4>3. CASE Group \in sampled'
        BY <4>1, <4>3 DEF Grouped, Covers
      <4>4. CASE dialect = "mysql" /\ ~found
        BY <3>1, <4>1, <4>4 DEF Grouping, Comments, Wanted
      <4> QED
        BY <2>2, <4>2, <4>3, <4>4
    <3> QED
      BY <3>2, <3>3
  <2> QED
    BY <2>4, NoneLostNext
<1>6. CASE Return
  <2>1. UNCHANGED <<entries, log, offered, busy, sent, sampled>> /\ gpc = "wait" /\ gpc' = "returned"
    BY <1>6 DEF Return, source, workers, results
  <2> QED
    BY <1>1, <2>1 DEF Ungrouped, Sending
<1>7. ASSUME NEW i \in 1 .. NumParsers, TakeGroup(i) PROVE NoneLost'
  <2>1. /\ UNCHANGED <<entries, log, from, sent, sampled>> /\ busy[i] = NoSpan
        /\ busy' = [busy EXCEPT ![i] = offered] /\ Ungrouped' = Ungrouped
    BY <1>7 DEF TakeGroup, Free, source, results, Ungrouped
  <2>2. busy'[i] = offered /\ \A j \in 1 .. NumParsers : j # i => busy'[j] = busy[j]
    BY <2>1 DEF GroupsWhole
  <2>3. ASSUME NEW k \in DOMAIN log', k < Ungrouped', log'[k].kept, Kind(k)' \in Wanted PROVE Grouped(k)'
    <3>1. k \in DOMAIN log /\ k \in Nat /\ k >= 1 /\ Grouped(k)
      BY <1>0, <2>1, <2>3 DEF NoneLost, Kind
    <3>2. CASE Sending /\ Covers(offered, k)
      <4>1. offered # NoSpan
        BY <3>1, <3>2 DEF NoSpan, Covers
      <4>2. busy'[i] # NoSpan /\ Covers(busy'[i], k)
        BY <2>2, <3>2, <4>1
      <4> QED
        BY <4>2 DEF Grouped, Covers, NoSpan
    <3>3. CASE \E j \in 1 .. NumParsers : busy[j] # NoSpan /\ Covers(busy[j], k)
      <4>1. PICK j \in 1 .. NumParsers : busy[j] # NoSpan /\ Covers(busy[j], k)
        BY <3>3
      <4>2. busy'[j] = busy[j]
        BY <2>1, <2>2, <4>1
      <4> QED
        BY <4>1, <4>2 DEF Grouped, Covers, NoSpan
    <3>4. CASE (\E s \in DOMAIN sent : Covers(sent[s], k)) \/ (\E g \in sampled : Covers(g, k))
      BY <2>1, <3>4 DEF Grouped, Covers
    <3> QED
      BY <3>1, <3>2, <3>3, <3>4 DEF Grouped
  <2> QED
    BY <2>3, NoneLostNext
<1>8. ASSUME NEW i \in 1 .. NumParsers, TakeLine(i) PROVE NoneLost'
  <2>1. /\ TRUE \in BOOLEAN /\ NextLine(TRUE) /\ dialect = "lines" /\ UNCHANGED <<gpc, from, offered, sent, sampled>>
        /\ busy[i] = NoSpan /\ busy' = [busy EXCEPT ![i] = [from |-> Len(log'), to |-> Len(log')]]
    BY <1>8 DEF TakeLine, Free, grouper, results
  <2>2. ~Sending /\ Len(log') = Len(log) + 1 /\ Ungrouped = Len(log) + 1
    BY <2>1, LineAdded DEF Stages, Sending, Ungrouped
  <2>3. /\ busy'[i] = [from |-> Len(log) + 1, to |-> Len(log) + 1]
        /\ \A j \in 1 .. NumParsers : j # i => busy'[j] = busy[j]
    BY <2>1, <2>2 DEF GroupsWhole
  <2>4. ASSUME NEW k \in DOMAIN log', log'[k].kept, Kind(k)' \in Wanted PROVE Grouped(k)'
    <3>1. CASE k = Len(log) + 1
      <4>1. busy'[i] # NoSpan /\ Covers(busy'[i], k)
        BY <1>0, <2>3, <3>1 DEF NoSpan, Covers
      <4> QED
        BY <4>1 DEF Grouped, Covers, NoSpan
    <3>2. CASE k \in DOMAIN log /\ log[k].kept /\ Kind(k) \in Wanted
      <4>1. Grouped(k)
        BY <1>0, <2>2, <3>2 DEF NoneLost
      <4>2. \A j \in 1 .. NumParsers : busy[j] # NoSpan => busy'[j] = busy[j]
        BY <2>1, <2>3
      <4> QED
        BY <2>1, <2>2, <4>1, <4>2 DEF Grouped, Covers, NoSpan
    <3> QED
      BY <2>1, <2>4, <3>1, <3>2, LineWanted
  <2> QED
    BY <2>4, NoneLostNext
<1>9. ASSUME NEW i \in 1 .. NumParsers, HandleEvent(i) PROVE NoneLost'
  <2>1. /\ UNCHANGED <<entries, log, gpc, from, offered, sampled>> /\ busy[i] # NoSpan
        /\ busy' = [busy EXCEPT ![i] = NoSpan]
        /\ sent' = IF MakesEvent(busy[i]) THEN Append(sent, busy[i]) ELSE sent
    BY <1>9 DEF HandleEvent, source, grouper
  <2>2. Ungrouped' = Ungrouped /\ (Sending' <=> Sending)
    BY <2>1 DEF Ungrouped, Sending
  <2>3. \A j \in 1 .. NumParsers : j # i => busy'[j] = busy[j]
    BY <2>1 DEF GroupsWhole
  <2>4. \A s \in DOMAIN sent : s \in DOMAIN sent' /\ sent'[s] = sent[s]
    BY <2>1, Appended DEF GroupsWhole
  <2>5. MakesEvent(busy[i]) => \E s \in DOMAIN sent' : sent'[s] = busy[i]
    BY <2>1 DEF GroupsWhole
  <2>6. ASSUME NEW k \in DOMAIN log', k < Ungrouped', log'[k].kept, Kind(k)' \in Wanted PROVE Grouped(k)'
    <3>1. k \in DOMAIN log /\ log[k].kept /\ Kind(k) \in Wanted /\ Grouped(k)
      BY <2>1, <2>2, <2>6 DEF NoneLost, Kind
    <3>2. CASE Covers(busy[i], k)
      <4>1. PICK g : g = busy[i]
        OBVIOUS
      <4>2. k \in LinesOf(g) /\ Formed(g)
        BY <2>1, <3>1, <3>2, <4>1 DEF Covers, LinesOf, GroupsFormed
      <4>3. MakesEvent(busy[i])
        BY <3>1, <4>1, <4>2, EventHasStatement
      <4> QED
        BY <2>5, <3>2, <4>3 DEF Grouped, Covers
    <3>3. CASE \E j \in 1 .. NumParsers : j # i /\ busy[j] # NoSpan /\ Covers(busy[j], k)
      BY <2>3, <3>3 DEF Grouped, Covers, NoSpan
    <3>4. CASE \E s \in DOMAIN sent : Covers(sent[s], k)
      BY <2>4, <3>4 DEF Grouped, Covers
    <3>5. CASE (Sending /\ Covers(offered, k)) \/ (\E g \in sampled : Covers(g, k))
      BY <2>1, <2>2, <3>5 DEF Grouped, Covers
    <3> QED
      BY <3>1, <3>2, <3>3, <3>4, <3>5 DEF Grouped
  <2> QED
    BY <2>6, NoneLostNext
<1>10. ASSUME NEW i \in 1 .. NumParsers, TestPointer(i) \/ Dereference(i) \/ WorkerReturns(i)
       PROVE  NoneLost'
  BY <1>2, <1>10 DEF TestPointer, Dereference, WorkerReturns, source, grouper, results
<1>11. CASE CloseStream \/ ServerStep \/ UNCHANGED vars
  BY <1>2, <1>11 DEF CloseStream, ServerStep, vars, source, grouper, workers, results
<1> QED
  BY <1>3, <1>4, <1>5, <1>6, <1>7, <1>8, <1>9, <1>10, <1>11 DEF Next, GrouperStep, WorkerStep

(* No step sends an event without a statement.                             *)
LEMMA SentWantedStep ==
  ASSUME LogOK, Grouping, GroupsWhole, GroupsFormed, SentWanted, [Next]_vars
  PROVE  SentWanted'
<1>1. ASSUME NEW kept \in BOOLEAN, NextLine(kept), sent' = sent PROVE SentWanted'
  <2>1. ASSUME NEW g, NEW k \in LinesOf(g), Kind(k) \in Wanted
        PROVE  k \in DOMAIN log' /\ g.from <= k /\ k <= g.to /\ log'[k].kept /\ Kind(k)' \in Wanted
    BY <1>1, <2>1, LineAdded DEF LinesOf
  <2>2. ASSUME NEW s \in DOMAIN sent'
        PROVE  \E k \in DOMAIN log' :
                 sent'[s].from <= k /\ k <= sent'[s].to /\ log'[k].kept /\ Kind(k)' \in Wanted
    <3>1. s \in DOMAIN sent /\ sent'[s] = sent[s]
      BY <1>1, <2>2
    <3> QED
      BY <2>1, <3>1 DEF SentWanted
  <2> QED
    BY <2>2 DEF SentWanted, Wanted, LinesOf
<1>2. ASSUME UNCHANGED <<entries, log, sent>> PROVE SentWanted'
  BY <1>2 DEF SentWanted, Wanted, LinesOf, Kind
<1>3. ASSUME NEW i \in 1 .. NumParsers, HandleEvent(i) PROVE SentWanted'
  <2>1. /\ UNCHANGED <<entries, log>> /\ busy[i] # NoSpan
        /\ sent' = IF MakesEvent(busy[i]) THEN Append(sent, busy[i]) ELSE sent
    BY <1>3 DEF HandleEvent, source
  <2>2. PICK g : g = busy[i]
    OBVIOUS
  <2>3. MakesEvent(g) => \E k \in LinesOf(g) : Kind(k) \in Wanted
    BY <2>1, <2>2, EventHasStatement DEF GroupsFormed
  <2>4. \A s \in DOMAIN sent' : (s \in DOMAIN sent /\ sent'[s] = sent[s]) \/ (MakesEvent(g) /\ sent'[s] = g)
    BY <2>1, <2>2, Appended DEF GroupsWhole
  <2>5. ASSUME NEW s \in DOMAIN sent' PROVE \E k \in LinesOf(sent'[s]) : Kind(k) \in Wanted
    BY <2>3, <2>4 DEF SentWanted
  <2> QED
    BY <2>1, <2>5 DEF SentWanted, Wanted, LinesOf, Kind
<1>4. CASE DropLine
  <2>1. FALSE \in BOOLEAN /\ NextLine(FALSE) /\ sent' = sent
    BY <1>4 DEF DropLine, results
  <2> QED
    BY <1>1, <2>1
<1>5. CASE MySQLLine \/ PostgreSQLLine
  <2>1. TRUE \in BOOLEAN /\ NextLine(TRUE) /\ sent' = sent
    BY <1>5 DEF MySQLLine, PostgreSQLLine, results
  <2> QED
    BY <1>1, <2>1
<1>6. ASSUME NEW i \in 1 .. NumParsers, TakeLine(i) PROVE SentWanted'
  <2>1. TRUE \in BOOLEAN /\ NextLine(TRUE) /\ sent' = sent
    BY <1>6 DEF TakeLine, results
  <2> QED
    BY <1>1, <2>1
<1>7. CASE CloseStream \/ MySQLEnd \/ PostgreSQLEnd \/ Return \/ ServerStep \/ UNCHANGED vars
  BY <1>2, <1>7 DEF CloseStream, MySQLEnd, PostgreSQLEnd, Return, ServerStep, vars, source, results
<1>8. ASSUME NEW i \in 1 .. NumParsers,
             TakeGroup(i) \/ TestPointer(i) \/ Dereference(i) \/ WorkerReturns(i)
      PROVE  SentWanted'
  BY <1>2, <1>8 DEF TakeGroup, TestPointer, Dereference, WorkerReturns, source, results
<1> QED
  BY <1>3, <1>4, <1>5, <1>6, <1>7, <1>8 DEF Next, GrouperStep, WorkerStep

(* EveryStatement: when ProcessLines returns, each statement that arrived  *)
(* whole has been sent, once, but for those that were sampled, and nothing *)
(* else has.  Administrator pings take a mysql statement with them, and    *)
(* lines sampled before postgresql groups them tear its statements; but    *)
(* for these it holds.  About the groups, the workers and handleEvent.     *)
THEOREM EveryStatementIsSent ==
  ASSUME ~Pings, "postgresql" \notin Sampled
  PROVE  Spec => []EveryStatement
<1>1. Init => Accounted
  <2> SUFFICES ASSUME Init PROVE Accounted
    OBVIOUS
  <2>1. /\ log = <<>> /\ from = 1 /\ sent = <<>> /\ busy = [i \in 1 .. NumParsers |-> NoSpan]
        /\ gpc = (IF dialect = "lines" THEN "wait" ELSE "read")
    BY DEF Init
  <2>2. GroupsKnown
    BY <2>1, StatementsInit DEF GroupsKnown, GroupsFormed
  <2>3. Stages /\ GroupsApart
    BY <2>1 DEF Stages, GroupsApart, Sending
  <2>4. NoneLost /\ SentWanted
    BY <2>1 DEF NoneLost, SentWanted
  <2> QED
    BY <2>2, <2>3, <2>4 DEF Accounted
<1>2. Accounted /\ [Next]_vars => Accounted'
  BY GroupsStep, StagesStep, ApartStep, NoneLostStep, SentWantedStep DEF Accounted, GroupsKnown, StatementsWhole
<1>3. Accounted /\ NothingAfterReturn => EveryStatement
  <2> SUFFICES ASSUME Accounted, NothingAfterReturn, gpc = "returned" PROVE EveryStatement
    BY DEF EveryStatement
  <2>1. LogOK /\ GroupsApart /\ NoneLost /\ GroupsWhole /\ ~Sending /\ \A k \in DOMAIN log : k < Ungrouped
    BY LogBounds DEF Accounted, GroupsKnown, StatementsWhole, Sending, Ungrouped
  <2>2. \A i \in 1 .. NumParsers : busy[i] = NoSpan
    BY DEF NothingAfterReturn
  <2>3. ASSUME NEW e \in DOMAIN entries, Statement(e), \A g \in sampled : TextIn(g) \cap TextOf(e) = {}
        PROVE  \E s \in DOMAIN sent : /\ TextOf(e) \subseteq TextIn(sent[s])
                                      /\ \A r \in DOMAIN sent : TextIn(sent[r]) \cap TextOf(e) # {} => r = s
    <3>1. PICK k \in DOMAIN log : log[k].of = e /\ log[k].kept /\ Kind(k) \in Wanted
      BY <2>3 DEF Statement, Kind
    <3>2. Kind(k) \in Text /\ k \in TextOf(e)
      BY <3>1 DEF Wanted, Text, TextOf
    <3>3. Grouped(k)
      BY <2>1, <3>1 DEF NoneLost
    <3>4. \A g \in sampled : ~Covers(g, k)
      BY <2>3, <3>1, <3>2 DEF TextIn, LinesOf, Covers
    <3>5. PICK s \in DOMAIN sent : Covers(sent[s], k)
      BY <2>1, <2>2, <3>3, <3>4 DEF Grouped
    <3>6. PICK d \in DOMAIN entries : WholeOf(sent[s], d)
      BY <2>1 DEF GroupsWhole, Whole
    <3>7. d = e
      BY <3>1, <3>2, <3>5, <3>6 DEF WholeOf, Covers
    <3>8. TextOf(e) \subseteq TextIn(sent[s])
      BY <3>6, <3>7 DEF WholeOf, TextOf, TextIn, LinesOf
    <3>9. ASSUME NEW r \in DOMAIN sent, TextIn(sent[r]) \cap TextOf(e) # {} PROVE r = s
      <4>1. PICK j \in DOMAIN log : Covers(sent[r], j) /\ Covers(sent[s], j)
        BY <3>8, <3>9 DEF TextIn, LinesOf, Covers
      <4>2. /\ sent[r].from \in Int /\ sent[r].to \in Int /\ sent[s].from \in Int /\ sent[s].to \in Int
            /\ j \in Int
        <5>1. sent[r] \in Span /\ sent[s] \in Span
          BY <2>1 DEF GroupsWhole
        <5> QED
          BY <2>1, <5>1, LogBounds DEF Span
      <4>3. ~Apart(sent[r], sent[s])
        BY <4>1, <4>2 DEF Apart, Covers
      <4> QED
        BY <2>1, <4>3 DEF GroupsApart
    <3> QED
      BY <3>8, <3>9
  <2>4. \A s \in DOMAIN sent : \E k \in LinesOf(sent[s]) : Kind(k) \in Wanted
    BY DEF Accounted, SentWanted
  <2> QED
    BY <2>3, <2>4 DEF EveryStatement
<1> QED
  BY <1>1, <1>2, <1>3, NoLateSend, PTL DEF Spec
=============================================================================
