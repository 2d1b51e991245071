------------------------------ MODULE MCEvents ------------------------------
(***************************************************************************)
(* The scenarios in which TLC checks module Events.                        *)
(***************************************************************************)
EXTENDS Events, TLC

(* log10(2) : log10(3) is about 3 : 5.                                     *)
MCLog10 == <<0, 3, 5>>

Flags(parsers, rates) ==
  {[Defaults EXCEPT !.parser = p, !.sampleRate = r, !.backfill = b, !.readFrom = e, !.stop = s] :
     p \in parsers, r \in rates, b \in BOOLEAN, e \in {"last", "end"}, s \in BOOLEAN}

DynFlags == {[Defaults EXCEPT !.parser = p, !.sampleRate = r, !.dynSample = TRUE] :
               p \in {"mysql", "json"}, r \in {0, 1, 3}}

Text(date) == [kind |-> "text", empty |-> FALSE, date |-> date]
Empty      == [kind |-> "text", empty |-> TRUE, date |-> NoDate]
Number     == [kind |-> "other", empty |-> FALSE, date |-> NoDate]
IntDate(date) == [kind |-> "int", empty |-> FALSE, date |-> date]

Day(y, m, d) == [y |-> y, m |-> m, d |-> d]
Today  == Day(2024, 3, 1)
Before1 == Day(2024, 2, 28)
Before2 == Day(2024, 2, 29)

(* Sampling: every combination of flags, a line with one field; with       *)
(* dynamic sampling the parsers and rates.                                 *)
Plain == [fields |-> <<"a">> :> Text(NoDate)]
MySQLLine == Plain @@ [comment |-> NoDate, set |-> Before1]
Sampling ==
  {[flags |-> f, line |-> MySQLLine, now |-> Today] : f \in Flags({"mysql"}, 0 .. 3)}
  \cup {[flags |-> f, line |-> Plain, now |-> Today] : f \in Flags({"json"}, 0 .. 3)}
  \cup {[flags |-> f, line |-> MySQLLine, now |-> Today] : f \in DynFlags}
  \cup {[flags |-> [Defaults EXCEPT !.parser = "mysql"], now |-> Today,
         line |-> Plain @@ [comment |-> c, set |-> s]] :
          c \in {NoDate, Before1}, s \in {NoDate, Before2}}

(* Munging: the request, a field with the name of one of its parts, with   *)
(* and without the prefix.                                                 *)
Munged == {Request, <<"a">>}
MungeFlags ==
  {[Defaults EXCEPT !.parser = p, !.drop = d, !.scrub = s, !.add = a, !.shape = l,
                    !.prefixed = x, !.query = q, !.listed = TRUE] :
     p \in {"nginx", "json"}, d \in SUBSET Munged, s \in SUBSET Munged,
     a \in {{}, {Request}}, x \in BOOLEAN, q \in {"whitelist", "none"},
     l \in {<<>>, << <<"a">>, Request>>, <<Request, <<"request", "path">> >>}}
MungeLines ==
  {[f \in Munged \cup {<<"request", "path">>, <<"prefix", "request", "uri">>} |->
      IF f = Request THEN k ELSE Text(NoDate)] : k \in {Text(NoDate), Number}}
Munging == {[flags |-> f, line |-> [fields |-> m], now |-> Today] : f \in MungeFlags, m \in MungeLines}

(* Times: fields that hold different dates, no date, no text or nothing.   *)
TimeLines ==
  [{<<"time">>, <<"date">>} -> {Text(Before1), Text(NoDate), Empty, Number, IntDate(Before2)}]
NginxLines ==
  {f :> c @@ (<<"time">> :> Text(Before1)) :
     f \in {<<"time_local">>, <<"time_iso8601">>, <<"timestamp">>}, c \in {Text(Before2), Text(NoDate)}}
Times ==
  {[flags |-> [Defaults EXCEPT !.timeField = t], line |-> [fields |-> m], now |-> Today] :
     t \in {NoField, <<"date">>, <<"timestamp">>}, m \in TimeLines}
  \cup {[flags |-> [Defaults EXCEPT !.parser = "nginx", !.timeField = t, !.timeFormat = o],
          line |-> [fields |-> m], now |-> Today] :
          t \in {NoField, <<"time">>}, o \in BOOLEAN, m \in NginxLines}

(* MongoDB: days around the turn of the year and of February, namespaces   *)
(* of the line and of a changelog, lock counts.                            *)
Days == {Day(y, t[1], t[2]) : y \in 2023 .. 2025, t \in {<<1, 1>>, <<2, 28>>, <<2, 29>>, <<3, 1>>, <<12, 31>>}}
Mongo == [Defaults EXCEPT !.parser = "mongodb"]
Dates ==
  {[flags |-> Mongo, now |-> n, line |-> [values |-> <<"op">> :> Value(<<"op">>, TRUE, FALSE), date |-> d, year |-> y]] :
     n \in {d \in Days : Real(d)}, d \in {d \in Days : Real(d)}, y \in BOOLEAN}

SomeLocks == [scope : Scopes, attr : {"acquireCount", "timeAcquiringMicros", "deadlockCount"}, type : {"r", "R", "W"}]
Maps(S, f) == {[map |-> s] : s \in S} \cup {Value(f, TRUE, FALSE)}  \* or a text
Nested ==
  {n @@ c @@ l : n \in {<<>>} \cup {Namespace :> Value(<<"namespace">>, TRUE, d) : d \in BOOLEAN},
                 c \in {<<>>} \cup {Changelog :> x : x \in Maps({"none", "plain", "dotted", "other"}, Changelog)},
                 l \in {<<>>} \cup {LocksMicros :> x : x \in Maps({LockTypes}, LocksMicros)}
                              \cup {Locks :> x : x \in Maps({SomeLocks, {}}, Locks)}}
Values == {[flags |-> [Mongo EXCEPT !.scrub = s], now |-> Today, line |-> [values |-> v, date |-> Before1, year |-> TRUE]] :
             s \in {{}, {Namespace}}, v \in Nested}

MCScenarios == Sampling \cup Munging \cup Times \cup Dates \cup Values
=============================================================================
