------------------------- MODULE ProcessLinesProofs -------------------------
(***************************************************************************)
(* Of ProcessLines, for every parser, every number of workers and every    *)
(* log: NothingAfterReturn, SurvivesPolling, the type invariant and, when  *)
(* no lines are dropped in front of postgresql, WholeStatements.           *)
(***************************************************************************)
EXTENDS ProcessLines, TLAPS

(* A worker that has returned, and one that does not exist for this        *)
(* parser, holds nothing; and ProcessLines returns only when every worker  *)
(* has.  The second needs the first: Free is what a worker must be both to *)
(* receive a group and to return.                                          *)
OnlyWorkersBusy ==
  /\ busy \in [1 .. NumParsers -> [from : Int, to : Int]]
  /\ \A i \in 1 .. NumParsers : i \in ended \/ i \notin Workers => busy[i] = NoSpan
  /\ gpc = "returned" => Workers \subseteq ended
  /\ offered \in [from : Int, to : Int] /\ from \in Int

LEMMA NextLineKeepsDialect ==
  ASSUME NEW kept, NextLine(kept)
  PROVE  dialect' = dialect
  BY DEF NextLine

(* Once a worker has returned it does not take up another group, so that   *)
(* nothing is sent to the closed channel of events.  About the WaitGroups  *)
(* and channels of ProcessLines and handleEvents.                          *)
THEOREM NoLateSend == Spec => []NothingAfterReturn
<1>1. Init => OnlyWorkersBusy
  BY DEF Init, OnlyWorkersBusy, NoSpan
<1>2. OnlyWorkersBusy /\ [Next]_vars => OnlyWorkersBusy'
  <2> SUFFICES ASSUME OnlyWorkersBusy, [Next]_vars
               PROVE  OnlyWorkersBusy'
    OBVIOUS
  <2> USE DEF OnlyWorkersBusy, Workers, NoSpan
  <2>1. CASE CloseStream
    BY <2>1 DEF CloseStream, grouper, workers
  <2>2. CASE DropLine
    BY <2>2, NextLineKeepsDialect DEF DropLine, grouper, workers
  <2>3. CASE MySQLLine
    <3>1. dialect' = dialect /\ busy' = busy /\ ended' = ended /\ gpc' \in {"read", "offer"}
      BY <2>3, NextLineKeepsDialect DEF MySQLLine, workers
    <3>2. Len(log) + 1 \in Int /\ Group \in [from : Int, to : Int]
      BY DEF Group
    <3>3. from' \in Int /\ offered' \in [from : Int, to : Int]
      BY <2>3, <3>2 DEF MySQLLine
    <3> QED
      BY <3>1, <3>3
  <2>4. CASE MySQLEnd
    <3>1. Group \in [from : Int, to : Int]
      BY DEF Group
    <3> QED
      BY <2>4, <3>1 DEF MySQLEnd, source, workers
  <2>5. CASE PostgreSQLLine
    <3>1. dialect' = dialect /\ busy' = busy /\ ended' = ended /\ gpc' \in {"read", "offer"}
      BY <2>5, NextLineKeepsDialect DEF PostgreSQLLine, workers
    <3>2. Len(log) + 1 \in Int /\ Group \in [from : Int, to : Int]
      BY DEF Group
    <3>3. from' \in Int /\ offered' \in [from : Int, to : Int]
      BY <2>5, <3>2 DEF PostgreSQLLine
    <3> QED
      BY <3>1, <3>3
  <2>6. CASE PostgreSQLEnd
    <3>1. Group \in [from : Int, to : Int]
      BY DEF Group
    <3> QED
      BY <2>6, <3>1 DEF PostgreSQLEnd, source, workers
  <2>7. CASE Return
    BY <2>7 DEF Return, source, workers
  <2>8. ASSUME NEW i \in 1 .. NumParsers, TakeGroup(i)
        PROVE  OnlyWorkersBusy'
    BY <2>8 DEF TakeGroup, Free, source
  <2>9. ASSUME NEW i \in 1 .. NumParsers, TakeLine(i)
        PROVE  OnlyWorkersBusy'
    <3>1. dialect' = dialect
      BY <2>9, NextLineKeepsDialect DEF TakeLine
    <3>2. Len(log') \in Int
      BY <2>9 DEF TakeLine, NextLine
    <3> QED
      BY <2>9, <3>1, <3>2 DEF TakeLine, Free, grouper
  <2>10. ASSUME NEW i \in 1 .. NumParsers, HandleEvent(i)
         PROVE  OnlyWorkersBusy'
    BY <2>10 DEF HandleEvent, source, grouper
  <2>11. ASSUME NEW i \in 1 .. NumParsers, WorkerReturns(i)
         PROVE  OnlyWorkersBusy'
    BY <2>11 DEF WorkerReturns, Free, source, grouper
  <2>12. ASSUME NEW i \in 1 .. NumParsers, TestPointer(i) \/ Dereference(i)
         PROVE  OnlyWorkersBusy'
    BY <2>12 DEF TestPointer, Dereference, source, grouper
  <2>13. CASE ServerStep
    BY <2>13 DEF ServerStep, source, grouper, workers
  <2>14. CASE UNCHANGED vars
    BY <2>14 DEF vars, source, grouper, workers
  <2> QED
    BY <2>1, <2>2, <2>3, <2>4, <2>5, <2>6, <2>7, <2>8, <2>9, <2>10, <2>11, <2>12, <2>13, <2>14
       DEF Next, GrouperStep, WorkerStep
<1>3. OnlyWorkersBusy => NothingAfterReturn
  BY DEF OnlyWorkersBusy, NothingAfterReturn
<1> QED
  BY <1>1, <1>2, <1>3, PTL DEF Spec
-----------------------------------------------------------------------------
(* While the server is what Init found, it answers what it answered, and a *)
(* pointer that was not nil when tested stays so.                          *)
Answers(a) == IF a = "read_only" THEN GetReadOnly(server) ELSE GetReplicaLag(server)

HeldStays ==
  /\ polling \in {"read_only", "replica_lag"}
  /\ ~changed => \A a \in pointers : Answers(a)
  /\ ~changed => \A i \in held : next[i] \in pointers
  /\ panicked => changed
  /\ next \in [1 .. NumParsers -> {"read_only", "replica_lag", "none"}]
  /\ held \subseteq 1 .. NumParsers /\ \A i \in held : next[i] # "none"

(* SurvivesPolling: a worker panics only when the server has changed.      *)
(* About the pointers that Init's goroutine sets and handleEvents reads.   *)
THEOREM PollingIsSurvived == Spec => []SurvivesPolling
<1>1. Init => HeldStays
  BY DEF Init, HeldStays, ServerInit
<1>2. HeldStays /\ [Next]_vars => HeldStays'
  <2> SUFFICES ASSUME HeldStays, [Next]_vars
               PROVE  HeldStays'
    OBVIOUS
  <2> USE DEF HeldStays, Answers
  <2>1. CASE UNCHANGED <<next, held, panicked, serverState>>
    BY <2>1 DEF serverState
  <2>2. ASSUME NEW i \in 1 .. NumParsers, TestPointer(i) PROVE HeldStays'
    <3>1. UNCHANGED <<panicked, serverState>> /\ next[i] # "none" /\ i \notin held
      BY <2>2 DEF TestPointer
    <3>2. CASE next[i] \in pointers
      <4>1. held' = held \cup {i} /\ next' = next
        BY <2>2, <3>2 DEF TestPointer
      <4> QED
        BY <3>1, <3>2, <4>1 DEF serverState
    <3>3. CASE next[i] \notin pointers
      <4>1. held' = held /\ next' = [next EXCEPT ![i] = After(@)]
        BY <2>2, <3>3 DEF TestPointer
      <4>2. \A j \in held : next'[j] = next[j]
        BY <3>1, <4>1
      <4> QED
        BY <3>1, <4>1, <4>2 DEF serverState, After
    <3> QED
      BY <3>2, <3>3
  <2>3. ASSUME NEW i \in 1 .. NumParsers, ~panicked, Dereference(i) PROVE HeldStays'
    <3>1. /\ UNCHANGED serverState /\ i \in held /\ held' = held \ {i}
          /\ next' = [next EXCEPT ![i] = After(@)] /\ panicked' = (next[i] \notin pointers)
      BY <2>3 DEF Dereference
    <3>2. \A j \in held' : next'[j] = next[j]
      BY <3>1
    <3> QED
      BY <3>1, <3>2 DEF serverState, After
  <2>4. ASSUME NEW i \in 1 .. NumParsers, HandleEvent(i) PROVE HeldStays'
    <3>1. UNCHANGED <<held, panicked, serverState>> /\ i \notin held /\ next' = [next EXCEPT ![i] = "read_only"]
      BY <2>4 DEF HandleEvent
    <3> QED
      BY <3>1 DEF serverState
  <2>5. CASE ServerStep
    <3>1. UNCHANGED <<next, held, panicked>>
      BY <2>5 DEF ServerStep, workers
    <3>2. CASE Poll
      BY <3>1, <3>2 DEF Poll
    <3>3. CASE ServerChanges
      BY <3>1, <3>3 DEF ServerChanges
    <3> QED
      BY <2>5, <3>2, <3>3 DEF ServerStep
  <2> QED
    BY <2>1, <2>2, <2>3, <2>4, <2>5
       DEF Next, GrouperStep, WorkerStep, vars, workers, CloseStream, DropLine, MySQLLine, MySQLEnd,
           PostgreSQLLine, PostgreSQLEnd, Return, TakeGroup, TakeLine, WorkerReturns
<1>3. HeldStays => SurvivesPolling
  BY DEF HeldStays, SurvivesPolling
<1> QED
  BY <1>1, <1>2, <1>3, PTL DEF Spec
-----------------------------------------------------------------------------
Line == [of : Nat, n : Nat, kept : BOOLEAN]
Span == [from : Int, to : Int]
Kinds == {"comment", "note", "set", "use", "part", "end", "ping", "slow", "ignored", "other", "more", "event", "skip"}

(* The lines of the log are those of the entries, in their order, without  *)
(* a gap but at the start.                                                 *)
LogOK ==
  /\ dialect \in {"mysql", "postgresql", "lines"}
  /\ entries \in Seq(Seq(Kinds))
  /\ \A e \in DOMAIN entries : entries[e] \in Entries(dialect)
  /\ log \in Seq(Line)
  /\ \A k \in DOMAIN log : log[k].of \in DOMAIN entries /\ log[k].n \in DOMAIN entries[log[k].of]
  /\ log = <<>> => entries = <<>>
  /\ log # <<>> => log[Len(log)].of = Len(entries)
  /\ \A j, k \in DOMAIN log :
       j <= k => /\ log[j].of <= log[k].of
                 /\ log[j].of = log[k].of => log[k].n - log[j].n = k - j

(* What a line adds to the log.                                            *)
Added(kept) ==
  /\ ~closed /\ ~closed' /\ dialect' = dialect
  /\ Len(log') = Len(log) + 1 /\ log'[Len(log')].kept = kept
  /\ \A k \in DOMAIN log : k \in DOMAIN log' /\ log'[k] = log[k] /\ Kind(k)' = Kind(k)
  /\ \A e \in DOMAIN entries : e \in DOMAIN entries' /\ entries'[e] = entries[e]
  /\ NewKind = Kind(Len(log))'
  /\ \/ /\ Len(entries') = Len(entries) + 1
        /\ log # <<>> => log'[Len(log')].n = 1
     \/ /\ Len(entries') = Len(entries) /\ log # <<>>
        /\ log'[Len(log')].n = log[Len(log)].n + 1

(* The lines of a mysql entry that are not comments follow one another,    *)
(* and come after its first line.                                          *)
LEMMA MySQLEntry ==
  ASSUME NEW new \in Entries("mysql")
  PROVE  /\ new \in Seq(Kinds) /\ Len(new) \in 1 .. 5
         /\ new[1] \in Comments
         /\ \A i, j, k \in DOMAIN new :
              i < j /\ j < k /\ new[i] \notin Comments /\ new[k] \notin Comments => new[j] \notin Comments
<1>1. new \in {<<"comment", "set", "end">>, <<"comment", "set", "end", "part", "end">>,
              <<"note", "use", "set", "part", "end">>,
              <<"comment", "use", "set", "note">>, <<"comment", "set", "note">>, <<"note">>}
             \cup (IF Pings THEN {<<"comment", "set", "ping">>} ELSE {})
  BY Zenon DEF Entries
<1>2. \/ new = <<"comment", "set", "end">>            \/ new = <<"comment", "set", "end", "part", "end">>
      \/ new = <<"note", "use", "set", "part", "end">>
      \/ new = <<"comment", "use", "set", "note">> \/ new = <<"comment", "set", "note">>
      \/ new = <<"note">>                          \/ new = <<"comment", "set", "ping">>
  BY <1>1
<1>3. CASE new = <<"comment", "set", "end">>
  <2>1. new \in Seq(Kinds) /\ Len(new) \in 1 .. 5
    BY <1>3 DEF Kinds
  <2> QED
    BY <1>3, <2>1 DEF Comments
<1>4. CASE new = <<"comment", "set", "end", "part", "end">>
  <2>1. new \in Seq(Kinds) /\ Len(new) \in 1 .. 5
    BY <1>4 DEF Kinds
  <2> QED
    BY <1>4, <2>1 DEF Comments
<1>5. CASE new = <<"note", "use", "set", "part", "end">>
  <2>1. new \in Seq(Kinds) /\ Len(new) \in 1 .. 5
    BY <1>5 DEF Kinds
  <2> QED
    BY <1>5, <2>1 DEF Comments
<1>6. CASE new = <<"comment", "use", "set", "note">>
  <2>1. new \in Seq(Kinds) /\ Len(new) \in 1 .. 5
    BY <1>6 DEF Kinds
  <2> QED
    BY <1>6, <2>1 DEF Comments
<1>7. CASE new = <<"comment", "set", "note">>
  <2>1. new \in Seq(Kinds) /\ Len(new) \in 1 .. 5
    BY <1>7 DEF Kinds
  <2> QED
    BY <1>7, <2>1 DEF Comments
<1>8. CASE new = <<"note">>
  <2>1. new \in Seq(Kinds) /\ Len(new) \in 1 .. 5
    BY <1>8 DEF Kinds
  <2> QED
    BY <1>8, <2>1 DEF Comments
<1>9. CASE new = <<"comment", "set", "ping">>
  <2>1. new \in Seq(Kinds) /\ Len(new) \in 1 .. 5
    BY <1>9 DEF Kinds
  <2> QED
    BY <1>9, <2>1 DEF Comments
<1> QED
  BY <1>2, <1>3, <1>4, <1>5, <1>6, <1>7, <1>8, <1>9

(* Every line of a postgresql entry but the first is a continuation.       *)
LEMMA PostgreSQLEntry ==
  ASSUME NEW new \in Entries("postgresql")
  PROVE  /\ new \in Seq(Kinds) /\ Len(new) \in 1 .. 5
         /\ \A i \in DOMAIN new : new[i] \in {"slow", "ignored", "other"} <=> i = 1
<1>1. new \in {<<"slow">>, <<"slow", "more">>, <<"ignored", "more">>, <<"other", "more">>}
  BY Zenon DEF Entries
<1>2. \/ new = <<"slow">>            \/ new = <<"slow", "more">>
      \/ new = <<"ignored", "more">> \/ new = <<"other", "more">>
  BY <1>1
<1>3. CASE new = <<"slow">>
  <2>1. new \in Seq(Kinds) /\ Len(new) \in 1 .. 5
    BY <1>3 DEF Kinds
  <2> QED
    BY <1>3, <2>1
<1>4. CASE new = <<"slow", "more">>
  <2>1. new \in Seq(Kinds) /\ Len(new) \in 1 .. 5
    BY <1>4 DEF Kinds
  <2> QED
    BY <1>4, <2>1
<1>5. CASE new = <<"ignored", "more">>
  <2>1. new \in Seq(Kinds) /\ Len(new) \in 1 .. 5
    BY <1>5 DEF Kinds
  <2> QED
    BY <1>5, <2>1
<1>6. CASE new = <<"other", "more">>
  <2>1. new \in Seq(Kinds) /\ Len(new) \in 1 .. 5
    BY <1>6 DEF Kinds
  <2> QED
    BY <1>6, <2>1
<1> QED
  BY <1>2, <1>3, <1>4, <1>5, <1>6

LEMMA LineEntry ==
  ASSUME NEW new \in Entries("lines")
  PROVE  new \in Seq(Kinds) /\ Len(new) = 1
<1>1. new \in {<<"event">>, <<"skip">>}
  BY Zenon DEF Entries
<1>2. new = <<"event">> \/ new = <<"skip">>
  BY <1>1
<1>3. <<"event">> \in Seq(Kinds) /\ <<"skip">> \in Seq(Kinds)
  BY DEF Kinds
<1> QED
  BY <1>2, <1>3

LEMMA EntriesAreSequences ==
  ASSUME NEW d \in {"mysql", "postgresql", "lines"}, NEW new \in Entries(d)
  PROVE  new \in Seq(Kinds) /\ Len(new) \in 1 .. 5
  BY MySQLEntry, PostgreSQLEntry, LineEntry

LEMMA Appended ==
  ASSUME NEW S, NEW s \in Seq(S), NEW x \in S
  PROVE  /\ Append(s, x) \in Seq(S) /\ Len(Append(s, x)) = Len(s) + 1 /\ Append(s, x) # <<>>
         /\ Len(s) \in Nat /\ Append(s, x)[Len(s) + 1] = x
         /\ \A k \in DOMAIN s : k \in DOMAIN Append(s, x) /\ Append(s, x)[k] = s[k]
         /\ \A k \in DOMAIN Append(s, x) : k \in DOMAIN s \/ k = Len(s) + 1
  OBVIOUS

LEMMA NextLineAdds ==
  ASSUME LogOK, NEW kept \in BOOLEAN, NextLine(kept)
  PROVE  LogOK' /\ Added(kept)
<1> DEFINE L == Len(log)
<1>0. /\ ~closed /\ closed' = closed /\ dialect' = dialect /\ L \in Nat
  BY DEF NextLine, LogOK
<1>1. ASSUME log # <<>>, log[L].n < Len(entries[Len(entries)]), entries' = entries,
             log' = Append(log, [of |-> Len(entries), n |-> log[L].n + 1, kept |-> kept])
      PROVE  LogOK' /\ Added(kept)
  <2>1. L \in DOMAIN log /\ Len(entries) \in DOMAIN entries /\ log[L].n \in Nat /\ log[L].of = Len(entries)
    <3>1. log \in Seq(Line) /\ L \in DOMAIN log
      BY <1>1 DEF LogOK
    <3> QED
      BY <1>1, <3>1 DEF LogOK, Line
  <2>2. entries[Len(entries)] \in Seq(Kinds)
    BY <2>1 DEF LogOK
  <2>3. log[L].n + 1 \in DOMAIN entries[Len(entries)]
    BY <1>1, <2>1, <2>2
  <2>4. /\ log' \in Seq(Line) /\ Len(log') = L + 1 /\ log' # <<>>
        /\ log'[L + 1] = [of |-> Len(entries), n |-> log[L].n + 1, kept |-> kept]
        /\ \A k \in DOMAIN log : k \in DOMAIN log' /\ log'[k] = log[k]
        /\ \A k \in DOMAIN log' : k \in DOMAIN log \/ k = L + 1
    <3>1. [of |-> Len(entries), n |-> log[L].n + 1, kept |-> kept] \in Line
      BY <2>1 DEF Line, LogOK
    <3>2. log \in Seq(Line)
      BY DEF LogOK
    <3> QED
      BY <1>1, <3>1, <3>2, Appended
  <2>5. \A j, k \in DOMAIN log' :
          j <= k => /\ log'[j].of <= log'[k].of
                    /\ log'[j].of = log'[k].of => log'[k].n - log'[j].n = k - j
    <3> SUFFICES ASSUME NEW j \in DOMAIN log', NEW k \in DOMAIN log', j <= k
                 PROVE  /\ log'[j].of <= log'[k].of
                        /\ log'[j].of = log'[k].of => log'[k].n - log'[j].n = k - j
      OBVIOUS
    <3>1. CASE k \in DOMAIN log
      <4>1. j \in DOMAIN log
        BY <3>1, <2>4
      <4> QED
        BY <3>1, <4>1, <2>4 DEF LogOK
    <3>2. CASE k = L + 1 /\ j = L + 1
      BY <3>2, <2>4, <2>1
    <3>3. CASE k = L + 1 /\ j \in DOMAIN log
      <4>1. log[j].of <= log[L].of /\ (log[j].of = log[L].of => log[L].n - log[j].n = L - j)
        BY <3>3, <2>1 DEF LogOK
      <4>2. log[j] \in Line /\ j \in Nat /\ log'[j] = log[j]
        BY <3>3, <2>4 DEF LogOK
      <4>3. log'[k] = [of |-> Len(entries), n |-> log[L].n + 1, kept |-> kept] /\ k = L + 1
        BY <3>3, <2>4
      <4>4. log[j].n \in Int /\ log[j].of \in Int
        BY <4>2 DEF Line
      <4>5. log'[k].n = log[L].n + 1 /\ log'[k].of = Len(entries) /\ log'[j].of = log[j].of /\ log'[j].n = log[j].n
        BY <4>2, <4>3
      <4> QED
        BY <4>1, <4>2, <4>4, <4>5, <3>3, <1>0, <2>1
    <3> QED
      BY <3>1, <3>2, <3>3, <2>4
  <2>6. LogOK'
    <3>1. \A k \in DOMAIN log' : log'[k].of \in DOMAIN entries' /\ log'[k].n \in DOMAIN entries'[log'[k].of]
      BY <1>1, <2>1, <2>3, <2>4 DEF LogOK
    <3>2. log'[Len(log')].of = Len(entries')
      BY <1>1, <2>4
    <3> QED
      BY <1>0, <1>1, <2>4, <2>5, <3>1, <3>2 DEF LogOK
  <2>7. \A k \in DOMAIN log : Kind(k)' = Kind(k)
    BY <1>1, <2>4 DEF Kind
  <2> QED
    BY <1>0, <1>1, <2>1, <2>4, <2>6, <2>7 DEF Added, NewKind, Kind
<1>2. ASSUME log # <<>> => log[L].n = Len(entries[Len(entries)]), NEW new \in Entries(dialect),
             entries' = Append(entries, new),
             NEW first \in IF log = <<>> THEN DOMAIN new ELSE {1},
             log' = Append(log, [of |-> Len(entries) + 1, n |-> first, kept |-> kept])
      PROVE  LogOK' /\ Added(kept)
  <2>1. new \in Seq(Kinds) /\ Len(new) \in 1 .. 5
    BY EntriesAreSequences DEF LogOK
  <2>2. first \in DOMAIN new /\ first \in Nat
    BY <2>1
  <2>3. /\ entries' \in Seq(Seq(Kinds)) /\ Len(entries') = Len(entries) + 1 /\ Len(entries) \in Nat
        /\ entries'[Len(entries) + 1] = new
        /\ \A e \in DOMAIN entries : e \in DOMAIN entries' /\ entries'[e] = entries[e]
        /\ \A e \in DOMAIN entries' : e \in DOMAIN entries \/ e = Len(entries) + 1
    BY <1>2, <2>1, Appended DEF LogOK
  <2>4. /\ log' \in Seq(Line) /\ Len(log') = L + 1 /\ log' # <<>>
        /\ log'[L + 1] = [of |-> Len(entries) + 1, n |-> first, kept |-> kept]
        /\ \A k \in DOMAIN log : k \in DOMAIN log' /\ log'[k] = log[k]
        /\ \A k \in DOMAIN log' : k \in DOMAIN log \/ k = L + 1
    <3>1. [of |-> Len(entries) + 1, n |-> first, kept |-> kept] \in Line
      BY <2>2, <2>3 DEF Line
    <3>2. log \in Seq(Line)
      BY DEF LogOK
    <3> QED
      BY <1>2, <3>1, <3>2, Appended
  <2>5. \A j, k \in DOMAIN log' :
          j <= k => /\ log'[j].of <= log'[k].of
                    /\ log'[j].of = log'[k].of => log'[k].n - log'[j].n = k - j
    <3> SUFFICES ASSUME NEW j \in DOMAIN log', NEW k \in DOMAIN log', j <= k
                 PROVE  /\ log'[j].of <= log'[k].of
                        /\ log'[j].of = log'[k].of => log'[k].n - log'[j].n = k - j
      OBVIOUS
    <3>1. CASE k \in DOMAIN log
      <4>1. j \in DOMAIN log
        BY <3>1, <2>4
      <4> QED
        BY <3>1, <4>1, <2>4 DEF LogOK
    <3>2. CASE k = L + 1 /\ j = L + 1
      BY <3>2, <2>4, <2>2, <2>3
    <3>3. CASE k = L + 1 /\ j \in DOMAIN log
      BY <3>3, <2>3, <2>4 DEF LogOK
    <3> QED
      BY <3>1, <3>2, <3>3, <2>4
  <2>6. \A k \in DOMAIN log : entries'[log[k].of] = entries[log[k].of]
    BY <2>3 DEF LogOK
  <2>7. \A k \in DOMAIN log' : log'[k].of \in DOMAIN entries' /\ log'[k].n \in DOMAIN entries'[log'[k].of]
    <3> SUFFICES ASSUME NEW k \in DOMAIN log'
                 PROVE  log'[k].of \in DOMAIN entries' /\ log'[k].n \in DOMAIN entries'[log'[k].of]
      OBVIOUS
    <3>1. CASE k \in DOMAIN log
      BY <3>1, <2>3, <2>4, <2>6 DEF LogOK
    <3>2. CASE k = L + 1
      BY <3>2, <2>2, <2>3, <2>4
    <3> QED
      BY <3>1, <3>2, <2>4
  <2>8. \A e \in DOMAIN entries' : entries'[e] \in Entries(dialect)
    BY <2>3 DEF LogOK
  <2>9. LogOK'
    <3>1. log'[Len(log')].of = Len(entries')
      BY <2>3, <2>4
    <3> QED
      BY <1>0, <2>3, <2>4, <2>5, <2>7, <2>8, <3>1 DEF LogOK
  <2>10. \A k \in DOMAIN log : Kind(k)' = Kind(k)
    BY <2>4, <2>6 DEF Kind
  <2>11. log # <<>> => log'[Len(log')].n = 1
    BY <1>2, <2>4
  <2>12. NewKind = Kind(Len(log))' /\ log'[Len(log')].kept = kept
    BY <2>4 DEF NewKind, Kind
  <2> QED
    BY <1>0, <2>3, <2>4, <2>9, <2>10, <2>11, <2>12 DEF Added
<1> QED
  BY <1>1, <1>2 DEF NextLine
-----------------------------------------------------------------------------
(* No text of entry e is still to come.                                    *)
Over(e) ==
  \/ closed \/ e < Len(entries)
  \/ \A n \in DOMAIN entries[e] : log[Len(log)].n < n => entries[e][n] \notin Text

(* Group g has the text of one entry, and all there will be of it.         *)
WholeOf(g, e) ==
  \A k \in DOMAIN log :
    Kind(k) \in Text => ((g.from <= k /\ k <= g.to /\ log[k].kept) <=> log[k].of = e)

Whole(g) == g \in Span /\ g.to <= Len(log) /\ \E e \in DOMAIN entries : Over(e) /\ WholeOf(g, e)

(* Of an empty log postgresql sends an empty group.                        *)
WholeOrEmpty(g) == Whole(g) \/ (dialect = "postgresql" /\ g \in Span /\ g.to <= Len(log) /\ g.to < g.from)

LEMMA WholeOfStays ==
  ASSUME LogOK, NEW kept \in BOOLEAN, NextLine(kept), NEW g \in Span, g.to <= Len(log),
         NEW e, WholeOf(g, e), log'[Len(log')].of = e => Kind(Len(log))' \notin Text
  PROVE  WholeOf(g, e)'
<1> SUFFICES ASSUME NEW k \in DOMAIN log', Kind(k)' \in Text
             PROVE  (g.from <= k /\ k <= g.to /\ log'[k].kept) <=> log'[k].of = e
  BY DEF WholeOf, Text
<1>1. LogOK' /\ Added(kept)
  BY NextLineAdds
<1>2. Len(log) \in Nat /\ DOMAIN log = 1 .. Len(log) /\ DOMAIN log' = 1 .. Len(log') /\ Len(log') = Len(log) + 1
  BY <1>1 DEF LogOK, Added
<1>3. CASE k \in DOMAIN log
  BY <1>1, <1>3 DEF WholeOf, Added
<1>4. CASE k = Len(log')
  BY <1>2, <1>4 DEF Span
<1> QED
  BY <1>2, <1>3, <1>4

LEMMA WholeStays ==
  ASSUME LogOK, NEW kept \in BOOLEAN, NextLine(kept), NEW g, Whole(g)
  PROVE  Whole(g)'
<1>1. LogOK' /\ Added(kept)
  BY NextLineAdds
<1>2. /\ Len(log) \in Nat /\ DOMAIN log = 1 .. Len(log) /\ DOMAIN log' = 1 .. Len(log')
      /\ Len(entries) \in Nat /\ DOMAIN entries = 1 .. Len(entries) /\ DOMAIN entries' = 1 .. Len(entries')
  BY <1>1 DEF LogOK
<1>3. g \in Span /\ g.to \in Int /\ g.to <= Len(log) /\ Len(log') = Len(log) + 1
  BY <1>1 DEF Whole, Span, Added
<1>4. PICK e \in DOMAIN entries : Over(e) /\ WholeOf(g, e)
  BY DEF Whole
<1>5. e \in DOMAIN entries' /\ entries'[e] = entries[e] /\ ~closed
  BY <1>1, <1>4 DEF Added
<1>6. log'[Len(log')].of = Len(entries') /\ Len(log') \in DOMAIN log'
  BY <1>1, <1>2, <1>3 DEF LogOK
<1>7. Over(e)' /\ (log'[Len(log')].of = e => Kind(Len(log))' \notin Text)
  <2>1. CASE Len(entries') = Len(entries) + 1
    BY <1>2, <1>4, <1>6, <2>1 DEF Over
  <2>2. CASE Len(entries') = Len(entries) /\ log # <<>> /\ log'[Len(log')].n = log[Len(log)].n + 1
    <3>1. log \in Seq(Line) /\ Len(log) \in DOMAIN log
      BY <1>2, <2>2 DEF LogOK
    <3>2. log[Len(log)] \in Line
      BY <3>1
    <3>3. log[Len(log)].n \in Nat
      BY <3>2 DEF Line
    <3>4. CASE e < Len(entries)
      BY <1>2, <1>4, <1>6, <2>2, <3>4 DEF Over
    <3>5. CASE ~(e < Len(entries))
      <4>1. \A n \in DOMAIN entries[e] : log[Len(log)].n < n => entries[e][n] \notin Text
        BY <1>4, <1>5, <3>5 DEF Over
      <4>2. e = Len(entries)
        BY <1>2, <1>4, <3>5
      <4>3. Kind(Len(log))' = entries[e][log'[Len(log')].n] /\ log'[Len(log')].n \in DOMAIN entries[e]
        BY <1>1, <1>5, <1>6, <2>2, <4>2 DEF Kind, LogOK
      <4>4. Kind(Len(log))' \notin Text
        BY <2>2, <3>3, <4>1, <4>3
      <4>5. ASSUME NEW n \in DOMAIN entries[e], log'[Len(log')].n < n
            PROVE  entries[e][n] \notin Text
        <5>1. entries[e] \in Seq(Kinds)
          BY DEF LogOK
        <5>2. n \in Int
          BY <5>1
        <5> QED
          BY <2>2, <3>3, <4>1, <4>5, <5>2
      <4> QED
        BY <1>5, <4>4, <4>5 DEF Over, Text
    <3> QED
      BY <3>4, <3>5
  <2> QED
    BY <1>1, <2>1, <2>2 DEF Added
<1>8. WholeOf(g, e)'
  BY <1>3, <1>4, <1>7, WholeOfStays
<1> QED
  BY <1>2, <1>3, <1>5, <1>7, <1>8 DEF Whole

(* The end of the stream keeps it, too.                                    *)
LEMMA WholeUntouched ==
  ASSUME UNCHANGED <<dialect, entries, log>>, closed' = closed \/ closed', NEW g, Whole(g)
  PROVE  Whole(g)'
<1>1. \A k : Kind(k)' = Kind(k)
  BY DEF Kind
<1>2. PICK e \in DOMAIN entries : Over(e) /\ WholeOf(g, e)
  BY DEF Whole
<1>3. Over(e)' /\ WholeOf(g, e)'
  BY <1>1, <1>2 DEF Over, WholeOf, Text
<1> QED
  BY <1>2, <1>3 DEF Whole

LEMMA WholeHasText ==
  ASSUME LogOK, NEW g, Whole(g)
  PROVE  \E e \in DOMAIN entries : TextIn(g) = TextOf(e)
<1>1. PICK e \in DOMAIN entries : WholeOf(g, e)
  BY DEF Whole
<1>2. TextIn(g) = TextOf(e)
  BY <1>1 DEF WholeOf, TextIn, TextOf, LinesOf
<1> QED
  BY <1>2

(* The group being read.  In mysql it starts with a comment, and once it   *)
(* has another line all of those are of the entry being written; in        *)
(* postgresql it starts with the first line of that entry.                 *)
Grouping ==
  /\ dialect # "lines" => \A k \in DOMAIN log : log[k].kept
  /\ from = 1 \/ from \in DOMAIN log
  /\ dialect = "mysql" =>
       /\ from # 1 => Kind(from) \in Comments
       /\ ~found => \A k \in DOMAIN log : from <= k => Kind(k) \in Comments
       /\ found => /\ from <= Len(log) /\ Kind(Len(log)) \notin Comments
                   /\ \A k \in DOMAIN log : from <= k /\ Kind(k) \notin Comments => log[k].of = Len(entries)
  /\ dialect = "postgresql" =>
       /\ from # 1 => log[from].n = 1
       /\ \A k \in DOMAIN log : from <= k => log[k].of = Len(entries)

LEMMA LogBounds ==
  ASSUME LogOK
  PROVE  /\ Len(log) \in Nat /\ DOMAIN log = 1 .. Len(log)
         /\ Len(entries) \in Nat /\ DOMAIN entries = 1 .. Len(entries)
         /\ \A k \in DOMAIN log : log[k].n \in Nat /\ log[k].of \in Nat
<1>1. log \in Seq(Line)
  BY DEF LogOK
<1>2. \A k \in DOMAIN log : log[k] \in Line
  BY <1>1
<1> QED
  BY <1>1, <1>2 DEF LogOK, Line

LEMMA MySQLGroup ==
  ASSUME LogOK, Grouping, dialect = "mysql", found
  PROVE  /\ Group \in Span /\ Group.to = Len(log) /\ Len(entries) \in DOMAIN entries
         /\ WholeOf(Group, Len(entries))
<1>1. from \in Nat /\ from <= Len(log) /\ 1 <= from /\ log # <<>>
  BY LogBounds DEF Grouping, LogOK
<1>2. Len(log) \in DOMAIN log /\ log[Len(log)].of = Len(entries)
  BY <1>1, LogBounds DEF LogOK
<1>3. ASSUME NEW k \in DOMAIN log, Kind(k) \notin Comments, log[k].of = Len(entries), k < from
      PROVE  FALSE
  <2> DEFINE L == Len(log)
             ent == entries[Len(entries)]
  <2>1. k \in Nat /\ from \in DOMAIN log /\ Kind(from) \in Comments /\ Kind(L) \notin Comments /\ k <= from
    BY <1>1, <1>3, LogBounds DEF Grouping
  <2>2. log[from].of = Len(entries)
    <3>1. log[k].of <= log[from].of /\ log[from].of <= log[L].of
      BY <1>1, <1>2, <2>1 DEF LogOK
    <3> QED
      BY <1>2, <1>3, <2>1, <3>1, LogBounds
  <2>3. log[from].n - log[k].n = from - k /\ log[L].n - log[from].n = L - from
    BY <1>1, <1>2, <1>3, <2>1, <2>2 DEF LogOK
  <2>4. from # L
    BY <2>1
  <2>5. log[k].n < log[from].n /\ log[from].n < log[L].n
    BY <1>1, <1>2, <1>3, <2>1, <2>3, <2>4, LogBounds
  <2>6. /\ log[k].n \in DOMAIN ent /\ log[from].n \in DOMAIN ent /\ log[L].n \in DOMAIN ent
        /\ Kind(k) = ent[log[k].n] /\ Kind(from) = ent[log[from].n] /\ Kind(L) = ent[log[L].n]
    BY <1>2, <1>3, <2>1, <2>2 DEF Kind, LogOK
  <2>7. ent \in Entries("mysql")
    BY <1>2 DEF LogOK
  <2> HIDE DEF ent
  <2> QED
    BY <1>3, <2>1, <2>5, <2>6, <2>7, MySQLEntry
<1>4. WholeOf(Group, Len(entries))
  <2> SUFFICES ASSUME NEW k \in DOMAIN log, Kind(k) \in Text
               PROVE  (from <= k /\ k <= Len(log) /\ log[k].kept) <=> log[k].of = Len(entries)
    BY DEF WholeOf, Group
  <2>1. Kind(k) \notin Comments
    BY DEF Text, Comments
  <2> QED
    BY <1>1, <1>3, <2>1, LogBounds DEF Grouping
<1> QED
  BY <1>1, <1>2, <1>4, LogBounds DEF LogOK, Group, Span

LEMMA PostgreSQLGroup ==
  ASSUME LogOK, Grouping, dialect = "postgresql", from <= Len(log)
  PROVE  /\ Group \in Span /\ Group.to = Len(log) /\ Len(entries) \in DOMAIN entries
         /\ WholeOf(Group, Len(entries))
<1>1. from \in Nat /\ 1 <= from /\ log # <<>>
  BY LogBounds DEF Grouping, LogOK
<1>2. from \in DOMAIN log /\ log[from].of = Len(entries)
  BY <1>1, LogBounds DEF Grouping
<1>3. ASSUME NEW k \in DOMAIN log, log[k].of = Len(entries), k < from
      PROVE  FALSE
  <2>1. k \in Nat /\ 1 <= k /\ k <= from /\ log[from].n = 1
    BY <1>1, <1>3, LogBounds DEF Grouping
  <2>2. log[from].n - log[k].n = from - k
    BY <1>2, <1>3, <2>1 DEF LogOK
  <2>3. log[k].n >= 1
    <3>1. log[k].n \in DOMAIN entries[log[k].of] /\ entries[log[k].of] \in Seq(Kinds)
      BY DEF LogOK
    <3> QED
      BY <3>1
  <2> QED
    BY <1>1, <1>3, <2>1, <2>2, <2>3, LogBounds
<1>4. WholeOf(Group, Len(entries))
  BY <1>1, <1>3, LogBounds DEF WholeOf, Group, Grouping
<1> QED
  BY <1>1, <1>2, <1>4, LogBounds DEF LogOK, Group, Span

(* A comment after the statement completes the group: the entry has no     *)
(* other lines to come but comments.                                       *)
LEMMA MySQLCompletes ==
  ASSUME LogOK, Grouping, dialect = "mysql", found, NextLine(TRUE), NewKind \in Comments,
         NEW g, g = Group
  PROVE  Whole(g)'
<1>0. PICK E : E = Len(entries)
  OBVIOUS
<1>1. LogOK' /\ Added(TRUE)
  BY NextLineAdds
<1>2. g \in Span /\ g.to = Len(log) /\ E \in DOMAIN entries /\ WholeOf(g, E)
  BY <1>0, MySQLGroup
<1>3. Kind(Len(log))' \in Comments /\ Kind(Len(log))' \notin Text
  BY <1>1 DEF Added, Comments, Text
<1>4. WholeOf(g, E)'
  <2>1. g \in Span /\ g.to <= Len(log) /\ WholeOf(g, E) /\ TRUE \in BOOLEAN
    BY <1>2, LogBounds
  <2>2. log'[Len(log')].of = E => Kind(Len(log))' \notin Text
    BY <1>3
  <2> QED
    BY <2>1, <2>2, WholeOfStays
<1>5. PICK ent : ent = entries[E] /\ E \in DOMAIN entries' /\ entries'[E] = ent /\ Len(log') = Len(log) + 1 /\ ~closed
  BY <1>1, <1>2 DEF Added
<1>6. Over(E)'
  <2>1. CASE Len(entries') = Len(entries) + 1
    <3>1. E < Len(entries')
      BY <1>0, <2>1, LogBounds
    <3> QED
      BY <3>1 DEF Over
  <2>2. CASE Len(entries') = Len(entries) /\ log # <<>> /\ log'[Len(log')].n = log[Len(log)].n + 1
    <3>1. Len(log) \in DOMAIN log /\ log[Len(log)].of = E /\ log[Len(log)].n \in Nat
      BY <1>0, <2>2, LogBounds DEF LogOK
    <3>2. Kind(Len(log)) \notin Comments /\ Kind(Len(log)) = ent[log[Len(log)].n] /\ log[Len(log)].n \in DOMAIN ent
      BY <1>0, <1>5, <3>1 DEF Grouping, Kind, LogOK
    <3>3. log'[Len(log')].of = E /\ Len(log') \in DOMAIN log'
      BY <1>0, <1>1, <1>5, <2>2, LogBounds DEF LogOK
    <3>4. Kind(Len(log))' = ent[log'[Len(log')].n] /\ log'[Len(log')].n \in DOMAIN ent
      BY <1>1, <1>5, <3>3 DEF Kind, LogOK
    <3>5. ent \in Entries("mysql")
      BY <1>2, <1>5 DEF LogOK
    <3>6. ASSUME NEW n \in DOMAIN ent, log'[Len(log')].n < n
          PROVE  ent[n] \notin Text
      <4>1. n \in Int
        BY <3>5, MySQLEntry
      <4>2. log[Len(log)].n < log'[Len(log')].n
        BY <2>2, <3>1
      <4>3. ent[n] \in Comments
        BY <1>3, <3>2, <3>4, <3>5, <3>6, <4>1, <4>2, MySQLEntry
      <4> QED
        BY <4>3 DEF Comments, Text
    <3> QED
      BY <1>5, <3>6 DEF Over, Text
  <2> QED
    BY <1>1, <2>1, <2>2 DEF Added
<1> QED
  BY <1>1, <1>2, <1>4, <1>5, <1>6, LogBounds DEF Whole

LEMMA MySQLLineGroups ==
  ASSUME LogOK, Grouping, MySQLLine
  PROVE  Grouping' /\ (gpc' \in {"offer", "offerLast"} => WholeOrEmpty(offered)')
<1>1. dialect = "mysql" /\ NextLine(TRUE) /\ LogOK' /\ Added(TRUE) /\ gpc = "read"
  BY NextLineAdds DEF MySQLLine
<1>2. /\ Len(log) \in Nat /\ DOMAIN log = 1 .. Len(log) /\ DOMAIN log' = 1 .. Len(log')
      /\ Len(log') = Len(log) + 1 /\ dialect' = dialect /\ log'[Len(log')].kept
      /\ NewKind = Kind(Len(log))' /\ Len(log') \in DOMAIN log' /\ log'[Len(log')].of = Len(entries')
      /\ \A k \in DOMAIN log : k \in DOMAIN log' /\ log'[k] = log[k] /\ Kind(k)' = Kind(k)
  BY <1>1, LogBounds DEF Added, LogOK
<1>3. \A k \in DOMAIN log' : log'[k].kept
  BY <1>1, <1>2 DEF Grouping
<1>4. CASE found /\ NewKind \in Comments
  <2>1. found' = FALSE /\ from' = Len(log')
    BY <1>2, <1>4 DEF MySQLLine
  <2>2. Grouping'
    BY <1>1, <1>2, <1>3, <1>4, <2>1 DEF Grouping, Comments
  <2>3. gpc' = "offer" => Whole(offered)'
    <3>1. SUFFICES ASSUME gpc' = "offer"
                   PROVE  Whole(offered)'
      OBVIOUS
    <3>2. offered' = Group
      BY <1>1, <1>4, <3>1 DEF MySQLLine
    <3>3. \A g : g = Group => Whole(g)'
      BY <1>1, <1>4, MySQLCompletes
    <3> QED
      BY <3>2, <3>3 DEF Whole, WholeOf, Over, Kind
  <2>4. gpc' \in {"offer", "read"}
    BY <1>1, <1>4 DEF MySQLLine
  <2> QED
    BY <2>2, <2>3, <2>4 DEF WholeOrEmpty
<1>5. CASE ~(found /\ NewKind \in Comments)
  <2>1. found' = (found \/ NewKind \notin Comments) /\ from' = from /\ gpc' = "read"
    BY <1>1, <1>5 DEF MySQLLine
  <2>2. from' = 1 \/ from' \in DOMAIN log'
    BY <1>2, <2>1 DEF Grouping
  <2>3. from' # 1 => Kind(from)' \in Comments
    <3>1. from # 1 => from \in DOMAIN log /\ Kind(from) \in Comments
      BY <1>1 DEF Grouping
    <3>2. Kind(from)' = entries'[log'[from].of][log'[from].n]
      BY <2>1 DEF Kind
    <3> QED
      BY <1>2, <2>1, <3>1, <3>2 DEF Kind, Comments
  <2>4. ASSUME ~found', NEW k \in DOMAIN log', from' <= k
        PROVE  Kind(k)' \in Comments
    <3>1. ~found /\ NewKind \in Comments
      BY <2>1, <2>4
    <3>2. CASE k = Len(log')
      <4>1. Kind(k)' = Kind(Len(log))'
        BY <3>2 DEF Kind
      <4> QED
        BY <1>2, <3>1, <4>1
    <3>3. CASE k \in DOMAIN log
      BY <1>1, <1>2, <2>1, <2>4, <3>1, <3>3 DEF Grouping
    <3> QED
      BY <1>2, <3>2, <3>3
  <2>5. ASSUME found'
        PROVE  from' <= Len(log') /\ Kind(Len(log))' \notin Comments
    <3>1. from \in Nat /\ from <= Len(log')
      BY <1>1, <1>2 DEF Grouping
    <3> QED
      BY <1>2, <1>5, <2>1, <2>5, <3>1
  <2>6. ASSUME found', NEW k \in DOMAIN log', from' <= k, Kind(k)' \notin Comments
        PROVE  log'[k].of = Len(entries')
    <3>1. CASE k = Len(log')
      BY <1>2, <3>1
    <3>2. CASE k \in DOMAIN log /\ ~found
      BY <1>1, <1>2, <2>1, <2>6, <3>2 DEF Grouping, Comments
    <3>3. CASE k \in DOMAIN log /\ found
      <4>1. log[k].of = Len(entries)
        BY <1>1, <1>2, <2>1, <2>6, <3>3 DEF Grouping, Comments
      <4>2. Len(entries') = Len(entries)
        <5>1. log # <<>>
          BY <1>2, <3>3
        <5>2. SUFFICES ASSUME log'[Len(log')].n = 1
                       PROVE  FALSE
          BY <1>1, <5>1 DEF Added
        <5>3. Kind(Len(log))' = entries'[Len(entries')][1] /\ Len(entries') \in DOMAIN entries'
          BY <1>1, <1>2, <5>2 DEF Kind, LogOK
        <5>4. entries'[Len(entries')] \in Entries("mysql")
          BY <1>1, <1>2, <5>3 DEF LogOK
        <5>5. Kind(Len(log))' \in Comments
          BY <5>3, <5>4, MySQLEntry
        <5> QED
          BY <1>2, <1>5, <3>3, <5>5
      <4> QED
        BY <1>2, <3>3, <4>1, <4>2
    <3> QED
      BY <1>2, <3>1, <3>2, <3>3
  <2> QED
    BY <1>1, <1>2, <1>3, <2>1, <2>2, <2>3, <2>4, <2>5, <2>6 DEF Grouping, Comments
<1> QED
  BY <1>4, <1>5

LEMMA PostgreSQLLineGroups ==
  ASSUME LogOK, Grouping, PostgreSQLLine
  PROVE  Grouping' /\ (gpc' \in {"offer", "offerLast"} => WholeOrEmpty(offered)')
<1>1. dialect = "postgresql" /\ NextLine(TRUE) /\ LogOK' /\ Added(TRUE) /\ gpc = "read"
  BY NextLineAdds DEF PostgreSQLLine
<1>2. /\ Len(log) \in Nat /\ DOMAIN log = 1 .. Len(log) /\ DOMAIN log' = 1 .. Len(log')
      /\ Len(log') = Len(log) + 1 /\ dialect' = dialect /\ log'[Len(log')].kept
      /\ NewKind = Kind(Len(log))' /\ Len(log') \in DOMAIN log' /\ log'[Len(log')].of = Len(entries')
      /\ \A k \in DOMAIN log : k \in DOMAIN log' /\ log'[k] = log[k] /\ Kind(k)' = Kind(k)
  BY <1>1, LogBounds DEF Added, LogOK
<1>3. \A k \in DOMAIN log' : log'[k].kept
  BY <1>1, <1>2 DEF Grouping
<1>4. NewKind \in {"slow", "ignored", "other"} <=> log'[Len(log')].n = 1
  <2>1. /\ NewKind = entries'[Len(entries')][log'[Len(log')].n]
        /\ log'[Len(log')].n \in DOMAIN entries'[Len(entries')] /\ Len(entries') \in DOMAIN entries'
    BY <1>1, <1>2 DEF NewKind, LogOK
  <2>2. entries'[Len(entries')] \in Entries("postgresql")
    BY <1>1, <1>2, <2>1 DEF LogOK
  <2> QED
    BY <2>1, <2>2, PostgreSQLEntry
<1>5. log # <<>> => (log'[Len(log')].n = 1 <=> Len(entries') = Len(entries) + 1)
  <2>1. SUFFICES ASSUME log # <<>>
                 PROVE  log'[Len(log')].n = 1 <=> Len(entries') = Len(entries) + 1
    OBVIOUS
  <2>2. Len(log) \in DOMAIN log /\ Len(entries) \in Nat
    BY <1>2, <2>1, LogBounds DEF LogOK
  <2>3. log[Len(log)].n >= 1 /\ log[Len(log)].n \in Nat
    <3>1. log[Len(log)].n \in DOMAIN entries[log[Len(log)].of] /\ entries[log[Len(log)].of] \in Seq(Kinds)
      BY <2>2 DEF LogOK
    <3> QED
      BY <3>1
  <2> QED
    BY <1>1, <2>1, <2>2, <2>3 DEF Added
<1>6. LinesOf(Group) # {} <=> from <= Len(log)
  BY <1>1, <1>2 DEF LinesOf, Group, Grouping
<1>7. CASE NewKind \in {"slow", "ignored", "other"} /\ from <= Len(log)
  <2>1. offered' = Group /\ from' = Len(log') /\ gpc' = "offer"
    BY <1>2, <1>6, <1>7 DEF PostgreSQLLine
  <2>2. Grouping'
    BY <1>1, <1>2, <1>3, <1>4, <1>7, <2>1 DEF Grouping
  <2>3. \A g : g = Group => Whole(g)'
    <3> SUFFICES ASSUME NEW g, g = Group
                 PROVE  Whole(g)'
      OBVIOUS
    <3>1. g \in Span /\ g.to = Len(log) /\ Len(entries) \in DOMAIN entries /\ WholeOf(g, Len(entries))
      BY <1>1, <1>7, PostgreSQLGroup
    <3>2. Len(entries') = Len(entries) + 1
      BY <1>1, <1>2, <1>4, <1>5, <1>7 DEF Grouping
    <3>3. log'[Len(log')].of # Len(entries)
      <4>1. Len(entries) \in Nat
        BY LogBounds
      <4>2. log'[Len(log')].of = Len(entries) + 1
        BY <1>2, <3>2
      <4> QED
        BY <4>1, <4>2
    <3>4. PICK e : e = Len(entries)
      OBVIOUS
    <3>5. WholeOf(g, e)'
      <4>1. g \in Span /\ g.to <= Len(log) /\ WholeOf(g, e) /\ TRUE \in BOOLEAN
        BY <1>2, <3>1, <3>4
      <4>2. log'[Len(log')].of = e => Kind(Len(log))' \notin Text
        BY <3>3, <3>4
      <4> QED
        BY <1>1, <4>1, <4>2, WholeOfStays
    <3>6. e \in DOMAIN entries' /\ Over(e)'
      BY <1>1, <3>1, <3>2, <3>4, LogBounds DEF Over, Added
    <3> QED
      BY <1>2, <3>1, <3>5, <3>6 DEF Whole
  <2>4. Whole(offered)'
    BY <2>1, <2>3 DEF Whole, WholeOf, Over, Kind
  <2> QED
    BY <2>1, <2>2, <2>4 DEF WholeOrEmpty
<1>8. CASE ~(NewKind \in {"slow", "ignored", "other"} /\ from <= Len(log))
  <2>1. from' = from /\ gpc' = "read"
    BY <1>1, <1>6, <1>8 DEF PostgreSQLLine
  <2>2. from # 1 => log[from].n = 1 /\ from \in DOMAIN log
    BY <1>1 DEF Grouping
  <2>3. ASSUME NEW k \in DOMAIN log', from <= k
        PROVE  log'[k].of = Len(entries')
    <3>1. CASE k = Len(log')
      BY <1>2, <3>1
    <3>2. CASE k \in DOMAIN log
      <4>1. log # <<>> /\ from <= Len(log) /\ log[k].of = Len(entries)
        BY <1>1, <1>2, <2>3, <3>2 DEF Grouping
      <4>2. Len(entries') = Len(entries)
        BY <1>1, <1>4, <1>5, <1>8, <4>1 DEF Added
      <4> QED
        BY <1>2, <3>2, <4>1, <4>2
    <3> QED
      BY <1>2, <3>1, <3>2
  <2> QED
    BY <1>1, <1>2, <1>3, <2>1, <2>2, <2>3 DEF Grouping
<1> QED
  BY <1>7, <1>8

(* A single line, of an entry of one line.                                 *)
LEMMA TakeLineWhole ==
  ASSUME LogOK, NEW i \in 1 .. NumParsers, TakeLine(i)
  PROVE  \A g : g = [from |-> Len(log'), to |-> Len(log')] => Whole(g)'
<1> SUFFICES ASSUME NEW g, g = [from |-> Len(log'), to |-> Len(log')]
             PROVE  Whole(g)'
  OBVIOUS
<1>1. dialect = "lines" /\ LogOK' /\ Added(TRUE)
  BY NextLineAdds DEF TakeLine
<1>2. PICK E : E = Len(entries')
  OBVIOUS
<1>3. /\ Len(log') \in Nat /\ DOMAIN log' = 1 .. Len(log') /\ Len(log') \in DOMAIN log'
      /\ log'[Len(log')].of = E /\ log'[Len(log')].kept /\ E \in DOMAIN entries' /\ g \in Span
  BY <1>1, <1>2, LogBounds DEF Added, LogOK, Span
<1>4. \A e \in DOMAIN entries' : DOMAIN entries'[e] = {1}
  <2>1. \A e \in DOMAIN entries' : entries'[e] \in Entries("lines")
    BY <1>1 DEF LogOK, Added
  <2> QED
    BY <2>1, LineEntry
<1>5. \A k \in DOMAIN log' : log'[k].n = 1
  BY <1>1, <1>4 DEF LogOK
<1>6. Over(E)'
  BY <1>3, <1>4, <1>5 DEF Over
<1>7. WholeOf(g, E)'
  <2>1. ASSUME NEW k \in DOMAIN log', log'[k].of = E
        PROVE  k = Len(log')
    <3>1. k <= Len(log') /\ k \in Nat
      BY <1>3
    <3>2. log'[Len(log')].n - log'[k].n = Len(log') - k
      BY <1>1, <1>3, <2>1, <3>1 DEF LogOK
    <3> QED
      BY <1>3, <1>5, <3>1, <3>2
  <2> QED
    BY <1>3, <2>1 DEF WholeOf
<1> QED
  BY <1>3, <1>6, <1>7 DEF Whole

(* What the groups in flight and the events that were sent hold.           *)
GroupsWhole ==
  /\ gpc \in {"offer", "offerLast"} => WholeOrEmpty(offered)
  /\ busy \in [1 .. NumParsers -> Span]
  /\ \A i \in 1 .. NumParsers : busy[i] # NoSpan => WholeOrEmpty(busy[i])
  /\ sent \in Seq(Span) /\ \A s \in DOMAIN sent : Whole(sent[s])

StatementsWhole == LogOK /\ Grouping /\ GroupsWhole

LEMMA GroupsStayWhole ==
  ASSUME LogOK, NEW kept \in BOOLEAN, NextLine(kept), NEW g, WholeOrEmpty(g)
  PROVE  WholeOrEmpty(g)'
<1>1. Len(log) \in Nat /\ Len(log') = Len(log) + 1 /\ dialect' = dialect
  BY NextLineAdds, LogBounds DEF Added
<1>2. CASE Whole(g)
  BY <1>2, WholeStays DEF WholeOrEmpty
<1>3. CASE dialect = "postgresql" /\ g \in Span /\ g.to <= Len(log) /\ g.to < g.from
  BY <1>1, <1>3 DEF WholeOrEmpty, Span
<1> QED
  BY <1>2, <1>3 DEF WholeOrEmpty

LEMMA GroupsUntouched ==
  ASSUME UNCHANGED <<dialect, entries, log>>, closed' = closed \/ closed', NEW g, WholeOrEmpty(g)
  PROVE  WholeOrEmpty(g)'
  BY WholeUntouched DEF WholeOrEmpty

(* What the goroutine and the workers hold is whole from the start, and    *)
(* every step keeps it so, unless lines are sampled before postgresql      *)
(* groups them.                                                            *)
LEMMA StatementsInit == Init => StatementsWhole
<1> SUFFICES ASSUME Init PROVE StatementsWhole
  OBVIOUS
<1>1. entries = <<>> /\ log = <<>> /\ from = 1 /\ found = FALSE /\ sent = <<>> /\ dialect \in Dialects
  BY DEF Init
<1>2. LogOK
  BY <1>1, ProcessLinesAssumption DEF LogOK
<1>3. Grouping
  BY <1>1 DEF Grouping
<1>4. GroupsWhole
  BY <1>1 DEF Init, GroupsWhole, NoSpan, Span
<1> QED
  BY <1>2, <1>3, <1>4 DEF StatementsWhole

LEMMA StatementsStep ==
  ASSUME dialect = "postgresql" => "postgresql" \notin Sampled, StatementsWhole, [Next]_vars
  PROVE  StatementsWhole'
<1> SUFFICES ASSUME LogOK, Grouping, GroupsWhole, [Next]_vars
             PROVE  LogOK' /\ Grouping' /\ GroupsWhole'
  BY DEF StatementsWhole
<1>0. ASSUME UNCHANGED <<dialect, entries, log>>, closed' = closed \/ closed'
      PROVE  LogOK'
  BY <1>0 DEF LogOK
<1>1. ASSUME UNCHANGED <<dialect, entries, log, from, found>>
      PROVE  Grouping'
  BY <1>1 DEF Grouping, Kind, Comments
<1>2. ASSUME UNCHANGED <<dialect, entries, log>>, closed' = closed \/ closed',
             UNCHANGED <<gpc, offered, busy, sent>>
      PROVE  GroupsWhole'
  BY <1>2, GroupsUntouched, WholeUntouched DEF GroupsWhole, NoSpan
<1>3. ASSUME NEW kept \in BOOLEAN, NextLine(kept), UNCHANGED <<gpc, offered, busy, sent>>
      PROVE  GroupsWhole'
  BY <1>3, GroupsStayWhole, WholeStays DEF GroupsWhole, NoSpan
<1>4. CASE CloseStream
  BY <1>0, <1>1, <1>2, <1>4 DEF CloseStream, grouper, workers, results
<1>5. CASE DropLine
  <2>1. NextLine(FALSE) /\ FALSE \in BOOLEAN /\ dialect = "lines"
    BY <1>5, ProcessLinesAssumption DEF DropLine, TailSample, LogOK
  <2>2. LogOK' /\ Added(FALSE)
    BY <2>1, NextLineAdds
  <2>3. UNCHANGED <<from, found, gpc, offered, busy, sent>>
    BY <1>5 DEF DropLine, grouper, workers, results
  <2>4. Grouping'
    BY <2>1, <2>2, <2>3, LogBounds DEF Grouping, Added
  <2> QED
    BY <1>3, <2>1, <2>2, <2>3, <2>4
<1>6. CASE MySQLLine
  <2>1. NextLine(TRUE) /\ TRUE \in BOOLEAN /\ UNCHANGED <<busy, sent>>
    BY <1>6 DEF MySQLLine, workers, results
  <2>2. LogOK' /\ Added(TRUE)
    BY <2>1, NextLineAdds
  <2>3. Grouping' /\ (gpc' \in {"offer", "offerLast"} => WholeOrEmpty(offered)')
    BY <1>6, MySQLLineGroups
  <2>4. GroupsWhole'
    BY <2>1, <2>3, GroupsStayWhole, WholeStays DEF GroupsWhole, NoSpan
  <2> QED
    BY <2>2, <2>3, <2>4
<1>7. CASE MySQLEnd
  <2>1. UNCHANGED <<dialect, entries, log, closed, from, found, busy, sent>> /\ closed
    BY <1>7 DEF MySQLEnd, source, workers, results
  <2>2. gpc' \in {"offer", "offerLast"} => Whole(offered)'
    <3> SUFFICES ASSUME gpc' \in {"offer", "offerLast"}
                 PROVE  Whole(offered)'
      OBVIOUS
    <3>1. dialect = "mysql" /\ found /\ offered' = Group
      BY <1>7 DEF MySQLEnd
    <3>2. Whole(Group)
      BY <2>1, <3>1, MySQLGroup DEF Whole, Over
    <3> QED
      BY <2>1, <3>1, <3>2, WholeUntouched DEF Whole, WholeOf, Over, Kind
  <2>3. GroupsWhole'
    BY <2>1, <2>2, GroupsUntouched, WholeUntouched DEF GroupsWhole, NoSpan, WholeOrEmpty
  <2> QED
    BY <1>0, <1>1, <2>1, <2>3
<1>8. CASE PostgreSQLLine
  <2>1. NextLine(TRUE) /\ TRUE \in BOOLEAN /\ UNCHANGED <<busy, sent>>
    BY <1>8 DEF PostgreSQLLine, workers, results
  <2>2. LogOK' /\ Added(TRUE)
    BY <2>1, NextLineAdds
  <2>3. Grouping' /\ (gpc' \in {"offer", "offerLast"} => WholeOrEmpty(offered)')
    BY <1>8, PostgreSQLLineGroups
  <2>4. GroupsWhole'
    BY <2>1, <2>3, GroupsStayWhole, WholeStays DEF GroupsWhole, NoSpan
  <2> QED
    BY <2>2, <2>3, <2>4
<1>9. CASE PostgreSQLEnd
  <2>1. UNCHANGED <<dialect, entries, log, closed, from, found, busy, sent>> /\ closed
    BY <1>9 DEF PostgreSQLEnd, source, workers, results
  <2>2. WholeOrEmpty(offered)'
    <3>1. dialect = "postgresql" /\ offered' = Group
      BY <1>9 DEF PostgreSQLEnd
    <3>2. WholeOrEmpty(Group)
      <4>1. CASE from <= Len(log)
        BY <2>1, <3>1, <4>1, PostgreSQLGroup DEF Whole, Over, WholeOrEmpty
      <4>2. CASE ~(from <= Len(log))
        BY <3>1, <4>2, LogBounds DEF WholeOrEmpty, Group, Span, Grouping
      <4> QED
        BY <4>1, <4>2
    <3> QED
      BY <2>1, <3>1, <3>2 DEF WholeOrEmpty, Whole, WholeOf, Over, Kind
  <2>3. GroupsWhole'
    BY <2>1, <2>2, GroupsUntouched, WholeUntouched DEF GroupsWhole, NoSpan
  <2> QED
    BY <1>0, <1>1, <2>1, <2>3
<1>10. CASE Return
  <2>1. UNCHANGED <<dialect, entries, log, closed, from, found, busy, sent>> /\ gpc' = "returned"
    BY <1>10 DEF Return, source, workers, results
  <2>2. GroupsWhole'
    BY <2>1, GroupsUntouched, WholeUntouched DEF GroupsWhole, NoSpan
  <2> QED
    BY <1>0, <1>1, <2>1, <2>2
<1>11. ASSUME NEW i \in 1 .. NumParsers, TakeGroup(i) PROVE LogOK' /\ Grouping' /\ GroupsWhole'
  <2>1. /\ UNCHANGED <<dialect, entries, log, closed, from, found, sent>>
        /\ busy' = [busy EXCEPT ![i] = offered] /\ gpc' \in {"read", "wait"} /\ WholeOrEmpty(offered)
    BY <1>11 DEF TakeGroup, source, results, GroupsWhole
  <2>2. offered \in Span
    BY <2>1 DEF WholeOrEmpty, Whole
  <2>3. \A j \in 1 .. NumParsers : busy'[j] # NoSpan => \A g : g = busy'[j] => WholeOrEmpty(g)
    BY <2>1 DEF GroupsWhole
  <2>4. \A j \in 1 .. NumParsers : busy'[j] # NoSpan => WholeOrEmpty(busy[j])'
    BY <2>1, <2>3, GroupsUntouched
  <2>5. GroupsWhole'
    BY <2>1, <2>2, <2>4, WholeUntouched DEF GroupsWhole, NoSpan
  <2> QED
    BY <1>0, <1>1, <2>1, <2>5
<1>12. ASSUME NEW i \in 1 .. NumParsers, TakeLine(i) PROVE LogOK' /\ Grouping' /\ GroupsWhole'
  <2>1. /\ NextLine(TRUE) /\ TRUE \in BOOLEAN /\ dialect = "lines"
        /\ UNCHANGED <<from, found, gpc, offered, sent>>
        /\ busy' = [busy EXCEPT ![i] = [from |-> Len(log'), to |-> Len(log')]]
    BY <1>12 DEF TakeLine, grouper, results
  <2>2. LogOK' /\ Added(TRUE)
    BY <2>1, NextLineAdds
  <2>3. Grouping'
    BY <2>1, <2>2, LogBounds DEF Grouping, Added
  <2>4. \A g : g = [from |-> Len(log'), to |-> Len(log')] => WholeOrEmpty(g)'
    BY <1>12, TakeLineWhole DEF WholeOrEmpty
  <2>5. \A j \in 1 .. NumParsers : busy'[j] # NoSpan => \A g : g = busy'[j] => WholeOrEmpty(g)'
    BY <2>1, <2>4, GroupsStayWhole DEF GroupsWhole
  <2>6. busy' \in [1 .. NumParsers -> Span]
    BY <2>1, <2>2, LogBounds DEF GroupsWhole, Span, Added
  <2>7. GroupsWhole'
    BY <2>1, <2>5, <2>6, GroupsStayWhole, WholeStays DEF GroupsWhole, NoSpan
  <2> QED
    BY <2>2, <2>3, <2>7
<1>13. ASSUME NEW i \in 1 .. NumParsers, HandleEvent(i) PROVE LogOK' /\ Grouping' /\ GroupsWhole'
  <2>1. /\ UNCHANGED <<dialect, entries, log, closed, from, found, gpc, offered>> /\ busy[i] # NoSpan
        /\ busy' = [busy EXCEPT ![i] = NoSpan]
        /\ sent' = IF MakesEvent(busy[i]) THEN Append(sent, busy[i]) ELSE sent
    BY <1>13 DEF HandleEvent, source, grouper
  <2>2. MakesEvent(busy[i]) => Whole(busy[i])
    <3> SUFFICES ASSUME MakesEvent(busy[i]), dialect = "postgresql", busy[i].to < busy[i].from, busy[i] \in Span
                 PROVE  FALSE
      BY <2>1 DEF GroupsWhole, WholeOrEmpty
    <3>1. PostgreSQLEvent(busy[i])
      BY Zenon DEF MakesEvent
    <3>2. PICK k \in DOMAIN log : busy[i].from <= k /\ k <= busy[i].to
      BY <3>1 DEF PostgreSQLEvent, LinesOf
    <3> QED
      BY <3>2, LogBounds DEF Span
  <2>3. sent' \in Seq(Span) /\ \A s \in DOMAIN sent' : \A g : g = sent'[s] => Whole(g)
    BY <2>1, <2>2, Appended DEF GroupsWhole
  <2>4. \A s \in DOMAIN sent' : Whole(sent[s])'
    BY <2>1, <2>3, WholeUntouched
  <2>5. busy' \in [1 .. NumParsers -> Span] /\ \A j \in 1 .. NumParsers : busy'[j] # NoSpan => busy'[j] = busy[j]
    BY <2>1 DEF GroupsWhole, NoSpan, Span
  <2>6. \A j \in 1 .. NumParsers : busy'[j] # NoSpan => WholeOrEmpty(busy[j])'
    BY <2>1, <2>5, GroupsUntouched DEF GroupsWhole
  <2>7. GroupsWhole'
    BY <2>1, <2>3, <2>4, <2>5, <2>6, GroupsUntouched DEF GroupsWhole, NoSpan
  <2> QED
    BY <1>0, <1>1, <2>1, <2>7
<1>14. ASSUME NEW i \in 1 .. NumParsers, TestPointer(i) \/ Dereference(i) \/ WorkerReturns(i)
       PROVE  LogOK' /\ Grouping' /\ GroupsWhole'
  BY <1>0, <1>1, <1>2, <1>14 DEF TestPointer, Dereference, WorkerReturns, source, grouper, results
<1>15. CASE ServerStep
  BY <1>0, <1>1, <1>2, <1>15 DEF ServerStep, source, grouper, workers, results
<1>16. CASE UNCHANGED vars
  BY <1>0, <1>1, <1>2, <1>16 DEF vars, source, grouper, workers, results
<1> QED
  BY <1>4, <1>5, <1>6, <1>7, <1>8, <1>9, <1>10, <1>11, <1>12, <1>13, <1>14, <1>15, <1>16
     DEF Next, GrouperStep, WorkerStep

(* WholeStatements: an event holds the whole text of one entry, unless     *)
(* lines are sampled before postgresql groups them.  About groupedLines    *)
(* of the mysql and postgresql parsers.                                    *)
THEOREM StatementsAreWhole ==
  ASSUME "postgresql" \notin Sampled
  PROVE  Spec => []WholeStatements
<1>1. StatementsWhole /\ [Next]_vars => StatementsWhole'
  BY StatementsStep
<1>2. StatementsWhole => WholeStatements
  BY WholeHasText DEF StatementsWhole, GroupsWhole, WholeStatements
<1> QED
  BY <1>1, <1>2, StatementsInit, PTL DEF Spec
-----------------------------------------------------------------------------
Spans == [from : 0 .. Len(log) + 1, to : 0 .. Len(log)]

TypesKnown ==
  /\ LogOK /\ dialect \in Dialects /\ Len(entries) <= MaxEntries
  /\ closed \in BOOLEAN /\ found \in BOOLEAN
  /\ gpc \in {"read", "offer", "offerLast", "wait", "returned"}
  /\ from \in 1 .. Len(log) + 1
  /\ offered \in Spans /\ busy \in [1 .. NumParsers -> Spans]
  /\ sent \in Seq(Spans) /\ sampled \subseteq Spans
  /\ ended \subseteq 1 .. NumParsers /\ held \subseteq 1 .. NumParsers /\ panicked \in BOOLEAN
  /\ next \in [1 .. NumParsers -> {"read_only", "replica_lag", "none"}]
  /\ ServerTypeOK

LEMMA GroupSpan ==
  ASSUME TypesKnown
  PROVE  Group \in Spans /\ NoSpan \in Spans
  BY LogBounds DEF TypesKnown, Group, NoSpan, Spans

LEMMA SpansGrow ==
  ASSUME NEW S, NEW T, S \subseteq T, NEW s \in Seq(S)
  PROVE  s \in Seq(T)
  OBVIOUS

LEMMA LinesKeepTypes ==
  ASSUME TypesKnown, NEW kept \in BOOLEAN, NextLine(kept)
  PROVE  /\ LogOK' /\ dialect' = dialect /\ closed' \in BOOLEAN /\ Len(entries') <= MaxEntries
         /\ Len(log) \in Nat /\ Len(log') = Len(log) + 1 /\ Spans \subseteq Spans'
         /\ {from, Len(log) + 1} \subseteq 1 .. Len(log') + 1 /\ {offered, Group} \subseteq Spans'
         /\ busy \in [1 .. NumParsers -> Spans'] /\ sent \in Seq(Spans')
         /\ sampled \cup {Group} \subseteq Spans'
<1>1. LogOK' /\ Added(kept) /\ Len(log) \in Nat /\ Len(entries) \in Nat
  BY NextLineAdds, LogBounds DEF TypesKnown
<1>2. Len(entries') <= MaxEntries
  <2>1. entries' = entries \/ Len(entries) < MaxEntries
    BY <1>1, ProcessLinesAssumption DEF NextLine, TypesKnown
  <2>2. Len(entries') = Len(entries) \/ Len(entries') = Len(entries) + 1
    BY <1>1 DEF Added
  <2> QED
    BY <1>1, <2>1, <2>2, ProcessLinesAssumption DEF TypesKnown
<1>3. Len(log') = Len(log) + 1 /\ dialect' = dialect /\ closed' = closed
  BY <1>1 DEF Added, NextLine
<1>4. Spans \subseteq Spans'
  BY <1>1, <1>3 DEF Spans
<1>5. sent \in Seq(Spans')
  BY <1>4, SpansGrow DEF TypesKnown
<1> QED
  BY <1>1, <1>2, <1>3, <1>4, <1>5, GroupSpan DEF TypesKnown

(* TypeOK, for every parser, log and number of workers.                    *)
THEOREM TypeCorrect == Spec => []TypeOK
<1>1. Init => TypesKnown
  <2> SUFFICES ASSUME Init PROVE TypesKnown
    OBVIOUS
  <2>1. LogOK
    BY ProcessLinesAssumption DEF Init, LogOK
  <2>2. ServerTypeOK
    BY DEF Init, ServerInit, ServerTypeOK, Servers
  <2>3. Len(entries) = 0 /\ Len(log) = 0 /\ NoSpan \in Spans
    BY DEF Init, NoSpan, Spans
  <2>4. sent \in Seq(Spans)
    BY DEF Init
  <2>5. /\ dialect \in Dialects /\ Len(entries) <= MaxEntries /\ from \in 1 .. Len(log) + 1
        /\ offered = NoSpan /\ sampled = {} /\ ended = {} /\ held = {}
        /\ closed = FALSE /\ found = FALSE /\ panicked = FALSE
    BY <2>3, ProcessLinesAssumption DEF Init
  <2>6. gpc \in {"read", "offer", "offerLast", "wait", "returned"}
    BY DEF Init
  <2>7. busy \in [1 .. NumParsers -> Spans] /\ next \in [1 .. NumParsers -> {"read_only", "replica_lag", "none"}]
    BY <2>3 DEF Init
  <2> QED
    BY <2>1, <2>2, <2>3, <2>4, <2>5, <2>6, <2>7 DEF TypesKnown
<1>2. TypesKnown /\ [Next]_vars => TypesKnown'
  <2> SUFFICES ASSUME TypesKnown, [Next]_vars
               PROVE  TypesKnown'
    OBVIOUS
  <2>1. ASSUME UNCHANGED <<dialect, entries, log>> PROVE LogOK' /\ Spans' = Spans
    BY <2>1 DEF LogOK, Spans, TypesKnown
  <2>2. ASSUME UNCHANGED serverState PROVE ServerTypeOK'
    BY <2>2 DEF serverState, ServerTypeOK, TypesKnown
  <2>3. CASE CloseStream
    BY <2>1, <2>2, <2>3 DEF CloseStream, grouper, workers, results, TypesKnown
  <2>4. CASE DropLine
    <3>1. NextLine(FALSE)
      BY <2>4 DEF DropLine
    <3>2. FALSE \in BOOLEAN /\ TRUE \in BOOLEAN
      OBVIOUS
    <3> QED
      BY <2>2, <2>4, <3>1, <3>2, LinesKeepTypes DEF DropLine, grouper, workers, results, TypesKnown
  <2>5. CASE MySQLLine
    <3>1. NextLine(TRUE) /\ UNCHANGED <<workers, serverState>>
      BY <2>5 DEF MySQLLine
    <3>2. /\ found' \in BOOLEAN /\ gpc' \in {"read", "offer"} /\ from' \in {from, Len(log) + 1}
          /\ offered' \in {offered, Group} /\ sent' = sent /\ sampled' \subseteq sampled \cup {Group}
      BY <2>5 DEF MySQLLine, results, TypesKnown
    <3>3. sampled' \subseteq Spans' /\ offered' \in Spans' /\ from' \in 1 .. Len(log') + 1
      BY <3>1, <3>2, LinesKeepTypes
    <3> QED
      BY <2>2, <3>1, <3>2, <3>3, LinesKeepTypes DEF workers, TypesKnown
  <2>6. CASE MySQLEnd
    <3>1. /\ gpc' \in {"offerLast", "wait"} /\ UNCHANGED <<source, from, found, workers, serverState, sent>>
          /\ offered' \in {offered, Group} /\ sampled' \subseteq sampled \cup {Group}
      BY <2>6 DEF MySQLEnd, results
    <3> QED
      BY <2>1, <2>2, <3>1, GroupSpan DEF source, workers, TypesKnown
  <2>7. CASE PostgreSQLLine
    <3>1. NextLine(TRUE) /\ UNCHANGED <<found, workers, results, serverState>>
      BY <2>7 DEF PostgreSQLLine
    <3>2. gpc' \in {"read", "offer"} /\ from' \in {from, Len(log) + 1} /\ offered' \in {offered, Group}
      BY <2>7 DEF PostgreSQLLine
    <3>3. offered' \in Spans' /\ from' \in 1 .. Len(log') + 1
      BY <3>1, <3>2, LinesKeepTypes
    <3> QED
      BY <2>2, <3>1, <3>2, <3>3, LinesKeepTypes DEF workers, results, TypesKnown
  <2>8. CASE PostgreSQLEnd
    BY <2>1, <2>2, <2>8, GroupSpan DEF PostgreSQLEnd, source, workers, results, TypesKnown
  <2>9. CASE Return
    BY <2>1, <2>2, <2>9 DEF Return, source, workers, results, TypesKnown
  <2>10. ASSUME NEW i \in 1 .. NumParsers, TakeGroup(i) PROVE TypesKnown'
    BY <2>1, <2>2, <2>10, GroupSpan DEF TakeGroup, source, results, TypesKnown
  <2>11. ASSUME NEW i \in 1 .. NumParsers, TakeLine(i) PROVE TypesKnown'
    <3>1. NextLine(TRUE) /\ UNCHANGED <<grouper, next, held, panicked, ended, results, serverState>>
      BY <2>11 DEF TakeLine
    <3>2. [from |-> Len(log'), to |-> Len(log')] \in Spans'
      BY <3>1, LinesKeepTypes DEF Spans
    <3>3. busy' \in [1 .. NumParsers -> Spans']
      BY <2>11, <3>1, <3>2, LinesKeepTypes DEF TakeLine, TypesKnown
    <3> QED
      BY <2>2, <3>1, <3>3, LinesKeepTypes DEF grouper, results, TypesKnown
  <2>12. ASSUME NEW i \in 1 .. NumParsers, TestPointer(i) PROVE TypesKnown'
    <3>1. UNCHANGED <<source, grouper, busy, panicked, ended, results, serverState>>
      BY <2>12 DEF TestPointer
    <3>2. held' \subseteq 1 .. NumParsers /\ next' \in [1 .. NumParsers -> {"read_only", "replica_lag", "none"}]
      BY <2>12 DEF TestPointer, After, TypesKnown
    <3> QED
      BY <2>1, <2>2, <3>1, <3>2 DEF source, grouper, results, TypesKnown
  <2>13. ASSUME NEW i \in 1 .. NumParsers, Dereference(i) PROVE TypesKnown'
    <3>1. UNCHANGED <<source, grouper, busy, ended, results, serverState>> /\ panicked' \in BOOLEAN
      BY <2>13 DEF Dereference
    <3>2. held' \subseteq 1 .. NumParsers /\ next' \in [1 .. NumParsers -> {"read_only", "replica_lag", "none"}]
      BY <2>13 DEF Dereference, After, TypesKnown
    <3> QED
      BY <2>1, <2>2, <3>1, <3>2 DEF source, grouper, results, TypesKnown
  <2>14. ASSUME NEW i \in 1 .. NumParsers, HandleEvent(i) PROVE TypesKnown'
    <3>1. UNCHANGED <<source, grouper, held, panicked, ended, sampled, serverState>>
      BY <2>14 DEF HandleEvent
    <3>2. sent' \in Seq(Spans)
      BY <2>14 DEF HandleEvent, TypesKnown
    <3>3. busy' \in [1 .. NumParsers -> Spans] /\ next' \in [1 .. NumParsers -> {"read_only", "replica_lag", "none"}]
      BY <2>14, GroupSpan DEF HandleEvent, TypesKnown
    <3> QED
      BY <2>1, <2>2, <3>1, <3>2, <3>3 DEF source, grouper, TypesKnown
  <2>15. ASSUME NEW i \in 1 .. NumParsers, WorkerReturns(i) PROVE TypesKnown'
    BY <2>1, <2>2, <2>15 DEF WorkerReturns, source, grouper, results, TypesKnown
  <2>16. CASE ServerStep
    <3>1. ServerTypeOK'
      BY <2>16 DEF ServerStep, Poll, ServerChanges, ServerTypeOK, Servers, TypesKnown
    <3> QED
      BY <2>1, <2>16, <3>1 DEF ServerStep, source, grouper, workers, results, TypesKnown
  <2>17. CASE UNCHANGED vars
    BY <2>1, <2>2, <2>17 DEF vars, source, grouper, workers, results, TypesKnown
  <2> QED
    BY <2>3, <2>4, <2>5, <2>6, <2>7, <2>8, <2>9, <2>10, <2>11, <2>12, <2>13, <2>14, <2>15, <2>16, <2>17
       DEF Next, GrouperStep, WorkerStep
<1>3. TypesKnown => TypeOK
  <2> SUFFICES ASSUME TypesKnown PROVE TypeOK
    OBVIOUS
  <2>1. ASSUME NEW g \in Spans PROVE g.from \in 0 .. Len(log) + 1 /\ g.to \in 0 .. Len(log)
    BY DEF Spans
  <2>2. \A k \in DOMAIN sent : sent[k] \in Spans
    BY DEF TypesKnown
  <2>3. \A k \in DOMAIN log : log[k].kept \in BOOLEAN
    <3>1. \A k \in DOMAIN log : log[k] \in Line
      BY DEF TypesKnown, LogOK
    <3> QED
      BY <3>1 DEF Line
  <2> QED
    BY <2>1, <2>2, <2>3 DEF TypesKnown, LogOK, TypeOK
<1> QED
  BY <1>1, <1>2, <1>3, PTL DEF Spec
=============================================================================
