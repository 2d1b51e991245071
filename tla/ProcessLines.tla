---------------------------- MODULE ProcessLines ----------------------------
(***************************************************************************)
(* ProcessLines of the parsers: the lines of one logfile stream become     *)
(* events, in one of three ways.                                           *)
(*                                                                         *)
(*   "mysql"       a goroutine groups comments and the statement after     *)
(*                 them; several workers turn groups into events, with     *)
(*                 what module ServerState knows of the server;            *)
(*   "postgresql"  a goroutine groups a line with the log prefix and its   *)
(*                 continuations; one worker turns groups into events;     *)
(*   "lines"       several workers take single lines (keyval, json, nginx, *)
(*                 regex, mongodb, mysqlaudit, arangodb).                  *)
(*                                                                         *)
(* The database writes entries; an entry is a sequence of line kinds, and  *)
(* a line is the place of an entry's line in the log.  What regular        *)
(* expressions recognise is the kind of a line; texts are left out.  A     *)
(* group or an event is a span of the log.                                 *)
(***************************************************************************)
EXTENDS Integers, Sequences, FiniteSets, ServerState

CONSTANTS Dialects,      (* the ways to check *)
          MaxEntries,    (* bound: entries the database writes *)
          MaxPolled,     (* the same, when the server is polled *)
          NumParsers,    (* workers of the mysql and lines parsers *)
          Sampled,       (* those with --samplerate above 1, without dynamic sampling *)
          Pings          (* the mysql log has administrator pings *)

ASSUME ProcessLinesAssumption ==
  /\ Dialects \subseteq {"mysql", "postgresql", "lines"}
  /\ MaxEntries \in Nat /\ MaxPolled \in 0 .. MaxEntries /\ NumParsers \in Nat \ {0}
  /\ Sampled \subseteq Dialects /\ Pings \in BOOLEAN

(* "comment": a "# " line with the user or the statistics, which starts    *)
(* the text again; "note": any other "# " line or a header line of the     *)
(* server, which does not; "set": SET timestamp; "use": use database;      *)
(* "part" and "end": the lines of a statement, those that do not end with  *)
(* ";" and those that do (the last one does, and one within a procedure    *)
(* may); "ping": an administrator's; "slow": prefix and the header of a    *)
(* statement or a plan; "ignored": the same, with a text that the          *)
(* ignore_query_regex option matches; "other": prefix only; "more": no     *)
(* prefix; "event": a line that makes an event; "skip": one that does not. *)
Entries(d) ==
  CASE d = "mysql" ->
         {<<"comment", "set", "end">>, <<"comment", "set", "end", "part", "end">>,
          <<"note", "use", "set", "part", "end">>,
          <<"comment", "use", "set", "note">>, <<"comment", "set", "note">>, <<"note">>}
         \cup (IF Pings THEN {<<"comment", "set", "ping">>} ELSE {})
    [] d = "postgresql" -> {<<"slow">>, <<"slow", "more">>, <<"ignored", "more">>, <<"other", "more">>}
    [] d = "lines"      -> {<<"event">>, <<"skip">>}

VARIABLES
  dialect,  (* the parser of this stream *)
  entries,  (* the entries written so far *)
  log,      (* their lines so far: [of, n, kept], entry, line of it, not dropped by tail *)
  closed,   (* the channel of lines is closed *)
  gpc,      (* ProcessLines: "read", "offer", "offerLast", "wait", "returned" *)
  from,     (* groupedLines starts here and ends with the log *)
  found,    (* foundStatement *)
  offered,  (* the group being sent to rawEvents *)
  busy,     (* busy[i]: the group worker i holds *)
  next,     (* next[i]: the pointer to look at next, or "none" *)
  held,     (* the workers that have found their next pointer not nil *)
  panicked, (* a worker has read through a nil pointer *)
  ended,    (* the workers that have returned *)
  sent,     (* the events, in the order they were sent *)
  sampled   (* the groups the sampler dropped *)

source  == <<dialect, entries, log, closed>>
grouper == <<gpc, from, found, offered>>
workers == <<busy, next, held, panicked, ended>>
results == <<sent, sampled>>
vars    == <<source, grouper, workers, results, serverState>>

(* The tail package drops lines in front of every parser but mysql, which  *)
(* drops groups instead.                                                   *)
TailSample   == dialect \in Sampled \ {"mysql"}
ParserSample == dialect \in Sampled \cap {"mysql"}

Workers == IF dialect = "postgresql" THEN {1} ELSE 1 .. NumParsers
NoSpan  == [from |-> 0, to |-> 0]

Kind(k) == entries[log[k].of][log[k].n]
Comments == {"comment", "note", "ping"}

(* The lines of a span that the tail package passed on.                    *)
LinesOf(g) == {k \in DOMAIN log : g.from <= k /\ k <= g.to /\ log[k].kept}

Group == [from |-> from, to |-> Len(log)]
-----------------------------------------------------------------------------
TypeOK ==
  /\ dialect \in Dialects
  /\ Len(entries) <= MaxEntries /\ \A e \in DOMAIN entries : entries[e] \in Entries(dialect)
  /\ \A k \in DOMAIN log : /\ log[k].of \in DOMAIN entries
                           /\ log[k].n \in DOMAIN entries[log[k].of]
                           /\ log[k].kept \in BOOLEAN
  /\ closed \in BOOLEAN /\ found \in BOOLEAN
  /\ gpc \in {"read", "offer", "offerLast", "wait", "returned"}
  /\ from \in 1 .. Len(log) + 1
  /\ \A g \in {offered} \cup {busy[i] : i \in 1 .. NumParsers}
           \cup {sent[k] : k \in DOMAIN sent} \cup sampled :
       g.from \in 0 .. Len(log) + 1 /\ g.to \in 0 .. Len(log)
  /\ ended \subseteq 1 .. NumParsers /\ held \subseteq 1 .. NumParsers /\ panicked \in BOOLEAN
  /\ next \in [1 .. NumParsers -> {"read_only", "replica_lag", "none"}]
  /\ ServerTypeOK

Init ==
  /\ dialect \in Dialects
  /\ entries = <<>> /\ log = <<>> /\ closed = FALSE
  /\ gpc = IF dialect = "lines" THEN "wait" ELSE "read"
  /\ from = 1 /\ found = FALSE /\ offered = NoSpan
  /\ busy = [i \in 1 .. NumParsers |-> NoSpan] /\ ended = {}
  /\ next = [i \in 1 .. NumParsers |-> "read_only"] /\ held = {} /\ panicked = FALSE
  /\ sent = <<>> /\ sampled = {}
  /\ ServerInit(IF dialect = "mysql" THEN BOOLEAN ELSE {FALSE})
-----------------------------------------------------------------------------
(* The next line of the log: of the entry being written, or the first of a *)
(* new one.  The stream may start anywhere in its first entry.             *)
NextLine(kept) ==
  /\ ~closed
  /\ LET e == Len(entries)
         n == log[Len(log)].n
     IN \/ /\ log # <<>> /\ n < Len(entries[e])
           /\ log' = Append(log, [of |-> e, n |-> n + 1, kept |-> kept])
           /\ UNCHANGED entries
        \/ /\ log # <<>> => n = Len(entries[e])
           /\ e < IF host THEN MaxPolled ELSE MaxEntries
           /\ \E new \in Entries(dialect) :
                /\ entries' = Append(entries, new)
                /\ \E first \in IF log = <<>> THEN DOMAIN new ELSE {1} :
                     log' = Append(log, [of |-> e + 1, n |-> first, kept |-> kept])
  /\ UNCHANGED <<dialect, closed>>

NewKind == entries'[log'[Len(log')].of][log'[Len(log')].n]

(* The stream ends, in the middle of an entry or not.                      *)
CloseStream ==
  /\ ~closed
  /\ closed' = TRUE
  /\ UNCHANGED <<dialect, entries, log, grouper, workers, results, serverState>>

(* The goroutine that samples lines in front of the parser drops one.      *)
DropLine ==
  /\ TailSample
  /\ NextLine(FALSE)
  /\ UNCHANGED <<grouper, workers, results, serverState>>
-----------------------------------------------------------------------------
(* A group ends when the next one starts.                                  *)
MySQLLine ==
  /\ dialect = "mysql" /\ gpc = "read"
  /\ NextLine(TRUE)
  /\ IF found /\ NewKind \in Comments
       THEN /\ found' = FALSE
            /\ from' = Len(log) + 1
            /\ \/ /\ gpc' = "offer" /\ offered' = Group
                  /\ UNCHANGED results
               \/ /\ ParserSample
                  /\ sampled' = sampled \cup {Group}
                  /\ UNCHANGED <<gpc, offered, sent>>
       ELSE /\ found' = (found \/ NewKind \notin Comments)
            /\ UNCHANGED <<gpc, from, offered, results>>
  /\ UNCHANGED <<workers, serverState>>

MySQLEnd ==
  /\ dialect = "mysql" /\ gpc = "read" /\ closed
  /\ \/ /\ found
        /\ gpc' = "offerLast" /\ offered' = Group
        /\ UNCHANGED results
     \/ /\ found /\ ParserSample
        /\ gpc' = "wait"
        /\ sampled' = sampled \cup {Group}
        /\ UNCHANGED <<offered, sent>>
     \/ /\ ~found
        /\ gpc' = "wait"
        /\ UNCHANGED <<offered, results>>
  /\ UNCHANGED <<source, from, found, workers, serverState>>

PostgreSQLLineEmpty ==  \* a continuation starts a group, too
  /\ dialect = "postgresql" /\ gpc = "read"
  /\ NextLine(TRUE)
  /\ IF LinesOf(Group) # {}
       THEN gpc' = "offer" /\ offered' = Group /\ from' = Len(log) + 1
       ELSE UNCHANGED <<gpc, offered, from>>
  /\ UNCHANGED <<found, workers, results, serverState>>

PostgreSQLLine ==
  /\ dialect = "postgresql" /\ gpc = "read"
  /\ NextLine(TRUE)
  /\ IF NewKind \in {"slow", "ignored", "other"} /\ LinesOf(Group) # {}
       THEN gpc' = "offer" /\ offered' = Group /\ from' = Len(log) + 1
       ELSE UNCHANGED <<gpc, offered, from>>
  /\ UNCHANGED <<found, workers, results, serverState>>

PostgreSQLEndNothing ==  \* the last group is not sent
  /\ dialect = "postgresql" /\ gpc = "read" /\ closed
  /\ gpc' = "wait"
  /\ UNCHANGED <<source, from, found, offered, workers, results, serverState>>

(* The last group is sent whether or not it is empty.                      *)
PostgreSQLEnd ==
  /\ dialect = "postgresql" /\ gpc = "read" /\ closed
  /\ gpc' = "offerLast" /\ offered' = Group
  /\ UNCHANGED <<source, from, found, workers, results, serverState>>
-----------------------------------------------------------------------------
Free(i) == i \in Workers \ ended /\ busy[i] = NoSpan

(* rawEvents is unbuffered: a worker that is free receives the group.  It  *)
(* is closed after the last one.                                           *)
TakeGroup(i) ==
  /\ gpc \in {"offer", "offerLast"} /\ Free(i)
  /\ busy' = [busy EXCEPT ![i] = offered]
  /\ gpc' = IF gpc = "offer" THEN "read" ELSE "wait"
  /\ offered' = NoSpan
  /\ UNCHANGED <<source, from, found, next, held, panicked, ended, results, serverState>>

TakeLineNext(i) ==  \* the worker takes the line after the one that arrived
  /\ dialect = "lines" /\ Free(i)
  /\ NextLine(TRUE)
  /\ busy' = [busy EXCEPT ![i] = [from |-> Len(log'), to |-> Len(log') + 1]]
  /\ UNCHANGED <<grouper, next, held, panicked, ended, results, serverState>>

(* A worker of a parser without groups receives a line.                    *)
TakeLine(i) ==
  /\ dialect = "lines" /\ Free(i)
  /\ NextLine(TRUE)
  /\ busy' = [busy EXCEPT ![i] = [from |-> Len(log'), to |-> Len(log')]]
  /\ UNCHANGED <<grouper, next, held, panicked, ended, results, serverState>>

HandleLineKeeps(a, k) ==  \* the text read so far is not reset when it is taken
  CASE Kind(k) \in {"comment", "set"} -> [a EXCEPT !.text = {}]
    [] Kind(k) = "use"  -> [text |-> {}, query |-> {k}]
    [] Kind(k) = "part" -> [a EXCEPT !.text = @ \cup {k}]
    [] Kind(k) = "end"  -> [a EXCEPT !.text = @ \cup {k}, !.query = a.text \cup {k}]
    [] Kind(k) \in {"note", "ping"} -> a

(* One line of handleEvent's loop: the text read so far is started again   *)
(* by most of what comes before a statement, and becomes the query at a    *)
(* ";".  The other fields of the event are left out.                       *)
HandleLine(a, k) ==
  CASE Kind(k) \in {"comment", "set"} -> [a EXCEPT !.text = {}]
    [] Kind(k) = "use"  -> [text |-> {}, query |-> {k}]
    [] Kind(k) = "part" -> [a EXCEPT !.text = @ \cup {k}]
    [] Kind(k) = "end"  -> [text |-> {}, query |-> a.text \cup {k}]
    [] Kind(k) \in {"note", "ping"} -> a

(* The lines of mysql's query field.                                       *)
QueryOf(g) ==
  LET after[k \in (g.from - 1) .. g.to] ==
        IF k < g.from THEN [text |-> {}, query |-> {}] ELSE HandleLine(after[k - 1], k)
  IN after[g.to].query

(* Whether a group makes an event.  mysql needs a query, and ignores the   *)
(* group of an administrator ping.                                         *)
MySQLEvent(g) == QueryOf(g) # {} /\ \A k \in LinesOf(g) : Kind(k) # "ping"

(* postgresql looks only at the first line for the prefix and the header   *)
(* of a statement or a plan, whose text must not match the regex.          *)
PostgreSQLEvent(g) ==
  \E k \in LinesOf(g) : Kind(k) = "slow" /\ \A j \in LinesOf(g) : k <= j

(* The other parsers skip a line that any of their steps cannot decompose. *)
LineEvent(g) == \A k \in LinesOf(g) : Kind(k) = "event"

MakesEvent(g) ==
  CASE dialect = "mysql"      -> MySQLEvent(g)
    [] dialect = "postgresql" -> PostgreSQLEvent(g)
    [] dialect = "lines"      -> LineEvent(g)

DereferenceUntested(i) ==  \* the pointer is not compared with nil
  /\ host /\ busy[i] # NoSpan /\ MakesEvent(busy[i]) /\ next[i] # "none" /\ i \notin held
  /\ held' = held \cup {i}
  /\ UNCHANGED <<source, grouper, busy, next, panicked, ended, results, serverState>>

(* readOnly and replicaLag are attributes of an event when they are not    *)
(* nil.  The test and the use are two steps.                               *)
After(a) == IF a = "read_only" THEN "replica_lag" ELSE "none"

TestPointer(i) ==
  /\ host /\ busy[i] # NoSpan /\ MakesEvent(busy[i]) /\ next[i] # "none" /\ i \notin held
  /\ IF next[i] \in pointers
       THEN held' = held \cup {i} /\ UNCHANGED next
       ELSE next' = [next EXCEPT ![i] = After(@)] /\ UNCHANGED held
  /\ UNCHANGED <<source, grouper, busy, panicked, ended, results, serverState>>

Dereference(i) ==
  /\ i \in held
  /\ held' = held \ {i}
  /\ next' = [next EXCEPT ![i] = After(@)]
  /\ panicked' = (next[i] \notin pointers)
  /\ UNCHANGED <<source, grouper, busy, ended, results, serverState>>

HandleEvent(i) ==
  /\ busy[i] # NoSpan /\ i \notin held
  /\ host /\ MakesEvent(busy[i]) => next[i] = "none"
  /\ sent' = IF MakesEvent(busy[i]) THEN Append(sent, busy[i]) ELSE sent
  /\ busy' = [busy EXCEPT ![i] = NoSpan]
  /\ next' = [next EXCEPT ![i] = "read_only"]
  /\ UNCHANGED <<source, grouper, held, panicked, ended, sampled, serverState>>

WorkerReturnsOnce(i) ==  \* only the first worker says that it is done
  /\ gpc = "wait" /\ Free(i) /\ (dialect = "lines" => closed)
  /\ i = 1
  /\ ended' = ended \cup {i}
  /\ UNCHANGED <<source, grouper, busy, next, held, panicked, results, serverState>>

(* The channel the worker receives from is closed and empty.               *)
WorkerReturns(i) ==
  /\ gpc = "wait" /\ Free(i) /\ (dialect = "lines" => closed)
  /\ ended' = ended \cup {i}
  /\ UNCHANGED <<source, grouper, busy, next, held, panicked, results, serverState>>

ReturnEarly ==  \* the workers are not waited for
  /\ gpc = "wait" /\ ended # {}
  /\ gpc' = "returned"
  /\ UNCHANGED <<source, from, found, offered, workers, results, serverState>>

Return ==
  /\ gpc = "wait" /\ ended = Workers
  /\ gpc' = "returned"
  /\ UNCHANGED <<source, from, found, offered, workers, results, serverState>>
-----------------------------------------------------------------------------
GrouperStep ==
  /\ ~panicked
  /\ MySQLLine \/ MySQLEnd \/ PostgreSQLLine \/ PostgreSQLEnd \/ Return

WorkerStep(i) ==
  /\ ~panicked
  /\ \/ TakeGroup(i) \/ TakeLine(i)
     \/ TestPointer(i) \/ Dereference(i) \/ HandleEvent(i)
     \/ WorkerReturns(i)

(* The goroutine of Init and its server.                                   *)
ServerStep ==
  /\ ~panicked
  /\ Poll \/ ServerChanges
  /\ UNCHANGED <<source, grouper, workers, results>>

Next == \/ CloseStream \/ (~panicked /\ DropLine)
        \/ GrouperStep
        \/ \E i \in 1 .. NumParsers : WorkerStep(i)
        \/ ServerStep

Spec == Init /\ [][Next]_vars

(* The goroutines are scheduled and the events are received.  Nothing is   *)
(* assumed of the log.                                                     *)
Fairness == WF_vars(GrouperStep) /\ \A i \in 1 .. NumParsers : WF_vars(WorkerStep(i))

FairSpec == Spec /\ Fairness
-----------------------------------------------------------------------------
(* The lines that are text of a statement, and those that make it one to  *)
(* be sent.                                                                *)
Text   == {"use", "part", "end", "slow", "ignored", "more", "event"}
Wanted == {"use", "end", "slow", "event"}

(* The lines with text of entry e that have arrived, and those of a group. *)
TextOf(e) == {k \in DOMAIN log : log[k].of = e /\ Kind(k) \in Text}
TextIn(g) == {k \in LinesOf(g) : Kind(k) \in Text}

(* An event holds the text of one entry, and all of it: no group is split, *)
(* and none runs into the next.  About groupedLines of the mysql and       *)
(* postgresql parsers.                                                     *)
WholeStatements ==
  \A s \in DOMAIN sent : \E e \in DOMAIN entries : TextIn(sent[s]) = TextOf(e)

(* Entry e arrived whole, and is a statement.                              *)
Statement(e) ==
  /\ \A n \in DOMAIN entries[e] : \E k \in DOMAIN log : log[k].of = e /\ log[k].n = n /\ log[k].kept
  /\ \E n \in DOMAIN entries[e] : entries[e][n] \in Wanted

(* When ProcessLines returns every statement has been sent, once, but for  *)
(* those the sampler dropped, and nothing else has.  About the last group, *)
(* the workers and handleEvent.                                            *)
EveryStatement ==
  gpc = "returned" =>
    /\ \A e \in DOMAIN entries :
         Statement(e) /\ (\A g \in sampled : TextIn(g) \cap TextOf(e) = {}) =>
           \E s \in DOMAIN sent : /\ TextOf(e) \subseteq TextIn(sent[s])
                                  /\ \A r \in DOMAIN sent : TextIn(sent[r]) \cap TextOf(e) # {} => r = s
    /\ \A s \in DOMAIN sent : \E k \in LinesOf(sent[s]) : Kind(k) \in Wanted

(* The query of a mysql event is the statement from the last ";" within it *)
(* on: all of it when it has no other than the one at its end.  Without a  *)
(* statement it is the line that names the database.  About handleEvent.   *)
WholeQuery ==
  dialect = "mysql" =>
    \A s \in DOMAIN sent :
      LET sql  == {k \in LinesOf(sent[s]) : Kind(k) \in {"part", "end"}}
          ends == {k \in sql : Kind(k) = "end"}
      IN QueryOf(sent[s]) = IF ends = {} THEN {k \in LinesOf(sent[s]) : Kind(k) = "use"}
                            ELSE {k \in sql : Cardinality({j \in ends : k <= j}) = 1}

(* No worker holds a group when ProcessLines returns: run() closes the     *)
(* channel of events then (leash.go:177), and a later send would panic.    *)
(* About the two WaitGroups.                                               *)
NothingAfterReturn == gpc = "returned" => \A i \in 1 .. NumParsers : busy[i] = NoSpan

(* A worker reads through a nil pointer, which ends the process, only if   *)
(* the server has changed: it became a primary, stopped to replicate or to *)
(* answer while the worker was between test and use.  About handleEvents   *)
(* and the goroutine of Init, which share the pointers without a lock.     *)
SurvivesPolling == panicked => changed

(* ProcessLines returns after its stream is closed (leash.go:174), so that *)
(* the sender of the stream can end, unless the process has ended.  About  *)
(* rawEvents and the WaitGroups.                                           *)
ParserReturns == closed ~> (gpc = "returned" \/ panicked)
=============================================================================
