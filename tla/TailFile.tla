------------------------------ MODULE TailFile ------------------------------
(***************************************************************************)
(* One logfile segment, the goroutines that tail it, its state file, and   *)
(* the crashes and restarts of the process (tail/tail.go,                  *)
(* tail/watch_entries.go and the hpcloud/tail they drive):                 *)
(*                                                                         *)
(*   tailer   tailFileSync: reads lines, waits at the end of the file;     *)
(*   reader   the goroutine of tailSingleFile that moves lines from        *)
(*            tailer.Lines to the stream the parser reads;                 *)
(*   tick     the goroutine of tailSingleFile that saves the position      *)
(*            once per second, and "final", the reader's own last save.    *)
(*                                                                         *)
(* The segment only grows: it is neither renamed nor truncated while it is *)
(* tailed, so its inode is always the one the state file names.  Offsets   *)
(* count half-lines (module LineFeed).                                     *)
(***************************************************************************)
EXTENDS Integers

CONSTANTS MaxSize,   (* bound: half-lines the writer may write *)
          Chunks,    (* how many half-lines one write of the writer may append *)
          MaxRuns,   (* bound: times the process is started *)
          ReadFrom,  (* the --tail.read_from option *)
          Globbed,   (* the file comes from a glob, so it is new when it has no state file *)
          Modes,     (* the modes a run may tail it in: "follow", "stop" *)
          Poll       (* the --tail.poll option: polling instead of inotify *)

ASSUME TailAssumption == /\ MaxSize \in Nat
                         /\ Chunks \subseteq Nat \ {0}
                         /\ MaxRuns \in Nat
                         /\ ReadFrom \in {"beginning", "end", "last"}
                         /\ Globbed \in BOOLEAN
                         /\ Modes \subseteq {"follow", "stop"}
                         /\ Poll \in BOOLEAN

VARIABLES
  size,      (* half-lines in the logfile *)
  saved,     (* contents of the state file: [kind, off] *)
  up, runs,  (* the process runs; how often it was started *)
  clean,     (* the last run returned from run() after its last save *)
  ctx,       (* the context was cancelled (SIGINT, SIGTERM) *)
  mode,      (* "follow" or "stop": Config.Follow of this run *)
  loc,       (* Config.Location: where to seek before the first read *)
  tpc,       (* tailer: where tailFileSync is *)
  pos,       (* tailer: Tell(), the file position less what is buffered *)
  held,      (* tailer: the line read and not yet sent, or the half line's start *)
  dying,     (* tailer: the reason its tomb was given: "no", "stop", "eof" *)
  armed,     (* tailer.changes exists: the file is being watched *)
  noticed,   (* the watcher knows of the file up to here *)
  modified,  (* the Modified channel holds a notification *)
  rpc,       (* reader: where it is *)
  line,      (* reader: the line it is passing to the parser *)
  given,     (* the parser has received everything from the start to here *)
  ticks,     (* the ticker: "on", "last" (stopped, one tick buffered), "off" *)
  upc, reg,  (* the two updateStateFile calls: where each is, and its local value *)
  state      (* the State struct both calls share: its Offset *)

fileVars  == <<size, saved>>
procVars  == <<up, runs, clean, ctx, mode, loc>>
tailVars  == <<tpc, pos, held, dying>>
watchVars == <<armed, noticed, modified>>
readVars  == <<rpc, line, given>>
saveVars  == <<ticks, upc, reg, state>>
vars == <<fileVars, procVars, tailVars, watchVars, readVars, saveVars>>

LineEnd(o) == 2 * (o \div 2) + 2

Offsets  == 0 .. MaxSize
Span     == [from : Offsets, to : Offsets]
NoSpan   == [from |-> 0, to |-> 0]
Savers   == {"tick", "final"}
Nothing  == -1
Absent   == [kind |-> "absent", off |-> 0]
Blank    == [kind |-> "blank", off |-> 0]
Garbled  == [kind |-> "garbled", off |-> 0]
At(o)    == [kind |-> "at", off |-> o]
AtStart  == [whence |-> "start", off |-> 0]
-----------------------------------------------------------------------------
TypeOK ==
  /\ size \in Offsets
  /\ saved \in [kind : {"absent", "blank", "garbled", "at"}, off : Offsets]
  /\ up \in BOOLEAN /\ runs \in 0 .. MaxRuns
  /\ clean \in BOOLEAN /\ ctx \in BOOLEAN
  /\ mode \in {"follow", "stop"}
  /\ loc \in [whence : {"start", "end"}, off : Offsets]
  /\ tpc \in {"open", "read", "send", "check", "seek", "wait", "closed"}
  /\ pos \in Offsets /\ held \in Span
  /\ dying \in {"no", "stop", "eof"}
  /\ armed \in BOOLEAN /\ modified \in BOOLEAN
  /\ noticed \in Offsets \cup {Nothing}
  /\ rpc \in {"select", "deliver", "closing", "update", "done"}
  /\ line \in Span /\ given \in Offsets
  /\ ticks \in {"on", "last", "off"}
  /\ upc \in [Savers -> {"idle", "set", "marshal", "truncate", "write", "close"}]
  /\ reg \in [Savers -> Offsets]
  /\ state \in Offsets

Init ==
  /\ size = 0 /\ saved = Absent
  /\ up = FALSE /\ runs = 0 /\ clean = FALSE /\ ctx = FALSE
  /\ mode = "follow" /\ loc = AtStart
  /\ tpc = "open" /\ pos = 0 /\ held = NoSpan /\ dying = "no"
  /\ armed = FALSE /\ noticed = Nothing /\ modified = FALSE
  /\ rpc = "select" /\ line = NoSpan /\ given = 0
  /\ ticks = "on" /\ state = 0
  /\ upc = [u \in Savers |-> "idle"] /\ reg = [u \in Savers |-> 0]
-----------------------------------------------------------------------------
(* The program that writes the log.                                        *)
Append ==
  /\ \E n \in Chunks : size + n <= MaxSize /\ size' = size + n
  /\ UNCHANGED <<saved, procVars, tailVars, watchVars, readVars, saveVars>>
-----------------------------------------------------------------------------
(* Where a run starts: a state file that is missing, empty or not JSON     *)
(* means the end of the file.                                              *)
getStartLocation ==
  IF saved.kind = "at" THEN [whence |-> "start", off |-> saved.off]
                       ELSE [whence |-> "end", off |-> 0]

(* A globbed file with no state file is read from its beginning.           *)
readFrom == IF Globbed /\ saved.kind = "absent" THEN "beginning" ELSE ReadFrom

Location == CASE readFrom = "beginning" -> AtStart
              [] readFrom = "end"       -> [whence |-> "end", off |-> 0]
              [] readFrom = "last"      -> getStartLocation

(* The process starts and tails the file: startWatchedFile, getTailer and  *)
(* tailSingleFile, which creates an empty state file at once.              *)
Start ==
  /\ ~up /\ runs < MaxRuns
  /\ up' = TRUE /\ runs' = runs + 1
  /\ mode' \in Modes
  /\ loc' = Location
  /\ saved' = IF saved.kind = "absent" THEN Blank ELSE saved
  /\ UNCHANGED <<size, clean, ctx, tailVars, watchVars, readVars, saveVars>>

SeekStartAtEnd ==  \* every location is taken relative to the end
  /\ up /\ tpc = "open"
  /\ pos' = size
  /\ given' = pos'
  /\ tpc' = "read"
  /\ UNCHANGED <<fileVars, procVars, held, dying, watchVars, rpc, line, saveVars>>

(* tailFileSync seeks to the requested location and opens its reader.      *)
SeekStart ==
  /\ up /\ tpc = "open"
  /\ pos' = IF loc.whence = "end" THEN size ELSE loc.off
  /\ given' = pos'
  /\ tpc' = "read"
  /\ UNCHANGED <<fileVars, procVars, held, dying, watchVars, rpc, line, saveVars>>

ReadLineBeyondEOF ==  \* a line is read before it is complete
  /\ up /\ tpc = "read"
  /\ pos' = LineEnd(pos)
  /\ held' = [from |-> pos, to |-> LineEnd(pos)]
  /\ tpc' = "send"
  /\ UNCHANGED <<fileVars, procVars, dying, watchVars, readVars, saveVars>>

(* readLine finds a whole line.                                            *)
ReadLine ==
  /\ up /\ tpc = "read"
  /\ LineEnd(pos) <= size
  /\ pos' = LineEnd(pos)
  /\ held' = [from |-> pos, to |-> LineEnd(pos)]
  /\ tpc' = "send"
  /\ UNCHANGED <<fileVars, procVars, dying, watchVars, readVars, saveVars>>

(* readLine meets the end of the file.  When following, the half line it   *)
(* consumed is given back by a seek; otherwise it is sent as it is.        *)
ReadEOF ==
  /\ up /\ tpc = "read"
  /\ size < LineEnd(pos)
  /\ held' = IF pos < size THEN [from |-> pos, to |-> size] ELSE NoSpan
  /\ pos' = size
  /\ \/ /\ mode = "stop"
        /\ tpc' = IF pos < size THEN "send" ELSE "closed"
     \/ /\ mode = "follow"
        /\ tpc' = IF pos < size THEN "seek" ELSE "wait"
  /\ UNCHANGED <<fileVars, procVars, dying, watchVars, readVars, saveVars>>

SeekBackForgotten ==  \* the half line is not given back
  /\ up /\ tpc = "seek"
  /\ held' = NoSpan
  /\ tpc' = "wait"
  /\ UNCHANGED <<fileVars, procVars, pos, dying, watchVars, readVars, saveVars>>

SeekBack ==
  /\ up /\ tpc = "seek"
  /\ pos' = held.from
  /\ held' = NoSpan
  /\ tpc' = "wait"
  /\ UNCHANGED <<fileVars, procVars, dying, watchVars, readVars, saveVars>>

SendLineUnblocked ==  \* the tailer does not wait for the reader
  /\ up /\ tpc = "send" /\ rpc \in {"select", "deliver"}
  /\ line' = held /\ held' = NoSpan /\ rpc' = "deliver"
  /\ tpc' = IF held.to < LineEnd(held.from) THEN "closed" ELSE "check"
  /\ UNCHANGED <<fileVars, procVars, pos, dying, watchVars, given, saveVars>>

(* The rendezvous on tailer.Lines: sendLine blocks until the reader        *)
(* receives, with no way out for a tailer that is told to stop.  The       *)
(* rest of a half line at the end of an unfollowed file ends the tailer.   *)
SendLine ==
  /\ up /\ tpc = "send" /\ rpc = "select"
  /\ line' = held /\ held' = NoSpan /\ rpc' = "deliver"
  /\ tpc' = IF held.to < LineEnd(held.from) THEN "closed" ELSE "check"
  /\ UNCHANGED <<fileVars, procVars, pos, dying, watchVars, given, saveVars>>

(* The select at the end of tailFileSync's loop.                           *)
CheckDying ==
  /\ up /\ tpc = "check"
  /\ tpc' = IF dying = "stop" THEN "closed" ELSE "read"
  /\ UNCHANGED <<fileVars, procVars, pos, held, dying, watchVars, readVars, saveVars>>

ArmWatchFromHere ==  \* the poller starts from the size it finds
  /\ up /\ tpc = "wait" /\ ~armed
  /\ armed' = TRUE
  /\ noticed' = size
  /\ UNCHANGED <<fileVars, procVars, tailVars, modified, readVars, saveVars>>

(* The first wait at the end of the file starts watching it.  inotify      *)
(* reports only what is written after the watch exists; the first look of  *)
(* the poller always reports a change.                                     *)
ArmWatch ==
  /\ up /\ tpc = "wait" /\ ~armed
  /\ armed' = TRUE
  /\ noticed' = IF Poll THEN Nothing ELSE size
  /\ UNCHANGED <<fileVars, procVars, tailVars, modified, readVars, saveVars>>

(* The watcher's goroutine; it may look once more when the tailer is dying *)
(* and then leaves.                                                        *)
Notify ==
  /\ up /\ armed /\ tpc # "closed"
  /\ noticed # size
  /\ noticed' = size
  /\ modified' = TRUE
  /\ UNCHANGED <<fileVars, procVars, tailVars, armed, readVars, saveVars>>

(* waitForChanges: select between Modified and Dying, either when both are *)
(* ready.                                                                  *)
WakeModified ==
  /\ up /\ tpc = "wait" /\ armed /\ modified
  /\ modified' = FALSE
  /\ tpc' = "check"
  /\ UNCHANGED <<fileVars, procVars, pos, held, dying, armed, noticed, readVars, saveVars>>

WakeDyingStopOnly ==  \* the wait is not ended by StopAtEOF
  /\ up /\ tpc = "wait" /\ armed /\ dying = "stop"
  /\ tpc' = "closed"
  /\ UNCHANGED <<fileVars, procVars, pos, held, dying, watchVars, readVars, saveVars>>

WakeDyingAtEOFOnly ==  \* the wait is not ended by Stop
  /\ up /\ tpc = "wait" /\ armed /\ dying = "eof"
  /\ tpc' = "closed"
  /\ UNCHANGED <<fileVars, procVars, pos, held, dying, watchVars, readVars, saveVars>>

WakeDying ==
  /\ up /\ tpc = "wait" /\ armed /\ dying # "no"
  /\ tpc' = "closed"
  /\ UNCHANGED <<fileVars, procVars, pos, held, dying, watchVars, readVars, saveVars>>
-----------------------------------------------------------------------------
(* The parser receives the line the reader holds.                          *)
Deliver ==
  /\ up /\ rpc = "deliver"
  /\ given' = line.to
  /\ line' = NoSpan
  /\ rpc' = "select"
  /\ UNCHANGED <<fileVars, procVars, tailVars, watchVars, saveVars>>

LeaveLoopOnCancelOnly ==  \* the reader does not see that Lines is closed
  /\ up /\ rpc = "select"
  /\ ctx
  /\ rpc' = "closing"
  /\ UNCHANGED <<fileVars, procVars, tailVars, watchVars, line, given, saveVars>>

(* The reader leaves its loop because tailer.Lines is closed, or because   *)
(* the context is cancelled, even when a line is on offer.                 *)
LeaveLoop ==
  /\ up /\ rpc = "select"
  /\ tpc = "closed" \/ ctx
  /\ rpc' = "closing"
  /\ UNCHANGED <<fileVars, procVars, tailVars, watchVars, line, given, saveVars>>

(* close(lines) and ticker.Stop(), which does not wait for a tick that is  *)
(* being handled nor take back one that is buffered.                       *)
CloseLines ==
  /\ up /\ rpc = "closing"
  /\ rpc' = "update"
  /\ ticks' \in {"last", "off"}
  /\ UNCHANGED <<fileVars, procVars, tailVars, watchVars, line, given, upc, reg, state>>
-----------------------------------------------------------------------------
TellUnbuffered(u) ==  \* what is buffered is not subtracted
  /\ up /\ upc[u] = "idle"
  /\ IF u = "tick" THEN ticks # "off" ELSE rpc = "update"
  /\ ticks' = IF u = "tick" /\ ticks = "last" THEN "off" ELSE ticks
  /\ reg' = [reg EXCEPT ![u] = size]
  /\ upc' = [upc EXCEPT ![u] = "set"]
  /\ UNCHANGED <<fileVars, procVars, tailVars, watchVars, readVars, state>>

(* updateStateFile, run by the tick goroutine and once by the reader:      *)
(* Tell, store into the shared state, marshal it, truncate, write.         *)
Tell(u) ==
  /\ up /\ upc[u] = "idle"
  /\ IF u = "tick" THEN ticks # "off" ELSE rpc = "update"
  /\ ticks' = IF u = "tick" /\ ticks = "last" THEN "off" ELSE ticks
  /\ reg' = [reg EXCEPT ![u] = pos]
  /\ upc' = [upc EXCEPT ![u] = "set"]
  /\ UNCHANGED <<fileVars, procVars, tailVars, watchVars, readVars, state>>

SetState(u) ==
  /\ up /\ upc[u] = "set"
  /\ state' = reg[u]
  /\ upc' = [upc EXCEPT ![u] = "marshal"]
  /\ UNCHANGED <<fileVars, procVars, tailVars, watchVars, readVars, ticks, reg>>

Marshal(u) ==
  /\ up /\ upc[u] = "marshal"
  /\ reg' = [reg EXCEPT ![u] = state]
  /\ upc' = [upc EXCEPT ![u] = "truncate"]
  /\ UNCHANGED <<fileVars, procVars, tailVars, watchVars, readVars, ticks, state>>

(* Once the reader has closed the file, truncating and writing fail.       *)
Truncate(u) ==
  /\ up /\ upc[u] = "truncate"
  /\ saved' = IF rpc = "done" THEN saved ELSE Blank
  /\ upc' = [upc EXCEPT ![u] = "write"]
  /\ UNCHANGED <<size, procVars, tailVars, watchVars, readVars, ticks, reg, state>>

(* A write over contents that were not truncated leaves the end of the     *)
(* longer text behind, when it has more digits.                            *)
Write(u) ==
  /\ up /\ upc[u] = "write"
  /\ saved' \in CASE rpc = "done" -> {saved}
                  [] rpc # "done" /\ saved.kind = "blank" -> {At(reg[u])}
                  [] rpc # "done" /\ saved.kind # "blank" ->
                       {At(reg[u])} \cup
                       (IF saved.kind = "garbled" \/ reg[u] < saved.off THEN {Garbled} ELSE {})
  /\ upc' = [upc EXCEPT ![u] = IF u = "tick" THEN "idle" ELSE "close"]
  /\ reg' = [reg EXCEPT ![u] = 0]
  /\ UNCHANGED <<size, procVars, tailVars, watchVars, readVars, ticks, state>>

(* stateFh.Close(), the reader's last step.                                *)
CloseState ==
  /\ up /\ rpc = "update" /\ upc["final"] = "close"
  /\ rpc' = "done"
  /\ UNCHANGED <<fileVars, procVars, tailVars, watchVars, line, given, saveVars>>
-----------------------------------------------------------------------------
(* The signal handler cancels the context.                                 *)
Cancel ==
  /\ up /\ ~ctx
  /\ ctx' = TRUE
  /\ UNCHANGED <<fileVars, up, runs, clean, mode, loc, tailVars, watchVars, readVars, saveVars>>

(* On cancellation watchEntries stops the newest file of each glob: Kill,  *)
(* then Wait until the tailer is closed.                                   *)
Stop ==
  /\ up /\ ctx /\ Globbed /\ mode = "follow" /\ dying = "no" /\ tpc # "closed"
  /\ dying' = "stop"
  /\ UNCHANGED <<fileVars, procVars, tpc, pos, held, watchVars, readVars, saveVars>>

(* A newer file of the glob was discovered: stopAtEOFAndCleanup.           *)
StopAtEOF ==
  /\ up /\ Globbed /\ mode = "follow" /\ dying = "no" /\ tpc # "closed"
  /\ dying' = "eof"
  /\ UNCHANGED <<fileVars, procVars, tpc, pos, held, watchVars, readVars, saveVars>>

(* The end of the process takes every goroutine with it, wherever it is:   *)
(* only the two files, and what the parser was given, are left.            *)
ProcessEnds ==
  /\ up' = FALSE /\ ctx' = FALSE
  /\ mode' = "follow" /\ loc' = AtStart
  /\ tpc' = "open" /\ pos' = 0 /\ held' = NoSpan /\ dying' = "no"
  /\ armed' = FALSE /\ noticed' = Nothing /\ modified' = FALSE
  /\ rpc' = "select" /\ line' = NoSpan
  /\ ticks' = "on" /\ state' = 0
  /\ upc' = [u \in Savers |-> "idle"] /\ reg' = [u \in Savers |-> 0]
  /\ UNCHANGED <<fileVars, runs, given>>

(* run() returns: the streams are closed and, on cancellation, the newest  *)
(* file's tailer has been waited for.  Nothing waits for the last save.    *)
Exit ==
  /\ up /\ rpc \in {"update", "done"}
  /\ ctx \/ mode = "stop"
  /\ ctx /\ Globbed /\ mode = "follow" /\ dying # "eof" => tpc = "closed"
  /\ clean' = (rpc = "done")
  /\ ProcessEnds

(* The process is killed, or gives up 10 seconds after the signal.         *)
Crash ==
  /\ up
  /\ clean' = FALSE
  /\ ProcessEnds
-----------------------------------------------------------------------------
TailerStep == \/ SeekStart \/ ReadLine \/ ReadEOF \/ SeekBack \/ CheckDying
              \/ ArmWatch \/ Notify \/ WakeModified \/ WakeDying

ReaderStep == Deliver \/ LeaveLoop \/ CloseLines \/ CloseState

SaveStep(u) == Tell(u) \/ SetState(u) \/ Marshal(u) \/ Truncate(u) \/ Write(u)

Next == \/ Append
        \/ Start \/ Cancel \/ Stop \/ StopAtEOF \/ Exit \/ Crash
        \/ TailerStep \/ SendLine \/ ReaderStep
        \/ \E u \in Savers : SaveStep(u)

Spec == Init /\ [][Next]_vars

(* The goroutines are scheduled and the parser keeps reading.  Nothing is  *)
(* assumed of the writer, of signals, of crashes or of restarts.  The      *)
(* select of the reader may ignore an offered line for as long as the      *)
(* context is cancelled, which weak fairness of LeaveLoop covers.          *)
Fairness == /\ WF_vars(SeekStart \/ ReadLine \/ ReadEOF \/ SeekBack \/ CheckDying)
            /\ WF_vars(ArmWatch) /\ WF_vars(dying = "no" /\ Notify)
            /\ WF_vars(WakeModified \/ WakeDying)
            /\ WF_vars(SendLine) /\ WF_vars(ReaderStep)
            /\ WF_vars(Stop)
            /\ \A u \in Savers : WF_vars(SaveStep(u))

FairSpec == Spec /\ Fairness
-----------------------------------------------------------------------------
(* What the tailer has handed to the reader ends here.                     *)
Handed == IF rpc = "deliver" THEN line.to ELSE given

(* No line is skipped, repeated or reordered between the file and the      *)
(* parser: the line in the reader's hand starts where the parser stands,   *)
(* and the line in the tailer's hand where the reader's line ends.  About  *)
(* tailFileSync, sendLine and the reader loop of tailSingleFile.           *)
InOrder ==
  /\ up /\ rpc = "deliver" => line.from = given /\ given < line.to
  /\ up /\ tpc = "send" => held.from = Handed /\ held.to = pos
  /\ up /\ tpc \in {"read", "check", "wait"} => pos = Handed

(* The saved position is never more than two lines ahead of the parser:    *)
(* one line in the reader's hand, one in the tailer's.  About Tell and     *)
(* updateStateFile racing with the two goroutines, across crashes.         *)
SavedAtMostTwoAhead ==
  ReadFrom # "beginning" /\ saved.kind = "at" => saved.off <= LineEnd(LineEnd(given))

(* A run that resumes from a saved position skips at most two lines of     *)
(* those no earlier run delivered.  About getStartLocation and SeekStart   *)
(* after any crash.                                                        *)
SkipsAtMostTwo ==
  [][ReadFrom = "last" /\ SeekStart /\ loc.whence = "start"
       => given' <= LineEnd(LineEnd(given))]_vars

(* While the process runs the parser is fed as module LineFeed promises.   *)
Feed == INSTANCE LineFeed WITH live <- up /\ tpc # "open", next <- given
ImplementsLineFeed == Feed!FeedSpec
=============================================================================
