---------------------------- MODULE WatchEntries ----------------------------
(***************************************************************************)
(* watchEntries of tail/watch_entries.go: the goroutine that finds the     *)
(* logfiles of one glob, starts a tailer for each, follows the newest,     *)
(* retires the one it replaces and forgets files that were deleted, while  *)
(* the logfiles are created, written and removed, and the process crashes  *)
(* and restarts.  Without a glob it tails one exact file, which the tailer *)
(* reopens by name when it is replaced.                                    *)
(*                                                                         *)
(* File names are numbers in the order that sort.Strings gives them; a     *)
(* file has an inode, a new one whenever its name is created again.  What  *)
(* goes on inside one tailer is module TailFile: here a line goes to its   *)
(* parser in one step, and a position is saved in one step.                *)
(***************************************************************************)
EXTENDS Integers, FiniteSets

CONSTANTS NumFiles,    (* how many names match the glob *)
          MaxInodes,   (* bound: files created *)
          MaxLines,    (* bound: lines in one file *)
          MaxWritten,  (* bound: the files that are written to, the first ones *)
          MaxCancelled, (* bound: files created when the context is cancelled *)
          MaxTailers,  (* bound: tailers at one time *)
          MaxRuns,     (* bound: times the process is started *)
          Globbed,     (* the path is a glob; otherwise it is the name 1 *)
          DotLog,      (* the pattern ends in .log *)
          StopOption,  (* the --tail.stop option *)
          Reused       (* names created at any time and again; of the others
                          each new file has the next one, once *)

ASSUME WatchAssumption ==
  /\ {NumFiles, MaxInodes, MaxTailers} \subseteq Nat \ {0}
  /\ {MaxLines, MaxWritten, MaxCancelled, MaxRuns} \subseteq Nat
  /\ {Globbed, DotLog, StopOption} \subseteq BOOLEAN
  /\ Reused \subseteq 1 .. NumFiles

Files   == 1 .. NumFiles
Inodes  == 1 .. MaxInodes
Tailers == 1 .. MaxTailers
None    == 0  (* no inode, no tailer, no file *)

VARIABLES
  ino,        (* ino[f]: the inode of name f, or None *)
  made,       (* how many inodes were created *)
  size,       (* size[i]: lines in inode i *)
  st,         (* st[f]: the state file of f *)
  up, runs, ctx,  (* the process runs; how often started; context cancelled *)
  w,          (* where watchEntries is *)
  known,      (* watched.known *)
  listed,     (* the files the ticker's Glob found *)
  todo,       (* the files it has still to start *)
  active,     (* watched.active: the tailer of the newest file *)
  previous,   (* the tailer that active replaces *)
  fresh,      (* the tailer whose stream is being sent *)
  gone,       (* the deleted file whose tailer is being stopped *)
  retiring,   (* tailers a stopAtEOFAndCleanup goroutine was started for *)
  tl          (* tl[t]: tailer t *)

disk  == <<ino, made, size, st>>
proc  == <<up, runs, ctx>>
watch == <<w, known, listed, todo, active, previous, fresh, gone, retiring>>
vars  == <<disk, proc, watch, tl>>

Absent    == [kind |-> "absent", ino |-> None, off |-> 0]
Blank     == [kind |-> "blank", ino |-> None, off |-> 0]
At(i, o)  == [kind |-> "at", ino |-> i, off |-> o]

NoTailer == [file |-> None, ino |-> None, off |-> 0, ph |-> "none", follow |-> FALSE,
             dying |-> "no", armed |-> None, linked |-> FALSE]

(* What the pattern matches, state files aside. *)
Present  == {f \in Files : ino[f] # None}
Alive(t) == tl[t].ph \in {"read", "wait", "reopen"}
-----------------------------------------------------------------------------
StateFile == [kind : {"absent", "blank", "at"}, ino : Inodes \cup {None}, off : 0 .. MaxLines]

Tailer == [file : Files \cup {None}, ino : Inodes \cup {None}, off : 0 .. MaxLines,
           ph : {"none", "read", "wait", "reopen", "closed"},
           follow : BOOLEAN, dying : {"no", "stop", "eof"},
           armed : Inodes \cup {None}, linked : BOOLEAN]

TypeOK ==
  /\ ino \in [Files -> Inodes \cup {None}] /\ made \in 0 .. MaxInodes
  /\ size \in [Inodes -> 0 .. MaxLines]
  /\ st \in [Files -> StateFile]
  /\ up \in BOOLEAN /\ runs \in 0 .. MaxRuns /\ ctx \in BOOLEAN
  /\ w \in {"start", "sendFirst", "idle", "delete", "await", "discover", "send",
            "abandon", "last", "returned"}
  /\ known \subseteq Files /\ listed \subseteq Files /\ todo \subseteq Files
  /\ {active, previous, fresh} \subseteq Tailers \cup {None}
  /\ gone \in Files \cup {None} /\ retiring \subseteq Tailers
  /\ tl \in [Tailers -> Tailer]

Init ==
  /\ ino = [f \in Files |-> None] /\ made = 0
  /\ size = [i \in Inodes |-> 0]
  /\ st = [f \in Files |-> Absent]
  /\ up = FALSE /\ runs = 0 /\ ctx = FALSE
  /\ w = "start" /\ known = {} /\ listed = {} /\ todo = {}
  /\ active = None /\ previous = None /\ fresh = None /\ gone = None /\ retiring = {}
  /\ tl = [t \in Tailers |-> NoTailer]
-----------------------------------------------------------------------------
(* The database that writes the logs, and whoever removes them.            *)
Create(f) ==
  /\ ino[f] = None /\ made < MaxInodes /\ (ctx => made < MaxCancelled)
  /\ f \in Reused \/ f = made + 1
  /\ made' = made + 1
  /\ ino' = [ino EXCEPT ![f] = made + 1]
  /\ UNCHANGED <<size, st, proc, watch, tl>>

Append(f) ==
  /\ ino[f] # None /\ ino[f] <= MaxWritten /\ size[ino[f]] < MaxLines
  /\ size' = [size EXCEPT ![ino[f]] = @ + 1]
  /\ UNCHANGED <<ino, made, st, proc, watch, tl>>

Remove(f) ==
  /\ ino[f] # None
  /\ ino' = [ino EXCEPT ![f] = None]
  /\ UNCHANGED <<made, size, st, proc, watch, tl>>
-----------------------------------------------------------------------------
(* Where reading starts with --tail.read_from=last.                        *)
StartOffset(f) ==
  CASE st[f].kind = "absent" -> IF Globbed THEN 0 ELSE size[ino[f]]
    [] st[f].kind = "blank"  -> size[ino[f]]
    [] st[f].kind = "at"     -> IF st[f].ino = ino[f] THEN st[f].off ELSE 0

(* The least of S, if it is not empty.                                     *)
First(S) == {x \in S : \A y \in S : x <= y}

(* Ids of tailers that are neither running nor referred to.                *)
FreeTailers ==
  {t \in Tailers : tl[t].ph = "none" /\ t \notin {active, previous, fresh} \cup retiring}

(* startWatchedFile: the tailer opens the file, tailSingleFile creates the *)
(* state file.                                                             *)
Open(t, f, follow) ==
  /\ tl' = [tl EXCEPT ![t] = [NoTailer EXCEPT !.file = f, !.ino = ino[f],
                              !.off = StartOffset(f), !.ph = "read",
                              !.follow = follow, !.linked = TRUE]]
  /\ st' = [st EXCEPT ![f] = IF @.kind = "absent" THEN Blank ELSE @]

RemoveState(f) ==
  /\ st' = [st EXCEPT ![f] = Absent]
  /\ tl' = [t \in Tailers |-> IF tl[t].file = f THEN [tl[t] EXCEPT !.linked = FALSE]
                                                ELSE tl[t]]

(* The state files of files that are not there are removed, when the       *)
(* pattern tells their names.                                              *)
CleanupStaleGlobStates(files) ==
  st' = [f \in Files |-> IF DotLog /\ f \notin files THEN Absent ELSE st[f]]

(* The process starts: watchEntries lists the files.  It gives up when the *)
(* glob matches nothing.                                                   *)
Start ==
  /\ ~up /\ runs < MaxRuns
  /\ Globbed => Present # {}
  /\ up' = TRUE /\ runs' = runs + 1
  /\ todo' = IF Globbed THEN Present ELSE {1}
  /\ known' = IF Globbed THEN Present ELSE {}
  /\ IF Globbed THEN CleanupStaleGlobStates(Present) ELSE UNCHANGED st
  /\ w' = "start"
  /\ UNCHANGED <<ino, made, size, ctx, listed, active, previous, fresh, gone, retiring, tl>>

(* The next of the listed files: all but the last are only read to their   *)
(* end.  A file that is not there any more is skipped.                     *)
StartFile ==
  /\ up /\ w = "start" /\ todo # {}
  /\ \E f \in First(todo) :
       /\ todo' = todo \ {f}
       /\ \/ /\ ino[f] = None
             /\ UNCHANGED <<st, tl, w, active, fresh>>
          \/ /\ ino[f] # None
             /\ \E t \in First(FreeTailers) :
                  /\ fresh' = t
                  /\ Open(t, f, todo = {f} /\ ~StopOption)
                  /\ active' = IF Globbed /\ todo = {f} THEN t ELSE active
             /\ w' = "sendFirst"
  /\ UNCHANGED <<ino, made, size, proc, known, listed, previous, gone, retiring>>

SendFirst ==
  /\ up /\ w = "sendFirst"
  /\ \/ w' = "start"
     \/ ctx /\ w' = "returned"
  /\ fresh' = None
  /\ UNCHANGED <<disk, proc, known, listed, todo, active, previous, gone, retiring, tl>>

StartsDone ==
  /\ up /\ w = "start" /\ todo = {}
  /\ w' = IF StopOption \/ ~Globbed THEN "returned" ELSE "idle"
  /\ UNCHANGED <<disk, proc, known, listed, todo, active, previous, fresh, gone, retiring, tl>>
-----------------------------------------------------------------------------
(* The ticker: list the files again.                                       *)
Scan ==
  /\ up /\ w = "idle"
  /\ listed' = Present
  /\ w' = "delete"
  /\ UNCHANGED <<disk, proc, known, todo, active, previous, fresh, gone, retiring, tl>>

ForgetFileKeepState(f) ==  \* the state file of a deleted logfile is left
  /\ up /\ w = "delete" /\ f \in known \ listed
  /\ known' = known \ {f}
  /\ IF active # None /\ tl[active].file = f
       THEN /\ tl' = [tl EXCEPT ![active].dying = "stop"]
            /\ gone' = f /\ w' = "await"
            /\ UNCHANGED st
       ELSE /\ UNCHANGED <<st, tl, gone, w>>
  /\ UNCHANGED <<ino, made, size, proc, listed, todo, active, previous, fresh, retiring>>

(* A known file that is not listed is forgotten; the active one is stopped *)
(* first, and waited for.                                                  *)
ForgetFile(f) ==
  /\ up /\ w = "delete" /\ f \in known \ listed
  /\ known' = known \ {f}
  /\ IF active # None /\ tl[active].file = f
       THEN /\ tl' = [tl EXCEPT ![active].dying = "stop"]
            /\ gone' = f /\ w' = "await"
            /\ UNCHANGED st
       ELSE /\ RemoveState(f)
            /\ UNCHANGED <<gone, w>>
  /\ UNCHANGED <<ino, made, size, proc, listed, todo, active, previous, fresh, retiring>>

ForgetActive ==
  /\ up /\ w = "await" /\ ~Alive(active)
  /\ active' = None /\ gone' = None
  /\ RemoveState(gone)
  /\ w' = "delete"
  /\ UNCHANGED <<ino, made, size, proc, known, listed, todo, previous, fresh, retiring>>

NoneGoneManyNew ==  \* a single new file is not enough to be discovered
  /\ up /\ w = "delete" /\ known \subseteq listed
  /\ todo' = (IF Cardinality(listed \ known) <= 1 THEN {} ELSE listed \ known) /\ listed' = {}
  /\ w' = "discover"
  /\ UNCHANGED <<disk, proc, known, active, previous, fresh, gone, retiring, tl>>

NoneGone ==
  /\ up /\ w = "delete" /\ known \subseteq listed
  /\ todo' = listed \ known /\ listed' = {}
  /\ w' = "discover"
  /\ UNCHANGED <<disk, proc, known, active, previous, fresh, gone, retiring, tl>>

DiscoverUnrecorded ==  \* the new file is not added to the known ones
  /\ up /\ w = "discover" /\ todo # {}
  /\ \E f \in First(todo) :
       /\ todo' = todo \ {f}
       /\ \/ /\ ino[f] = None
             /\ UNCHANGED <<st, tl, w, known, active, previous, fresh>>
          \/ /\ ino[f] # None
             /\ \E t \in First(FreeTailers) :
                  /\ fresh' = t /\ active' = t
                  /\ Open(t, f, ~StopOption)
             /\ UNCHANGED known
             /\ previous' = active
             /\ w' = "send"
  /\ UNCHANGED <<ino, made, size, proc, listed, gone, retiring>>

(* The next of the new files becomes the active one.  A file that is not   *)
(* there any more is left to the next scan.                                *)
Discover ==
  /\ up /\ w = "discover" /\ todo # {}
  /\ \E f \in First(todo) :
       /\ todo' = todo \ {f}
       /\ \/ /\ ino[f] = None
             /\ UNCHANGED <<st, tl, w, known, active, previous, fresh>>
          \/ /\ ino[f] # None
             /\ \E t \in First(FreeTailers) :
                  /\ fresh' = t /\ active' = t
                  /\ Open(t, f, ~StopOption)
             /\ known' = known \cup {f}
             /\ previous' = active
             /\ w' = "send"
  /\ UNCHANGED <<ino, made, size, proc, listed, gone, retiring>>

SendForgotPrevious ==  \* the replaced tailer is never told to end
  /\ up /\ w = "send"
  /\ \/ /\ w' = "discover"
        /\ previous' = None
        /\ UNCHANGED <<retiring, tl>>
     \/ /\ ctx
        /\ w' = "abandon"
        /\ tl' = [tl EXCEPT ![fresh].dying = "stop"]
        /\ UNCHANGED <<previous, retiring>>
  /\ fresh' = None
  /\ UNCHANGED <<disk, proc, known, listed, todo, active, gone>>

(* Once run() has the stream the replaced tailer is retired in a goroutine *)
(* of its own.  On cancellation the new tailer is stopped and waited for.  *)
Send ==
  /\ up /\ w = "send"
  /\ \/ /\ w' = "discover"
        /\ retiring' = IF previous = None THEN retiring ELSE retiring \cup {previous}
        /\ previous' = None
        /\ UNCHANGED tl
     \/ /\ ctx
        /\ w' = "abandon"
        /\ tl' = [tl EXCEPT ![fresh].dying = "stop"]
        /\ UNCHANGED <<previous, retiring>>
  /\ fresh' = None
  /\ UNCHANGED <<disk, proc, known, listed, todo, active, gone>>

DiscoverDone ==
  /\ up /\ w = "discover" /\ todo = {}
  /\ w' = "idle"
  /\ UNCHANGED <<disk, proc, known, listed, todo, active, previous, fresh, gone, retiring, tl>>

(* The context is cancelled while waiting for the ticker: the active       *)
(* tailer is stopped and waited for.                                       *)
StopActive ==
  /\ up /\ w = "idle" /\ ctx
  /\ w' = "last"
  /\ tl' = IF active = None THEN tl ELSE [tl EXCEPT ![active].dying = "stop"]
  /\ UNCHANGED <<disk, proc, known, listed, todo, active, previous, fresh, gone, retiring>>

Return ==
  /\ up /\ w \in {"abandon", "last"}
  /\ active # None => ~Alive(active)
  /\ w' = "returned"
  /\ UNCHANGED <<disk, proc, known, listed, todo, active, previous, fresh, gone, retiring, tl>>

(* stopAtEOFAndCleanup(previous).                                          *)
Retire(t) ==
  /\ t \in retiring
  /\ retiring' = retiring \ {t}
  /\ tl' = [tl EXCEPT ![t].dying = IF @ = "no" THEN "eof" ELSE @]
  /\ UNCHANGED <<disk, proc, w, known, listed, todo, active, previous, fresh, gone>>
-----------------------------------------------------------------------------
ReadPastEnd(t) ==  \* the end of the file is not looked at
  /\ tl[t].ph = "read" /\ t # fresh
  /\ tl' = [tl EXCEPT ![t].off = @ + 1]
  /\ UNCHANGED <<disk, proc, watch>>

(* A tailer gives the next line to its parser, once run() has its stream.  *)
Read(t) ==
  /\ tl[t].ph = "read" /\ t # fresh
  /\ tl[t].off < size[tl[t].ino]
  /\ tl' = [tl EXCEPT ![t].off = @ + 1]
  /\ UNCHANGED <<disk, proc, watch>>

(* At the end of the file it closes, or waits for a change of the file     *)
(* that now has the name.  Without such a file it gives up.                *)
AtEOF(t) ==
  /\ tl[t].ph = "read" /\ tl[t].off >= size[tl[t].ino]
  /\ IF tl[t].follow /\ (tl[t].armed # None \/ ino[tl[t].file] # None)
       THEN tl' = [tl EXCEPT ![t].ph = "wait",
                             ![t].armed = IF @ = None THEN ino[tl[t].file] ELSE @]
       ELSE tl' = [tl EXCEPT ![t].ph = "closed"]
  /\ UNCHANGED <<disk, proc, watch>>

(* A tailer that is told to stop looks up after each line.                 *)
StopReading(t) ==
  /\ tl[t].ph = "read" /\ tl[t].dying = "stop"
  /\ tl' = [tl EXCEPT ![t].ph = "closed"]
  /\ UNCHANGED <<disk, proc, watch>>

(* The three ends of waitForChanges: the file has grown, the name has lost *)
(* the file that was watched, or the tailer is told to end.                *)
Modified(t) ==
  /\ tl[t].ph = "wait" /\ tl[t].off < size[tl[t].ino]
  /\ tl' = [tl EXCEPT ![t].ph = "read"]
  /\ UNCHANGED <<disk, proc, watch>>

Deleted(t) ==
  /\ tl[t].ph = "wait" /\ ino[tl[t].file] # tl[t].armed
  /\ tl' = [tl EXCEPT ![t].ph = "reopen", ![t].armed = None]
  /\ UNCHANGED <<disk, proc, watch>>

DyingIgnored(t) ==  \* a tailer that waits does not see that it is to end
  /\ tl[t].ph = "reopen" /\ tl[t].dying # "no"
  /\ tl' = [tl EXCEPT ![t].ph = "closed"]
  /\ UNCHANGED <<disk, proc, watch>>

Dying(t) ==
  /\ tl[t].ph \in {"wait", "reopen"} /\ tl[t].dying # "no"
  /\ tl' = [tl EXCEPT ![t].ph = "closed"]
  /\ UNCHANGED <<disk, proc, watch>>

(* reopen: open the file that has the name, when there is one.             *)
Reopen(t) ==
  /\ tl[t].ph = "reopen" /\ ino[tl[t].file] # None
  /\ tl' = [tl EXCEPT ![t].ino = ino[tl[t].file], ![t].off = 0, ![t].ph = "read"]
  /\ UNCHANGED <<ino, made, size, st, proc, watch>>

(* updateStateFile: the inode is that of the name, the offset that of the  *)
(* open file.  A state file that was removed is written all the same, but  *)
(* has no name.  The last save of a closed tailer ends it.                 *)
Save(t) ==
  /\ tl[t].ph # "none"
  /\ st' = IF tl[t].linked THEN [st EXCEPT ![tl[t].file] = At(ino[tl[t].file], tl[t].off)]
                           ELSE st
  /\ tl' = IF tl[t].ph = "closed" THEN [tl EXCEPT ![t] = [NoTailer EXCEPT !.file =
                                                       IF t = active THEN tl[t].file ELSE None]]
                                 ELSE tl
  /\ UNCHANGED <<ino, made, size, proc, watch>>
-----------------------------------------------------------------------------
Cancel ==
  /\ up /\ ~ctx /\ made <= MaxCancelled
  /\ ctx' = TRUE
  /\ UNCHANGED <<disk, up, runs, watch, tl>>

(* The process ends, in order or not.                                      *)
Crash ==
  /\ up
  /\ up' = FALSE /\ ctx' = FALSE
  /\ w' = "start" /\ known' = {} /\ listed' = {} /\ todo' = {}
  /\ active' = None /\ previous' = None /\ fresh' = None /\ gone' = None /\ retiring' = {}
  /\ tl' = [t \in Tailers |-> NoTailer]
  /\ UNCHANGED <<disk, runs>>
-----------------------------------------------------------------------------
WriterStep == \E f \in Files : Create(f) \/ Append(f) \/ Remove(f)

WatcherStep ==
  \/ StartFile \/ SendFirst \/ StartsDone
  \/ Scan \/ (\E f \in Files : ForgetFile(f)) \/ ForgetActive \/ NoneGone
  \/ Discover \/ Send \/ DiscoverDone
  \/ StopActive \/ Return

TailerStep(t) ==
  \/ Read(t) \/ AtEOF(t) \/ StopReading(t)
  \/ Modified(t) \/ Deleted(t) \/ Dying(t) \/ Reopen(t)

Next == \/ WriterStep
        \/ Start \/ Cancel \/ Crash
        \/ WatcherStep
        \/ \E t \in Tailers : TailerStep(t) \/ Save(t) \/ Retire(t)

Spec == Init /\ [][Next]_vars

(* Every goroutine of the process is scheduled.  Nothing is assumed of the *)
(* writer, of cancellation, crashes and restarts.                          *)
Fairness == /\ WF_vars(WatcherStep)
            /\ \A t \in Tailers : /\ WF_vars(TailerStep(t) \/ (tl[t].ph = "closed" /\ Save(t)))
                                  /\ WF_vars(Retire(t))

FairSpec == Spec /\ Fairness
-----------------------------------------------------------------------------
(* Of the tailers that follow a file for ever only one is kept: every      *)
(* other one has been told to end, or is about to be.  About the handover  *)
(* from watched.active to its successor.                                   *)
OneFollower ==
  Globbed =>
    \A t \in Tailers : Alive(t) /\ tl[t].follow /\ tl[t].dying = "no"
                         => t \in {active, previous} \cup retiring

(* Two tailers read the same file at the same time, and each line of it is *)
(* sent twice, only when its name was used again and one of the two was    *)
(* replaced and has not come to its end: it has reopened the name that     *)
(* discovery opened too.  About known, discovery and the reopening.        *)
Ending(t) == t \in retiring \/ tl[t].dying # "no"

NoDoubleRead ==
  \A t, u \in Tailers :
    Alive(t) /\ Alive(u) /\ t # u /\ tl[t].ino = tl[u].ino
      => Globbed /\ tl[t].file \in Reused /\ (Ending(t) \/ Ending(u))

(* Between two scans only files that are known have a state file.  About   *)
(* removeStateFile, cleanupStaleGlobStates and the late saves of tailers.  *)
StatesOfKnownFiles ==
  Globbed /\ DotLog /\ up /\ w = "idle" => \A f \in Files : st[f].kind # "absent" => f \in known

(* Every file that keeps its name becomes known, and there are times when  *)
(* all are.  About the ticker and the scan loop.                           *)
Found ==
  (up /\ w = "idle" /\ ~(Present \subseteq known)) ~> (~up \/ ctx \/ Present \subseteq known)

(* The tailers that were replaced end, all of them.  About README.md       *)
(* "Releases file handles after a logfile reaches EOF".                    *)
Draining == \E t \in Tailers : Alive(t) /\ (t \in retiring \/ tl[t].dying = "eof")
Released == (up /\ Draining) ~> (~up \/ ~Draining)
=============================================================================
