----------------------------- MODULE StateNames -----------------------------
(***************************************************************************)
(* Which state file belongs to which logfile: getStateFile and             *)
(* startWatchedFile of tail/, cleanupStaleGlobStates and removeStateFile,  *)
(* which remove state files by name, and validateConfiguration of main.go, *)
(* which prepares the place named by --tail.state_file.  A process tails   *)
(* several paths, exact ones and globs, through crashes and restarts,      *)
(* while logfiles are created, grow and are removed.                       *)
(*                                                                         *)
(* A logfile has a directory, a stem (its base name without .log) and the  *)
(* suffix .log or not.  A path matches the logfiles of its directories     *)
(* that have one of its stems and its suffix; a glob that does not end in  *)
(* .log matches both.  A state file is named by the place it is in and a   *)
(* stem, or is the path --tail.state_file itself.  How one file is read    *)
(* and its position saved is module TailFile, which tailers there are      *)
(* module WatchEntries: here a tailer only ends with its process, and each *)
(* logfile is created once.                                                *)
(***************************************************************************)
EXTENDS Integers

CONSTANTS Logs,     (* the logfiles there can be *)
          Configs,  (* the configurations: paths, state_file, what it names *)
          MaxSize,  (* bound: lines in one file *)
          MaxRuns   (* bound: times the process is started *)

NoLog == [dir |-> "none", stem |-> "none", log |-> FALSE]

ASSUME StateNamesAssumption ==
  /\ MaxSize \in Nat /\ MaxRuns \in Nat /\ NoLog \notin Logs
  /\ \A f \in Logs : f = [dir |-> f.dir, stem |-> f.stem, log |-> f.log]
  /\ \A c \in Configs :
       /\ c.state \in {"unset", "slash", "plain"} /\ c.kind \in {"missing", "file", "dir"}
       /\ c.paths # {}
       /\ \A p \in c.paths : ~p.glob => \E d \in p.dirs, s \in p.stems : p.dirs = {d} /\ p.stems = {s}

Never   == -1
Stems   == {f.stem : f \in Logs}
Itself  == <<"itself", "none">>
Names   == ({"tmp", "given"} \X Stems) \cup {Itself}

Absent   == [kind |-> "absent", log |-> NoLog, off |-> 0]
Blank    == [kind |-> "blank", log |-> NoLog, off |-> 0]
At(f, o) == [kind |-> "at", log |-> f, off |-> o]

VARIABLES
  config,    (* options.Reqs.LogFiles and options.Tail.StateFile *)
  pathKind,  (* what the path of --tail.state_file is *)
  made,      (* the logfiles that were created *)
  present,   (* those that are there *)
  size,      (* size[f]: its lines *)
  states,    (* states[n]: the state file n *)
  up, runs,  (* the process runs; how often it was started *)
  known,     (* <<p, f>>: watched.known of the glob p *)
  todo,      (* <<p, f>>: the files found and still to be started *)
  single,    (* totalFiles is 1 *)
  tailers,   (* the tailers of this run *)
  opened,    (* the logfiles that a run has started to read *)
  last       (* last[f]: the position of f that was last saved for it *)

logs == <<made, present, size>>
disk == <<states, pathKind>>
proc == <<up, runs, known, todo, single, tailers>>
past == <<opened, last>>
vars == <<config, logs, disk, proc, past>>

paths == config.paths
Globs == {p \in paths : p.glob}

Matches(p, f) ==
  f.dir \in p.dirs /\ f.stem \in p.stems /\ (f.log = p.log \/ (p.glob /\ ~p.log))

Found(p) == {f \in present : Matches(p, f)}
Pairs(P) == {k \in P \X present : Matches(k[1], k[2])}
-----------------------------------------------------------------------------
DirectoryStateNoGlob ==  \* one glob is taken for one file
  config.state = "slash" \/ \E p, q \in paths : p # q

(* --tail.state_file has to be a directory.                                *)
DirectoryState == config.state = "slash" \/ (\E p, q \in paths : p # q) \/ Globs # {}

(* getStateFile, for a run of one file or more, when the path of           *)
(* --tail.state_file is a k.                                               *)
StateName(f, one, k) ==
  IF config.state # "unset" /\ one /\ k # "dir" THEN Itself
  ELSE <<IF config.state # "unset" /\ k = "dir" THEN "given" ELSE "tmp", f.stem>>

(* Where startWatchedFile starts to read f: what was found by a glob is    *)
(* read from its beginning when it has no state file.                      *)
StartOffset(glob, f, st) ==
  CASE st.kind = "absent" -> IF glob THEN 0 ELSE size[f]
    [] st.kind = "blank"  -> size[f]
    [] st.kind = "at"     -> IF st.log = f THEN st.off ELSE 0

CleanupUnwanted(k) ==  \* the state files of the files there are go, too
  {n \in Names : \E p \in Globs : p.log /\ \E s \in p.stems : n = StateName([stem |-> s], FALSE, k)}

(* The state files that cleanupStaleGlobStates removes, one glob after the *)
(* other: all that the pattern could have given, but for the files found.  *)
Cleanup(k) ==
  {n \in Names : \E p \in Globs :
      /\ p.log
      /\ \E s \in p.stems : n = StateName([stem |-> s], FALSE, k)
      /\ \A f \in Found(p) : n # StateName(f, FALSE, k)}
-----------------------------------------------------------------------------
Tailer == [path : UNION {c.paths : c \in Configs}, log : Logs, off : 0 .. MaxSize,
           name : Names, linked : BOOLEAN]

StateFile == [kind : {"absent", "blank", "at"}, log : Logs \cup {NoLog}, off : 0 .. MaxSize]

TypeOK ==
  /\ config \in Configs /\ pathKind \in {"missing", "file", "dir"}
  /\ made \subseteq Logs /\ present \subseteq made /\ size \in [Logs -> 0 .. MaxSize]
  /\ states \in [Names -> StateFile]
  /\ up \in BOOLEAN /\ runs \in 0 .. MaxRuns /\ single \in BOOLEAN
  /\ \A k \in known \cup todo : k \in paths \X made /\ Matches(k[1], k[2])
  /\ tailers \subseteq Tailer
  /\ opened \subseteq made /\ last \in [Logs -> (0 .. MaxSize) \cup {Never}]

Init ==
  /\ config \in Configs /\ pathKind = config.kind
  /\ made = {} /\ present = {} /\ size = [f \in Logs |-> 0]
  /\ states = [n \in Names |-> Absent]
  /\ up = FALSE /\ runs = 0 /\ known = {} /\ todo = {} /\ single = FALSE
  /\ tailers = {} /\ opened = {} /\ last = [f \in Logs |-> Never]

(* Who writes the logfiles, and removes them.  Files that no path matches  *)
(* make no difference.                                                     *)
CreateLog(f) ==
  /\ f \notin made /\ \E p \in paths : Matches(p, f)
  /\ made' = made \cup {f} /\ present' = present \cup {f}
  /\ UNCHANGED <<config, size, disk, proc, past>>

Grow(f) ==
  /\ f \in present /\ size[f] < MaxSize
  /\ size' = [size EXCEPT ![f] = @ + 1]
  /\ UNCHANGED <<config, made, present, disk, proc, past>>

RemoveLog(f) ==
  /\ present' = present \ {f} /\ present' # present
  /\ UNCHANGED <<config, made, size, disk, proc, past>>
-----------------------------------------------------------------------------
(* sanityCheckOptions refuses a path that matches nothing.                 *)
LogFilesFound == \A p \in paths : Found(p) # {}

(* The directory is made, when there has to be one; a file is refused.     *)
ValidateConfiguration ==
  IF config.state # "unset" /\ DirectoryState
    THEN pathKind # "file" /\ pathKind' = "dir"
    ELSE UNCHANGED pathKind

(* The process starts: it checks its options, lists the files and removes  *)
(* stale state files.                                                      *)
Start ==
  /\ ~up /\ runs < MaxRuns
  /\ LogFilesFound /\ ValidateConfiguration
  /\ up' = TRUE /\ runs' = runs + 1
  /\ todo' = Pairs(paths) /\ known' = Pairs(Globs)
  /\ single' = (\E k \in todo' : todo' = {k})
  /\ states' = [n \in Names |-> IF n \in Cleanup(pathKind') THEN Absent ELSE states[n]]
  /\ UNCHANGED <<config, logs, tailers, past>>

OpenStateFirst(k) ==  \* the state file is created before it is looked for
  LET f == k[2]  n == StateName(f, single, pathKind) IN
  /\ k \in todo
  /\ todo' = todo \ {k}
  /\ \/ f \notin present /\ UNCHANGED <<known, tailers, disk, past>>
     \/ /\ f \in present
        /\ states' = [states EXCEPT ![n] = IF @ = Absent THEN Blank ELSE @]
        /\ tailers' = tailers \cup {[path |-> k[1], log |-> f, name |-> n, linked |-> TRUE,
                                    off |-> StartOffset(k[1].glob, f, states'[n])]}
        /\ pathKind' = IF n = Itself THEN "file" ELSE pathKind
        /\ known' = IF k[1].glob THEN known \cup {k} ELSE known
        /\ opened' = opened \cup {f} /\ UNCHANGED last
  /\ UNCHANGED <<config, logs, up, runs, single>>

(* startWatchedFile: start to read a file that was found, and create its   *)
(* state file.  A file that is not there any more is skipped.              *)
Open(k) ==
  LET f == k[2]  n == StateName(f, single, pathKind) IN
  /\ k \in todo
  /\ todo' = todo \ {k}
  /\ \/ f \notin present /\ UNCHANGED <<known, tailers, disk, past>>
     \/ /\ f \in present
        /\ tailers' = tailers \cup {[path |-> k[1], log |-> f, name |-> n, linked |-> TRUE,
                                    off |-> StartOffset(k[1].glob, f, states[n])]}
        /\ states' = [states EXCEPT ![n] = IF @ = Absent THEN Blank ELSE @]
        /\ pathKind' = IF n = Itself THEN "file" ELSE pathKind
        /\ known' = IF k[1].glob THEN known \cup {k} ELSE known
        /\ opened' = opened \cup {f} /\ UNCHANGED last
  /\ UNCHANGED <<config, logs, up, runs, single>>

Read(t) ==
  /\ t \in tailers /\ t.off < size[t.log]
  /\ tailers' = (tailers \ {t}) \cup {[t EXCEPT !.off = @ + 1]}
  /\ UNCHANGED <<config, logs, disk, up, runs, known, todo, single, past>>

(* updateStateFile.  A state file that was removed is written all the      *)
(* same, but has no name.                                                  *)
Save(t) ==
  /\ t \in tailers /\ t.linked
  /\ states' = [states EXCEPT ![t.name] = At(IF t.log \in present THEN t.log ELSE NoLog, t.off)]
  /\ last' = [last EXCEPT ![t.log] = t.off]
  /\ UNCHANGED <<config, logs, pathKind, proc, opened>>

(* The ticker, for one glob: forget the files that are gone and remove     *)
(* their state files; start those that are new.                            *)
Scan(p) ==
  LET gone  == {k \in known : k[1] = p /\ k[2] \notin present}
      names == {StateName(k[2], FALSE, pathKind) : k \in gone} IN
  /\ up /\ todo = {} /\ p \in Globs
  /\ known' = known \ gone
  /\ states' = [n \in Names |-> IF n \in names THEN Absent ELSE states[n]]
  /\ tailers' = {[t EXCEPT !.linked = @ /\ t.name \notin names] : t \in tailers}
  /\ todo' = Pairs({p}) \ known
  /\ single' = FALSE
  /\ UNCHANGED <<config, logs, pathKind, up, runs, past>>

Crash ==
  /\ up
  /\ up' = FALSE /\ known' = {} /\ todo' = {} /\ single' = FALSE /\ tailers' = {}
  /\ UNCHANGED <<config, logs, disk, runs, past>>

Next ==
  \/ \E f \in Logs : CreateLog(f) \/ Grow(f) \/ RemoveLog(f)
  \/ Start \/ Crash
  \/ \E k \in todo : Open(k)
  \/ \E t \in tailers : Read(t) \/ Save(t)
  \/ \E p \in paths : Scan(p)

Spec == Init /\ [][Next]_vars
-----------------------------------------------------------------------------
(* No other logfile that the configuration can find has this stem.         *)
Alone(f) ==
  \A g \in Logs : g.stem = f.stem /\ (\E p \in paths : Matches(p, g)) => g = f

(* No glob whose cleanup would remove the state file of f finds other      *)
(* files only.                                                             *)
Undisturbed(f) == \A p \in Globs : p.log /\ f.stem \in p.stems => Matches(p, f)

(* The tailers that a step starts.                                         *)
Started == {t \in tailers' : \A u \in tailers : u.path # t.path \/ u.log # t.log}

(* README.md:65 "Restart resumes each file from its own state file": a     *)
(* logfile is started where it was last saved, however state files were    *)
(* named and cleaned up in between.  About getStateFile, cleanup, removal. *)
ResumesWhereSaved ==
  [][\A t \in Started : Alone(t.log) /\ Undisturbed(t.log) /\ last[t.log] # Never
                           => t.off = last[t.log]]_vars

(* A logfile that a glob finds for the first time is read as a whole.      *)
(* About the missing state file that tells startWatchedFile it is new.     *)
NewFilesWhole ==
  [][\A t \in Started : t.path.glob /\ Alone(t.log) /\ t.log \notin opened => t.off = 0]_vars

(* With --tail.state_file no state is kept in the temporary directory.     *)
(* About validateConfiguration, which has to foresee how getStateFile will *)
(* judge the path.                                                         *)
StatesWhereAsked ==
  config.state # "unset" =>
    /\ \A t \in tailers : t.name[1] # "tmp"
    /\ \A s \in Stems : states[<<"tmp", s>>] = Absent
=============================================================================
