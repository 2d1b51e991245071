------------------------- MODULE WatchEntriesProofs -------------------------
(***************************************************************************)
(* Proofs about watchEntries for every number of names, files, tailers and *)
(* runs: one follower is kept, and state files belong to known files.      *)
(***************************************************************************)
EXTENDS WatchEntries, TLAPS

USE DEF disk, proc, watch

(* The constants, one by one.                                              *)
LEMMA Bounds ==
  /\ NumFiles \in Nat \ {0} /\ MaxInodes \in Nat \ {0} /\ MaxTailers \in Nat \ {0}
  /\ MaxLines \in Nat /\ MaxRuns \in Nat
  /\ Globbed \in BOOLEAN /\ DotLog \in BOOLEAN /\ StopOption \in BOOLEAN /\ Reused \subseteq Files
  BY WatchAssumption DEF Files

LEMMA NoTailerType == NoTailer \in Tailer
  BY Bounds DEF NoTailer, Tailer, None

LEMMA TypeInit == Init => TypeOK
  <1> SUFFICES ASSUME Init PROVE TypeOK
    OBVIOUS
  <1>1. Absent \in StateFile
    BY Bounds DEF Absent, StateFile, None
  <1>2. 0 \in 0 .. MaxLines /\ 0 \in 0 .. MaxInodes /\ 0 \in 0 .. MaxRuns
    BY Bounds
  <1>3. st \in [Files -> StateFile] /\ tl \in [Tailers -> Tailer] /\ size \in [Inodes -> 0 .. MaxLines]
    BY <1>1, <1>2, NoTailerType DEF Init
  <1> QED
    BY <1>2, <1>3 DEF Init, TypeOK

LEMMA WriterType == TypeOK /\ WriterStep => TypeOK'
  <1> SUFFICES ASSUME TypeOK, NEW f \in Files, Create(f) \/ Append(f) \/ Remove(f) PROVE TypeOK'
    BY DEF WriterStep
  <1>1. CASE Create(f)
    BY <1>1, Bounds DEF TypeOK, Create, Inodes
  <1>2. CASE Append(f)
    <2>1. ino[f] \in Inodes /\ size[ino[f]] + 1 \in 0 .. MaxLines
      BY <1>2, Bounds DEF TypeOK, Append
    <2> QED
      BY <1>2, <2>1 DEF TypeOK, Append
  <1>3. CASE Remove(f)
    BY <1>3 DEF TypeOK, Remove
  <1> QED
    BY <1>1, <1>2, <1>3

LEMMA OpenType ==
  ASSUME TypeOK, NEW t \in Tailers, NEW f \in Files, NEW follow \in BOOLEAN,
         ino[f] # None, Open(t, f, follow)
  PROVE  st' \in [Files -> StateFile] /\ tl' \in [Tailers -> Tailer]
  <1>1. ino[f] \in Inodes /\ size[ino[f]] \in 0 .. MaxLines /\ st[f] \in StateFile
    BY DEF TypeOK
  <1>2. StartOffset(f) \in 0 .. MaxLines
    <2>1. st[f].kind \in {"absent", "blank", "at"} /\ st[f].off \in 0 .. MaxLines /\ 0 \in 0 .. MaxLines
      BY <1>1, Bounds DEF StateFile
    <2>2. CASE st[f].kind = "absent"
      BY <1>1, <2>1, <2>2 DEF StartOffset
    <2>3. CASE st[f].kind = "blank"
      BY <1>1, <2>1, <2>3 DEF StartOffset
    <2>4. CASE st[f].kind = "at"
      BY <1>1, <2>1, <2>4 DEF StartOffset
    <2> QED
      BY <2>1, <2>2, <2>3, <2>4
  <1>3. [NoTailer EXCEPT !.file = f, !.ino = ino[f], !.off = StartOffset(f), !.ph = "read",
                         !.follow = follow, !.linked = TRUE] \in Tailer
    BY <1>1, <1>2, NoTailerType DEF Tailer
  <1>4. Blank \in StateFile
    BY Bounds DEF Blank, StateFile, None
  <1> QED
    BY <1>1, <1>3, <1>4 DEF Open, TypeOK

LEMMA RemoveStateType ==
  ASSUME TypeOK, NEW f \in Files \cup {None}, RemoveState(f)
  PROVE  st' \in [Files -> StateFile] /\ tl' \in [Tailers -> Tailer]
  <1>1. Absent \in StateFile
    BY Bounds DEF Absent, StateFile, None
  <1>2. \A t \in Tailers : [tl[t] EXCEPT !.linked = FALSE] \in Tailer
    BY DEF TypeOK, Tailer
  <1> QED
    BY <1>1, <1>2 DEF RemoveState, TypeOK

LEMMA StartType == TypeOK /\ Start => TypeOK'
  <1> SUFFICES ASSUME TypeOK, Start PROVE TypeOK'
    OBVIOUS
  <1>1. Absent \in StateFile
    BY Bounds DEF Absent, StateFile, None
  <1>2. st' \in [Files -> StateFile]
    BY <1>1 DEF TypeOK, Start, CleanupStaleGlobStates
  <1>3. todo' \subseteq Files /\ known' \subseteq Files /\ runs' \in 0 .. MaxRuns
    BY Bounds DEF TypeOK, Start, Present, Files
  <1> QED
    BY <1>2, <1>3 DEF TypeOK, Start

LEMMA StartFileType == TypeOK /\ StartFile => TypeOK'
  <1> SUFFICES ASSUME TypeOK, StartFile PROVE TypeOK'
    OBVIOUS
  <1>1. PICK f \in First(todo) :
          /\ todo' = todo \ {f}
          /\ \/ /\ ino[f] = None
                /\ UNCHANGED <<st, tl, w, active, fresh>>
             \/ /\ ino[f] # None
                /\ \E t \in First(FreeTailers) :
                     /\ fresh' = t
                     /\ Open(t, f, todo = {f} /\ ~StopOption)
                     /\ active' = IF Globbed /\ todo = {f} THEN t ELSE active
                /\ w' = "sendFirst"
    BY DEF StartFile
  <1>2. f \in Files
    BY DEF First, TypeOK
  <1>3. UNCHANGED <<ino, made, size, proc, known, listed, previous, gone, retiring>>
    BY DEF StartFile
  <1>4. CASE UNCHANGED <<st, tl, w, active, fresh>>
    BY <1>1, <1>3, <1>4 DEF TypeOK
  <1>5. CASE ~UNCHANGED <<st, tl, w, active, fresh>>
    <2>1. PICK t \in First(FreeTailers) :
            /\ fresh' = t
            /\ Open(t, f, todo = {f} /\ ~StopOption)
            /\ active' = IF Globbed /\ todo = {f} THEN t ELSE active
      BY <1>1, <1>5
    <2>2. t \in Tailers
      BY DEF First, FreeTailers
    <2>3. (todo = {f} /\ ~StopOption) \in BOOLEAN
      OBVIOUS
    <2>4. st' \in [Files -> StateFile] /\ tl' \in [Tailers -> Tailer]
      BY <1>1, <1>2, <1>5, <2>1, <2>2, <2>3, OpenType
    <2> QED
      BY <1>1, <1>3, <1>5, <2>1, <2>2, <2>4 DEF TypeOK
  <1> QED
    BY <1>4, <1>5

LEMMA DiscoverType == TypeOK /\ Discover => TypeOK'
  <1> SUFFICES ASSUME TypeOK, Discover PROVE TypeOK'
    OBVIOUS
  <1>1. PICK f \in First(todo) :
          /\ todo' = todo \ {f}
          /\ \/ UNCHANGED <<st, tl, w, known, active, previous, fresh>>
             \/ /\ ino[f] # None
                /\ \E t \in First(FreeTailers) :
                     /\ fresh' = t /\ active' = t
                     /\ Open(t, f, ~StopOption)
                /\ known' = known \cup {f}
                /\ previous' = active
                /\ w' = "send"
    BY DEF Discover
  <1>2. f \in Files
    BY DEF First, TypeOK
  <1>3. UNCHANGED <<ino, made, size, proc, listed, gone, retiring>>
    BY DEF Discover
  <1>4. CASE UNCHANGED <<st, tl, w, known, active, previous, fresh>>
    BY <1>1, <1>3, <1>4 DEF TypeOK
  <1>5. CASE ~UNCHANGED <<st, tl, w, known, active, previous, fresh>>
    <2>1. PICK t \in First(FreeTailers) :
            /\ fresh' = t /\ active' = t
            /\ Open(t, f, ~StopOption)
      BY <1>1, <1>5
    <2>2. t \in Tailers
      BY DEF First, FreeTailers
    <2>3. (~StopOption) \in BOOLEAN
      OBVIOUS
    <2>4. st' \in [Files -> StateFile] /\ tl' \in [Tailers -> Tailer]
      BY <1>1, <1>2, <1>5, <2>1, <2>2, <2>3, OpenType
    <2> QED
      BY <1>1, <1>2, <1>3, <1>5, <2>1, <2>2, <2>4 DEF TypeOK
  <1> QED
    BY <1>4, <1>5

LEMMA ForgetType == TypeOK /\ (ForgetActive \/ \E f \in Files : ForgetFile(f)) => TypeOK'
  <1> SUFFICES ASSUME TypeOK, ForgetActive \/ \E f \in Files : ForgetFile(f) PROVE TypeOK'
    OBVIOUS
  <1>1. CASE ForgetActive
    BY <1>1, RemoveStateType DEF ForgetActive, TypeOK
  <1>2. ASSUME NEW f \in Files, ForgetFile(f), RemoveState(f) PROVE TypeOK'
    BY <1>2, RemoveStateType DEF ForgetFile, TypeOK
  <1>3. ASSUME NEW f \in Files, ForgetFile(f), active # None, tl[active].file = f PROVE TypeOK'
    <2>1. active \in Tailers /\ [tl[active] EXCEPT !.dying = "stop"] \in Tailer
      BY <1>3 DEF TypeOK, Tailer
    <2> QED
      BY <1>3, <2>1 DEF ForgetFile, TypeOK
  <1> QED
    BY <1>1, <1>2, <1>3 DEF ForgetFile, TypeOK

LEMMA WatcherType ==
  TypeOK /\ (SendFirst \/ StartsDone \/ Scan \/ NoneGone \/ DiscoverDone \/ Return) => TypeOK'
  BY DEF TypeOK, SendFirst, StartsDone, Scan, NoneGone, DiscoverDone, Return, Present

(* What a tailer is told, or does, leaves a tailer.                        *)
LEMMA TailerFields ==
  ASSUME NEW r \in Tailer
  PROVE  /\ \A d \in {"no", "stop", "eof"} : [r EXCEPT !.dying = d] \in Tailer
         /\ \A p \in {"none", "read", "wait", "reopen", "closed"} : [r EXCEPT !.ph = p] \in Tailer
         /\ \A a \in Inodes \cup {None} : [r EXCEPT !.armed = a] \in Tailer
         /\ \A o \in 0 .. MaxLines : [r EXCEPT !.off = o] \in Tailer
         /\ \A i \in Inodes \cup {None} : [r EXCEPT !.ino = i] \in Tailer
         /\ \A f \in Files \cup {None} : [r EXCEPT !.file = f] \in Tailer
  BY DEF Tailer

LEMMA ToldType == TypeOK /\ (Send \/ StopActive \/ \E t \in Tailers : Retire(t)) => TypeOK'
  <1> SUFFICES ASSUME TypeOK, Send \/ StopActive \/ \E t \in Tailers : Retire(t) PROVE TypeOK'
    OBVIOUS
  <1>1. \A t \in Tailers : /\ [tl[t] EXCEPT !.dying = "stop"] \in Tailer
                           /\ [tl[t] EXCEPT !.dying = IF @ = "no" THEN "eof" ELSE @] \in Tailer
    BY DEF TypeOK, Tailer
  <1>2. CASE Send
    <2>1. fresh \in Tailers \cup {None}
      BY DEF TypeOK
    <2> QED
      BY <1>1, <1>2, <2>1 DEF TypeOK, Send
  <1>3. CASE StopActive
    BY <1>1, <1>3 DEF TypeOK, StopActive
  <1>4. ASSUME NEW t \in Tailers, Retire(t) PROVE TypeOK'
    BY <1>1, <1>4 DEF TypeOK, Retire
  <1> QED
    BY <1>2, <1>3, <1>4

(* A tailer that runs has a file.                                          *)
Opened == \A t \in Tailers : tl[t].ph # "none" => tl[t].file \in Files /\ tl[t].ino \in Inodes

LEMMA TailerType == ASSUME TypeOK, Opened, NEW t \in Tailers, TailerStep(t) \/ Save(t) PROVE TypeOK'
  <1>0. /\ tl[t] \in Tailer /\ tl[t].off \in 0 .. MaxLines
        /\ tl[t].ph # "none" => tl[t].file \in Files /\ tl[t].ino \in Inodes
    BY DEF TypeOK, Tailer, Opened
  <1>1. ASSUME UNCHANGED <<ino, made, size, proc, watch>>,
               NEW r \in Tailer, tl' = [tl EXCEPT ![t] = r],
               st' \in [Files -> StateFile]
        PROVE  TypeOK'
    BY <1>1 DEF TypeOK
  <1>2. CASE Read(t)
    <2>1. tl[t].off + 1 \in 0 .. MaxLines
      BY <1>0, <1>2, Bounds DEF Read, TypeOK
    <2>2. [tl[t] EXCEPT !.off = @ + 1] \in Tailer
      BY <1>0, <2>1 DEF Tailer
    <2> QED
      BY <1>1, <1>2, <2>2 DEF Read, TypeOK
  <1>3. CASE AtEOF(t)
    <2>1. ino[tl[t].file] \in Inodes \cup {None}
      BY <1>0, <1>3 DEF AtEOF, TypeOK
    <2>2. /\ [tl[t] EXCEPT !.ph = "closed"] \in Tailer
          /\ [tl[t] EXCEPT !.ph = "wait", !.armed = IF @ = None THEN ino[tl[t].file] ELSE @] \in Tailer
      BY <1>0, <2>1 DEF Tailer
    <2> QED
      BY <1>1, <1>3, <2>2 DEF AtEOF, TypeOK
  <1>4. CASE StopReading(t) \/ Dying(t) \/ Modified(t)
    BY <1>0, <1>1, <1>4, TailerFields DEF StopReading, Dying, Modified, TypeOK
  <1>5. CASE Deleted(t)
    <2>1. [tl[t] EXCEPT !.ph = "reopen", !.armed = None] \in Tailer
      BY <1>0 DEF Tailer
    <2> QED
      BY <1>1, <1>5, <2>1 DEF Deleted, TypeOK
  <1>6. CASE Reopen(t)
    <2>1. ino[tl[t].file] \in Inodes
      BY <1>0, <1>6 DEF Reopen, TypeOK
    <2>2. [tl[t] EXCEPT !.ino = ino[tl[t].file], !.off = 0, !.ph = "read"] \in Tailer
      <3>1. 0 \in 0 .. MaxLines
        BY Bounds
      <3> QED
        BY <1>0, <2>1, <3>1 DEF Tailer
    <2> QED
      BY <1>1, <1>6, <2>1, <2>2 DEF Reopen, TypeOK
  <1>7. CASE Save(t)
    <2>1. At(ino[tl[t].file], tl[t].off) \in StateFile
      BY <1>0, <1>7 DEF Save, At, StateFile, TypeOK
    <2>2. st' \in [Files -> StateFile]
      BY <1>7, <2>1 DEF Save, TypeOK
    <2>3. [NoTailer EXCEPT !.file = IF t = active THEN tl[t].file ELSE None] \in Tailer
      BY <1>0, <1>7, NoTailerType, TailerFields DEF Save
    <2> QED
      BY <1>7, <2>2, <2>3 DEF Save, TypeOK
  <1> QED
    BY <1>2, <1>3, <1>4, <1>5, <1>6, <1>7 DEF TailerStep

LEMMA ProcessType == TypeOK /\ (Cancel \/ Crash) => TypeOK'
  BY NoTailerType DEF TypeOK, Cancel, Crash

LEMMA TypeStep == TypeOK /\ Opened /\ [Next]_vars => TypeOK'
  <1> SUFFICES ASSUME TypeOK, Opened, [Next]_vars PROVE TypeOK'
    OBVIOUS
  <1>1. CASE UNCHANGED vars
    BY <1>1 DEF vars, TypeOK
  <1> QED
    BY <1>1, WriterType, StartType, StartFileType, DiscoverType, ForgetType, WatcherType, ToldType,
       TailerType, ProcessType
    DEF Next, WatcherStep
-----------------------------------------------------------------------------
LEMMA OpenedStep == TypeOK /\ Opened /\ [Next]_vars => Opened'
  <1> SUFFICES ASSUME TypeOK, Opened, [Next]_vars PROVE Opened'
    OBVIOUS
  <1> USE DEF Opened
  <1>1. CASE UNCHANGED tl
    BY <1>1
  <1>2. CASE Crash
    BY <1>2 DEF Crash, NoTailer
  <1>3. ASSUME NEW t \in Tailers, NEW f \in Files, NEW follow, ino[f] # None, Open(t, f, follow)
        PROVE  Opened'
    BY <1>3 DEF Open, TypeOK, NoTailer
  <1>4. CASE StartFile
    <2>1. todo \subseteq Files
      BY DEF TypeOK
    <2> QED
      BY <1>1, <1>3, <1>4, <2>1 DEF StartFile, First, FreeTailers
  <1>5. CASE Discover
    <2>1. todo \subseteq Files
      BY DEF TypeOK
    <2> QED
      BY <1>1, <1>3, <1>5, <2>1 DEF Discover, First, FreeTailers
  <1>6. ASSUME NEW f \in Files \cup {None}, RemoveState(f) PROVE Opened'
    BY <1>6 DEF RemoveState, TypeOK, Tailer
  <1>7. CASE ForgetActive
    BY <1>6, <1>7 DEF ForgetActive, TypeOK
  <1>8. ASSUME NEW f \in Files, ForgetFile(f) PROVE Opened'
    <2>1. CASE RemoveState(f)
      BY <1>6, <2>1
    <2>2. CASE ~RemoveState(f)
      BY <1>8, <2>2 DEF ForgetFile, TypeOK, Tailer
    <2> QED
      BY <2>1, <2>2
  <1>9. CASE Send \/ StopActive \/ \E t \in Tailers : Retire(t)
    BY <1>9 DEF Send, StopActive, Retire, TypeOK, Tailer
  <1>10. ASSUME NEW t \in Tailers, TailerStep(t) PROVE Opened'
    <2>1. /\ \A u \in Tailers \ {t} : tl'[u] = tl[u]
          /\ tl[t].ph # "none" /\ tl'[t].file = tl[t].file
          /\ tl'[t].ino \in {tl[t].ino, ino[tl[t].file]} /\ (tl'[t].ino # tl[t].ino => tl'[t].ino # None)
      BY <1>10 DEF TailerStep, Read, AtEOF, StopReading, Modified, Deleted, Dying, Reopen, TypeOK, Tailer
    <2> QED
      BY <2>1 DEF TypeOK
  <1>11. ASSUME NEW t \in Tailers, Save(t) PROVE Opened'
    BY <1>11 DEF Save, TypeOK, Tailer, NoTailer
  <1> QED
    BY <1>1, <1>2, <1>4, <1>5, <1>7, <1>8, <1>9, <1>10, <1>11
    DEF Next, WriterStep, WatcherStep, Create, Append, Remove, Start, SendFirst, StartsDone, Scan,
        NoneGone, DiscoverDone, Return, Cancel, vars

(* The types of the watcher's state, for every number of files, tailers    *)
(* and runs.                                                               *)
THEOREM TypeCorrect == Spec => []TypeOK
  <1>1. Init => Opened
    BY DEF Init, Opened, NoTailer
  <1> QED
    BY <1>1, TypeInit, TypeStep, OpenedStep, PTL DEF Spec
-----------------------------------------------------------------------------
(* Before the process starts there is nothing of it.                       *)
Down == ~up => /\ w = "start" /\ active = None /\ previous = None /\ gone = None /\ retiring = {}
               /\ tl = [t \in Tailers |-> NoTailer]

LEMMA DownStep == Down /\ [Next]_vars => Down'
  <1> SUFFICES ASSUME Down, [Next]_vars PROVE Down'
    OBVIOUS
  <1>1. CASE WriterStep \/ UNCHANGED vars
    BY <1>1 DEF WriterStep, Create, Append, Remove, vars, Down
  <1>2. CASE Start \/ Crash
    BY <1>2 DEF Start, Crash, Down
  <1>3. CASE Cancel \/ WatcherStep
    BY <1>3 DEF Cancel, WatcherStep, StartFile, SendFirst, StartsDone, Scan, ForgetFile, ForgetActive,
                NoneGone, Discover, Send, DiscoverDone, StopActive, Return, Down
  <1>4. ASSUME NEW t \in Tailers, TailerStep(t) \/ Save(t) \/ Retire(t) PROVE Down'
    <2>1. up' = up
      BY <1>4 DEF TailerStep, Read, AtEOF, StopReading, Modified, Deleted, Dying, Reopen, Save, Retire
    <2>2. tl[t] # NoTailer \/ t \in retiring
      BY <1>4 DEF TailerStep, Read, AtEOF, StopReading, Modified, Deleted, Dying, Reopen, Save, Retire, NoTailer
    <2> QED
      BY <2>1, <2>2 DEF Down
  <1> QED
    BY <1>1, <1>2, <1>3, <1>4 DEF Next
-----------------------------------------------------------------------------
(* A tailer that follows its file and was not told to end.                 *)
Follows(t) == Alive(t) /\ tl[t].follow /\ tl[t].dying = "no"

Followed == Globbed => \A t \in Tailers : Follows(t) => t \in {active, previous} \cup retiring

(* While the first files are started nothing is active before the last of  *)
(* them, and only a stream that is being sent has a tailer to replace.     *)
Handover ==
  /\ w \in {"start", "sendFirst"} /\ todo # {} => active = None
  /\ previous # None => w \in {"send", "abandon", "returned"}

LEMMA HandoverStep == TypeOK /\ Down /\ Handover /\ [Next]_vars => Handover'
  <1> SUFFICES ASSUME TypeOK, Down, Handover, [Next]_vars PROVE Handover'
    OBVIOUS
  <1> USE DEF Handover
  <1>1. CASE UNCHANGED <<w, todo, active, previous>>
    BY <1>1
  <1>2. CASE Start \/ Crash
    BY <1>2 DEF Start, Crash, Down
  <1>3. CASE StartFile
    BY <1>3 DEF StartFile, First
  <1>4. CASE SendFirst \/ StartsDone \/ Scan \/ NoneGone \/ DiscoverDone \/ StopActive \/ Return
    BY <1>4 DEF SendFirst, StartsDone, Scan, NoneGone, DiscoverDone, StopActive, Return
  <1>5. CASE ForgetActive \/ \E f \in Files : ForgetFile(f)
    BY <1>5 DEF ForgetActive, ForgetFile
  <1>6. CASE Discover
    BY <1>6 DEF Discover, First
  <1>7. CASE Send
    BY <1>7 DEF Send
  <1> QED
    BY <1>1, <1>2, <1>3, <1>4, <1>5, <1>6, <1>7
    DEF Next, WriterStep, WatcherStep, Create, Append, Remove, Cancel, vars,
        TailerStep, Read, AtEOF, StopReading, Modified, Deleted, Dying, Reopen, Save, Retire

(* Opening a file leaves the other tailers as they are.                    *)
LEMMA OpenFollows ==
  ASSUME TypeOK, NEW t \in Tailers, NEW f, NEW follow \in BOOLEAN, Open(t, f, follow)
  PROVE  \A u \in Tailers : Follows(u)' => IF u = t THEN follow ELSE Follows(u)
  BY DEF Open, Follows, Alive, TypeOK, NoTailer

(* What a tailer does, or is told, does not make it follow.                *)
LEMMA TailerFollows ==
  ASSUME TypeOK, NEW t \in Tailers, TailerStep(t) \/ Save(t) \/ Retire(t)
  PROVE  \A u \in Tailers : Follows(u)' => Follows(u) /\ (Retire(t) => u # t)
  <1> USE DEF Follows, Alive, TypeOK, Tailer
  <1>1. CASE Read(t) \/ AtEOF(t) \/ StopReading(t)
    BY <1>1 DEF Read, AtEOF, StopReading, Retire
  <1>2. CASE Modified(t) \/ Deleted(t) \/ Dying(t) \/ Reopen(t)
    BY <1>2 DEF Modified, Deleted, Dying, Reopen, Retire
  <1>3. CASE Save(t)
    BY <1>3 DEF Save, NoTailer, Retire
  <1>4. CASE Retire(t)
    BY <1>4 DEF Retire
  <1> QED
    BY <1>1, <1>2, <1>3, <1>4 DEF TailerStep

LEMMA RemoveFollows ==
  ASSUME TypeOK, NEW f, RemoveState(f)
  PROVE  \A u \in Tailers : Follows(u)' => Follows(u)
  BY DEF RemoveState, Follows, Alive, TypeOK, Tailer

LEMMA FollowedStep == TypeOK /\ Down /\ Handover /\ Followed /\ [Next]_vars => Followed'
  <1> SUFFICES ASSUME TypeOK, Down, Handover, Followed, [Next]_vars, Globbed,
                      NEW u \in Tailers, Follows(u)'
               PROVE  u \in {active', previous'} \cup retiring'
    BY DEF Followed
  <1>1. CASE Crash
    BY <1>1 DEF Crash, Follows, Alive, NoTailer
  <1>2. CASE ~Crash
    <2>1. \A t \in Tailers : Follows(t) => t \in {active, previous} \cup retiring
      BY DEF Followed
    <2>2. CASE UNCHANGED <<tl, active, previous, retiring>>
      BY <2>1, <2>2 DEF Follows, Alive
    <2>3. CASE StartFile /\ ~UNCHANGED <<tl, active, previous, retiring>>
      <3>1. PICK f \in First(todo), t \in First(FreeTailers) :
              /\ Open(t, f, todo = {f} /\ ~StopOption)
              /\ active' = IF Globbed /\ todo = {f} THEN t ELSE active
        BY <2>3 DEF StartFile
      <3>2. t \in Tailers /\ (todo = {f} /\ ~StopOption) \in BOOLEAN /\ f \in todo
        BY DEF First, FreeTailers
      <3>3. IF u = t THEN todo = {f} /\ ~StopOption ELSE Follows(u)
        BY <3>1, <3>2, OpenFollows
      <3>4. w = "start" /\ UNCHANGED <<previous, retiring>>
        BY <2>3 DEF StartFile
      <3>5. active = None /\ active \notin Tailers
        BY <3>2, <3>4 DEF Handover, Tailers, None
      <3> QED
        BY <2>1, <3>1, <3>2, <3>3, <3>4, <3>5
    <2>4. CASE Discover /\ ~UNCHANGED <<tl, active, previous, retiring>>
      <3>1. PICK f \in First(todo), t \in First(FreeTailers) :
              Open(t, f, ~StopOption) /\ active' = t /\ previous' = active
        BY <2>4 DEF Discover
      <3>2. t \in Tailers /\ (~StopOption) \in BOOLEAN
        BY DEF First, FreeTailers
      <3>3. u = t \/ Follows(u)
        BY <3>1, <3>2, OpenFollows
      <3>4. w = "discover" /\ UNCHANGED retiring
        BY <2>4 DEF Discover
      <3>5. previous = None /\ previous \notin Tailers
        BY <3>4 DEF Handover, Tailers, None
      <3> QED
        BY <2>1, <3>1, <3>3, <3>4, <3>5
    <2>5. CASE Send
      <3>1. CASE w' = "discover"
        <4>1. /\ retiring' = IF previous = None THEN retiring ELSE retiring \cup {previous}
              /\ UNCHANGED <<tl, active>>
          BY <2>5, <3>1 DEF Send
        <4>2. Follows(u) /\ u # None
          BY <4>1 DEF Follows, Alive, Tailers, None
        <4> QED
          BY <2>1, <4>1, <4>2
      <3>2. CASE w' # "discover"
        <4>1. UNCHANGED <<active, previous, retiring>> /\ tl' = [tl EXCEPT ![fresh].dying = "stop"]
          BY <2>5, <3>2 DEF Send
        <4>2. Follows(u)
          BY <4>1 DEF Follows, Alive, TypeOK, Tailer
        <4> QED
          BY <2>1, <4>1, <4>2
      <3> QED
        BY <3>1, <3>2
    <2>6. CASE StopActive
      <3>1. UNCHANGED <<active, previous, retiring>> /\ Follows(u)
        BY <2>6 DEF StopActive, Follows, Alive, TypeOK, Tailer
      <3> QED
        BY <2>1, <3>1
    <2>7. ASSUME NEW f \in Files, ForgetFile(f) PROVE u \in {active', previous'} \cup retiring'
      <3>1. UNCHANGED <<active, previous, retiring>>
        BY <2>7 DEF ForgetFile
      <3>2. CASE RemoveState(f)
        BY <2>1, <3>1, <3>2, RemoveFollows
      <3>3. CASE ~RemoveState(f)
        BY <2>1, <2>7, <3>1, <3>3 DEF ForgetFile, Follows, Alive, TypeOK, Tailer
      <3> QED
        BY <3>2, <3>3
    <2>8. CASE ForgetActive
      <3>1. Follows(u)
        BY <2>8, RemoveFollows DEF ForgetActive
      <3>2. u # active
        BY <2>8, <3>1 DEF ForgetActive, Follows
      <3> QED
        BY <2>1, <2>8, <3>1, <3>2 DEF ForgetActive
    <2>9. ASSUME NEW t \in Tailers, TailerStep(t) \/ Save(t) \/ Retire(t)
          PROVE  u \in {active', previous'} \cup retiring'
      <3>1. Follows(u) /\ (Retire(t) => u # t)
        BY <2>9, TailerFollows
      <3>2. UNCHANGED <<active, previous>> /\ retiring' = IF Retire(t) THEN retiring \ {t} ELSE retiring
        BY <2>9 DEF TailerStep, Read, AtEOF, StopReading, Modified, Deleted, Dying, Reopen, Save, Retire
      <3> QED
        BY <2>1, <3>1, <3>2
    <2> QED
      BY <1>2, <2>2, <2>3, <2>4, <2>5, <2>6, <2>7, <2>8, <2>9
      DEF Next, vars, WriterStep, Create, Append, Remove, Start, Cancel, WatcherStep,
          SendFirst, StartsDone, Scan, NoneGone, DiscoverDone, Return
  <1> QED
    BY <1>1, <1>2

(* Handing over, deleting and retiring leave one tailer that follows the   *)
(* glob, however many files come and go.                                   *)
THEOREM OneKept == Spec => []OneFollower
  <1>1. Init => Opened /\ Down /\ Handover /\ Followed
    BY DEF Init, Opened, Down, Handover, Followed, Follows, Alive, NoTailer
  <1>2. Followed => OneFollower
    BY DEF Followed, Follows, OneFollower
  <1> QED
    BY <1>1, <1>2, TypeInit, TypeStep, OpenedStep, DownStep, HandoverStep, FollowedStep, PTL DEF Spec
-----------------------------------------------------------------------------
(* A state file, and a tailer that may still write one, belongs to a known *)
(* file or to the one that is being forgotten.                             *)
Owned(f) == f \in known \cup {gone}

StatesOwned ==
  Globbed /\ DotLog /\ up =>
    /\ \A f \in Files : st[f].kind # "absent" => Owned(f)
    /\ \A t \in Tailers : tl[t].ph # "none" /\ tl[t].linked => Owned(tl[t].file)
    /\ w \in {"start", "sendFirst"} => todo \subseteq known
    /\ w # "await" => gone = None

(* Opening a file creates no state but its own.                            *)
LEMMA OpenOwns ==
  ASSUME TypeOK, NEW t \in Tailers, NEW f \in Files, NEW follow \in BOOLEAN, Open(t, f, follow)
  PROVE  /\ \A g \in Files : st'[g].kind # "absent" => g = f \/ st[g].kind # "absent"
         /\ \A u \in Tailers : tl'[u].ph # "none" /\ tl'[u].linked =>
              tl'[u].file = f \/ (tl[u].ph # "none" /\ tl[u].linked /\ tl'[u].file = tl[u].file)
  BY DEF Open, TypeOK, NoTailer, StateFile

LEMMA RemoveOwns ==
  ASSUME TypeOK, NEW f, RemoveState(f)
  PROVE  /\ \A g \in Files : st'[g].kind # "absent" => g # f /\ st[g].kind # "absent"
         /\ \A u \in Tailers : tl'[u].ph # "none" /\ tl'[u].linked =>
              tl[u].file # f /\ tl[u].ph # "none" /\ tl[u].linked /\ tl'[u].file = tl[u].file
  BY DEF RemoveState, TypeOK, StateFile, Tailer, Absent

LEMMA OwnedStep == TypeOK /\ Opened /\ Down /\ StatesOwned /\ [Next]_vars => StatesOwned'
  <1> SUFFICES ASSUME TypeOK, Opened, Down, StatesOwned, [Next]_vars, Globbed, DotLog, up'
               PROVE  /\ \A f \in Files : st'[f].kind # "absent" => f \in known' \cup {gone'}
                      /\ \A t \in Tailers : tl'[t].ph # "none" /\ tl'[t].linked
                                             => tl'[t].file \in known' \cup {gone'}
                      /\ w' \in {"start", "sendFirst"} => todo' \subseteq known'
                      /\ w' # "await" => gone' = None
    BY DEF StatesOwned, Owned
  <1> DEFINE Goal == /\ \A f \in Files : st'[f].kind # "absent" => f \in known' \cup {gone'}
                     /\ \A t \in Tailers : tl'[t].ph # "none" /\ tl'[t].linked
                                            => tl'[t].file \in known' \cup {gone'}
                     /\ w' \in {"start", "sendFirst"} => todo' \subseteq known'
                     /\ w' # "await" => gone' = None
  <1>1. CASE Start
    <2>1. \A f \in Files : st'[f].kind # "absent" => f \in known'
      BY <1>1 DEF Start, CleanupStaleGlobStates, Absent, TypeOK
    <2> QED
      BY <1>1, <2>1 DEF Start, Down, NoTailer
  <1>2. CASE Crash
    BY <1>2 DEF Crash
  <1>3. CASE up
    <2>0. /\ \A f \in Files : st[f].kind # "absent" => f \in known \cup {gone}
          /\ \A t \in Tailers : tl[t].ph # "none" /\ tl[t].linked => tl[t].file \in known \cup {gone}
          /\ w \in {"start", "sendFirst"} => todo \subseteq known
          /\ w # "await" => gone = None
      BY <1>3 DEF StatesOwned, Owned
    <2>1. CASE UNCHANGED <<st, tl, known, gone>> /\ (w' \in {"start", "sendFirst"} => UNCHANGED todo /\ w \in {"start", "sendFirst"})
               /\ (w' # "await" => w # "await")
      BY <2>0, <2>1
    <2>2. CASE StartFile /\ ~UNCHANGED <<st, tl, w>>
      <3>1. PICK f \in First(todo), t \in First(FreeTailers) :
              Open(t, f, todo = {f} /\ ~StopOption) /\ todo' = todo \ {f} /\ w' = "sendFirst"
        BY <2>2 DEF StartFile
      <3>2. t \in Tailers /\ (todo = {f} /\ ~StopOption) \in BOOLEAN /\ f \in todo /\ f \in Files
        BY DEF First, FreeTailers, TypeOK
      <3>3. w = "start" /\ UNCHANGED <<known, gone>>
        BY <2>2 DEF StartFile
      <3>4. /\ \A g \in Files : st'[g].kind # "absent" => g = f \/ st[g].kind # "absent"
            /\ \A u \in Tailers : tl'[u].ph # "none" /\ tl'[u].linked =>
                 tl'[u].file = f \/ (tl[u].ph # "none" /\ tl[u].linked /\ tl'[u].file = tl[u].file)
        BY <3>1, <3>2, OpenOwns
      <3> QED
        BY <2>0, <3>1, <3>2, <3>3, <3>4
    <2>3. CASE StartFile /\ UNCHANGED <<st, tl, w>>
      BY <2>0, <2>3 DEF StartFile
    <2>4. CASE Discover
      <3>1. PICK f \in First(todo) :
              \/ UNCHANGED <<st, tl, w, known>>
              \/ /\ known' = known \cup {f} /\ w' = "send"
                 /\ \E t \in First(FreeTailers) : Open(t, f, ~StopOption)
        BY <2>4 DEF Discover
      <3>2. f \in Files /\ w = "discover" /\ UNCHANGED gone
        BY <2>4 DEF Discover, First, TypeOK
      <3>3. CASE UNCHANGED <<st, tl, w, known>>
        BY <2>0, <3>2, <3>3
      <3>4. CASE ~UNCHANGED <<st, tl, w, known>>
        <4>1. PICK t \in First(FreeTailers) : Open(t, f, ~StopOption)
          BY <3>1, <3>4
        <4>2. t \in Tailers /\ (~StopOption) \in BOOLEAN
          BY DEF First, FreeTailers
        <4>3. /\ \A g \in Files : st'[g].kind # "absent" => g = f \/ st[g].kind # "absent"
              /\ \A u \in Tailers : tl'[u].ph # "none" /\ tl'[u].linked =>
                   tl'[u].file = f \/ (tl[u].ph # "none" /\ tl[u].linked /\ tl'[u].file = tl[u].file)
          BY <3>2, <4>1, <4>2, OpenOwns
        <4> QED
          BY <2>0, <3>1, <3>2, <3>4, <4>3
      <3> QED
        BY <3>3, <3>4
    <2>5. ASSUME NEW f \in Files, ForgetFile(f) PROVE Goal
      <3>0. w = "delete" /\ known' = known \ {f} /\ gone = None
        BY <2>0, <2>5 DEF ForgetFile
      <3>1. CASE RemoveState(f) /\ UNCHANGED <<gone, w>>
        BY <2>0, <3>0, <3>1, RemoveOwns
      <3>2. CASE ~(RemoveState(f) /\ UNCHANGED <<gone, w>>)
        <4>1. /\ tl' = [tl EXCEPT ![active].dying = "stop"]
              /\ gone' = f /\ w' = "await" /\ UNCHANGED st
          BY <2>5, <3>2 DEF ForgetFile
        <4>2. \A t \in Tailers : /\ tl'[t].ph = tl[t].ph /\ tl'[t].linked = tl[t].linked
                                 /\ tl'[t].file = tl[t].file
          BY <4>1 DEF TypeOK, Tailer
        <4>3. \A t \in Tailers : tl[t].ph # "none" => tl[t].file # None
          BY DEF Opened, Files, None
        <4>4. \A g \in Files : g # None
          BY DEF Files, None
        <4> QED
          BY <2>0, <3>0, <4>1, <4>2, <4>3, <4>4
      <3> QED
        BY <3>1, <3>2
    <2>6. CASE ForgetActive
      <3>1. RemoveState(gone) /\ gone' = None /\ w' = "delete" /\ UNCHANGED known
        BY <2>6 DEF ForgetActive
      <3> QED
        BY <2>0, <3>1, RemoveOwns
    <2>7. CASE Send \/ StopActive \/ \E t \in Tailers : Retire(t)
      <3>1. /\ \A t \in Tailers : /\ tl'[t].ph = tl[t].ph /\ tl'[t].linked = tl[t].linked
                                   /\ tl'[t].file = tl[t].file
            /\ UNCHANGED <<st, known, gone>>
            /\ w' = w \/ (w # "await" /\ w' \notin {"await", "start", "sendFirst"})
            /\ UNCHANGED todo
        <4>2. tl \in [Tailers -> Tailer]
          BY DEF TypeOK
        <4>3. CASE Send
          BY <4>2, <4>3 DEF Send, Tailer
        <4>4. CASE StopActive
          BY <4>2, <4>4 DEF StopActive, Tailer
        <4>5. ASSUME NEW t \in Tailers, Retire(t)
              PROVE  /\ \A u \in Tailers : /\ tl'[u].ph = tl[u].ph /\ tl'[u].linked = tl[u].linked
                                            /\ tl'[u].file = tl[u].file
                     /\ UNCHANGED <<st, known, gone, w, todo>>
          BY <4>2, <4>5 DEF Retire, Tailer
        <4> QED
          BY <2>7, <4>3, <4>4, <4>5
      <3> QED
        BY <2>0, <3>1
    <2>8. ASSUME NEW t \in Tailers, TailerStep(t) PROVE Goal
      <3>1. /\ \A u \in Tailers : /\ tl'[u].linked = tl[u].linked /\ tl'[u].file = tl[u].file
                                   /\ (u # t => tl'[u].ph = tl[u].ph)
            /\ tl[t].ph # "none"
            /\ UNCHANGED <<st, known, gone, w, todo>>
        <4>0. tl \in [Tailers -> Tailer]
          BY DEF TypeOK
        <4>1. CASE Read(t)
          BY <4>0, <4>1 DEF Read, Tailer
        <4>2. CASE AtEOF(t)
          BY <4>0, <4>2 DEF AtEOF, Tailer
        <4>3. CASE StopReading(t)
          BY <4>0, <4>3 DEF StopReading, Tailer
        <4>6. CASE Modified(t)
          BY <4>0, <4>6 DEF Modified, Tailer
        <4>7. CASE Dying(t)
          BY <4>0, <4>7 DEF Dying, Tailer
        <4>4. CASE Deleted(t)
          BY <4>0, <4>4 DEF Deleted, Tailer
        <4>5. CASE Reopen(t)
          BY <4>0, <4>5 DEF Reopen, Tailer
        <4> QED
          BY <2>8, <4>1, <4>2, <4>3, <4>4, <4>5, <4>6, <4>7 DEF TailerStep
      <3> QED
        BY <2>0, <3>1
    <2>9. ASSUME NEW t \in Tailers, Save(t) PROVE Goal
      <3>1. UNCHANGED <<known, gone, w, todo>> /\ tl[t].ph # "none"
        BY <2>9 DEF Save
      <3>2. \A f \in Files : st'[f].kind # "absent" =>
              st[f].kind # "absent" \/ (tl[t].linked /\ f = tl[t].file)
        BY <2>9 DEF Save, TypeOK
      <3>3. \A u \in Tailers : tl'[u].ph # "none" /\ tl'[u].linked =>
              tl[u].ph # "none" /\ tl[u].linked /\ tl'[u].file = tl[u].file
        BY <2>9 DEF Save, TypeOK, NoTailer
      <3> QED
        BY <2>0, <3>1, <3>2, <3>3
    <2> QED
      BY <1>3, <1>2, <2>1, <2>2, <2>3, <2>4, <2>5, <2>6, <2>7, <2>8, <2>9
      DEF Next, vars, WriterStep, Create, Append, Remove, Start, Cancel, WatcherStep,
          SendFirst, StartsDone, Scan, NoneGone, DiscoverDone, Return
  <1> QED
    BY <1>1, <1>2, <1>3
    DEF Next, vars, WriterStep, Create, Append, Remove, Cancel, WatcherStep, StartFile, SendFirst,
        StartsDone, Scan, ForgetFile, ForgetActive, NoneGone, Discover, Send, DiscoverDone, StopActive,
        Return, TailerStep, Read, AtEOF, StopReading, Modified, Deleted, Dying, Reopen, Save, Retire

(* State files of deleted logfiles do not come back, whenever the tailers  *)
(* save and whenever the process crashes.                                  *)
THEOREM StatesAreKnown == Spec => []StatesOfKnownFiles
  <1>1. Init => Opened /\ Down /\ StatesOwned
    BY DEF Init, Opened, Down, StatesOwned, NoTailer
  <1>2. StatesOwned => StatesOfKnownFiles
    BY DEF StatesOwned, Owned, StatesOfKnownFiles, Files, None
  <1> QED
    BY <1>1, <1>2, TypeInit, TypeStep, OpenedStep, DownStep, OwnedStep, PTL DEF Spec
-----------------------------------------------------------------------------
(* What becomes of the tailers in a step that opens no file: those that    *)
(* run have run before, on the same name and its old or its present inode. *)
Keeps ==
  \A u \in Tailers : Alive(u)' =>
    /\ Alive(u) /\ tl'[u].file = tl[u].file
    /\ tl'[u].ino = tl[u].ino \/ (tl'[u].ino = ino[tl[u].file] /\ tl'[u].ino # None)

(* And in one that opens one.                                              *)
Opens(t, f) ==
  /\ f \in todo /\ f \in Files /\ ino[f] # None /\ ~Alive(t)
  /\ tl'[t].file = f /\ tl'[t].ino = ino[f]
  /\ \A u \in Tailers \ {t} : tl'[u] = tl[u]

LEMMA OpenOpens ==
  ASSUME TypeOK, NEW t \in First(FreeTailers), NEW f \in First(todo), NEW follow \in BOOLEAN,
         ino[f] # None, Open(t, f, follow)
  PROVE  t \in Tailers /\ Opens(t, f)
  BY DEF Open, Opens, First, FreeTailers, Alive, TypeOK, NoTailer

LEMMA TailersKeep ==
  TypeOK /\ [Next]_vars =>
    Keeps \/ (/\ StartFile \/ Discover
              /\ \E t \in Tailers, f \in First(todo) : Opens(t, f) /\ todo' = todo \ {f})
  <1> SUFFICES ASSUME TypeOK, [Next]_vars, ~Keeps
               PROVE  /\ StartFile \/ Discover
                      /\ \E t \in Tailers, f \in First(todo) : Opens(t, f) /\ todo' = todo \ {f}
    OBVIOUS
  <1>0. tl \in [Tailers -> Tailer]
    BY DEF TypeOK
  <1>1. ~UNCHANGED tl
    BY DEF Keeps, Alive
  <1>2. CASE Crash
    BY <1>2 DEF Crash, Keeps, Alive, NoTailer
  <1>3. CASE StartFile
    <2>1. PICK f \in First(todo) : /\ todo' = todo \ {f}
                                   /\ UNCHANGED tl \/ (ino[f] # None /\ \E t \in First(FreeTailers) :
                                                        Open(t, f, todo = {f} /\ ~StopOption))
      BY <1>3 DEF StartFile
    <2>2. PICK t \in First(FreeTailers) : Open(t, f, todo = {f} /\ ~StopOption) /\ ino[f] # None
      BY <1>1, <2>1
    <2>3. (todo = {f} /\ ~StopOption) \in BOOLEAN
      OBVIOUS
    <2>4. t \in Tailers /\ Opens(t, f)
      BY <2>2, <2>3, OpenOpens
    <2> QED
      BY <1>3, <2>1, <2>4
  <1>4. CASE Discover
    <2>1. PICK f \in First(todo) : /\ todo' = todo \ {f}
                                   /\ UNCHANGED tl \/ (ino[f] # None /\ \E t \in First(FreeTailers) :
                                                        Open(t, f, ~StopOption))
      BY <1>4 DEF Discover
    <2>2. PICK t \in First(FreeTailers) : Open(t, f, ~StopOption) /\ ino[f] # None
      BY <1>1, <2>1
    <2>3. (~StopOption) \in BOOLEAN
      OBVIOUS
    <2>4. t \in Tailers /\ Opens(t, f)
      BY <2>2, <2>3, OpenOpens
    <2> QED
      BY <1>4, <2>1, <2>4
  <1>5. ASSUME NEW f, RemoveState(f) PROVE Keeps
    BY <1>0, <1>5 DEF RemoveState, Keeps, Alive, Tailer
  <1>6. CASE ForgetActive \/ \E f \in Files : ForgetFile(f)
    BY <1>0, <1>5, <1>6 DEF ForgetActive, ForgetFile, Keeps, Alive, Tailer
  <1>7. CASE Send \/ StopActive \/ \E t \in Tailers : Retire(t)
    BY <1>0, <1>7 DEF Send, StopActive, Retire, Keeps, Alive, Tailer
  <1>8. ASSUME NEW t \in Tailers, TailerStep(t) \/ Save(t) PROVE Keeps
    <2>1. CASE Read(t) \/ AtEOF(t) \/ StopReading(t) \/ Modified(t)
      BY <1>0, <2>1 DEF Read, AtEOF, StopReading, Modified, Keeps, Alive, Tailer
    <2>2. CASE Deleted(t) \/ Dying(t)
      BY <1>0, <2>2 DEF Deleted, Dying, Keeps, Alive, Tailer
    <2>3. CASE Reopen(t)
      BY <1>0, <2>3 DEF Reopen, Keeps, Alive, Tailer
    <2>4. CASE Save(t)
      BY <1>0, <2>4 DEF Save, Keeps, Alive, Tailer, NoTailer
    <2> QED
      BY <1>8, <2>1, <2>2, <2>3, <2>4 DEF TailerStep
  <1> QED
    BY <1>1, <1>2, <1>3, <1>4, <1>6, <1>7, <1>8
    DEF Next, vars, WriterStep, Create, Append, Remove, Start, Cancel, WatcherStep,
        SendFirst, StartsDone, Scan, NoneGone, DiscoverDone, Return

(* An inode has belonged to one name only, in the directory and for the    *)
(* tailers that have it open.                                              *)
InodesApart ==
  /\ \A f \in Files : ino[f] <= made
  /\ \A f, g \in Files : ino[f] = ino[g] /\ ino[f] # None => f = g
  /\ \A t \in Tailers : Alive(t) => tl[t].ino <= made
  /\ \A t \in Tailers, f \in Files : Alive(t) /\ ino[f] = tl[t].ino => tl[t].file = f
  /\ \A t, u \in Tailers : Alive(t) /\ Alive(u) /\ tl[t].ino = tl[u].ino => tl[t].file = tl[u].file

LEMMA InodesApartStep == TypeOK /\ Opened /\ InodesApart /\ [Next]_vars => InodesApart'
  <1> SUFFICES ASSUME TypeOK, Opened, InodesApart, [Next]_vars PROVE InodesApart'
    OBVIOUS
  <1>0. /\ ino \in [Files -> Inodes \cup {None}] /\ made \in Nat
        /\ \A t \in Tailers : Alive(t) => tl[t].file \in Files /\ tl[t].ino \in Inodes
        /\ Inodes \subseteq Nat /\ None \notin Inodes
    BY Bounds DEF TypeOK, Opened, Alive, Inodes, None
  <1>1. CASE \E f \in Files : Create(f)
    <2>1. PICK f \in Files : /\ made' = made + 1 /\ ino' = [ino EXCEPT ![f] = made + 1]
                            /\ UNCHANGED tl
      BY <1>1 DEF Create
    <2>2. \A t \in Tailers : Alive(t)' <=> Alive(t)
      BY <2>1 DEF Alive
    <2>3. /\ \A g \in Files : ino'[g] = IF g = f THEN made + 1 ELSE ino[g]
          /\ \A t \in Tailers : tl'[t] = tl[t]
      BY <1>0, <2>1
    <2>4. /\ \A g \in Files : ino[g] # made + 1 /\ ino[g] <= made + 1
          /\ \A t \in Tailers : Alive(t) => tl[t].ino # made + 1 /\ tl[t].ino <= made + 1
      <3>1. \A n \in Nat : n <= made => n # made + 1 /\ n <= made + 1
        BY <1>0
      <3>2. \A g \in Files : ino[g] \in Nat
        <4>1. None \in Nat
          BY DEF None
        <4> QED
          BY <1>0, <4>1
      <3> QED
        BY <1>0, <3>1, <3>2 DEF InodesApart
    <2> QED
      BY <1>0, <2>1, <2>2, <2>3, <2>4 DEF InodesApart
  <1>2. CASE \E f \in Files : Remove(f)
    <2>1. PICK f \in Files : made' = made /\ ino' = [ino EXCEPT ![f] = None] /\ UNCHANGED tl
      BY <1>2 DEF Remove
    <2>2. /\ \A g \in Files : ino'[g] \in {ino[g], None} /\ None <= made
          /\ \A t \in Tailers : tl'[t] = tl[t] /\ (Alive(t)' <=> Alive(t))
      BY <1>0, <2>1 DEF Alive, None
    <2> QED
      BY <1>0, <2>1, <2>2 DEF InodesApart
  <1>3. CASE ~(\E f \in Files : Create(f) \/ Remove(f))
    <2>1. UNCHANGED <<ino, made>>
      BY <1>3 DEF Next, vars, WriterStep, Append, Start, Cancel, Crash, WatcherStep,
           StartFile, SendFirst, StartsDone, Scan, ForgetFile, ForgetActive, NoneGone,
           Discover, Send, DiscoverDone, StopActive, Return,
           TailerStep, Read, AtEOF, StopReading, Modified, Deleted, Dying, Reopen, Save, Retire
    <2>2. CASE Keeps
      <3>1. \A u \in Tailers : Alive(u)' =>
              /\ Alive(u) /\ tl'[u].file = tl[u].file /\ tl[u].file \in Files
              /\ tl'[u].ino = tl[u].ino \/ (tl'[u].ino = ino[tl[u].file] /\ tl'[u].ino # None)
        BY <1>0, <2>2 DEF Keeps
      <3> QED
        BY <1>0, <2>1, <3>1 DEF InodesApart
    <2>3. CASE ~Keeps
      <3>1. PICK t \in Tailers, f \in Files : Opens(t, f)
        BY <2>3, TailersKeep DEF Opens
      <3>2. \A u \in Tailers : Alive(u)' =>
              \/ u = t /\ tl'[u].file = f /\ tl'[u].ino = ino[f] /\ ino[f] # None
              \/ Alive(u) /\ tl'[u] = tl[u]
        BY <3>1 DEF Opens, Alive
      <3> QED
        BY <1>0, <2>1, <3>2 DEF InodesApart
    <2> QED
      BY <2>2, <2>3
  <1> QED
    BY <1>1, <1>2, <1>3

(* A name that is not used again, once it is gone, is gone for good.       *)
Once    == Files \ Reused
Gone(f) == ino[f] = None /\ f <= made

(* Files that are known, and files that a tailer reads, have been made; a  *)
(* file that is still to be started has no tailer, and a file that stops   *)
(* being known while a tailer reads it is never found again.               *)
OwnReader ==
  Globbed =>
    /\ \A f \in Once : ino[f] # None \/ f \in known => f <= made
    /\ \A t \in Tailers : Alive(t) /\ tl[t].file \in Once => tl[t].file \in known \/ Gone(tl[t].file)
    /\ \A t, u \in Tailers : Alive(t) /\ Alive(u) /\ tl[t].file \in Once /\ tl[t].file = tl[u].file
                               => t = u
    /\ w \in {"start", "sendFirst"} =>
         todo \subseteq known /\ \A t \in Tailers : Alive(t) => tl[t].file \notin todo \cap Once
    /\ w \in {"delete", "await"} => \A f \in (known \ listed) \cap Once : Gone(f)
    /\ w \in {"discover", "send"} => todo \cap known = {}

(* Without a glob there is one tailer in a run.                            *)
OnlyReader ==
  ~Globbed =>
    /\ w \in {"start", "sendFirst", "returned"} /\ todo \subseteq {1}
    /\ \A t \in Tailers : Alive(t) => todo = {}
    /\ \A t, u \in Tailers : Alive(t) /\ Alive(u) => t = u

LEMMA OnlyReaderStep == TypeOK /\ Down /\ OnlyReader /\ [Next]_vars => OnlyReader'
  <1> SUFFICES ASSUME TypeOK, Down, OnlyReader, [Next]_vars, ~Globbed
               PROVE  /\ w' \in {"start", "sendFirst", "returned"} /\ todo' \subseteq {1}
                      /\ \A t \in Tailers : Alive(t)' => todo' = {}
                      /\ \A t, u \in Tailers : Alive(t)' /\ Alive(u)' => t = u
    BY DEF OnlyReader
  <1>1. /\ w \in {"start", "sendFirst", "returned"} /\ todo \subseteq {1}
        /\ \A t \in Tailers : Alive(t) => todo = {}
        /\ \A t, u \in Tailers : Alive(t) /\ Alive(u) => t = u
    BY DEF OnlyReader
  <1>2. w' \in {"start", "sendFirst", "returned"} /\ (Start \/ todo' \subseteq todo)
    <2>1. CASE StartFile
      BY <1>1, <2>1 DEF StartFile
    <2>2. CASE ~StartFile
      BY <1>1, <2>2
      DEF Next, vars, WriterStep, Create, Append, Remove, Start, Cancel, Crash, WatcherStep,
          SendFirst, StartsDone, Scan, ForgetFile, ForgetActive, NoneGone,
          Discover, Send, DiscoverDone, StopActive, Return,
          TailerStep, Read, AtEOF, StopReading, Modified, Deleted, Dying, Reopen, Save, Retire
    <2> QED
      BY <2>1, <2>2
  <1>3. CASE Start
    <2>1. todo' = {1} /\ UNCHANGED tl /\ ~up
      BY <1>3 DEF Start
    <2>2. \A t \in Tailers : ~Alive(t)'
      BY <2>1 DEF Down, Alive, NoTailer
    <2> QED
      BY <1>2, <2>1, <2>2
  <1>4. CASE Keeps /\ ~Start
    BY <1>1, <1>2, <1>4 DEF Keeps
  <1>5. CASE ~Keeps /\ ~Start
    <2>1. PICK t \in Tailers, f \in First(todo) : Opens(t, f) /\ todo' = todo \ {f}
      BY <1>5, TailersKeep
    <2>2. todo # {} /\ todo = {1} /\ todo' = {}
      BY <1>1, <2>1 DEF Opens
    <2>3. \A u \in Tailers : ~Alive(u)
      BY <1>1, <2>2
    <2>4. \A u \in Tailers : Alive(u)' => u = t
      BY <2>1, <2>3 DEF Opens, Alive
    <2> QED
      BY <1>2, <2>2, <2>4
  <1> QED
    BY <1>3, <1>4, <1>5

LEMMA GoneStays ==
  ASSUME TypeOK, [Next]_vars, NEW f \in Once
  PROVE  /\ ino'[f] # None => ino[f] # None \/ f <= made'
         /\ made <= made' /\ (Gone(f) => Gone(f)')
  <1>0. ino \in [Files -> Inodes \cup {None}] /\ made \in Nat /\ f \in Files /\ f \in Nat
    BY Bounds DEF TypeOK, Once, Files
  <1>1. CASE \E g \in Files : Create(g)
    <2>1. PICK g \in Files : /\ made' = made + 1 /\ ino' = [ino EXCEPT ![g] = made + 1]
                             /\ g \in Reused \/ g = made + 1
      BY <1>1 DEF Create
    <2>2. ino'[f] = (IF f = g THEN made + 1 ELSE ino[f])
      BY <1>0, <2>1
    <2>3. f = g => f = made + 1
      BY <2>1 DEF Once
    <2> QED
      BY <1>0, <2>1, <2>2, <2>3 DEF Gone
  <1>2. CASE \E g \in Files : Remove(g)
    BY <1>0, <1>2 DEF Remove, Gone
  <1>3. CASE ~\E g \in Files : Create(g) \/ Remove(g)
    <2>1. UNCHANGED <<ino, made>>
      BY <1>3 DEF Next, vars, WriterStep, Append, Start, Cancel, Crash, WatcherStep,
           StartFile, SendFirst, StartsDone, Scan, ForgetFile, ForgetActive, NoneGone,
           Discover, Send, DiscoverDone, StopActive, Return,
           TailerStep, Read, AtEOF, StopReading, Modified, Deleted, Dying, Reopen, Save, Retire
    <2> QED
      BY <1>0, <2>1 DEF Gone
  <1> QED
    BY <1>1, <1>2, <1>3

(* How a step moves watchEntries: only a scan decides what is listed, only *)
(* a deletion forgets a file, only a start and a discovery learn of one.   *)
LEMMA WatchMoves ==
  ASSUME TypeOK, [Next]_vars
  PROVE  \/ Start \/ Crash \/ Scan \/ NoneGone \/ (\E f \in Files : ForgetFile(f))
         \/ Discover /\ ~UNCHANGED known
         \/ /\ UNCHANGED <<known, listed>> /\ todo' \subseteq todo
            /\ \A ws \in {{"start", "sendFirst"}, {"delete", "await"}, {"discover", "send"}} :
                 w' \in ws => w \in ws
  <1>1. CASE UNCHANGED <<known, listed, todo, w>>
    BY <1>1
  <1>2. CASE StartFile
    BY <1>2 DEF StartFile
  <1>3. CASE Discover
    BY <1>3 DEF Discover
  <1>4. CASE SendFirst \/ StartsDone \/ ForgetActive \/ Send \/ DiscoverDone \/ StopActive \/ Return
    BY <1>4 DEF SendFirst, StartsDone, ForgetActive, Send, DiscoverDone, StopActive, Return
  <1> QED
    BY <1>1, <1>2, <1>3, <1>4
    DEF Next, vars, WriterStep, Create, Append, Remove, Cancel, WatcherStep,
        TailerStep, Read, AtEOF, StopReading, Modified, Deleted, Dying, Reopen, Save, Retire

LEMMA OwnReaderStep == TypeOK /\ Opened /\ Down /\ OwnReader /\ [Next]_vars => OwnReader'
  <1> SUFFICES ASSUME TypeOK, Opened, Down, OwnReader, [Next]_vars, Globbed
               PROVE  OwnReader'
    BY DEF OwnReader
  <1> DEFINE GoneNow(f) == ino'[f] = None /\ f <= made'
             Made      == \A f \in Once : ino'[f] # None \/ f \in known' => f <= made'
             Kept      == \A t \in Tailers : Alive(t)' /\ tl'[t].file \in Once =>
                            tl'[t].file \in known' \/ GoneNow(tl'[t].file)
             Alone     == \A t, u \in Tailers :
                            Alive(t)' /\ Alive(u)' /\ tl'[t].file \in Once /\ tl'[t].file = tl'[u].file
                              => t = u
             Starting  == w' \in {"start", "sendFirst"} =>
                            todo' \subseteq known' /\ \A t \in Tailers : Alive(t)' => tl'[t].file \notin todo' \cap Once
             Deleting  == w' \in {"delete", "await"} => \A f \in (known' \ listed') \cap Once : GoneNow(f)
             Finding   == w' \in {"discover", "send"} => todo' \cap known' = {}
             Goal      == Made /\ Kept /\ Alone /\ Starting /\ Deleting /\ Finding
  <1>0. SUFFICES Goal
    BY DEF OwnReader, Gone, Alive
  <1>1. /\ \A f \in Once : ino[f] # None \/ f \in known => f <= made
        /\ \A t \in Tailers : Alive(t) /\ tl[t].file \in Once => tl[t].file \in known \/ Gone(tl[t].file)
        /\ \A t, u \in Tailers : Alive(t) /\ Alive(u) /\ tl[t].file \in Once /\ tl[t].file = tl[u].file
                                   => t = u
        /\ w \in {"start", "sendFirst"} =>
             todo \subseteq known /\ \A t \in Tailers : Alive(t) => tl[t].file \notin todo \cap Once
        /\ w \in {"delete", "await"} => \A f \in (known \ listed) \cap Once : Gone(f)
        /\ w \in {"discover", "send"} => todo \cap known = {}
    BY DEF OwnReader
  <1>2. /\ \A f \in Once : /\ ino'[f] # None => ino[f] # None \/ f <= made'
                           /\ f \in Nat /\ (f <= made => f <= made') /\ (Gone(f) => GoneNow(f))
    <2>1. \A f \in Once : f \in Nat /\ made \in Nat /\ made' \in Nat
      <3>1. made' \in Nat
        BY TypeStep, Bounds DEF TypeOK
      <3> QED
        BY <3>1, Bounds DEF TypeOK, Once, Files
    <2>2. \A f \in Once : /\ ino'[f] # None => ino[f] # None \/ f <= made'
                          /\ made <= made' /\ (Gone(f) => Gone(f)')
      BY GoneStays
    <2>3. \A f \in Once : Gone(f)' <=> GoneNow(f)
      BY DEF Gone
    <2> QED
      BY <2>1, <2>2, <2>3
  <1> HIDE DEF GoneNow
  <1>3. CASE Start
    <2>1. /\ todo' = Present /\ known' = Present /\ w' = "start" /\ UNCHANGED <<ino, made, tl>> /\ ~up
      BY <1>3 DEF Start
    <2>2. \A t \in Tailers : ~Alive(t)'
      BY <2>1 DEF Down, Alive, NoTailer
    <2> QED
      BY <1>1, <2>1, <2>2 DEF Present
  <1>4. CASE Crash
    <2>1. /\ todo' = {} /\ known' = {} /\ w' = "start" /\ UNCHANGED <<ino, made>>
          /\ tl' = [t \in Tailers |-> NoTailer]
      BY <1>4 DEF Crash
    <2>2. \A t \in Tailers : ~Alive(t)'
      BY <2>1 DEF Alive, NoTailer
    <2> QED
      BY <1>1, <2>1, <2>2
  <1>5. CASE Keeps /\ ~Start /\ ~Crash
    <2>1. \A u \in Tailers : Alive(u)' => Alive(u) /\ tl'[u].file = tl[u].file
      BY <1>5 DEF Keeps
    <2>2. CASE /\ UNCHANGED <<known, listed>> /\ todo' \subseteq todo
               /\ \A ws \in {{"start", "sendFirst"}, {"delete", "await"}, {"discover", "send"}} :
                    w' \in ws => w \in ws
      <3>1. Made
        BY <1>1, <1>2, <2>2
      <3>2. Kept /\ Alone
        BY <1>1, <1>2, <2>1, <2>2
      <3>3. Starting
        BY <1>1, <2>1, <2>2
      <3>4. Deleting /\ Finding
        BY <1>1, <1>2, <2>2
      <3> QED
        BY <3>1, <3>2, <3>3, <3>4
    <2>3. CASE Scan
      <3>1. listed' = Present /\ w' = "delete" /\ UNCHANGED <<ino, made, known>>
        BY <2>3 DEF Scan
      <3>2. Deleting
        BY <1>1, <3>1 DEF Present, GoneNow, Once
      <3> QED
        BY <1>1, <1>2, <2>1, <3>1, <3>2
    <2>4. CASE NoneGone
      <3>1. todo' = listed \ known /\ w' = "discover" /\ UNCHANGED <<ino, made, known>>
        BY <2>4 DEF NoneGone
      <3> QED
        BY <1>1, <1>2, <2>1, <3>1
    <2>5. ASSUME NEW f \in Files, ForgetFile(f) PROVE Goal
      <3>1. /\ f \in known \ listed /\ known' = known \ {f} /\ UNCHANGED <<ino, made, listed>>
            /\ w = "delete" /\ w' \in {"delete", "await"}
        BY <2>5 DEF ForgetFile
      <3>2. f \in Once => Gone(f)
        BY <1>1, <3>1
      <3> QED
        BY <1>1, <1>2, <2>1, <3>1, <3>2
    <2>6. CASE Discover /\ ~UNCHANGED known
      <3>1. PICK f \in First(todo) :
              UNCHANGED known \/ (ino[f] # None /\ \E t \in First(FreeTailers) : Open(t, f, ~StopOption))
        BY <2>6 DEF Discover
      <3>2. PICK t \in First(FreeTailers) : Open(t, f, ~StopOption) /\ ino[f] # None
        BY <2>6, <3>1
      <3>3. (~StopOption) \in BOOLEAN
        OBVIOUS
      <3>4. t \in Tailers /\ Opens(t, f)
        BY <3>2, <3>3, OpenOpens
      <3>5. Alive(t)'
        BY <3>2, <3>4 DEF Open, Alive, NoTailer, TypeOK
      <3> QED
        BY <2>1, <3>4, <3>5 DEF Opens
    <2> QED
      BY <1>5, <2>2, <2>3, <2>4, <2>5, <2>6, WatchMoves
  <1>6. CASE ~Keeps /\ ~Start /\ ~Crash
    <2>1. PICK t \in Tailers, f \in First(todo) : Opens(t, f) /\ todo' = todo \ {f}
      BY <1>6, TailersKeep
    <2>2. /\ f \in todo /\ f \in Files /\ ino[f] # None /\ ~Alive(t) /\ tl'[t].file = f
          /\ \A u \in Tailers : Alive(u)' /\ u # t => Alive(u) /\ tl'[u] = tl[u]
      BY <2>1 DEF Opens, Alive
    <2>3. ~Gone(f)
      BY <2>2 DEF Gone
    <2>4. CASE StartFile
      <3>1. UNCHANGED <<ino, made, known>> /\ w = "start" /\ w' \in {"start", "sendFirst"}
        BY <2>4 DEF StartFile
      <3> QED
        BY <1>1, <1>2, <2>1, <2>2, <3>1
    <2>5. CASE Discover
      <3>1. /\ UNCHANGED <<ino, made>> /\ w = "discover" /\ w' = "send" /\ known' = known \cup {f}
        <4>1. PICK g \in First(todo) : /\ todo' = todo \ {g}
                                       /\ UNCHANGED tl \/ (known' = known \cup {g} /\ w' = "send")
          BY <2>5 DEF Discover
        <4>2. g = f
          BY <2>1, <2>2, <4>1 DEF First
        <4>3. ~UNCHANGED tl
          BY <1>6 DEF Keeps, Alive
        <4>4. UNCHANGED <<ino, made>> /\ w = "discover"
          BY <2>5 DEF Discover
        <4> QED
          BY <4>1, <4>2, <4>3, <4>4
      <3>2. \A u \in Tailers : Alive(u) /\ f \in Once => tl[u].file # f
        BY <1>1, <2>2, <2>3, <3>1
      <3>3. Made /\ Starting /\ Deleting /\ Finding
        BY <1>1, <1>2, <2>1, <2>2, <3>1
      <3>4. Kept /\ Alone
        BY <1>1, <1>2, <2>2, <3>1, <3>2
      <3> QED
        BY <3>3, <3>4
    <2> QED
      BY <1>6, <2>4, <2>5, TailersKeep
  <1> QED
    BY <1>3, <1>4, <1>5, <1>6

(* A file whose name is not used again is read by one tailer, whenever it  *)
(* is created, listed, removed, forgotten and reopened.                    *)
ReadByOne ==
  \A t, u \in Tailers :
    Alive(t) /\ Alive(u) /\ tl[t].ino = tl[u].ino /\ (Globbed => tl[t].file \notin Reused) => t = u

THEOREM ReadOnce == Spec => []ReadByOne
  <1>1. Init => Opened /\ Down /\ InodesApart /\ OwnReader /\ OnlyReader
    <2> SUFFICES ASSUME Init PROVE Opened /\ Down /\ InodesApart /\ OwnReader /\ OnlyReader
      OBVIOUS
    <2>1. \A t \in Tailers : ~Alive(t) /\ tl[t].ph = "none"
      BY DEF Init, Alive, NoTailer
    <2>2. \A f \in Files : ino[f] = None /\ made = 0 /\ None = 0
      BY DEF Init, None
    <2>3. w = "start" /\ known = {} /\ todo = {} /\ ~up
      BY DEF Init
    <2>4. Opened /\ Down
      BY <2>1 DEF Init, Opened, Down
    <2>5. InodesApart
      BY <2>1, <2>2 DEF InodesApart
    <2>6. OwnReader /\ OnlyReader
      BY <2>1, <2>2, <2>3 DEF OwnReader, OnlyReader, Once
    <2> QED
      BY <2>4, <2>5, <2>6
  <1>2. Opened /\ InodesApart /\ OwnReader /\ OnlyReader => ReadByOne
    <2> SUFFICES ASSUME Opened, InodesApart, OwnReader, OnlyReader, NEW t \in Tailers, NEW u \in Tailers,
                        Alive(t), Alive(u), tl[t].ino = tl[u].ino, Globbed => tl[t].file \notin Reused
                 PROVE  t = u
      BY DEF ReadByOne
    <2>1. tl[t].file = tl[u].file /\ tl[t].file \in Files
      BY DEF InodesApart, Opened, Alive
    <2>2. CASE Globbed
      BY <2>1, <2>2 DEF OwnReader, Once
    <2>3. CASE ~Globbed
      BY <2>3 DEF OnlyReader
    <2> QED
      BY <2>2, <2>3
  <1> QED
    BY <1>1, <1>2, TypeInit, TypeStep, OpenedStep, DownStep, InodesApartStep, OwnReaderStep, OnlyReaderStep,
       PTL DEF Spec
-----------------------------------------------------------------------------
(* A tailer that waits for its file, or for a new one, follows it.         *)
Waiting == \A t \in Tailers : tl[t].ph \in {"wait", "reopen"} => tl[t].follow

LEMMA WaitingStep == TypeOK /\ Waiting /\ [Next]_vars => Waiting'
  <1> SUFFICES ASSUME TypeOK, Waiting, [Next]_vars PROVE Waiting'
    OBVIOUS
  <1>0. tl \in [Tailers -> Tailer] /\ \A t \in Tailers : tl[t].ph \in {"wait", "reopen"} => tl[t].follow
    BY DEF TypeOK, Waiting
  <1>1. ASSUME NEW t \in Tailers, NEW f, NEW follow, Open(t, f, follow) PROVE Waiting'
    BY <1>0, <1>1 DEF Open, NoTailer, Waiting
  <1>2. CASE StartFile \/ Discover
    BY <1>0, <1>1, <1>2 DEF StartFile, Discover, First, FreeTailers, Waiting
  <1>3. ASSUME NEW f, RemoveState(f) PROVE Waiting'
    BY <1>0, <1>3 DEF RemoveState, Waiting, Tailer
  <1>4. CASE ForgetActive \/ \E f \in Files : ForgetFile(f)
    BY <1>0, <1>3, <1>4 DEF ForgetActive, ForgetFile, Waiting, Tailer
  <1>5. CASE Send \/ StopActive \/ \E t \in Tailers : Retire(t)
    BY <1>0, <1>5 DEF Send, StopActive, Retire, Waiting, Tailer
  <1>6. ASSUME NEW t \in Tailers, TailerStep(t) \/ Save(t) PROVE Waiting'
    <2>1. CASE Read(t) \/ AtEOF(t) \/ StopReading(t)
      BY <1>0, <2>1 DEF Read, AtEOF, StopReading, Waiting, Tailer
    <2>2. CASE Modified(t) \/ Deleted(t)
      BY <1>0, <2>2 DEF Modified, Deleted, Waiting, Tailer
    <2>3. CASE Dying(t) \/ Reopen(t) \/ Save(t)
      BY <1>0, <2>3 DEF Dying, Reopen, Save, NoTailer, Waiting, Tailer
    <2> QED
      BY <1>6, <2>1, <2>2, <2>3 DEF TailerStep
  <1>7. CASE Crash
    BY <1>7 DEF Crash, NoTailer, Waiting
  <1> QED
    BY <1>0, <1>2, <1>4, <1>5, <1>6, <1>7
    DEF Next, vars, WriterStep, Create, Append, Remove, Start, Cancel, WatcherStep,
        SendFirst, StartsDone, Scan, NoneGone, DiscoverDone, Return, Waiting

(* A tailer that only reads its file to the end keeps it open.             *)
Drains(t) == Alive(t) /\ ~tl[t].follow

LEMMA DrainsKeep ==
  ASSUME TypeOK, Waiting, [Next]_vars, Keeps, NEW t \in Tailers, Drains(t)'
  PROVE  Drains(t) /\ tl'[t].file = tl[t].file /\ tl'[t].ino = tl[t].ino
  <1>0. /\ tl \in [Tailers -> Tailer] /\ Alive(t) /\ tl'[t].file = tl[t].file
        /\ tl[t].ph \in {"wait", "reopen"} => tl[t].follow
        /\ Alive(t)' /\ ~tl'[t].follow
    BY DEF TypeOK, Waiting, Keeps, Drains
  <1> SUFFICES tl'[t].follow = tl[t].follow /\ (tl[t].follow \/ tl'[t].ino = tl[t].ino)
    BY <1>0 DEF Drains
  <1>1. CASE UNCHANGED tl
    BY <1>1
  <1>2. CASE Crash
    BY <1>0, <1>2 DEF Crash, NoTailer, Alive
  <1>3. ASSUME NEW u \in Tailers, NEW f, NEW follow, u # t, Open(u, f, follow)
        PROVE  tl'[t] = tl[t]
    BY <1>0, <1>3 DEF Open
  <1>4. CASE StartFile \/ Discover
    BY <1>0, <1>3, <1>4 DEF StartFile, Discover, First, FreeTailers, Alive
  <1>5. ASSUME NEW f, RemoveState(f)
        PROVE  tl'[t].follow = tl[t].follow /\ tl'[t].ino = tl[t].ino
    BY <1>0, <1>5 DEF RemoveState, Tailer
  <1>6. CASE ForgetActive \/ \E f \in Files : ForgetFile(f)
    BY <1>0, <1>5, <1>6 DEF ForgetActive, ForgetFile, Tailer
  <1>7. CASE Send \/ StopActive \/ \E u \in Tailers : Retire(u)
    BY <1>0, <1>7 DEF Send, StopActive, Retire, Tailer
  <1>8. ASSUME NEW u \in Tailers, TailerStep(u) \/ Save(u)
        PROVE  tl'[t].follow = tl[t].follow /\ (tl[t].follow \/ tl'[t].ino = tl[t].ino)
    <2>1. CASE Read(u) \/ AtEOF(u) \/ StopReading(u)
      BY <1>0, <2>1 DEF Read, AtEOF, StopReading, Tailer
    <2>2. CASE Modified(u) \/ Deleted(u) \/ Dying(u)
      BY <1>0, <2>2 DEF Modified, Deleted, Dying, Tailer
    <2>3. CASE Reopen(u) \/ Save(u)
      BY <1>0, <2>3 DEF Reopen, Save, NoTailer, Tailer, Alive
    <2> QED
      BY <1>8, <2>1, <2>2, <2>3 DEF TailerStep
  <1> QED
    BY <1>1, <1>2, <1>4, <1>6, <1>7, <1>8
    DEF Next, vars, WriterStep, Create, Append, Remove, Start, Cancel, WatcherStep,
        SendFirst, StartsDone, Scan, NoneGone, DiscoverDone, Return

(* A name has its inode, none, or a new one.                               *)
LEMMA InodesNew ==
  ASSUME TypeOK, [Next]_vars, NEW f \in Files
  PROVE  ino'[f] \in {ino[f], None, made + 1}
  BY DEF TypeOK, Next, vars, WriterStep, Create, Append, Remove, Start, Cancel, Crash, WatcherStep,
         StartFile, SendFirst, StartsDone, Scan, ForgetFile, ForgetActive, NoneGone,
         Discover, Send, DiscoverDone, StopActive, Return,
         TailerStep, Read, AtEOF, StopReading, Modified, Deleted, Dying, Reopen, Save, Retire

(* A file that is read to its end is known as long as it has its name, and *)
(* nobody else has it open.  The first listing opens each name once;       *)
(* discovery only opens what is not known; a tailer that follows the name  *)
(* cannot be there as long as the name has this inode.                     *)
Drained ==
  Globbed =>
    /\ StopOption => w \in {"start", "sendFirst", "returned"}
    /\ w \in {"start", "sendFirst"} =>
         todo \subseteq known /\ \A t \in Tailers : Alive(t) => tl[t].file \notin todo
    /\ w \in {"discover", "send"} => todo \cap known = {}
    /\ \A t, u \in Tailers : Drains(t) /\ Alive(u) /\ tl[u].ino = tl[t].ino => u = t
    /\ \A t \in Tailers : Drains(t) /\ ino[tl[t].file] = tl[t].ino =>
         /\ tl[t].file \in known /\ (w \in {"delete", "await"} => tl[t].file \in listed)
         /\ \A u \in Tailers : Alive(u) /\ tl[u].file = tl[t].file => u = t

LEMMA DrainedStep ==
  TypeOK /\ Opened /\ Down /\ InodesApart /\ Waiting /\ Drained /\ [Next]_vars => Drained'
  <1> SUFFICES ASSUME TypeOK, Opened, Down, InodesApart, Waiting, Drained, [Next]_vars, Globbed
               PROVE  Drained'
    BY DEF Drained
  <1> DEFINE Ends     == StopOption => w' \in {"start", "sendFirst", "returned"}
             Starting == w' \in {"start", "sendFirst"} =>
                           todo' \subseteq known' /\ \A t \in Tailers : Alive(t)' => tl'[t].file \notin todo'
             Finding  == w' \in {"discover", "send"} => todo' \cap known' = {}
             Only     == \A t, u \in Tailers : Drains(t)' /\ Alive(u)' /\ tl'[u].ino = tl'[t].ino => u = t
             Here     == \A t \in Tailers : Drains(t)' /\ ino'[tl'[t].file] = tl'[t].ino =>
                           /\ tl'[t].file \in known' /\ (w' \in {"delete", "await"} => tl'[t].file \in listed')
                           /\ \A u \in Tailers : Alive(u)' /\ tl'[u].file = tl'[t].file => u = t
             Goal     == Ends /\ Starting /\ Finding /\ Only /\ Here
  <1>0. SUFFICES Goal
    BY DEF Drained
  <1>1. /\ StopOption => w \in {"start", "sendFirst", "returned"}
        /\ w \in {"start", "sendFirst"} =>
             todo \subseteq known /\ \A t \in Tailers : Alive(t) => tl[t].file \notin todo
        /\ w \in {"discover", "send"} => todo \cap known = {}
        /\ \A t, u \in Tailers : Drains(t) /\ Alive(u) /\ tl[u].ino = tl[t].ino => u = t
        /\ \A t \in Tailers : Drains(t) /\ ino[tl[t].file] = tl[t].ino =>
             /\ tl[t].file \in known /\ (w \in {"delete", "await"} => tl[t].file \in listed)
             /\ \A u \in Tailers : Alive(u) /\ tl[u].file = tl[t].file => u = t
    BY DEF Drained
  <1>2. /\ \A t \in Tailers : Alive(t) => tl[t].file \in Files /\ tl[t].ino \in Inodes
        /\ \A t, u \in Tailers : Alive(t) /\ Alive(u) /\ tl[t].ino = tl[u].ino => tl[t].file = tl[u].file
        /\ \A t \in Tailers, f \in Files : Alive(t) /\ ino[f] = tl[t].ino => tl[t].file = f
    BY DEF Opened, Alive, InodesApart
  <1>3. \A t \in Tailers, f \in Files : Alive(t) /\ ino'[f] = tl[t].ino => ino[f] = tl[t].ino
    <2> SUFFICES ASSUME NEW t \in Tailers, NEW f \in Files, Alive(t), ino'[f] = tl[t].ino
                 PROVE  ino[f] = tl[t].ino
      OBVIOUS
    <2>1. tl[t].ino \in Nat /\ tl[t].ino # None /\ tl[t].ino <= made /\ made \in Nat
      BY <1>2, Bounds DEF InodesApart, TypeOK, Inodes, None
    <2> QED
      BY <2>1, InodesNew
  <1>4. Ends
    <2>1. CASE StartFile
      BY <1>1, <2>1 DEF StartFile
    <2>2. CASE ~StartFile
      BY <1>1, <2>2
      DEF Next, vars, WriterStep, Create, Append, Remove, Start, Cancel, Crash, WatcherStep,
          SendFirst, StartsDone, Scan, ForgetFile, ForgetActive, NoneGone,
          Discover, Send, DiscoverDone, StopActive, Return,
          TailerStep, Read, AtEOF, StopReading, Modified, Deleted, Dying, Reopen, Save, Retire
    <2> QED
      BY <2>1, <2>2
  <1>5. CASE Start
    <2>1. /\ todo' = Present /\ known' = Present /\ w' = "start" /\ UNCHANGED tl /\ ~up
      BY <1>5 DEF Start
    <2>2. \A t \in Tailers : ~Alive(t)' /\ ~Drains(t)'
      BY <2>1 DEF Down, Alive, Drains, NoTailer
    <2> QED
      BY <1>4, <2>1, <2>2
  <1>6. CASE Crash
    <2>1. todo' = {} /\ known' = {} /\ w' = "start" /\ tl' = [t \in Tailers |-> NoTailer]
      BY <1>6 DEF Crash
    <2>2. \A t \in Tailers : ~Alive(t)' /\ ~Drains(t)'
      BY <2>1 DEF Alive, Drains, NoTailer
    <2> QED
      BY <1>4, <2>1, <2>2
  <1>7. CASE Keeps /\ ~Start /\ ~Crash
    <2>1. /\ \A u \in Tailers : Alive(u)' => Alive(u) /\ tl'[u].file = tl[u].file /\ tl[u].file \in Files
          /\ \A u \in Tailers : Alive(u)' => tl'[u].ino = tl[u].ino \/ tl'[u].ino = ino[tl[u].file]
          /\ \A t \in Tailers : Drains(t)' => Drains(t) /\ Alive(t) /\ Alive(t)' /\ tl'[t].ino = tl[t].ino
      BY <1>2, <1>7, DrainsKeep DEF Keeps, Drains
    <2>2. Only
      <3> SUFFICES ASSUME NEW t \in Tailers, NEW u \in Tailers,
                          Drains(t)', Alive(u)', tl'[u].ino = tl'[t].ino
                   PROVE  u = t
        OBVIOUS
      <3>1. Drains(t) /\ Alive(t) /\ Alive(u) /\ tl'[t].ino = tl[t].ino
        BY <2>1
      <3>2. CASE tl'[u].ino = tl[u].ino
        BY <1>1, <3>1, <3>2
      <3>3. CASE tl'[u].ino = ino[tl[u].file]
        <4>1. ino[tl[u].file] = tl[t].ino /\ tl[t].file = tl[u].file
          BY <1>2, <2>1, <3>1, <3>3
        <4> QED
          BY <1>1, <3>1, <4>1
      <3> QED
        BY <2>1, <3>2, <3>3
    <2>3. \A t \in Tailers : Drains(t)' /\ ino'[tl'[t].file] = tl'[t].ino =>
            /\ Drains(t) /\ tl'[t].file = tl[t].file /\ tl[t].file \in Files /\ tl'[t].ino = tl[t].ino
            /\ ino[tl[t].file] = tl[t].ino /\ tl[t].ino # None
            /\ tl[t].file \in known /\ (w \in {"delete", "await"} => tl[t].file \in listed)
            /\ \A u \in Tailers : Alive(u)' /\ tl'[u].file = tl'[t].file => u = t
      <3>1. None \notin Inodes
        BY DEF None, Inodes
      <3> QED
        BY <1>1, <1>2, <1>3, <2>1, <3>1
    <2>4. CASE /\ UNCHANGED <<known, listed>> /\ todo' \subseteq todo
               /\ \A ws \in {{"start", "sendFirst"}, {"delete", "await"}, {"discover", "send"}} :
                    w' \in ws => w \in ws
      BY <1>1, <1>4, <2>1, <2>2, <2>3, <2>4
    <2>5. CASE Scan
      <3>1. listed' = Present /\ w' = "delete" /\ UNCHANGED <<ino, known>>
        BY <2>5 DEF Scan
      <3> QED
        BY <1>4, <2>2, <2>3, <3>1 DEF Present
    <2>6. CASE NoneGone
      <3>1. todo' = listed \ known /\ w' = "discover" /\ UNCHANGED known
        BY <2>6 DEF NoneGone
      <3> QED
        BY <1>4, <2>2, <2>3, <3>1
    <2>7. ASSUME NEW f \in Files, ForgetFile(f) PROVE Goal
      <3>1. /\ f \in known \ listed /\ known' = known \ {f} /\ UNCHANGED listed
            /\ w = "delete" /\ w' \in {"delete", "await"}
        BY <2>7 DEF ForgetFile
      <3> QED
        BY <1>4, <2>2, <2>3, <3>1
    <2>8. CASE Discover /\ ~UNCHANGED known
      <3>1. PICK f \in First(todo) :
              UNCHANGED known \/ (ino[f] # None /\ \E t \in First(FreeTailers) : Open(t, f, ~StopOption))
        BY <2>8 DEF Discover
      <3>2. PICK t \in First(FreeTailers) : Open(t, f, ~StopOption) /\ ino[f] # None
        BY <2>8, <3>1
      <3>3. (~StopOption) \in BOOLEAN
        OBVIOUS
      <3>4. t \in Tailers /\ Opens(t, f)
        BY <3>2, <3>3, OpenOpens
      <3>5. Alive(t)'
        BY <3>2, <3>4 DEF Open, Alive, NoTailer, TypeOK
      <3> QED
        BY <2>1, <3>4, <3>5 DEF Opens
    <2> QED
      BY <1>7, <2>4, <2>5, <2>6, <2>7, <2>8, WatchMoves
  <1>8. CASE ~Keeps /\ ~Start /\ ~Crash
    <2>1. PICK t \in Tailers, f \in First(todo) : Opens(t, f) /\ todo' = todo \ {f}
      BY <1>8, TailersKeep
    <2>2. /\ f \in todo /\ f \in Files /\ ino[f] # None /\ ~Alive(t)
          /\ tl'[t].file = f /\ tl'[t].ino = ino[f]
          /\ \A u \in Tailers : Alive(u)' /\ u # t => Alive(u) /\ tl'[u] = tl[u]
          /\ \A u \in Tailers : Drains(u)' /\ u # t => Drains(u) /\ Alive(u) /\ tl'[u] = tl[u]
      BY <2>1 DEF Opens, Alive, Drains
    <2>3. CASE StartFile
      <3>1. UNCHANGED <<ino, known>> /\ w = "start" /\ w' \in {"start", "sendFirst"}
        BY <2>3 DEF StartFile
      <3>2. \A u \in Tailers : Alive(u) => tl[u].file # f /\ tl[u].ino # ino[f]
        BY <1>1, <1>2, <2>2, <3>1
      <3>3. Starting /\ Finding
        BY <1>1, <2>1, <2>2, <3>1
      <3>4. Only
        BY <1>1, <2>2, <3>2
      <3>5. Here
        BY <1>1, <2>2, <3>1, <3>2
      <3> QED
        BY <1>4, <3>3, <3>4, <3>5
    <2>4. CASE Discover
      <3>1. /\ UNCHANGED ino /\ w = "discover" /\ w' = "send" /\ known' = known \cup {f}
            /\ tl'[t].follow
        <4>1. PICK g \in First(todo) :
                /\ todo' = todo \ {g}
                /\ UNCHANGED tl \/ (/\ known' = known \cup {g} /\ w' = "send"
                                    /\ \E v \in First(FreeTailers) : Open(v, g, ~StopOption))
          BY <2>4 DEF Discover
        <4>2. g = f
          BY <2>1, <2>2, <4>1 DEF First
        <4>3. ~UNCHANGED tl
          BY <1>8 DEF Keeps, Alive
        <4>4. UNCHANGED ino /\ w = "discover"
          BY <2>4 DEF Discover
        <4>5. PICK v \in First(FreeTailers) : Open(v, g, ~StopOption)
          BY <4>1, <4>3
        <4>6. v \in Tailers /\ tl \in [Tailers -> Tailer] /\ ~StopOption
          BY <1>1, <4>4 DEF First, FreeTailers, TypeOK
        <4>7. tl'[v].follow /\ tl'[v].ph = "read"
          BY <4>5, <4>6 DEF Open, NoTailer
        <4>8. tl[v].ph = "none"
          BY DEF First, FreeTailers
        <4>9. v = t
          BY <2>1, <4>6, <4>7, <4>8 DEF Opens
        <4> QED
          BY <4>1, <4>2, <4>3, <4>4, <4>7, <4>9
      <3>2. \A u \in Tailers : Drains(u) => tl[u].file \notin {f} \/ ino[tl[u].file] # tl[u].ino
        BY <1>1, <2>2, <3>1
      <3>3. \A u \in Tailers : Drains(u) => tl[u].ino # ino[f]
        BY <1>2, <2>2, <3>2 DEF Drains
      <3>4. ~Drains(t)'
        BY <3>1 DEF Drains
      <3>5. Starting /\ Finding
        BY <1>1, <2>1, <2>2, <3>1
      <3>6. Only
        BY <1>1, <2>2, <3>3, <3>4
      <3>7. Here
        BY <1>1, <2>2, <3>1, <3>2, <3>4
      <3> QED
        BY <1>4, <3>5, <3>6, <3>7
    <2> QED
      BY <1>8, <2>3, <2>4, TailersKeep
  <1> QED
    BY <1>5, <1>6, <1>7, <1>8

(* The active tailer and the one it replaces were started for different    *)
(* names: that of the active one is known until it is being forgotten.     *)
NamesApart ==
  Globbed =>
    /\ w # "await" => gone = None
    /\ active \in Tailers /\ Alive(active) => tl[active].file \in known \cup {gone}
    /\ active \in Tailers /\ previous \in Tailers /\ Alive(active) /\ Alive(previous)
         => tl[active].file # tl[previous].file

LEMMA NamesApartStep ==
  TypeOK /\ Opened /\ Down /\ Handover /\ Drained /\ NamesApart /\ [Next]_vars => NamesApart'
  <1> SUFFICES ASSUME TypeOK, Opened, Down, Handover, Drained, NamesApart, [Next]_vars, Globbed
               PROVE  NamesApart'
    BY DEF NamesApart
  <1> DEFINE NoneForgotten == w' # "await" => gone' = None
             ActiveKnown   == active' \in Tailers /\ active' # None /\ Alive(active)'
                                => tl'[active'].file \in known' \cup {gone'}
             Apart         == active' \in Tailers /\ previous' \in Tailers /\ Alive(active)' /\ Alive(previous)'
                                => tl'[active'].file # tl'[previous'].file
             Goal          == NoneForgotten /\ ActiveKnown /\ Apart
  <1>a. None \notin Tailers /\ None \notin Files
    BY DEF None, Tailers, Files
  <1>0. SUFFICES Goal
    BY <1>a DEF NamesApart
  <1>1. /\ w # "await" => gone = None
        /\ active \in Tailers /\ Alive(active) => tl[active].file \in known \cup {gone}
        /\ active \in Tailers /\ previous \in Tailers /\ Alive(active) /\ Alive(previous)
             => tl[active].file # tl[previous].file
    BY DEF NamesApart
  <1>2. /\ \A t \in Tailers : Alive(t) => tl[t].file \in Files
        /\ w \in {"start", "sendFirst"} => todo \subseteq known
        /\ w \in {"discover", "send"} => todo \cap known = {}
        /\ previous # None => w \in {"send", "abandon", "returned"}
        /\ w \in {"start", "sendFirst"} /\ todo # {} => active = None
    BY DEF Opened, Alive, Drained, Handover
  <1>3. CASE Start \/ Crash
    BY <1>3, <1>a DEF Start, Crash, Down, Alive, NoTailer
  <1>4. CASE Keeps /\ ~Start /\ ~Crash
    <2>1. \A u \in Tailers : Alive(u)' => Alive(u) /\ tl'[u].file = tl[u].file
      BY <1>4 DEF Keeps
    <2>2. \A u \in Tailers : /\ (u = active' => (Alive(active)' <=> Alive(u)'))
                             /\ (u = previous' => (Alive(previous)' <=> Alive(u)'))
      BY DEF Alive
    <2>4. CASE /\ UNCHANGED <<gone, active>> /\ previous' \in {previous, None} /\ known \subseteq known'
               /\ (w' = "await" \/ w # "await")
      BY <1>1, <1>a, <2>1, <2>2, <2>4
    <2>5. ASSUME NEW f \in Files, ForgetFile(f) PROVE Goal
      <3>1. /\ known' = known \ {f} /\ UNCHANGED <<active, previous>> /\ w = "delete"
            /\ \/ gone' = f /\ w' = "await"
               \/ gone' = gone /\ w' = w /\ ~(active # None /\ tl[active].file = f)
        BY <2>5 DEF ForgetFile
      <3>2. CASE gone' = gone /\ w' = w /\ ~(active # None /\ tl[active].file = f)
        BY <1>1, <1>a, <2>1, <2>2, <3>1, <3>2
      <3>3. CASE gone' = f /\ w' = "await"
        BY <1>1, <1>2, <1>a, <2>1, <2>2, <3>1, <3>3
      <3> QED
        BY <3>1, <3>2, <3>3
    <2>6. CASE ForgetActive
      BY <1>1, <1>a, <2>6 DEF ForgetActive
    <2>7. CASE StartFile \/ Discover
      <3>1. CASE UNCHANGED <<known, active, previous, gone, w>>
        BY <2>4, <3>1
      <3>2. CASE ~UNCHANGED <<known, active, previous, gone, w>>
        <4>1. PICK f \in First(todo), t \in First(FreeTailers), follow \in BOOLEAN : Open(t, f, follow)
          <5>1. (~StopOption) \in BOOLEAN /\ \A f : (todo = {f} /\ ~StopOption) \in BOOLEAN
            OBVIOUS
          <5> QED
            BY <2>7, <3>2, <5>1 DEF StartFile, Discover
        <4>2. t \in Tailers /\ ~Alive(t) /\ tl \in [Tailers -> Tailer]
          BY DEF First, FreeTailers, Alive, TypeOK
        <4>3. Alive(t)'
          BY <4>1, <4>2 DEF Open, Alive, NoTailer
        <4> QED
          BY <2>1, <4>2, <4>3
      <3> QED
        BY <3>1, <3>2
    <2> QED
      BY <1>4, <2>4, <2>5, <2>6, <2>7
      DEF Next, vars, WriterStep, Create, Append, Remove, Cancel, WatcherStep,
          SendFirst, StartsDone, Scan, NoneGone, Send, DiscoverDone, StopActive, Return,
          TailerStep, Read, AtEOF, StopReading, Modified, Deleted, Dying, Reopen, Save, Retire
  <1>5. CASE ~Keeps /\ ~Start /\ ~Crash
    <2>1. PICK t \in Tailers, f \in First(todo) : Opens(t, f)
      BY <1>5, TailersKeep
    <2>2. /\ f \in todo /\ f \in Files /\ ~Alive(t) /\ tl'[t].file = f
          /\ \A u \in Tailers : u # t => tl'[u] = tl[u] /\ (Alive(u)' <=> Alive(u))
      BY <2>1 DEF Opens, Alive
    <2>3. \A u \in Tailers : /\ (u = active' => (Alive(active)' <=> Alive(u)'))
                             /\ (u = previous' => (Alive(previous)' <=> Alive(u)'))
      BY DEF Alive
    <2>4. CASE StartFile
      <3>1. /\ w = "start" /\ active = None /\ previous = None /\ previous' = None
            /\ UNCHANGED <<known, gone>> /\ w' \in {"start", "sendFirst"}
        BY <1>2, <2>2, <2>4 DEF StartFile
      <3>2. active' \in Tailers => active' = t
        <4>1. PICK g \in First(todo) :
                \/ UNCHANGED <<tl, active>>
                \/ \E v \in First(FreeTailers) :
                     /\ Open(v, g, todo = {g} /\ ~StopOption)
                     /\ active' = IF Globbed /\ todo = {g} THEN v ELSE active
          BY <2>4 DEF StartFile
        <4>2. ~UNCHANGED tl
          BY <1>5 DEF Keeps, Alive
        <4>3. PICK v \in First(FreeTailers) :
                /\ Open(v, g, todo = {g} /\ ~StopOption)
                /\ active' = IF Globbed /\ todo = {g} THEN v ELSE active
          BY <4>1, <4>2
        <4>4. v \in Tailers /\ tl \in [Tailers -> Tailer] /\ tl[v].ph = "none"
          BY DEF First, FreeTailers, TypeOK
        <4>5. tl'[v].ph = "read"
          BY <4>3, <4>4 DEF Open, NoTailer
        <4>6. v = t
          BY <2>1, <4>4, <4>5 DEF Opens
        <4> QED
          BY <1>a, <3>1, <4>3, <4>6
      <3> QED
        BY <1>1, <1>2, <1>a, <2>2, <2>3, <3>1, <3>2
    <2>5. CASE Discover
      <3>1. /\ w = "discover" /\ w' = "send" /\ gone' = gone /\ active' = t /\ previous' = active
            /\ known' = known \cup {f}
        <4>1. PICK g \in First(todo) :
                \/ UNCHANGED tl
                \/ /\ known' = known \cup {g} /\ w' = "send" /\ previous' = active
                   /\ \E v \in First(FreeTailers) : active' = v /\ Open(v, g, ~StopOption)
          BY <2>5 DEF Discover
        <4>2. g = f
          BY <2>2, <4>1 DEF First, TypeOK, Files
        <4>3. ~UNCHANGED tl
          BY <1>5 DEF Keeps, Alive
        <4>4. PICK v \in First(FreeTailers) : active' = v /\ Open(v, g, ~StopOption)
          BY <4>1, <4>3
        <4>5. v \in Tailers /\ tl \in [Tailers -> Tailer] /\ tl[v].ph = "none"
          BY DEF First, FreeTailers, TypeOK
        <4>6. tl'[v].ph = "read"
          BY <4>4, <4>5 DEF Open, NoTailer
        <4>7. v = t
          BY <2>1, <4>5, <4>6 DEF Opens
        <4>8. w = "discover" /\ gone' = gone
          BY <2>5 DEF Discover
        <4> QED
          BY <4>1, <4>2, <4>3, <4>4, <4>7, <4>8
      <3>2. previous' \in Tailers /\ Alive(previous)' /\ previous' # t => tl'[previous'].file # f
        BY <1>1, <1>2, <1>a, <2>2, <2>3, <3>1
      <3>3. active # t
        BY <2>5, <3>1 DEF Discover, First, FreeTailers
      <3> QED
        BY <1>1, <1>2, <1>a, <2>2, <2>3, <3>1, <3>2, <3>3
    <2> QED
      BY <1>5, <2>4, <2>5, TailersKeep
  <1> QED
    BY <1>3, <1>4, <1>5

(* A line is sent twice by one run only while a replaced tailer, which is  *)
(* about to end, has reopened a name that discovery found again.           *)
THEOREM ReadTwiceOnlyByEnding == Spec => []NoDoubleRead
  <1>1. Init => /\ Opened /\ Down /\ InodesApart /\ Handover /\ Followed
                /\ Waiting /\ Drained /\ NamesApart
    <2> SUFFICES ASSUME Init PROVE /\ Opened /\ Down /\ InodesApart /\ Handover /\ Followed
                                   /\ Waiting /\ Drained /\ NamesApart
      OBVIOUS
    <2>1. \A t \in Tailers : ~Alive(t) /\ tl[t].ph = "none" /\ ~Drains(t) /\ ~Follows(t)
      BY DEF Init, Alive, NoTailer, Drains, Follows
    <2>2. \A f \in Files : ino[f] = None /\ made = 0 /\ None = 0
      BY DEF Init, None
    <2>3. None \notin Tailers
      BY DEF None, Tailers
    <2> QED
      BY <2>1, <2>2, <2>3 DEF Init, Opened, Down, InodesApart, Handover, Followed, Waiting, Drained, NamesApart
  <1>2. Opened /\ InodesApart /\ Followed /\ Drained /\ NamesApart /\ ReadByOne => NoDoubleRead
    <2> SUFFICES ASSUME Opened, InodesApart, Followed, Drained, NamesApart, ReadByOne,
                        NEW t \in Tailers, NEW u \in Tailers,
                        Alive(t), Alive(u), t # u, tl[t].ino = tl[u].ino
                 PROVE  Globbed /\ tl[t].file \in Reused /\ (Ending(t) \/ Ending(u))
      BY DEF NoDoubleRead
    <2>1. Globbed /\ tl[t].file \in Reused
      BY DEF ReadByOne
    <2>2. tl[t].follow /\ tl[u].follow
      BY <2>1 DEF Drained, Drains
    <2>3. tl[t].file = tl[u].file
      BY DEF InodesApart
    <2>4. ASSUME ~Ending(t), ~Ending(u) PROVE FALSE
      <3>1. t \in {active, previous} /\ u \in {active, previous}
        BY <2>1, <2>2, <2>4 DEF Followed, Follows, Ending
      <3> QED
        BY <2>1, <2>3, <3>1 DEF NamesApart
    <2> QED
      BY <2>1, <2>4
  <1> QED
    BY <1>1, <1>2, ReadOnce, TypeInit, TypeStep, OpenedStep, DownStep, InodesApartStep, HandoverStep,
       FollowedStep, WaitingStep, DrainedStep, NamesApartStep, PTL DEF Spec
=============================================================================
