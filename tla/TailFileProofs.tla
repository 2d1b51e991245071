--------------------------- MODULE TailFileProofs ---------------------------
(***************************************************************************)
(* Theorems about TailFile for every size of the file, every write size,   *)
(* every number of runs and every setting of the options.                  *)
(*                                                                         *)
(* SavedAtMostTwoAhead is not inductive: a save copies the position        *)
(* through a local value, the shared State and the marshalled text before  *)
(* it reaches the file, and another save or a crash may come at any point  *)
(* between.  IInv says where the tailer, the reader and the parser stand   *)
(* relative to each other (Chain), and that every copy of a position,      *)
(* wherever it is, is bounded by the parser's position (Copies).           *)
(***************************************************************************)
EXTENDS TailFile, TLAPS

Limit == LineEnd(LineEnd(given))

(* No position anywhere is beyond the end of the file.                     *)
InFile == /\ given <= size /\ pos <= size
          /\ held.from <= size /\ held.to <= size /\ line.to <= size
          /\ saved.off <= size /\ loc.off <= size
          /\ state <= size
          /\ \A u \in Savers : reg[u] <= size

(* The parser, the reader's line and the tailer's line follow one another. *)
Chain ==
  /\ rpc = "deliver" => /\ line.from = given
                        /\ given < line.to /\ line.to <= LineEnd(given)
                        /\ tpc # "open"
  /\ tpc \in {"send", "seek"} => /\ held.from = Handed
                                 /\ Handed < pos /\ pos <= LineEnd(Handed)
  /\ tpc = "send" => held.to = pos
  /\ tpc \in {"read", "check", "wait", "closed"} => pos = Handed
  /\ ~up => tpc = "open" /\ rpc = "select"

(* Every copy of a position is at most two lines ahead of the parser, also *)
(* at the moment a run chooses the position it starts from.                *)
Copies ==
  /\ state <= Limit
  /\ \A u \in Savers : reg[u] <= Limit
  /\ ReadFrom # "beginning" /\ saved.kind = "at" => saved.off <= Limit
  /\ tpc = "open" => pos = 0 /\ state = 0 /\ \A u \in Savers : reg[u] = 0
  /\ up /\ tpc = "open" /\ ReadFrom # "beginning" /\ saved.kind = "at" =>
       loc.whence = "end" \/ saved.off <= loc.off
  /\ up /\ tpc = "open" /\ ReadFrom = "last" => loc.off <= Limit

IInv == TypeOK /\ InFile /\ Chain /\ Copies
-----------------------------------------------------------------------------
(* A line ends after the offset it is read from, and a later offset has no *)
(* earlier line end.                                                       *)
LEMMA LineEndFacts ==
  /\ \A a \in Nat : LineEnd(a) \in Nat /\ a < LineEnd(a)
  /\ \A a, b \in Nat : a <= b => LineEnd(a) <= LineEnd(b)
  BY SMT DEF LineEnd

(* The initial state satisfies the inductive invariant.                    *)
LEMMA InitIInv == Init => IInv
  <1> USE TailAssumption DEF TailAssumption, Init, AtStart, NoSpan, Absent, Offsets, Span, Savers, Nothing
  <1> SUFFICES ASSUME Init PROVE IInv
    OBVIOUS
  <1>1. TypeOK
    <2>1. size \in Offsets /\ runs \in 0 .. MaxRuns
      OBVIOUS
    <2>2. saved \in [kind : {"absent", "blank", "garbled", "at"}, off : Offsets]
      OBVIOUS
    <2>3. loc \in [whence : {"start", "end"}, off : Offsets]
      OBVIOUS
    <2>4. held \in Span /\ line \in Span
      OBVIOUS
    <2>5. upc \in [Savers -> {"idle", "set", "marshal", "truncate", "write", "close"}]
      OBVIOUS
    <2>6. reg \in [Savers -> Offsets] /\ noticed \in Offsets \cup {Nothing}
      OBVIOUS
    <2>7. clean \in BOOLEAN /\ ctx \in BOOLEAN /\ up \in BOOLEAN
      OBVIOUS
    <2>8. QED
      BY <2>1, <2>2, <2>3, <2>4, <2>5, <2>6, <2>7 DEF TypeOK
  <1>2. InFile
    BY DEF InFile
  <1>3. Chain
    BY DEF Chain
  <1>4. Copies
    BY LineEndFacts DEF Copies, Limit
  <1>5. QED
    BY <1>1, <1>2, <1>3, <1>4 DEF IInv

(* The variables a process starts from have their types.                    *)
LEMMA ProcessEndsType == TypeOK /\ ProcessEnds /\ clean' \in BOOLEAN => TypeOK'
  <1> USE TailAssumption DEF TailAssumption, TypeOK, ProcessEnds, AtStart, NoSpan, Offsets, Span, Savers, Nothing, fileVars
  <1> SUFFICES ASSUME TypeOK, ProcessEnds, clean' \in BOOLEAN PROVE TypeOK'
    OBVIOUS
  <1>1. (size \in Offsets /\ runs \in 0 .. MaxRuns /\ given \in Offsets)'
    OBVIOUS
  <1>2. (saved \in [kind : {"absent", "blank", "garbled", "at"}, off : Offsets])'
    OBVIOUS
  <1>3. (loc \in [whence : {"start", "end"}, off : Offsets])'
    OBVIOUS
  <1>4. (held \in Span /\ line \in Span)'
    OBVIOUS
  <1>5. (upc \in [Savers -> {"idle", "set", "marshal", "truncate", "write", "close"}])'
    OBVIOUS
  <1>6. (reg \in [Savers -> Offsets] /\ noticed \in Offsets \cup {Nothing})'
    OBVIOUS
  <1>7. (ctx \in BOOLEAN /\ up \in BOOLEAN /\ armed \in BOOLEAN /\ modified \in BOOLEAN)'
    OBVIOUS
  <1>8. QED
    BY <1>1, <1>2, <1>3, <1>4, <1>5, <1>6, <1>7

(* Every step preserves the types.                                         *)
LEMMA TypeStep == TypeOK /\ [Next]_vars => TypeOK'
  <1> USE TailAssumption, LineEndFacts DEF TailAssumption, Offsets, Span, NoSpan, Savers, Nothing, TypeOK,
        vars, fileVars, procVars, tailVars, watchVars, readVars, saveVars
  <1> SUFFICES ASSUME TypeOK, [Next]_vars PROVE TypeOK'
    OBVIOUS
  <1>1. CASE Append
    BY <1>1 DEF Append
  <1>2. CASE Start
    BY <1>2 DEF Start, Location, getStartLocation, readFrom, AtStart, Blank
  <1>3. CASE Cancel
    BY <1>3 DEF Cancel
  <1>4. CASE Stop
    BY <1>4 DEF Stop
  <1>5. CASE StopAtEOF
    BY <1>5 DEF StopAtEOF
  <1>6. CASE Exit
    BY <1>6, ProcessEndsType DEF Exit
  <1>7. CASE Crash
    BY <1>7, ProcessEndsType DEF Crash
  <1>8. CASE SeekStart
    BY <1>8 DEF SeekStart
  <1>9. CASE ReadLine
    BY <1>9 DEF ReadLine
  <1>10. CASE ReadEOF
    BY <1>10 DEF ReadEOF
  <1>11. CASE SeekBack
    BY <1>11 DEF SeekBack
  <1>12. CASE CheckDying
    BY <1>12 DEF CheckDying
  <1>13. CASE ArmWatch
    BY <1>13 DEF ArmWatch
  <1>14. CASE Notify
    BY <1>14 DEF Notify
  <1>15. CASE WakeModified
    <2>1. modified' \in BOOLEAN
      BY <1>15 DEF WakeModified
    <2>2. tpc' = "check"
      BY <1>15 DEF WakeModified
    <2>3. QED
      BY <1>15, <2>1, <2>2 DEF WakeModified
  <1>16. CASE WakeDying
    BY <1>16 DEF WakeDying
  <1>17. CASE SendLine
    BY <1>17 DEF SendLine
  <1>18. CASE Deliver
    BY <1>18 DEF Deliver
  <1>19. CASE LeaveLoop
    BY <1>19 DEF LeaveLoop
  <1>20. CASE CloseLines
    BY <1>20 DEF CloseLines
  <1>21. CASE CloseState
    BY <1>21 DEF CloseState
  <1>22. ASSUME NEW u \in Savers, Tell(u) PROVE TypeOK'
    BY <1>22 DEF Tell
  <1>23. ASSUME NEW u \in Savers, SetState(u) PROVE TypeOK'
    BY <1>23 DEF SetState
  <1>24. ASSUME NEW u \in Savers, Marshal(u) PROVE TypeOK'
    BY <1>24 DEF Marshal
  <1>25. ASSUME NEW u \in Savers, Truncate(u) PROVE TypeOK'
    BY <1>25 DEF Truncate, Blank
  <1>26. ASSUME NEW u \in Savers, Write(u) PROVE TypeOK'
    BY <1>26 DEF Write, At, Garbled
  <1>27. CASE UNCHANGED vars
    BY <1>27
  <1>28. QED
    BY <1>1, <1>2, <1>3, <1>4, <1>5, <1>6, <1>7, <1>8, <1>9, <1>10, <1>11, <1>12, <1>13, <1>14,
       <1>15, <1>16, <1>17, <1>18, <1>19, <1>20, <1>21, <1>22, <1>23, <1>24, <1>25, <1>26, <1>27
       DEF Next, TailerStep, ReaderStep, SaveStep

(* Every step keeps all positions inside the file.                         *)
LEMMA InFileStep == TypeOK /\ InFile /\ [Next]_vars => InFile'
  <1> USE TailAssumption, LineEndFacts DEF TailAssumption, Offsets, Span, NoSpan, Savers, Nothing, TypeOK, InFile,
        vars, fileVars, procVars, tailVars, watchVars, readVars, saveVars
  <1> SUFFICES ASSUME TypeOK, InFile, [Next]_vars PROVE InFile'
    OBVIOUS
  <1>1. CASE Append
    BY <1>1 DEF Append
  <1>2. CASE Start
    BY <1>2 DEF Start, Location, getStartLocation, readFrom, AtStart, Blank
  <1>3. CASE Cancel
    BY <1>3 DEF Cancel
  <1>4. CASE Stop
    BY <1>4 DEF Stop
  <1>5. CASE StopAtEOF
    BY <1>5 DEF StopAtEOF
  <1>6. CASE Exit
    BY <1>6 DEF Exit, ProcessEnds, AtStart
  <1>7. CASE Crash
    BY <1>7 DEF Crash, ProcessEnds, AtStart
  <1>8. CASE SeekStart
    BY <1>8 DEF SeekStart
  <1>9. CASE ReadLine
    BY <1>9 DEF ReadLine
  <1>10. CASE ReadEOF
    BY <1>10 DEF ReadEOF
  <1>11. CASE SeekBack
    BY <1>11 DEF SeekBack
  <1>12. CASE CheckDying
    BY <1>12 DEF CheckDying
  <1>13. CASE ArmWatch
    BY <1>13 DEF ArmWatch
  <1>14. CASE Notify
    BY <1>14 DEF Notify
  <1>15. CASE WakeModified
    BY <1>15 DEF WakeModified
  <1>16. CASE WakeDying
    BY <1>16 DEF WakeDying
  <1>17. CASE SendLine
    BY <1>17 DEF SendLine
  <1>18. CASE Deliver
    BY <1>18 DEF Deliver
  <1>19. CASE LeaveLoop
    BY <1>19 DEF LeaveLoop
  <1>20. CASE CloseLines
    BY <1>20 DEF CloseLines
  <1>21. CASE CloseState
    BY <1>21 DEF CloseState
  <1>22. ASSUME NEW u \in Savers, Tell(u) PROVE InFile'
    BY <1>22 DEF Tell
  <1>23. ASSUME NEW u \in Savers, SetState(u) PROVE InFile'
    BY <1>23 DEF SetState
  <1>24. ASSUME NEW u \in Savers, Marshal(u) PROVE InFile'
    BY <1>24 DEF Marshal
  <1>25. ASSUME NEW u \in Savers, Truncate(u) PROVE InFile'
    BY <1>25 DEF Truncate, Blank
  <1>26. ASSUME NEW u \in Savers, Write(u) PROVE InFile'
    BY <1>26 DEF Write, At, Garbled
  <1>27. CASE UNCHANGED vars
    BY <1>27
  <1>28. QED
    BY <1>1, <1>2, <1>3, <1>4, <1>5, <1>6, <1>7, <1>8, <1>9, <1>10, <1>11, <1>12, <1>13, <1>14,
       <1>15, <1>16, <1>17, <1>18, <1>19, <1>20, <1>21, <1>22, <1>23, <1>24, <1>25, <1>26, <1>27
       DEF Next, TailerStep, ReaderStep, SaveStep

(* Every step keeps the parser, the reader and the tailer in line.         *)
LEMMA ChainStep == TypeOK /\ InFile /\ Chain /\ [Next]_vars => Chain'
  <1> USE TailAssumption, LineEndFacts DEF TailAssumption, Offsets, Span, NoSpan, Savers, Nothing, TypeOK, InFile, Chain, Handed,
        vars, fileVars, procVars, tailVars, watchVars, readVars, saveVars
  <1> SUFFICES ASSUME TypeOK, InFile, Chain, [Next]_vars PROVE Chain'
    OBVIOUS
  <1>1. CASE Append
    BY <1>1 DEF Append
  <1>2. CASE Start
    BY <1>2 DEF Start, Location, getStartLocation, readFrom, AtStart, Blank
  <1>3. CASE Cancel
    BY <1>3 DEF Cancel
  <1>4. CASE Stop
    BY <1>4 DEF Stop
  <1>5. CASE StopAtEOF
    BY <1>5 DEF StopAtEOF
  <1>6. CASE Exit
    BY <1>6 DEF Exit, ProcessEnds, AtStart
  <1>7. CASE Crash
    BY <1>7 DEF Crash, ProcessEnds, AtStart
  <1>8. CASE SeekStart
    BY <1>8 DEF SeekStart
  <1>9. CASE ReadLine
    BY <1>9 DEF ReadLine
  <1>10. CASE ReadEOF
    BY <1>10 DEF ReadEOF
  <1>11. CASE SeekBack
    BY <1>11 DEF SeekBack
  <1>12. CASE CheckDying
    BY <1>12 DEF CheckDying
  <1>13. CASE ArmWatch
    BY <1>13 DEF ArmWatch
  <1>14. CASE Notify
    BY <1>14 DEF Notify
  <1>15. CASE WakeModified
    BY <1>15 DEF WakeModified
  <1>16. CASE WakeDying
    BY <1>16 DEF WakeDying
  <1>17. CASE SendLine
    BY <1>17 DEF SendLine
  <1>18. CASE Deliver
    BY <1>18 DEF Deliver
  <1>19. CASE LeaveLoop
    BY <1>19 DEF LeaveLoop
  <1>20. CASE CloseLines
    BY <1>20 DEF CloseLines
  <1>21. CASE CloseState
    BY <1>21 DEF CloseState
  <1>22. ASSUME NEW u \in Savers, Tell(u) PROVE Chain'
    BY <1>22 DEF Tell
  <1>23. ASSUME NEW u \in Savers, SetState(u) PROVE Chain'
    BY <1>23 DEF SetState
  <1>24. ASSUME NEW u \in Savers, Marshal(u) PROVE Chain'
    BY <1>24 DEF Marshal
  <1>25. ASSUME NEW u \in Savers, Truncate(u) PROVE Chain'
    BY <1>25 DEF Truncate, Blank
  <1>26. ASSUME NEW u \in Savers, Write(u) PROVE Chain'
    BY <1>26 DEF Write, At, Garbled
  <1>27. CASE UNCHANGED vars
    BY <1>27
  <1>28. QED
    BY <1>1, <1>2, <1>3, <1>4, <1>5, <1>6, <1>7, <1>8, <1>9, <1>10, <1>11, <1>12, <1>13, <1>14,
       <1>15, <1>16, <1>17, <1>18, <1>19, <1>20, <1>21, <1>22, <1>23, <1>24, <1>25, <1>26, <1>27
       DEF Next, TailerStep, ReaderStep, SaveStep

(* Every step keeps every copy of a position within two lines of the       *)
(* parser.                                                                 *)
LEMMA CopiesStep == TypeOK /\ InFile /\ Chain /\ Copies /\ [Next]_vars => Copies'
  <1> USE TailAssumption, LineEndFacts DEF TailAssumption, Offsets, Span, NoSpan, Savers, Nothing, TypeOK, InFile, Chain, Handed, Copies, Limit,
        vars, fileVars, procVars, tailVars, watchVars, readVars, saveVars
  <1> SUFFICES ASSUME TypeOK, InFile, Chain, Copies, [Next]_vars PROVE Copies'
    OBVIOUS
  <1>1. CASE Append
    BY <1>1 DEF Append
  <1>2. CASE Start
    BY <1>2 DEF Start, Location, getStartLocation, readFrom, AtStart, Blank
  <1>3. CASE Cancel
    BY <1>3 DEF Cancel
  <1>4. CASE Stop
    BY <1>4 DEF Stop
  <1>5. CASE StopAtEOF
    BY <1>5 DEF StopAtEOF
  <1>6. CASE Exit
    BY <1>6 DEF Exit, ProcessEnds, AtStart
  <1>7. CASE Crash
    BY <1>7 DEF Crash, ProcessEnds, AtStart
  <1>8. CASE SeekStart
    BY <1>8 DEF SeekStart
  <1>9. CASE ReadLine
    BY <1>9 DEF ReadLine
  <1>10. CASE ReadEOF
    BY <1>10 DEF ReadEOF
  <1>11. CASE SeekBack
    BY <1>11 DEF SeekBack
  <1>12. CASE CheckDying
    BY <1>12 DEF CheckDying
  <1>13. CASE ArmWatch
    BY <1>13 DEF ArmWatch
  <1>14. CASE Notify
    BY <1>14 DEF Notify
  <1>15. CASE WakeModified
    BY <1>15 DEF WakeModified
  <1>16. CASE WakeDying
    BY <1>16 DEF WakeDying
  <1>17. CASE SendLine
    BY <1>17 DEF SendLine
  <1>18. CASE Deliver
    BY <1>18 DEF Deliver
  <1>19. CASE LeaveLoop
    BY <1>19 DEF LeaveLoop
  <1>20. CASE CloseLines
    BY <1>20 DEF CloseLines
  <1>21. CASE CloseState
    BY <1>21 DEF CloseState
  <1>22. ASSUME NEW u \in Savers, Tell(u) PROVE Copies'
    BY <1>22 DEF Tell
  <1>23. ASSUME NEW u \in Savers, SetState(u) PROVE Copies'
    BY <1>23 DEF SetState
  <1>24. ASSUME NEW u \in Savers, Marshal(u) PROVE Copies'
    BY <1>24 DEF Marshal
  <1>25. ASSUME NEW u \in Savers, Truncate(u) PROVE Copies'
    BY <1>25 DEF Truncate, Blank
  <1>26. ASSUME NEW u \in Savers, Write(u) PROVE Copies'
    BY <1>26 DEF Write, At, Garbled
  <1>27. CASE UNCHANGED vars
    BY <1>27
  <1>28. QED
    BY <1>1, <1>2, <1>3, <1>4, <1>5, <1>6, <1>7, <1>8, <1>9, <1>10, <1>11, <1>12, <1>13, <1>14,
       <1>15, <1>16, <1>17, <1>18, <1>19, <1>20, <1>21, <1>22, <1>23, <1>24, <1>25, <1>26, <1>27
       DEF Next, TailerStep, ReaderStep, SaveStep

(* Every reachable state satisfies the inductive invariant.                *)
THEOREM Inductive == Spec => []IInv
  <1>1. IInv /\ [Next]_vars => IInv'
    BY TypeStep, InFileStep, ChainStep, CopiesStep DEF IInv
  <1>2. QED
    BY InitIInv, <1>1, PTL DEF Spec

(* Every variable keeps its type.                                          *)
THEOREM TypeCorrect == Spec => []TypeOK
  <1>1. IInv => TypeOK
    BY DEF IInv
  <1>2. QED
    BY Inductive, <1>1, PTL

(* The parser, the reader and the tailer hold consecutive lines of the     *)
(* file: none is skipped, repeated or reordered within a run.              *)
THEOREM LinesInOrder == Spec => []InOrder
  <1>1. IInv => InOrder
    BY DEF IInv, Chain, InOrder
  <1>2. QED
    BY Inductive, <1>1, PTL

(* The state file is never more than two lines ahead of the parser,        *)
(* however saves, deliveries, crashes and restarts interleave.             *)
THEOREM SavedBound == Spec => []SavedAtMostTwoAhead
  <1>1. IInv => SavedAtMostTwoAhead
    BY DEF IInv, Copies, Limit, SavedAtMostTwoAhead
  <1>2. QED
    BY Inductive, <1>1, PTL

(* A run that resumes skips at most two lines no earlier run delivered.    *)
THEOREM SkipBound == Spec => SkipsAtMostTwo
  <1>1. IInv /\ [Next]_vars
        => [ReadFrom = "last" /\ SeekStart /\ loc.whence = "start"
              => given' <= LineEnd(LineEnd(given))]_vars
    <2> SUFFICES ASSUME IInv, ReadFrom = "last", SeekStart, loc.whence = "start"
                 PROVE  given' <= LineEnd(LineEnd(given))
      OBVIOUS
    <2>1. given' = loc.off /\ up /\ tpc = "open"
      BY DEF SeekStart
    <2>2. QED
      BY <2>1 DEF IInv, Copies, Limit
  <1>2. QED
    BY Inductive, <1>1, PTL DEF Spec, SkipsAtMostTwo

(* The goroutines implement the line feed of module LineFeed: each step of *)
(* theirs is a step of the feed or leaves it as it is.                     *)
THEOREM Implementation == Spec => ImplementsLineFeed
  <1> USE TailAssumption DEF TailAssumption, Feed!feedVars, Offsets
  <1>1. Init => Feed!FeedInit
    BY DEF Init, Feed!FeedInit
  <1>2. ASSUME IInv, [Next]_vars PROVE [Feed!FeedNext]_(Feed!feedVars)
    <2> USE DEF vars, fileVars, procVars, tailVars, watchVars, readVars, saveVars, IInv, TypeOK
    <2>1. CASE Append
      <3>1. Feed!Grow
        BY <1>2, <2>1 DEF Append, Feed!Grow
      <3>2. QED
        BY <3>1 DEF Feed!FeedNext
    <2>2. CASE SeekStart
      <3>1. given' \in 0 .. size
        BY <1>2, <2>2 DEF SeekStart, InFile
      <3>2. Feed!Begin
        BY <2>2, <3>1 DEF SeekStart, Feed!Begin
      <3>3. QED
        BY <3>2 DEF Feed!FeedNext
    <2>3. CASE Deliver
      <3>1. given' = line.to /\ given < line.to /\ line.to <= LineEnd(given) /\ line.to <= size
        BY <1>2, <2>3 DEF Deliver, Chain, InFile
      <3>2. given' \in given + 1 .. size
        BY <1>2, <3>1 DEF Span
      <3>3. Feed!Deliver
        BY <1>2, <2>3, <3>1, <3>2 DEF Deliver, Chain, Feed!Deliver, LineEnd, Feed!LineEnd
      <3>4. QED
        BY <3>3 DEF Feed!FeedNext
    <2>4. CASE Exit \/ Crash
      <3>1. Feed!Halt \/ UNCHANGED Feed!feedVars
        BY <1>2, <2>4 DEF Exit, Crash, ProcessEnds, Feed!Halt
      <3>2. QED
        BY <3>1 DEF Feed!FeedNext
    <2>5. CASE Start \/ Cancel \/ Stop \/ StopAtEOF
      BY <1>2, <2>5 DEF Start, Cancel, Stop, StopAtEOF, Chain
    <2>6. CASE ReadLine \/ ReadEOF \/ SeekBack \/ CheckDying
      BY <2>6 DEF ReadLine, ReadEOF, SeekBack, CheckDying
    <2>7. CASE ArmWatch \/ Notify \/ WakeModified \/ WakeDying
      BY <2>7 DEF ArmWatch, Notify, WakeModified, WakeDying
    <2>8. CASE SendLine \/ LeaveLoop \/ CloseLines \/ CloseState
      BY <1>2, <2>8 DEF SendLine, LeaveLoop, CloseLines, CloseState
    <2>9. ASSUME NEW u \in Savers, SaveStep(u) PROVE UNCHANGED Feed!feedVars
      BY <2>9 DEF SaveStep, Tell, SetState, Marshal, Truncate, Write
    <2>10. CASE UNCHANGED vars
      BY <2>10
    <2>11. QED
      BY <1>2, <2>1, <2>2, <2>3, <2>4, <2>5, <2>6, <2>7, <2>8, <2>9, <2>10
         DEF Next, TailerStep, ReaderStep
  <1>3. QED
    BY Inductive, <1>1, <1>2, PTL DEF Spec, ImplementsLineFeed, Feed!FeedSpec
=============================================================================
