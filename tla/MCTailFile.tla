----------------------------- MODULE MCTailFile -----------------------------
(***************************************************************************)
(* The liveness properties of TailFile, checked over small files and few   *)
(* runs, and the claims of the repository that TLC refutes.                *)
(***************************************************************************)
EXTENDS TailFile

Following == up /\ mode = "follow" /\ ~ctx /\ dying = "no"

(* Every whole line that is written while the file is followed reaches the *)
(* parser.  About waitForChanges and the polling watcher.                  *)
EveryLineArrives ==
  \A n \in 1 .. MaxSize :
    n % 2 = 0 => (Following /\ size >= n) ~> (given >= n \/ ~Following)

(* The stream closes after a cancellation, at the end of a file that is    *)
(* not followed, and after StopAtEOF.  About the reader loop of            *)
(* tailSingleFile.                                                         *)
StreamCloses ==
  (up /\ (ctx \/ mode = "stop" \/ dying = "eof"))
    ~> (~up \/ rpc \in {"update", "done"})

(* A superseded file is released: after StopAtEOF the tailer closes it,    *)
(* unless a cancellation takes the reader away.  About README.md "Releases *)
(* file handles after a logfile reaches EOF".                              *)
FileReleased == (up /\ dying = "eof") ~> (~up \/ ctx \/ tpc = "closed")

(* The Stop() of a cancellation returns, or the tailer offers a line that  *)
(* the reader, which has left for the same cancellation, will never take:  *)
(* nothing else can keep it.  About watch_entries.go:119 and sendLine.     *)
StopReturns ==
  (up /\ dying = "stop") ~>
    (~up \/ tpc = "closed" \/ (tpc = "send" /\ rpc \in {"closing", "update", "done"}))
-----------------------------------------------------------------------------
(* tail/tail.go:35 "Last picks up where it left off": a run that follows a *)
(* graceful end, its last save completed, skips no line.                   *)
PicksUpWhereItLeftOff ==
  [][SeekStart /\ ReadFrom = "last" /\ clean => given' <= given]_vars

(* README.md "Stable final offset equal to the completed file size": once  *)
(* the reader has saved its last position nothing older is left behind.    *)
FinalOffset == up /\ rpc = "done" /\ ~ctx => saved = At(pos)
=============================================================================
