--------------------------- MODULE MCWatchEntries ---------------------------
(***************************************************************************)
(* A claim about WatchEntries that TLC refutes.                            *)
(***************************************************************************)
EXTENDS WatchEntries

VARIABLE opened  (* history: the inodes some tailer has opened, in any run *)

NextOpened == Next /\ opened' = opened \cup {tl[t]'.ino : t \in Tailers}

SpecOpened == Init /\ opened = {} /\ [][NextOpened]_<<vars, opened>>

(* tail/tail.go:35 "Last picks up where it left off, if the file has not   *)
(* been rotated, otherwise beginning": a file that no run has ever opened  *)
(* is not started in the middle because of a saved position.               *)
RotatedMeansBeginning ==
  [][\A t \in Tailers :
       (/\ tl[t].ph = "none" /\ tl[t]'.ph = "read"
        /\ st[tl[t]'.file].kind = "at" /\ tl[t]'.ino \notin opened)
       => tl[t]'.off = 0]_<<vars, opened>>
=============================================================================
