------------------------------ MODULE LineFeed ------------------------------
(***************************************************************************)
(* What the tail package promises to the parser of one logfile: while it   *)
(* runs, the parser receives the lines of the file in order, none twice    *)
(* and none skipped, from some position on.  A run may begin anywhere and  *)
(* may end anywhere; what a later run repeats or skips is not part of this *)
(* promise (TailFile states it about the state file).                      *)
(*                                                                         *)
(* Offsets count half-lines, and a newline ends at every even offset: a    *)
(* line that is read from offset o ends at LineEnd(o).                     *)
(***************************************************************************)
EXTENDS Integers

CONSTANT MaxSize  (* the number of half-lines the writer may write *)

VARIABLES size,  (* half-lines in the file *)
          live,  (* a run has chosen its start position and has not ended *)
          next   (* the offset at which the next line for the parser starts *)

feedVars == <<size, live, next>>

LineEnd(o) == 2 * (o \div 2) + 2

FeedTypeOK == /\ size \in 0 .. MaxSize
              /\ live \in BOOLEAN
              /\ next \in 0 .. MaxSize

FeedInit == /\ size = 0
            /\ live = FALSE
            /\ next = 0

Grow == /\ size' \in size + 1 .. MaxSize
        /\ UNCHANGED <<live, next>>

Begin == /\ ~live
         /\ live' = TRUE
         /\ next' \in 0 .. size
         /\ UNCHANGED size

(* The next line, or what there is of it when the file is read only once.  *)
Deliver == /\ live
           /\ next' \in next + 1 .. size
           /\ next' <= LineEnd(next)
           /\ UNCHANGED <<size, live>>

Halt == /\ live
        /\ live' = FALSE
        /\ UNCHANGED <<size, next>>

FeedNext == Grow \/ Begin \/ Deliver \/ Halt

FeedSpec == FeedInit /\ [][FeedNext]_feedVars
=============================================================================
