--------------------------- MODULE PipelineProofs ---------------------------
(***************************************************************************)
(* Theorems about Pipeline for every set of streams, every number of       *)
(* workers and every capacity.                                             *)
(*                                                                         *)
(* That the sender leaves nothing behind follows from the order in which   *)
(* the stages end (Stage): each stage ends only when the one before it has *)
(* ended and its channel is empty.  That nobody sends on a closed channel  *)
(* follows from the order of the three waits of run() (Closing).           *)
(***************************************************************************)
EXTENDS Pipeline, SumsProofs

(* A stage of stream s that has lost a worker has an ended stage and an    *)
(* empty channel before it.                                                *)
Stage(s) ==
  /\ modBusy[s] <= modLeft[s] /\ fwdBusy[s] <= fwdLeft[s]
  /\ ppc[s] = "new" => /\ modLeft[s] = NumSenders /\ modBusy[s] = 0
                       /\ toBeSent[s] = 0 /\ newSent[s] = 0
                       /\ spc[s] = "delay"
  /\ ppc[s] \in {"wait", "done"} => input[s] = 0
  /\ modLeft[s] < NumSenders => ppc[s] \in {"wait", "done"} /\ toBeSent[s] = 0
  /\ fwdLeft[s] < NumSenders => modLeft[s] = 0 /\ newSent[s] = 0
  /\ spc[s] \in {"finish", "done"} => fwdLeft[s] = 0 /\ realToBeSent[s] = 0
  /\ ppc[s] = "done" <=> spc[s] = "done"

(* run() closes libclick after the parsers, and muster's worker has taken  *)
(* everything from the closed Work channel when it exits.                  *)
Closing ==
  /\ wpc = "select" => batch < BatchSize
  /\ mpc \notin {"range", "wait"} => \A s \in Streams : ppc[s] \in {"new", "done"}
  /\ wpc \in {"last", "exited"} => work = 0 /\ mpc \notin {"range", "wait"}
  /\ wpc = "exited" => batch = 0
  /\ mpc \in {"responses", "final", "done"} => wpc = "exited" /\ \A i \in Batches : fired[i] = 0

IInv == TypeOK /\ (\A s \in Streams : Stage(s)) /\ Closing

-----------------------------------------------------------------------------
(* The constants as the leaves below use them.                             *)
LEMMA Capacities ==
  /\ MaxEvents \in Nat /\ MaxFails \in Nat /\ CapReal \in Nat /\ CapRetry \in Nat
  /\ CapWork \in Nat /\ CapResponses \in Nat
  /\ NumSenders \in Nat /\ NumSenders > 0 /\ BatchSize \in Nat /\ BatchSize > 0
  BY PipelineAssumption DEF PipelineAssumption

(* The initial state satisfies the inductive invariant.                    *)
LEMMA InitIInv == Init => IInv
  <1> USE Capacities DEF Init
  <1> SUFFICES ASSUME Init PROVE IInv
    OBVIOUS
  <1>1. TypeOK
    BY DEF TypeOK, Kinds, InResponses
  <1>2. \A s \in Streams : Stage(s)
    BY DEF Stage
  <1>3. Closing
    BY DEF Closing
  <1> QED
    BY <1>1, <1>2, <1>3 DEF IInv
-----------------------------------------------------------------------------
(* StartStream preserves the inductive invariant.                          *)
LEMMA StartStreamIInv ==
  ASSUME NEW s \in Streams, IInv, StartStream(s)
  PROVE  IInv'
  <1> USE Capacities DEF IInv, StartStream, Inc, Dec, Started, stages, channels, muster, counters, results
  <1>1. TypeOK'
    BY DEF TypeOK, Kinds, InResponses
  <1>2. \A s_1 \in Streams : Stage(s_1)'
    BY DEF TypeOK, Stage
  <1>3. Closing'
    BY DEF TypeOK, Stage, Closing
  <1> QED
    BY <1>1, <1>2, <1>3

(* Parse preserves the inductive invariant.                                *)
LEMMA ParseIInv ==
  ASSUME NEW s \in Streams, IInv, Parse(s)
  PROVE  IInv'
  <1> USE Capacities DEF IInv, Parse, Inc, Dec, Started, stages, channels, muster, counters, results
  <1>1. TypeOK'
    BY DEF TypeOK, Kinds, InResponses
  <1>2. \A s_1 \in Streams : Stage(s_1)'
    BY DEF TypeOK, Stage
  <1>3. Closing'
    BY DEF TypeOK, Stage, Closing
  <1> QED
    BY <1>1, <1>2, <1>3

(* CloseToBeSent preserves the inductive invariant.                        *)
LEMMA CloseToBeSentIInv ==
  ASSUME NEW s \in Streams, IInv, CloseToBeSent(s)
  PROVE  IInv'
  <1> USE Capacities DEF IInv, CloseToBeSent, Inc, Dec, Started, stages, channels, muster, counters, results
  <1>1. TypeOK'
    BY DEF TypeOK, Kinds, InResponses
  <1>2. \A s_1 \in Streams : Stage(s_1)'
    BY DEF TypeOK, Stage
  <1>3. Closing'
    BY DEF TypeOK, Stage, Closing
  <1> QED
    BY <1>1, <1>2, <1>3

(* ModifyReceive preserves the inductive invariant.                        *)
LEMMA ModifyReceiveIInv ==
  ASSUME NEW s \in Streams, IInv, ModifyReceive(s)
  PROVE  IInv'
  <1> USE Capacities DEF IInv, ModifyReceive, Inc, Dec, Started, stages, channels, muster, counters, results
  <1>1. TypeOK'
    BY DEF TypeOK, Kinds, InResponses
  <1>2. \A s_1 \in Streams : Stage(s_1)'
    BY DEF TypeOK, Stage
  <1>3. Closing'
    BY DEF TypeOK, Stage, Closing
  <1> QED
    BY <1>1, <1>2, <1>3

(* ModifySend preserves the inductive invariant.                           *)
LEMMA ModifySendIInv ==
  ASSUME NEW s \in Streams, IInv, ModifySend(s)
  PROVE  IInv'
  <1> USE Capacities DEF IInv, ModifySend, Inc, Dec, Started, stages, channels, muster, counters, results
  <1>1. TypeOK'
    BY DEF TypeOK, Kinds, InResponses
  <1>2. \A s_1 \in Streams : Stage(s_1)'
    BY DEF TypeOK, Stage
  <1>3. Closing'
    BY DEF TypeOK, Stage, Closing
  <1> QED
    BY <1>1, <1>2, <1>3

(* ModifyReturn preserves the inductive invariant.                         *)
LEMMA ModifyReturnIInv ==
  ASSUME NEW s \in Streams, IInv, ModifyReturn(s)
  PROVE  IInv'
  <1> USE Capacities DEF IInv, ModifyReturn, Inc, Dec, Started, stages, channels, muster, counters, results
  <1>1. TypeOK'
    BY DEF TypeOK, Kinds, InResponses
  <1>2. \A s_1 \in Streams : Stage(s_1)'
    BY DEF TypeOK, Stage
  <1>3. Closing'
    BY DEF TypeOK, Stage, Closing
  <1> QED
    BY <1>1, <1>2, <1>3

(* ForwardReceive preserves the inductive invariant.                       *)
LEMMA ForwardReceiveIInv ==
  ASSUME NEW s \in Streams, IInv, ForwardReceive(s)
  PROVE  IInv'
  <1> USE Capacities DEF IInv, ForwardReceive, Inc, Dec, Started, stages, channels, muster, counters, results
  <1>1. TypeOK'
    BY DEF TypeOK, Kinds, InResponses
  <1>2. \A s_1 \in Streams : Stage(s_1)'
    BY DEF TypeOK, Stage
  <1>3. Closing'
    BY DEF TypeOK, Stage, Closing
  <1> QED
    BY <1>1, <1>2, <1>3

(* ForwardSend preserves the inductive invariant.                          *)
LEMMA ForwardSendIInv ==
  ASSUME NEW s \in Streams, IInv, ForwardSend(s)
  PROVE  IInv'
  <1> USE Capacities DEF IInv, ForwardSend, Inc, Dec, Started, stages, channels, muster, counters, results
  <1>1. TypeOK'
    BY DEF TypeOK, Kinds, InResponses
  <1>2. \A s_1 \in Streams : Stage(s_1)'
    BY DEF TypeOK, Stage
  <1>3. Closing'
    BY DEF TypeOK, Stage, Closing
  <1> QED
    BY <1>1, <1>2, <1>3

(* ForwardReturn preserves the inductive invariant.                        *)
LEMMA ForwardReturnIInv ==
  ASSUME NEW s \in Streams, IInv, ForwardReturn(s)
  PROVE  IInv'
  <1> USE Capacities DEF IInv, ForwardReturn, Inc, Dec, Started, stages, channels, muster, counters, results
  <1>1. TypeOK'
    BY DEF TypeOK, Kinds, InResponses
  <1>2. \A s_1 \in Streams : Stage(s_1)'
    BY DEF TypeOK, Stage
  <1>3. Closing'
    BY DEF TypeOK, Stage, Closing
  <1> QED
    BY <1>1, <1>2, <1>3

(* TakeDelay preserves the inductive invariant.                            *)
LEMMA TakeDelayIInv ==
  ASSUME NEW s \in Streams, IInv, TakeDelay(s)
  PROVE  IInv'
  <1> USE Capacities DEF IInv, TakeDelay, Inc, Dec, Started, stages, channels, muster, counters, results
  <1>1. TypeOK'
    BY DEF TypeOK, Kinds, InResponses
  <1>2. \A s_1 \in Streams : Stage(s_1)'
    BY DEF TypeOK, Stage
  <1>3. Closing'
    BY DEF TypeOK, Stage, Closing
  <1> QED
    BY <1>1, <1>2, <1>3

(* TakeResent preserves the inductive invariant.                           *)
LEMMA TakeResentIInv ==
  ASSUME NEW s \in Streams, IInv, TakeResent(s)
  PROVE  IInv'
  <1> USE Capacities DEF IInv, TakeResent, Inc, Dec, Started, stages, channels, muster, counters, results
  <1>1. TypeOK'
    BY DEF TypeOK, Kinds, InResponses
  <1>2. \A s_1 \in Streams : Stage(s_1)'
    BY DEF TypeOK, Stage
  <1>3. Closing'
    BY DEF TypeOK, Stage, Closing
  <1> QED
    BY <1>1, <1>2, <1>3

(* TakeRegular preserves the inductive invariant.                          *)
LEMMA TakeRegularIInv ==
  ASSUME NEW s \in Streams, IInv, TakeRegular(s)
  PROVE  IInv'
  <1> USE Capacities DEF IInv, TakeRegular, Inc, Dec, Started, stages, channels, muster, counters, results
  <1>1. TypeOK'
    BY DEF TypeOK, Kinds, InResponses
  <1>2. \A s_1 \in Streams : Stage(s_1)'
    BY DEF TypeOK, Stage
  <1>3. Closing'
    BY DEF TypeOK, Stage, Closing
  <1> QED
    BY <1>1, <1>2, <1>3

(* SendEvent preserves the inductive invariant.                            *)
LEMMA SendEventIInv ==
  ASSUME NEW s \in Streams, IInv, SendEvent(s)
  PROVE  IInv'
  <1> USE Capacities DEF IInv, SendEvent, Inc, Dec, Started, stages, channels, muster, counters, results
  <1>1. TypeOK'
    BY DEF TypeOK, Kinds, InResponses
  <1>2. \A s_1 \in Streams : Stage(s_1)'
    BY DEF TypeOK, Stage
  <1>3. Closing'
    BY DEF TypeOK, Stage, Closing
  <1> QED
    BY <1>1, <1>2, <1>3

(* DropEvent preserves the inductive invariant.                            *)
LEMMA DropEventIInv ==
  ASSUME NEW s \in Streams, IInv, DropEvent(s)
  PROVE  IInv'
  <1> USE Capacities DEF IInv, DropEvent, Inc, Dec, Started, stages, channels, muster, counters, results
  <1>1. TypeOK'
    BY DEF TypeOK, Kinds, InResponses
  <1>2. \A s_1 \in Streams : Stage(s_1)'
    BY DEF TypeOK, Stage
  <1>3. Closing'
    BY DEF TypeOK, Stage, Closing
  <1> QED
    BY <1>1, <1>2, <1>3

(* DoneSending preserves the inductive invariant.                          *)
LEMMA DoneSendingIInv ==
  ASSUME NEW s \in Streams, IInv, DoneSending(s)
  PROVE  IInv'
  <1> USE Capacities DEF IInv, DoneSending, Inc, Dec, Started, stages, channels, muster, counters, results
  <1>1. TypeOK'
    BY DEF TypeOK, Kinds, InResponses
  <1>2. \A s_1 \in Streams : Stage(s_1)'
    BY DEF TypeOK, Stage
  <1>3. Closing'
    BY DEF TypeOK, Stage, Closing
  <1> QED
    BY <1>1, <1>2, <1>3

(* HandleDelay preserves the inductive invariant.                          *)
LEMMA HandleDelayIInv ==
  ASSUME NEW s \in Streams, IInv, HandleDelay(s)
  PROVE  IInv'
  <1> USE Capacities DEF IInv, HandleDelay, Inc, Dec, Started, stages, channels, muster, counters, results
  <1>1. TypeOK'
    BY DEF TypeOK, Kinds, InResponses
  <1>2. \A s_1 \in Streams : Stage(s_1)'
    BY DEF TypeOK, Stage
  <1>3. Closing'
    BY DEF TypeOK, Stage, Closing
  <1> QED
    BY <1>1, <1>2, <1>3

(* HandleResend preserves the inductive invariant.                         *)
LEMMA HandleResendIInv ==
  ASSUME NEW s \in Streams, IInv, HandleResend(s)
  PROVE  IInv'
  <1> USE Capacities DEF IInv, HandleResend, Inc, Dec, Started, stages, channels, muster, counters, results
  <1>1. TypeOK'
    BY DEF TypeOK, Kinds, InResponses
  <1>2. \A s_1 \in Streams : Stage(s_1)'
    BY DEF TypeOK, Stage
  <1>3. Closing'
    BY DEF TypeOK, Stage, Closing
  <1> QED
    BY <1>1, <1>2, <1>3

(* HandleClosed preserves the inductive invariant.                         *)
LEMMA HandleClosedIInv ==
  ASSUME NEW s \in Streams, IInv, HandleClosed(s)
  PROVE  IInv'
  <1> USE Capacities DEF IInv, HandleClosed, Inc, Dec, Started, stages, channels, muster, counters, results
  <1>1. TypeOK'
    BY DEF TypeOK, Kinds, InResponses
  <1>2. \A s_1 \in Streams : Stage(s_1)'
    BY DEF TypeOK, Stage
  <1>3. Closing'
    BY DEF TypeOK, Stage, Closing
  <1> QED
    BY <1>1, <1>2, <1>3

(* HandleResponse preserves the inductive invariant.                       *)
LEMMA HandleResponseIInv ==
  ASSUME NEW s \in Streams, NEW k \in Kinds, IInv, HandleResponse(s, k)
  PROVE  IInv'
  <1> USE Capacities DEF IInv, HandleResponse, Update, Inc, Dec, Started, stages, channels, muster, counters, results
  <1>1. TypeOK'
    BY DEF TypeOK, Kinds, InResponses
  <1>2. \A s_1 \in Streams : Stage(s_1)'
    BY DEF TypeOK, Stage
  <1>3. Closing'
    BY DEF TypeOK, Stage, Closing
  <1> QED
    BY <1>1, <1>2, <1>3

(* BatchAdd preserves the inductive invariant.                             *)
LEMMA BatchAddIInv ==
  ASSUME IInv, BatchAdd
  PROVE  IInv'
  <1> USE Capacities DEF IInv, BatchAdd, Inc, Dec, Started, stages, channels, muster, counters, results
  <1>1. TypeOK'
    BY DEF TypeOK, Kinds, InResponses, Closing
  <1>2. \A s_1 \in Streams : Stage(s_1)'
    BY DEF TypeOK, Stage
  <1>3. Closing'
    BY DEF TypeOK, Stage, Closing
  <1> QED
    BY <1>1, <1>2, <1>3

(* BatchTimeout preserves the inductive invariant.                         *)
LEMMA BatchTimeoutIInv ==
  ASSUME IInv, BatchTimeout
  PROVE  IInv'
  <1> USE Capacities DEF IInv, BatchTimeout, Inc, Dec, Started, stages, channels, muster, counters, results
  <1>1. TypeOK'
    BY DEF TypeOK, Kinds, InResponses
  <1>2. \A s_1 \in Streams : Stage(s_1)'
    BY DEF TypeOK, Stage
  <1>3. Closing'
    BY DEF TypeOK, Stage, Closing
  <1> QED
    BY <1>1, <1>2, <1>3

(* WorkClosed preserves the inductive invariant.                           *)
LEMMA WorkClosedIInv ==
  ASSUME IInv, WorkClosed
  PROVE  IInv'
  <1> USE Capacities DEF IInv, WorkClosed, Inc, Dec, Started, stages, channels, muster, counters, results
  <1>1. TypeOK'
    BY DEF TypeOK, Kinds, InResponses
  <1>2. \A s_1 \in Streams : Stage(s_1)'
    BY DEF TypeOK, Stage
  <1>3. Closing'
    BY DEF TypeOK, Stage, Closing
  <1> QED
    BY <1>1, <1>2, <1>3

(* FireBatch preserves the inductive invariant.                            *)
LEMMA FireBatchIInv ==
  ASSUME IInv, FireBatch
  PROVE  IInv'
  <1> USE Capacities DEF IInv, FireBatch, Inc, Dec, Started, stages, channels, muster, counters, results
  <1>1. TypeOK'
    <2>1. fired' \in [Batches -> 0 .. BatchSize]
      BY DEF TypeOK
    <2> QED
      BY <2>1 DEF TypeOK, Kinds, InResponses
  <1>2. \A s_1 \in Streams : Stage(s_1)'
    BY DEF TypeOK, Stage
  <1>3. Closing'
    BY DEF TypeOK, Stage, Closing
  <1> QED
    BY <1>1, <1>2, <1>3

(* StreamsClosed preserves the inductive invariant.                        *)
LEMMA StreamsClosedIInv ==
  ASSUME IInv, StreamsClosed
  PROVE  IInv'
  <1> USE Capacities DEF IInv, StreamsClosed, Inc, Dec, Started, stages, channels, muster, counters, results
  <1>1. TypeOK'
    BY DEF TypeOK, Kinds, InResponses
  <1>2. \A s_1 \in Streams : Stage(s_1)'
    BY DEF TypeOK, Stage
  <1>3. Closing'
    BY DEF TypeOK, Stage, Closing
  <1> QED
    BY <1>1, <1>2, <1>3

(* ParsersDone preserves the inductive invariant.                          *)
LEMMA ParsersDoneIInv ==
  ASSUME IInv, ParsersDone
  PROVE  IInv'
  <1> USE Capacities DEF IInv, ParsersDone, Inc, Dec, Started, stages, channels, muster, counters, results
  <1>1. TypeOK'
    BY DEF TypeOK, Kinds, InResponses
  <1>2. \A s_1 \in Streams : Stage(s_1)'
    BY DEF TypeOK, Stage
  <1>3. Closing'
    BY DEF TypeOK, Stage, Closing
  <1> QED
    BY <1>1, <1>2, <1>3

(* LibclickClosed preserves the inductive invariant.                       *)
LEMMA LibclickClosedIInv ==
  ASSUME IInv, LibclickClosed
  PROVE  IInv'
  <1> USE Capacities DEF IInv, LibclickClosed, Inc, Dec, Started, stages, channels, muster, counters, results
  <1>1. TypeOK'
    BY DEF TypeOK, Kinds, InResponses
  <1>2. \A s_1 \in Streams : Stage(s_1)'
    BY DEF TypeOK, Stage
  <1>3. Closing'
    BY DEF TypeOK, Stage, Closing
  <1> QED
    BY <1>1, <1>2, <1>3

(* ResponsesDone preserves the inductive invariant.                        *)
LEMMA ResponsesDoneIInv ==
  ASSUME IInv, ResponsesDone
  PROVE  IInv'
  <1> USE Capacities DEF IInv, ResponsesDone, Inc, Dec, Started, stages, channels, muster, counters, results
  <1>1. TypeOK'
    BY DEF TypeOK, Kinds, InResponses
  <1>2. \A s_1 \in Streams : Stage(s_1)'
    BY DEF TypeOK, Stage
  <1>3. Closing'
    BY DEF TypeOK, Stage, Closing
  <1> QED
    BY <1>1, <1>2, <1>3

(* LogFinal preserves the inductive invariant.                             *)
LEMMA LogFinalIInv ==
  ASSUME IInv, LogFinal
  PROVE  IInv'
  <1> USE Capacities DEF IInv, LogFinal, Inc, Dec, Started, stages, channels, muster, counters, results
  <1>1. TypeOK'
    BY DEF TypeOK, Kinds, InResponses
  <1>2. \A s_1 \in Streams : Stage(s_1)'
    BY DEF TypeOK, Stage
  <1>3. Closing'
    BY DEF TypeOK, Stage, Closing
  <1> QED
    BY <1>1, <1>2, <1>3

(* Tick preserves the inductive invariant.                                 *)
LEMMA TickIInv ==
  ASSUME IInv, Tick
  PROVE  IInv'
  <1> USE Capacities DEF IInv, Tick, LogStats, Reset, Inc, Dec, Started, stages, channels, muster, counters, results
  <1>1. TypeOK'
    BY DEF TypeOK, Kinds, InResponses
  <1>2. \A s_1 \in Streams : Stage(s_1)'
    BY DEF TypeOK, Stage
  <1>3. Closing'
    BY DEF TypeOK, Stage, Closing
  <1> QED
    BY <1>1, <1>2, <1>3

(* Respond preserves the inductive invariant.                              *)
LEMMA RespondIInv ==
  ASSUME NEW i \in Batches, NEW k \in Kinds, IInv, Respond(i, k)
  PROVE  IInv'
  <1> USE Capacities DEF IInv, Respond, Inc, Dec, Started, stages, channels, muster, counters, results
  <1>1. TypeOK'
    <2>1. responses' \in [Kinds -> 0 .. CapResponses] /\ InResponses' <= CapResponses
      <3>1. CASE k = "final"
        BY <3>1 DEF TypeOK, Kinds, InResponses
      <3>2. CASE k = "retry"
        BY <3>2 DEF TypeOK, Kinds, InResponses
      <3> QED
        BY <3>1, <3>2 DEF Kinds
    <2>2. fired' \in [Batches -> 0 .. BatchSize]
      BY DEF TypeOK
    <2>3. fails' \in 0 .. MaxFails
      BY DEF TypeOK
    <2> QED
      BY <2>1, <2>2, <2>3 DEF TypeOK
  <1>2. \A s_1 \in Streams : Stage(s_1)'
    BY DEF TypeOK, Stage
  <1>3. Closing'
    BY DEF TypeOK, Stage, Closing
  <1> QED
    BY <1>1, <1>2, <1>3

-----------------------------------------------------------------------------
(* Every step preserves the inductive invariant.                           *)
LEMMA NextIInv == IInv /\ [Next]_vars => IInv'
  <1> SUFFICES ASSUME IInv, [Next]_vars PROVE IInv'
    OBVIOUS
  <1>1. CASE UNCHANGED vars
    BY <1>1 DEF IInv, TypeOK, Stage, Closing, InResponses, vars, stages, channels, muster, counters, results
  <1>2. ASSUME NEW s \in Streams, ParserStep(s) PROVE IInv'
    BY <1>2, StartStreamIInv, ParseIInv, CloseToBeSentIInv DEF ParserStep
  <1>3. ASSUME NEW s \in Streams, ModifierStep(s) PROVE IInv'
    BY <1>3, ModifyReceiveIInv, ModifySendIInv, ModifyReturnIInv DEF ModifierStep
  <1>4. ASSUME NEW s \in Streams, ForwarderStep(s) PROVE IInv'
    BY <1>4, ForwardReceiveIInv, ForwardSendIInv, ForwardReturnIInv DEF ForwarderStep
  <1>5. ASSUME NEW s \in Streams, SenderStep(s) PROVE IInv'
    BY <1>5, TakeDelayIInv, TakeResentIInv, TakeRegularIInv, SendEventIInv, DropEventIInv,
       DoneSendingIInv DEF SenderStep
  <1>6. ASSUME NEW s \in Streams, HandlerStep(s) PROVE IInv'
    BY <1>6, HandleResponseIInv, HandleDelayIInv, HandleResendIInv, HandleClosedIInv
       DEF HandlerStep
  <1>7. CASE WorkerStep
    BY <1>7, BatchAddIInv, BatchTimeoutIInv, WorkClosedIInv, FireBatchIInv DEF WorkerStep
  <1>8. ASSUME NEW i \in Batches, NEW k \in Kinds, Respond(i, k) PROVE IInv'
    BY <1>8, RespondIInv
  <1>9. CASE MainStep
    BY <1>9, StreamsClosedIInv, ParsersDoneIInv, LibclickClosedIInv, ResponsesDoneIInv,
       LogFinalIInv DEF MainStep
  <1>10. CASE Tick
    BY <1>10, TickIInv
  <1> QED
    BY <1>1, <1>2, <1>3, <1>4, <1>5, <1>6, <1>7, <1>8, <1>9, <1>10 DEF Next

(* The inductive invariant holds in every reachable state.                 *)
THEOREM Inductive == Spec => []IInv
  BY InitIInv, NextIInv, PTL DEF Spec

(* Type correctness: no channel ever holds more than its capacity and no   *)
(* stage has more busy or returned workers than it started.                *)
THEOREM TypeCorrect == Spec => []TypeOK
  <1>1. IInv => TypeOK
    BY DEF IInv
  <1> QED
    BY <1>1, Inductive, PTL

(* The sender of a stream ends only after every event of the stream went   *)
(* to libclick.                                                            *)
THEOREM NothingLeft == Spec => []SenderLeavesNothing
  <1>1. ASSUME IInv, NEW s \in Streams, spc[s] \in {"finish", "done"}
        PROVE  input[s] + toBeSent[s] + modBusy[s] + newSent[s] + fwdBusy[s] + realToBeSent[s] = 0
    <2>1. fwdLeft[s] = 0 /\ fwdBusy[s] = 0 /\ realToBeSent[s] = 0
      BY <1>1, Capacities DEF IInv, TypeOK, Stage
    <2>2. modLeft[s] = 0 /\ modBusy[s] = 0 /\ newSent[s] = 0
      BY <1>1, <2>1, Capacities DEF IInv, TypeOK, Stage
    <2>3. toBeSent[s] = 0 /\ input[s] = 0
      BY <1>1, <2>2, Capacities DEF IInv, TypeOK, Stage
    <2> QED
      BY <2>1, <2>2, <2>3
  <1>2. IInv => SenderLeavesNothing
    BY <1>1 DEF SenderLeavesNothing
  <1> QED
    BY <1>2, Inductive, PTL

(* Nobody sends on a closed channel.                                       *)
THEOREM NothingOnClosed == Spec => []NoSendOnClosed
  <1>1. ASSUME IInv, mpc \notin {"range", "wait"}, NEW s \in Streams
        PROVE  spc[s] \notin {"send", "sendAgain"}
    BY <1>1 DEF IInv, Stage, Closing
  <1>2. ASSUME IInv, mpc \in {"responses", "final", "done"}
        PROVE  work + batch = 0 /\ \A i \in Batches : fired[i] = 0
    BY <1>2 DEF IInv, Closing
  <1>3. IInv => NoSendOnClosed
    BY <1>1, <1>2 DEF NoSendOnClosed
  <1> QED
    BY <1>3, Inductive, PTL
-----------------------------------------------------------------------------
(* Until the total is printed, the counter and the total are the responses *)
(* handled so far.                                                         *)
Counted == mpc # "done" => count + totalCount = Handled

(* A response is counted when it is handled, and a tick moves the count.   *)
LEMMA CountedStep == TypeOK /\ Counted /\ [Next]_vars => Counted'
  <1> SUFFICES ASSUME TypeOK, Counted, [Next]_vars PROVE Counted'
    OBVIOUS
  <1> DEFINE Untouched == UNCHANGED <<mpc, results>>
  <1>1. Untouched => Counted'
    BY DEF Counted, Handled, results, counters
  <1>2. CASE UNCHANGED vars
    BY <1>1, <1>2 DEF vars
  <1>3. ASSUME NEW s \in Streams, ParserStep(s) PROVE Counted'
    BY <1>1, <1>3 DEF ParserStep, StartStream, Parse, CloseToBeSent
  <1>4. ASSUME NEW s \in Streams, ModifierStep(s) PROVE Counted'
    BY <1>1, <1>4 DEF ModifierStep, ModifyReceive, ModifySend, ModifyReturn
  <1>5. ASSUME NEW s \in Streams, ForwarderStep(s) PROVE Counted'
    BY <1>1, <1>5 DEF ForwarderStep, ForwardReceive, ForwardSend, ForwardReturn
  <1>6. ASSUME NEW s \in Streams, SenderStep(s) PROVE Counted'
    <2>1. CASE DropEvent(s)
      BY <2>1 DEF DropEvent, Counted, Handled, counters
    <2> QED
      BY <1>1, <1>6, <2>1 DEF SenderStep, TakeDelay, TakeResent, TakeRegular, SendEvent, DoneSending
  <1>7. ASSUME NEW s \in Streams, HandlerStep(s) PROVE Counted'
    <2>1. ASSUME NEW k \in Kinds, HandleResponse(s, k) PROVE Counted'
      <3>1. CASE BackOff /\ k = "retry"
        BY <2>1, <3>1 DEF HandleResponse, Update, Dec, Counted, Handled, TypeOK, Kinds
      <3>2. CASE BackOff /\ k = "final"
        BY <2>1, <3>2 DEF HandleResponse, Update, Dec, Counted, Handled, TypeOK, Kinds
      <3>3. CASE ~BackOff
        BY <2>1, <3>3 DEF HandleResponse, Update, Dec, Counted, Handled, TypeOK, Kinds
      <3> QED
        BY <3>1, <3>2, <3>3 DEF Kinds
    <2> QED
      BY <1>1, <1>7, <2>1 DEF HandlerStep, HandleDelay, HandleResend, HandleClosed
  <1>8. CASE WorkerStep
    BY <1>1, <1>8 DEF WorkerStep, BatchAdd, BatchTimeout, WorkClosed, FireBatch
  <1>9. ASSUME NEW i \in Batches, NEW k \in Kinds, Respond(i, k) PROVE Counted'
    <2>1. CASE k = "retry"
      BY <1>9, <2>1 DEF Respond, Inc, Counted, Handled, counters, TypeOK, Kinds
    <2>2. CASE k = "final"
      BY <1>9, <2>2 DEF Respond, Inc, Counted, Handled, counters, TypeOK, Kinds
    <2> QED
      BY <2>1, <2>2 DEF Kinds
  <1>10. CASE MainStep
    BY <1>10 DEF MainStep, StreamsClosed, ParsersDone, LibclickClosed, ResponsesDone, LogFinal,
                 Counted, Handled, results, counters
  <1>11. CASE Tick
    BY <1>11 DEF Tick, Reset, Counted, Handled, TypeOK
  <1> QED
    BY <1>2, <1>3, <1>4, <1>5, <1>6, <1>7, <1>8, <1>9, <1>10, <1>11 DEF Next

(* Only logFinal makes run() done, and it prints the counted responses.    *)
LEMMA FinalStep ==
  TypeOK /\ Counted /\ [Next]_vars /\ mpc # "done" /\ mpc' = "done" => totalCount' = Handled'
  <1> SUFFICES ASSUME TypeOK, Counted, [Next]_vars, mpc # "done", mpc' = "done"
               PROVE  totalCount' = Handled'
    OBVIOUS
  <1>1. LogFinal
    <2>1. ASSUME NEW s \in Streams PROVE ~(ParserStep(s) \/ ModifierStep(s) \/ ForwarderStep(s))
      BY DEF ParserStep, StartStream, Parse, CloseToBeSent, ModifierStep, ModifyReceive,
             ModifySend, ModifyReturn, ForwarderStep, ForwardReceive, ForwardSend, ForwardReturn
    <2>2. ASSUME NEW s \in Streams PROVE ~(SenderStep(s) \/ HandlerStep(s))
      BY DEF SenderStep, TakeDelay, TakeResent, TakeRegular, SendEvent, DropEvent, DoneSending,
             HandlerStep, HandleResponse, HandleDelay, HandleResend, HandleClosed
    <2>3. ~WorkerStep
      BY DEF WorkerStep, BatchAdd, BatchTimeout, WorkClosed, FireBatch
    <2>4. ~(\E i \in Batches, k \in Kinds : Respond(i, k)) /\ ~Tick /\ ~(UNCHANGED vars)
      BY DEF Respond, Tick, vars
    <2> QED
      BY <2>1, <2>2, <2>3, <2>4
         DEF Next, MainStep, StreamsClosed, ParsersDone, LibclickClosed, ResponsesDone
  <1> QED
    BY <1>1 DEF LogFinal, Counted, Handled, TypeOK

(* The last total counts every response once, however the tickers of the   *)
(* streams and the handlers interleave.                                    *)
THEOREM TotalIsRight == Spec => FinalTotal
  <1>1. Init => Counted
    BY DEF Init, Counted, Handled, Kinds
  <1>2. Spec => []Counted
    BY <1>1, CountedStep, TypeCorrect, PTL DEF Spec
  <1>3. TypeOK /\ Counted /\ [Next]_vars
          => [mpc # "done" /\ mpc' = "done" => totalCount' = Handled']_vars
    BY FinalStep
  <1> QED
    BY <1>2, <1>3, TypeCorrect, PTL DEF Spec, FinalTotal
-----------------------------------------------------------------------------
(* Without a stream libclick holds nothing; a handler is done only when    *)
(* libclick is closed and every response was taken; and run() goes on only *)
(* when all handlers are done.                                             *)
Drained ==
  /\ (\A s \in Streams : ppc[s] = "new") =>
       work = 0 /\ batch = 0 /\ InResponses = 0 /\ \A i \in Batches : fired[i] = 0
  /\ \A s \in Streams : hpc[s] = "done" =>
       mpc \in {"responses", "final", "done"} /\ InResponses = 0
  /\ mpc \in {"final", "done"} => \A s \in Streams : Started(s) => hpc[s] = "done"

(* Every step preserves it: what could bring back a response needs a batch *)
(* in flight, and there is none once libclick is closed.                   *)
LEMMA DrainedStep == IInv /\ Drained /\ [Next]_vars => Drained'
  <1> SUFFICES ASSUME IInv, Drained, [Next]_vars PROVE Drained'
    OBVIOUS
  <1> USE DEF IInv, Drained, Started, InResponses
  <1>1. CASE UNCHANGED vars
    BY <1>1 DEF vars, stages, channels, muster, results
  <1>2. ASSUME NEW s \in Streams, ParserStep(s) PROVE Drained'
    <2>1. CASE StartStream(s)
      BY <2>1 DEF StartStream, TypeOK, muster, results
    <2>2. CASE Parse(s) \/ CloseToBeSent(s)
      BY <2>2 DEF Parse, CloseToBeSent, TypeOK, muster, results
    <2> QED
      BY <1>2, <2>1, <2>2 DEF ParserStep
  <1>3. ASSUME NEW s \in Streams, ModifierStep(s) PROVE Drained'
    BY <1>3 DEF ModifierStep, ModifyReceive, ModifySend, ModifyReturn, muster, results
  <1>4. ASSUME NEW s \in Streams, ForwarderStep(s) PROVE Drained'
    BY <1>4 DEF ForwarderStep, ForwardReceive, ForwardSend, ForwardReturn, muster, results
  <1>5. ASSUME NEW s \in Streams, SenderStep(s) PROVE Drained'
    <2>1. CASE TakeDelay(s) \/ TakeResent(s) \/ TakeRegular(s)
      BY <2>1 DEF TakeDelay, TakeResent, TakeRegular, muster, results, stages
    <2>2. CASE SendEvent(s)
      BY <2>2 DEF SendEvent, Stage, muster, results, stages
    <2>3. CASE DropEvent(s)
      BY <2>3 DEF DropEvent, muster, stages
    <2>4. CASE DoneSending(s)
      BY <2>4 DEF DoneSending, TypeOK, muster, results
    <2> QED
      BY <1>5, <2>1, <2>2, <2>3, <2>4 DEF SenderStep
  <1>6. ASSUME NEW s \in Streams, HandlerStep(s) PROVE Drained'
    <2>1. ASSUME NEW k \in Kinds, HandleResponse(s, k) PROVE Drained'
      <3>1. InResponses > 0
        BY <2>1 DEF HandleResponse, TypeOK, Kinds
      <3> QED
        BY <2>1, <3>1 DEF HandleResponse, TypeOK, stages, muster
    <2>2. CASE HandleDelay(s) \/ HandleResend(s)
      BY <2>2 DEF HandleDelay, HandleResend, TypeOK, stages, muster, results
    <2>3. CASE HandleClosed(s)
      BY <2>3 DEF HandleClosed, TypeOK, stages, muster, results
    <2> QED
      BY <1>6, <2>1, <2>2, <2>3 DEF HandlerStep
  <1>7. CASE WorkerStep
    <2>1. CASE BatchAdd \/ BatchTimeout \/ WorkClosed
      BY <2>1 DEF BatchAdd, BatchTimeout, WorkClosed, TypeOK, stages, results
    <2>2. CASE FireBatch
      BY <2>2 DEF FireBatch, TypeOK, stages, results
    <2> QED
      BY <1>7, <2>1, <2>2 DEF WorkerStep
  <1>8. ASSUME NEW i \in Batches, NEW k \in Kinds, Respond(i, k) PROVE Drained'
    <2>1. fired[i] > 0 /\ mpc \notin {"responses", "final", "done"}
      BY <1>8 DEF Respond, Closing
    <2> QED
      BY <1>8, <2>1 DEF Respond, stages
  <1>9. CASE MainStep
    BY <1>9 DEF MainStep, StreamsClosed, ParsersDone, LibclickClosed, ResponsesDone, LogFinal,
                stages, muster, results
  <1>10. CASE Tick
    BY <1>10 DEF Tick, stages, muster
  <1> QED
    BY <1>1, <1>2, <1>3, <1>4, <1>5, <1>6, <1>7, <1>8, <1>9, <1>10 DEF Next

(* When run() prints its totals, every event of every stream has been      *)
(* answered or dropped, for every number of streams, which share libclick. *)
THEOREM NothingForgotten == Spec => []DoneMeansDrained
  <1>1. Init => Drained
    BY Capacities DEF Init, Drained, InResponses, Kinds
  <1>2. Spec => []Drained
    BY <1>1, DrainedStep, Inductive, PTL DEF Spec
  <1>3. ASSUME IInv, Drained, mpc = "done", NEW s \in Streams, Started(s)
        PROVE  Held(s) = toBeResent[s] /\ InResponses = 0
    <2>1. ppc[s] = "done" /\ spc[s] = "done" /\ hpc[s] = "done" /\ InResponses = 0
      BY <1>3 DEF IInv, Stage, Closing, Drained, Started
    <2>2. fwdLeft[s] = 0 /\ fwdBusy[s] = 0 /\ realToBeSent[s] = 0
      BY <1>3, <2>1, Capacities DEF IInv, TypeOK, Stage
    <2>3. modLeft[s] = 0 /\ modBusy[s] = 0 /\ newSent[s] = 0
      BY <1>3, <2>2, Capacities DEF IInv, TypeOK, Stage
    <2>4. toBeSent[s] = 0 /\ input[s] = 0
      BY <1>3, <2>3, Capacities DEF IInv, TypeOK, Stage
    <2> QED
      BY <1>3, <2>1, <2>2, <2>3, <2>4 DEF Held, IInv, TypeOK
  <1>4. ASSUME IInv, Drained, mpc = "done" PROVE DoneMeansDrained
    <2>1. work = 0 /\ batch = 0 /\ \A i \in Batches : fired[i] = 0
      BY <1>4 DEF IInv, Closing
    <2>2. InResponses = 0
      BY <1>3, <1>4 DEF Drained, Started
    <2> QED
      BY <1>3, <1>4, <2>1, <2>2 DEF DoneMeansDrained
  <1> QED
    BY <1>2, <1>4, Inductive, PTL DEF DoneMeansDrained
-----------------------------------------------------------------------------
(* Pipeline implements EventLedger: the initial states map to initial      *)
(* states of the ledger, and every step maps to one of its four steps or   *)
(* to none.  A step of the pipeline concerns one stream or one batch, so   *)
(* it changes one number of the two sums of the mapping; TotalUpdate says  *)
(* what that does to the sum.                                              *)
HeldBy == [s \in Streams |-> Held(s)]

Summable == HeldBy \in [Streams -> Nat] /\ fired \in [Batches -> Nat]

(* Both sums are over functions into the natural numbers.                  *)
LEMMA HeldType == TypeOK => Summable
  <1>1. ASSUME TypeOK, NEW s \in Streams PROVE Held(s) \in Nat
    BY <1>1, Capacities DEF TypeOK, Held
  <1> QED
    BY <1>1, Capacities DEF TypeOK, HeldBy, Summable

LEMMA HeldTypeNext == TypeOK' => Summable'
  BY HeldType, PTL

LEMMA BatchesFinite == IsFiniteSet(Batches)
  BY FS_Interval, Capacities DEF Batches

(* A step that concerns stream s alone changes the number of waiting       *)
(* events by what it changes for s.                                        *)
LEMMA WaitingChange ==
  ASSUME TypeOK, TypeOK', NEW s \in Streams,
         \A t \in Streams \ {s} : Held(t)' = Held(t)
  PROVE  /\ Waiting \in Nat /\ Waiting >= Held(s)
         /\ Waiting' = Waiting - Held(s) + Held(s)'
  <1>1. HeldBy \in [Streams -> Nat]
    BY HeldType DEF Summable
  <1>2. HeldBy' \in [Streams -> Nat]
    BY HeldTypeNext DEF Summable
  <1>3. PICK f : f = HeldBy
    OBVIOUS
  <1>4. PICK g : g = HeldBy'
    OBVIOUS
  <1>5. \A y \in Streams \ {s} : g[y] = f[y]
    BY <1>3, <1>4 DEF HeldBy
  <1>6. /\ Total(f) \in Nat /\ Total(f) >= f[s]
        /\ Total(g) = Total(f) - f[s] + g[s]
    BY <1>1, <1>2, <1>3, <1>4, <1>5, TotalUpdate, PipelineAssumption DEF PipelineAssumption
  <1>7. f[s] = Held(s) /\ g[s] = Held(s)'
    BY <1>3, <1>4 DEF HeldBy
  <1>8. Total(f) = Waiting /\ Total(g) = Waiting'
    BY <1>3, <1>4 DEF Waiting, HeldBy
  <1> QED
    BY <1>6, <1>7, <1>8

(* A step that changes no stream's number changes nothing.                 *)
LEMMA WaitingSame ==
  ASSUME \A t \in Streams : Held(t)' = Held(t)
  PROVE  Waiting' = Waiting
  BY DEF Waiting

(* Likewise for the batches in flight.                                     *)
LEMMA FiredChange ==
  ASSUME TypeOK, TypeOK', NEW i \in Batches,
         \A j \in Batches \ {i} : fired'[j] = fired[j]
  PROVE  /\ Total(fired) \in Nat /\ Total(fired) >= fired[i]
         /\ Total(fired)' = Total(fired) - fired[i] + fired'[i]
  <1>1. fired \in [Batches -> Nat]
    BY HeldType DEF Summable
  <1>2. fired' \in [Batches -> Nat]
    BY HeldTypeNext DEF Summable
  <1>3. PICK f : f = fired
    OBVIOUS
  <1>4. PICK g : g = fired'
    OBVIOUS
  <1>5. /\ Total(f) \in Nat /\ Total(f) >= f[i]
        /\ Total(g) = Total(f) - f[i] + g[i]
    BY <1>1, <1>2, <1>3, <1>4, TotalUpdate, BatchesFinite
  <1>6. Total(fired)' = Total(g)
    BY <1>4 DEF Total
  <1> QED
    BY <1>3, <1>4, <1>5, <1>6
-----------------------------------------------------------------------------
(* What run() does between a parser and libclick moves an event on, or     *)
(* waits, or ends a goroutine: no number of held events changes.           *)
LEMMA ParserHolds ==
  ASSUME TypeOK, NEW s \in Streams, ParserStep(s), NEW t \in Streams
  PROVE  Held(t)' = Held(t)
  <1> USE DEF TypeOK, Held, Inc, Dec, channels
  <1>1. CASE StartStream(s)
    BY <1>1 DEF StartStream
  <1>2. CASE Parse(s)
    BY <1>2, Capacities DEF Parse
  <1>3. CASE CloseToBeSent(s)
    BY <1>3 DEF CloseToBeSent
  <1> QED
    BY <1>1, <1>2, <1>3 DEF ParserStep

LEMMA ModifierHolds ==
  ASSUME TypeOK, NEW s \in Streams, ModifierStep(s), NEW t \in Streams
  PROVE  Held(t)' = Held(t)
  <1> USE DEF TypeOK, Held, Inc, Dec, channels
  <1>1. CASE ModifyReceive(s)
    BY <1>1, Capacities DEF ModifyReceive
  <1>2. CASE ModifySend(s)
    BY <1>2, Capacities DEF ModifySend
  <1>3. CASE ModifyReturn(s)
    BY <1>3 DEF ModifyReturn
  <1> QED
    BY <1>1, <1>2, <1>3 DEF ModifierStep

LEMMA ForwarderHolds ==
  ASSUME TypeOK, NEW s \in Streams, ForwarderStep(s), NEW t \in Streams
  PROVE  Held(t)' = Held(t)
  <1> USE DEF TypeOK, Held, Inc, Dec, channels
  <1>1. CASE ForwardReceive(s)
    BY <1>1, Capacities DEF ForwardReceive
  <1>2. CASE ForwardSend(s)
    BY <1>2, Capacities DEF ForwardSend
  <1>3. CASE ForwardReturn(s)
    BY <1>3 DEF ForwardReturn
  <1> QED
    BY <1>1, <1>2, <1>3 DEF ForwarderStep

(* The sender takes an event from toBeResent or realToBeSent into its      *)
(* hands.                                                                  *)
LEMMA SenderHolds ==
  ASSUME TypeOK, NEW s \in Streams, NEW t \in Streams,
         TakeDelay(s) \/ TakeResent(s) \/ TakeRegular(s) \/ DoneSending(s)
  PROVE  Held(t)' = Held(t)
  <1> USE DEF TypeOK, Held, Inc, Dec, channels, stages
  <1>1. CASE TakeDelay(s)
    BY <1>1 DEF TakeDelay
  <1>2. CASE TakeResent(s)
    <2>1. CASE toBeResent[s] > 0
      BY <1>2, <2>1, Capacities DEF TakeResent
    <2>2. CASE ~(toBeResent[s] > 0)
      BY <1>2, <2>2 DEF TakeResent
    <2> QED
      BY <2>1, <2>2
  <1>3. CASE TakeRegular(s)
    <2>1. CASE realToBeSent[s] > 0
      BY <1>3, <2>1, Capacities DEF TakeRegular
    <2>2. CASE ~(realToBeSent[s] > 0)
      BY <1>3, <2>2 DEF TakeRegular
    <2> QED
      BY <2>1, <2>2
  <1>4. CASE DoneSending(s)
    BY <1>4 DEF DoneSending
  <1> QED
    BY <1>1, <1>2, <1>3, <1>4

LEMMA HandlerHolds ==
  ASSUME TypeOK, NEW s \in Streams, NEW t \in Streams,
         HandleDelay(s) \/ HandleResend(s) \/ HandleClosed(s)
  PROVE  Held(t)' = Held(t)
  <1> USE DEF TypeOK, Held, Inc, Dec, channels, stages
  <1>1. CASE HandleDelay(s)
    BY <1>1 DEF HandleDelay
  <1>2. CASE HandleResend(s)
    BY <1>2, Capacities DEF HandleResend
  <1>3. CASE HandleClosed(s)
    BY <1>3 DEF HandleClosed
  <1> QED
    BY <1>1, <1>2, <1>3
-----------------------------------------------------------------------------
(* A step that changes neither what a stream holds nor libclick stutters.  *)
Stutter == UNCHANGED Ledger!ledgerVars

LEMMA NoChange ==
  ASSUME \A t \in Streams : Held(t)' = Held(t), UNCHANGED <<muster, responses, answered, dropped>>
  PROVE  Stutter
  BY WaitingSame DEF Stutter, Ledger!ledgerVars, Out, InResponses, Total, muster

(* The event in the sender's hands goes to libclick, or is dropped there.  *)
LEMMA SendEventMaps ==
  ASSUME TypeOK, TypeOK', NEW s \in Streams, SendEvent(s)
  PROVE  Ledger!Send
  <1>1. \A t \in Streams \ {s} : Held(t)' = Held(t)
    BY DEF SendEvent, Held, TypeOK, stages, channels
  <1>2. Held(s) \in Nat /\ Held(s) > 0 /\ Held(s)' = Held(s) - 1
    <2>1. spc[s] \in {"send", "sendAgain"} /\ spc'[s] = "delay"
      BY DEF SendEvent, TypeOK
    <2>2. UNCHANGED <<stages, channels, hpc>>
      BY DEF SendEvent
    <2>3. /\ input[s] \in Nat /\ toBeSent[s] \in Nat /\ modBusy[s] \in Nat /\ newSent[s] \in Nat
          /\ fwdBusy[s] \in Nat /\ realToBeSent[s] \in Nat /\ toBeResent[s] \in Nat
      BY Capacities DEF TypeOK
    <2> QED
      BY <2>1, <2>2, <2>3 DEF Held, stages, channels
  <1>3. Waiting \in Nat /\ Waiting > 0 /\ Waiting' = Waiting - 1
    BY <1>1, <1>2, WaitingChange
  <1>4. Total(fired) \in Nat
    BY HeldType, TotalType, BatchesFinite DEF Summable
  <1>5. Total(fired)' = Total(fired)
    BY DEF SendEvent
  <1>6. Out' = Out + 1
    BY <1>4, <1>5 DEF SendEvent, Out, InResponses, results, TypeOK, Kinds
  <1> QED
    BY <1>3, <1>6 DEF Ledger!Send, SendEvent, results

LEMMA DropEventMaps ==
  ASSUME TypeOK, TypeOK', NEW s \in Streams, DropEvent(s)
  PROVE  Ledger!Drop
  <1>1. \A t \in Streams \ {s} : Held(t)' = Held(t)
    BY DEF DropEvent, Held, TypeOK, stages, channels
  <1>2. Held(s) \in Nat /\ Held(s) > 0 /\ Held(s)' = Held(s) - 1
    <2>1. spc[s] \in {"send", "sendAgain"} /\ spc'[s] = "delay"
      BY DEF DropEvent, TypeOK
    <2>2. UNCHANGED <<stages, channels, hpc>>
      BY DEF DropEvent
    <2>3. /\ input[s] \in Nat /\ toBeSent[s] \in Nat /\ modBusy[s] \in Nat /\ newSent[s] \in Nat
          /\ fwdBusy[s] \in Nat /\ realToBeSent[s] \in Nat /\ toBeResent[s] \in Nat
      BY Capacities DEF TypeOK
    <2> QED
      BY <2>1, <2>2, <2>3 DEF Held, stages, channels
  <1>3. Waiting \in Nat /\ Waiting > 0 /\ Waiting' = Waiting - 1
    BY <1>1, <1>2, WaitingChange
  <1>4. Out' = Out
    BY DEF DropEvent, Out, InResponses, Total, muster
  <1> QED
    BY <1>3, <1>4 DEF Ledger!Drop, DropEvent

(* A handled response is final, or gives the event back to the handler of  *)
(* whatever stream received it.                                            *)
LEMMA HandleResponseMaps ==
  ASSUME TypeOK, TypeOK', NEW s \in Streams, NEW k \in Kinds, HandleResponse(s, k)
  PROVE  Ledger!Answer \/ Ledger!Retry
  <1>1. Total(fired) \in Nat
    BY HeldType, TotalType, BatchesFinite DEF Summable
  <1>2. Total(fired)' = Total(fired)
    BY DEF HandleResponse, muster
  <1>3. InResponses \in Nat /\ InResponses > 0 /\ InResponses' = InResponses - 1
    <2>1. CASE k = "final"
      BY <2>1 DEF HandleResponse, InResponses, Dec, TypeOK, Kinds
    <2>2. CASE k = "retry"
      BY <2>2 DEF HandleResponse, InResponses, Dec, TypeOK, Kinds
    <2> QED
      BY <2>1, <2>2 DEF Kinds
  <1>4. Out > 0 /\ Out' = Out - 1
    BY <1>1, <1>2, <1>3 DEF HandleResponse, Out, muster, TypeOK
  <1>5. \A t \in Streams \ {s} : Held(t)' = Held(t)
    BY DEF HandleResponse, Held, TypeOK, stages, channels
  <1>6. CASE BackOff /\ k = "retry"
    <2>1. Held(s) \in Nat /\ Held(s)' = Held(s) + 1
      BY <1>6, Capacities DEF HandleResponse, Held, TypeOK, stages, channels
    <2>2. Waiting' = Waiting + 1
      BY <1>5, <2>1, WaitingChange
    <2> QED
      BY <1>4, <1>6, <2>2 DEF Ledger!Retry, HandleResponse
  <1>7. CASE ~(BackOff /\ k = "retry")
    <2>1. Held(s)' = Held(s)
      BY <1>7 DEF HandleResponse, Held, stages, channels
    <2>2. Waiting' = Waiting
      BY <1>5, <2>1, WaitingSame
    <2> QED
      BY <1>4, <1>7, <2>2 DEF Ledger!Answer, HandleResponse
  <1> QED
    BY <1>6, <1>7
-----------------------------------------------------------------------------
(* Inside libclick an event goes from Work to the batch, from the batch to *)
(* a batch in flight, and from there to the responses.                     *)
LEMMA WorkerStutters ==
  ASSUME TypeOK, TypeOK', WorkerStep
  PROVE  Stutter
  <1>1. Waiting' = Waiting /\ UNCHANGED <<responses, answered, dropped>>
    <2>1. UNCHANGED <<stages, channels, spc, hpc, results>>
      BY DEF WorkerStep, BatchAdd, BatchTimeout, WorkClosed, FireBatch
    <2> QED
      BY <2>1 DEF Waiting, Held, stages, channels, results
  <1>2. Total(fired) \in Nat
    BY HeldType, TotalType, BatchesFinite DEF Summable
  <1>3. Out' = Out
    <2>1. CASE BatchAdd
      <3>1. Total(fired)' = Total(fired)
        BY <2>1 DEF BatchAdd
      <3> QED
        BY <1>1, <1>2, <2>1, <3>1, Capacities DEF BatchAdd, Out, InResponses, TypeOK, Kinds
    <2>2. CASE BatchTimeout \/ WorkClosed
      BY <1>1, <2>2 DEF BatchTimeout, WorkClosed, Out, InResponses, Total
    <2>3. CASE FireBatch
      <3>1. PICK i \in Batches : fired[i] = 0 /\ fired' = [fired EXCEPT ![i] = batch]
        BY <2>3 DEF FireBatch
      <3>2. Total(fired)' = Total(fired) - fired[i] + fired'[i]
        BY <3>1, FiredChange DEF TypeOK
      <3>3. fired'[i] = batch
        BY <3>1 DEF TypeOK
      <3> QED
        BY <1>1, <1>2, <2>3, <3>1, <3>2, <3>3, Capacities
           DEF FireBatch, Out, InResponses, TypeOK, Kinds
    <2> QED
      BY <2>1, <2>2, <2>3 DEF WorkerStep
  <1> QED
    BY <1>1, <1>3 DEF Stutter, Ledger!ledgerVars

LEMMA RespondStutters ==
  ASSUME TypeOK, TypeOK', NEW i \in Batches, NEW k \in Kinds, Respond(i, k)
  PROVE  Stutter
  <1>1. Waiting' = Waiting /\ UNCHANGED <<work, batch, answered, dropped>>
    BY DEF Respond, Waiting, Held, stages, channels
  <1>2. InResponses \in Nat /\ InResponses' = InResponses + 1
    <2>1. CASE k = "final"
      BY <2>1 DEF Respond, InResponses, Inc, TypeOK, Kinds
    <2>2. CASE k = "retry"
      BY <2>2 DEF Respond, InResponses, Inc, TypeOK, Kinds
    <2> QED
      BY <2>1, <2>2 DEF Kinds
  <1>3. fired[i] \in Nat /\ fired'[i] = fired[i] - 1 /\ \A j \in Batches \ {i} : fired'[j] = fired[j]
    BY Capacities DEF Respond, Dec, TypeOK
  <1>4. Total(fired) \in Nat /\ Total(fired)' = Total(fired) - 1
    BY <1>3, FiredChange
  <1>5. Out' = Out
    BY <1>1, <1>2, <1>4, Capacities DEF Out, TypeOK
  <1> QED
    BY <1>1, <1>5 DEF Stutter, Ledger!ledgerVars

(* Every step of run() is a step of the ledger, or none.                   *)
LEMMA StepMaps == TypeOK /\ TypeOK' /\ [Next]_vars => [Ledger!LedgerNext]_(Ledger!ledgerVars)
  <1> SUFFICES ASSUME TypeOK, TypeOK', [Next]_vars
               PROVE  Ledger!LedgerNext \/ Stutter
    BY DEF Stutter
  <1> USE DEF Ledger!LedgerNext
  <1>1. CASE UNCHANGED vars
    BY <1>1, NoChange DEF Held, vars, stages, channels, results
  <1>2. ASSUME NEW s \in Streams, ParserStep(s) PROVE Stutter
    BY <1>2, ParserHolds, NoChange
       DEF ParserStep, StartStream, Parse, CloseToBeSent, results
  <1>3. ASSUME NEW s \in Streams, ModifierStep(s) PROVE Stutter
    BY <1>3, ModifierHolds, NoChange
       DEF ModifierStep, ModifyReceive, ModifySend, ModifyReturn, results
  <1>4. ASSUME NEW s \in Streams, ForwarderStep(s) PROVE Stutter
    BY <1>4, ForwarderHolds, NoChange
       DEF ForwarderStep, ForwardReceive, ForwardSend, ForwardReturn, results
  <1>5. ASSUME NEW s \in Streams, SenderStep(s) PROVE Ledger!LedgerNext \/ Stutter
    <2>1. CASE TakeDelay(s) \/ TakeResent(s) \/ TakeRegular(s) \/ DoneSending(s)
      BY <2>1, SenderHolds, NoChange DEF TakeDelay, TakeResent, TakeRegular, DoneSending, results
    <2> QED
      BY <1>5, <2>1, SendEventMaps, DropEventMaps DEF SenderStep
  <1>6. ASSUME NEW s \in Streams, HandlerStep(s) PROVE Ledger!LedgerNext \/ Stutter
    <2>1. CASE HandleDelay(s) \/ HandleResend(s) \/ HandleClosed(s)
      BY <2>1, HandlerHolds, NoChange DEF HandleDelay, HandleResend, HandleClosed, results
    <2> QED
      BY <1>6, <2>1, HandleResponseMaps DEF HandlerStep
  <1>7. CASE MainStep \/ Tick
    BY <1>7, NoChange DEF MainStep, StreamsClosed, ParsersDone, LibclickClosed, ResponsesDone,
       LogFinal, Tick, Held, stages, channels, results
  <1> QED
    BY <1>1, <1>2, <1>3, <1>4, <1>5, <1>6, <1>7, WorkerStutters, RespondStutters DEF Next

(* The pipeline starts with all its events waiting.                        *)
LEMMA InitMaps == Init => Ledger!LedgerInit
  <1> SUFFICES ASSUME Init PROVE Ledger!LedgerInit
    OBVIOUS
  <1>1. Waiting \in Nat
    BY InitIInv, HeldType, TotalType, PipelineAssumption
       DEF IInv, Summable, Waiting, HeldBy, PipelineAssumption
  <1>2. fired \in [Batches -> Nat] /\ \A i \in Batches : fired[i] = 0
    BY DEF Init
  <1>3. Total(fired) = 0
    BY <1>2, TotalType, BatchesFinite
  <1> QED
    BY <1>1, <1>3 DEF Init, Ledger!LedgerInit, Out, InResponses, Kinds

(* run() never loses, invents or duplicates an event: an event waits, is   *)
(* handed to libclick once at a time, and is answered, dropped or retried. *)
THEOREM PipelineImplementsLedger == Spec => ImplementsLedger
  BY InitMaps, StepMaps, TypeCorrect, PTL DEF Spec, ImplementsLedger, Ledger!LedgerSpec
-----------------------------------------------------------------------------
(* What the ledger says at the end: with n events in the logfiles at the   *)
(* start, those answered, those dropped and those that still wait are n.   *)
(* What waits then is left in toBeResent, or is of a stream that was not   *)
(* started.                                                                *)
Left == [s \in Streams |-> IF Started(s) THEN toBeResent[s] ELSE Held(s)]

Booked == Waiting + Out + answered + dropped

LEMMA BookedTypes ==
  TypeOK => Waiting \in Nat /\ Out \in Nat /\ Total(fired) \in Nat /\ answered \in Nat /\ dropped \in Nat
  <1> SUFFICES ASSUME TypeOK
               PROVE  Waiting \in Nat /\ Out \in Nat /\ Total(fired) \in Nat /\ answered \in Nat /\ dropped \in Nat
    OBVIOUS
  <1>1. Waiting \in Nat
    BY HeldType, TotalType, PipelineAssumption DEF Summable, Waiting, HeldBy, PipelineAssumption
  <1>2. fired \in [Batches -> Nat]
    BY HeldType DEF Summable
  <1>3. Total(fired) \in Nat
    BY <1>2, TotalType, BatchesFinite
  <1> QED
    BY <1>1, <1>3, Capacities DEF TypeOK, Out, InResponses, Kinds

LEMMA BookedStays ==
  ASSUME NEW n, TypeOK, TypeOK', [Next]_vars, Booked = n
  PROVE  Booked' = n
  <1>1. Ledger!LedgerNext \/ UNCHANGED <<Waiting, Out, answered, dropped>>
    BY StepMaps DEF Ledger!ledgerVars
  <1>2. Waiting \in Nat /\ Out \in Nat /\ answered \in Nat /\ dropped \in Nat
    BY BookedTypes
  <1> QED
    BY <1>1, <1>2 DEF Booked, Ledger!LedgerNext, Ledger!Send, Ledger!Drop, Ledger!Answer, Ledger!Retry

(* When run() has printed its totals, every event was answered or dropped, *)
(* or is left in toBeResent, whatever was retried in between; but for the  *)
(* streams that were not started.                                          *)
THEOREM EveryEventIsBooked ==
  ASSUME NEW CONSTANT n
  PROVE  Spec /\ Waiting = n => [](mpc = "done" => answered + dropped + Total(Left) = n)
  <1>1. Init /\ Waiting = n => Booked = n
    <2> SUFFICES ASSUME Init, Waiting = n PROVE Booked = n
      OBVIOUS
    <2>1. Waiting \in Nat /\ Out = 0 /\ answered = 0 /\ dropped = 0
      BY InitMaps DEF Ledger!LedgerInit
    <2> QED
      BY <2>1 DEF Booked
  <1>2. Booked = n /\ TypeOK /\ TypeOK' /\ [Next]_vars => (Booked = n)'
    BY BookedStays
  <1>3. TypeOK /\ DoneMeansDrained /\ Booked = n => (mpc = "done" => answered + dropped + Total(Left) = n)
    <2> SUFFICES ASSUME TypeOK, DoneMeansDrained, Booked = n, mpc = "done"
                 PROVE  answered + dropped + Total(Left) = n
      OBVIOUS
    <2>1. work + batch + InResponses = 0 /\ \A i \in Batches : fired[i] = 0
      BY DEF DoneMeansDrained
    <2>2. fired \in [Batches -> Nat]
      BY HeldType DEF Summable
    <2>3. Total(fired) = 0
      BY <2>1, <2>2, TotalType, BatchesFinite
    <2>4. work \in Nat /\ batch \in Nat /\ InResponses \in Nat
      BY Capacities DEF TypeOK, InResponses, Kinds
    <2>5. Out = 0
      BY <2>1, <2>3, <2>4 DEF Out
    <2>6. Left = [s \in Streams |-> Held(s)]
      BY DEF DoneMeansDrained, Left
    <2> QED
      BY <2>5, <2>6, BookedTypes DEF Booked, Waiting
  <1> QED
    BY <1>1, <1>2, <1>3, TypeCorrect, NothingForgotten, PTL DEF Spec
=============================================================================
