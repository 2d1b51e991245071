------------------------------ MODULE Pipeline ------------------------------
(***************************************************************************)
(* run() of leash.go: one pipeline per logfile stream in front of one      *)
(* libclick client.                                                        *)
(*                                                                         *)
(*   parser -> toBeSent -> modifiers -> newSent -> forwarders              *)
(*          -> realToBeSent -> sender -> libclick -> responses             *)
(*          -> handler -> (delaySending, toBeResent) -> sender             *)
(*                                                                         *)
(* Every stream has its own goroutines and channels except the responses   *)
(* channel, which the handlers of all streams read.  libclick hands events *)
(* to a muster client, whose worker makes batches and fires each in a      *)
(* goroutine of its own.  Events are counted, not named: a channel is the  *)
(* number of events in it.  The capacities, which the code computes from   *)
(* NumSenders, are constants so that small ones can be checked.            *)
(***************************************************************************)
EXTENDS Sums

CONSTANTS Streams,       (* the logfile streams *)
          MaxEvents,     (* bound: events one stream produces *)
          NumSenders,    (* workers per stage, capacity of toBeSent and newSent, batches in flight *)
          CapReal,       (* capacity of realToBeSent: 10 * NumSenders in the code *)
          CapRetry,      (* capacity of toBeResent and delaySending: 2 * NumSenders *)
          CapWork,       (* PendingWorkCapacity: 20 * NumSenders *)
          CapResponses,  (* capacity of libclick's responses channel *)
          BatchSize,     (* MaxBatchSize *)
          BackOff,       (* the --backoff option *)
          Sampling,      (* dynamic sampling is on *)
          Refusing,      (* libclick may refuse an event *)
          Ticking,       (* the --status_interval option is not 0 *)
          MaxFails       (* bound: retryable responses the server gives *)

ASSUME PipelineAssumption ==
  /\ IsFiniteSet(Streams)
  /\ {MaxEvents, MaxFails, CapReal, CapRetry, CapWork, CapResponses} \subseteq Nat
  /\ {NumSenders, BatchSize} \subseteq Nat \ {0}
  /\ BackOff \in BOOLEAN /\ Sampling \in BOOLEAN /\ Refusing \in BOOLEAN /\ Ticking \in BOOLEAN

VARIABLES
  input,      (* input[s]: events the parser of s has still to produce *)
  ppc,        (* parser: "new" (stream not yet received), "parse", "wait", "done" *)
  toBeSent, newSent, realToBeSent, toBeResent, delaySending,  (* events in each channel *)
  modBusy, modLeft,  (* modifiers that hold an event; that have not returned *)
  fwdBusy, fwdLeft,  (* forwarders that hold an event; that have not returned *)
  spc,        (* sender: where it is *)
  hpc,        (* handler: where it is *)
  mpc,        (* run() itself: "range", "wait", "close", "responses", "final", "done" *)
  work,       (* events in muster's Work channel *)
  batch,      (* events in the batch being collected *)
  wpc,        (* muster's worker: "select", "send", "last", "exited" *)
  fired,      (* fired[i]: events of batch i whose response is not yet in the channel *)
  responses,  (* responses[k]: responses of kind k in the channel *)
  fails,      (* retryable responses so far *)
  answered, dropped,  (* events with a final response; sampled out or refused *)
  count, totalCount   (* responseStats: responses since the last tick, and before it *)

channels == <<toBeSent, newSent, realToBeSent, toBeResent, delaySending>>
stages   == <<input, ppc, modBusy, modLeft, fwdBusy, fwdLeft>>
muster   == <<work, batch, wpc, fired>>
counters == <<count, totalCount>>
results  == <<responses, fails, answered, dropped, counters>>
vars == <<stages, channels, spc, hpc, mpc, muster, results>>

Batches == 1 .. NumSenders
Kinds   == {"final", "retry"}  (* "retry": status 429 or 500 *)

InResponses == responses["final"] + responses["retry"]

Inc(f, s) == [f EXCEPT ![s] = @ + 1]
Dec(f, s) == [f EXCEPT ![s] = @ - 1]
-----------------------------------------------------------------------------
TypeOK ==
  /\ input \in [Streams -> 0 .. MaxEvents]
  /\ ppc \in [Streams -> {"new", "parse", "wait", "done"}]
  /\ toBeSent \in [Streams -> 0 .. NumSenders]
  /\ newSent \in [Streams -> 0 .. NumSenders]
  /\ realToBeSent \in [Streams -> 0 .. CapReal]
  /\ toBeResent \in [Streams -> 0 .. CapRetry]
  /\ delaySending \in [Streams -> 0 .. CapRetry]
  /\ modLeft \in [Streams -> 0 .. NumSenders] /\ modBusy \in [Streams -> 0 .. NumSenders]
  /\ fwdLeft \in [Streams -> 0 .. NumSenders] /\ fwdBusy \in [Streams -> 0 .. NumSenders]
  /\ spc \in [Streams -> {"delay", "resent", "regular", "sendAgain", "send", "finish", "done"}]
  /\ hpc \in [Streams -> {"receive", "delay", "resend", "done"}]
  /\ mpc \in {"range", "wait", "close", "responses", "final", "done"}
  /\ work \in 0 .. CapWork /\ batch \in 0 .. BatchSize
  /\ wpc \in {"select", "send", "last", "exited"}
  /\ fired \in [Batches -> 0 .. BatchSize]
  /\ responses \in [Kinds -> 0 .. CapResponses] /\ InResponses <= CapResponses
  /\ fails \in 0 .. MaxFails
  /\ answered \in Nat /\ dropped \in Nat /\ count \in Nat /\ totalCount \in Nat

Init ==
  /\ input \in [Streams -> 0 .. MaxEvents]
  /\ ppc = [s \in Streams |-> "new"]
  /\ toBeSent = [s \in Streams |-> 0] /\ newSent = [s \in Streams |-> 0]
  /\ realToBeSent = [s \in Streams |-> 0]
  /\ toBeResent = [s \in Streams |-> 0] /\ delaySending = [s \in Streams |-> 0]
  /\ modBusy = [s \in Streams |-> 0] /\ modLeft = [s \in Streams |-> NumSenders]
  /\ fwdBusy = [s \in Streams |-> 0] /\ fwdLeft = [s \in Streams |-> NumSenders]
  /\ spc = [s \in Streams |-> "delay"] /\ hpc = [s \in Streams |-> "receive"]
  /\ mpc = "range" /\ work = 0 /\ batch = 0 /\ wpc = "select"
  /\ fired = [i \in Batches |-> 0]
  /\ responses = [k \in Kinds |-> 0] /\ fails = 0 /\ answered = 0 /\ dropped = 0
  /\ count = 0 /\ totalCount = 0
-----------------------------------------------------------------------------
(* run() receives a stream from the tail package and starts its goroutines.*)
StartStream(s) ==
  /\ mpc = "range" /\ ppc[s] = "new"
  /\ ppc' = [ppc EXCEPT ![s] = "parse"]
  /\ UNCHANGED <<input, modBusy, modLeft, fwdBusy, fwdLeft, channels, spc, hpc, mpc, muster, results>>

Started(s) == ppc[s] # "new"

ParseUnbounded(s) ==  \* toBeSent has no capacity
  /\ ppc[s] = "parse" /\ input[s] > 0
  /\ input' = Dec(input, s)
  /\ toBeSent' = Inc(toBeSent, s)
  /\ UNCHANGED <<ppc, modBusy, modLeft, fwdBusy, fwdLeft, newSent, realToBeSent,
                 toBeResent, delaySending, spc, hpc, mpc, muster, results>>

(* ProcessLines sends an event.                                            *)
Parse(s) ==
  /\ ppc[s] = "parse" /\ input[s] > 0 /\ toBeSent[s] < NumSenders
  /\ input' = Dec(input, s)
  /\ toBeSent' = Inc(toBeSent, s)
  /\ UNCHANGED <<ppc, modBusy, modLeft, fwdBusy, fwdLeft, newSent, realToBeSent,
                 toBeResent, delaySending, spc, hpc, mpc, muster, results>>

(* The stream is closed: ProcessLines returns, and toBeSent is closed.     *)
CloseToBeSent(s) ==
  /\ ppc[s] = "parse" /\ input[s] = 0
  /\ ppc' = [ppc EXCEPT ![s] = "wait"]
  /\ UNCHANGED <<input, modBusy, modLeft, fwdBusy, fwdLeft, channels, spc, hpc, mpc, muster, results>>

(* A goroutine of modifyEventContents receives an event, or passes it on,  *)
(* or returns because toBeSent is closed and empty; the last one to return *)
(* closes newSent.                                                         *)
ModifyReceive(s) ==
  /\ Started(s) /\ modBusy[s] < modLeft[s] /\ toBeSent[s] > 0
  /\ toBeSent' = Dec(toBeSent, s)
  /\ modBusy' = Inc(modBusy, s)
  /\ UNCHANGED <<input, ppc, modLeft, fwdBusy, fwdLeft, newSent, realToBeSent,
                 toBeResent, delaySending, spc, hpc, mpc, muster, results>>

ModifySend(s) ==
  /\ modBusy[s] > 0 /\ newSent[s] < NumSenders
  /\ modBusy' = Dec(modBusy, s)
  /\ newSent' = Inc(newSent, s)
  /\ UNCHANGED <<input, ppc, modLeft, fwdBusy, fwdLeft, toBeSent, realToBeSent,
                 toBeResent, delaySending, spc, hpc, mpc, muster, results>>

ModifyReturnEarly(s) ==  \* a modifier returns while it holds an event
  /\ ppc[s] = "wait" /\ toBeSent[s] = 0
  /\ modLeft[s] > 0
  /\ modLeft' = Dec(modLeft, s)
  /\ UNCHANGED <<input, ppc, modBusy, fwdBusy, fwdLeft, channels, spc, hpc, mpc, muster, results>>

ModifyReturn(s) ==
  /\ ppc[s] = "wait" /\ toBeSent[s] = 0
  /\ modBusy[s] < modLeft[s]
  /\ modLeft' = Dec(modLeft, s)
  /\ UNCHANGED <<input, ppc, modBusy, fwdBusy, fwdLeft, channels, spc, hpc, mpc, muster, results>>

(* The forwarders likewise; the last one to return closes realToBeSent.    *)
ForwardReceive(s) ==
  /\ fwdBusy[s] < fwdLeft[s] /\ newSent[s] > 0
  /\ newSent' = Dec(newSent, s)
  /\ fwdBusy' = Inc(fwdBusy, s)
  /\ UNCHANGED <<input, ppc, modBusy, modLeft, fwdLeft, toBeSent, realToBeSent,
                 toBeResent, delaySending, spc, hpc, mpc, muster, results>>

ForwardSend(s) ==
  /\ fwdBusy[s] > 0 /\ realToBeSent[s] < CapReal
  /\ fwdBusy' = Dec(fwdBusy, s)
  /\ realToBeSent' = Inc(realToBeSent, s)
  /\ UNCHANGED <<input, ppc, modBusy, modLeft, fwdLeft, toBeSent, newSent,
                 toBeResent, delaySending, spc, hpc, mpc, muster, results>>

ForwardReturn(s) ==
  /\ modLeft[s] = 0 /\ newSent[s] = 0
  /\ fwdBusy[s] < fwdLeft[s]
  /\ fwdLeft' = Dec(fwdLeft, s)
  /\ UNCHANGED <<input, ppc, modBusy, modLeft, fwdBusy, channels, spc, hpc, mpc, muster, results>>
-----------------------------------------------------------------------------
(* sendToLibhoney: three selects with a default, in this order.            *)
TakeDelay(s) ==
  /\ Started(s) /\ spc[s] = "delay"
  /\ delaySending' = IF delaySending[s] > 0 THEN Dec(delaySending, s) ELSE delaySending
  /\ spc' = [spc EXCEPT ![s] = "resent"]
  /\ UNCHANGED <<stages, toBeSent, newSent, realToBeSent, toBeResent, hpc, mpc, muster, results>>

TakeResent(s) ==
  /\ spc[s] = "resent"
  /\ IF toBeResent[s] > 0
       THEN /\ toBeResent' = Dec(toBeResent, s)
            /\ spc' = [spc EXCEPT ![s] = "sendAgain"]
       ELSE /\ UNCHANGED toBeResent
            /\ spc' = [spc EXCEPT ![s] = "regular"]
  /\ UNCHANGED <<stages, toBeSent, newSent, realToBeSent, delaySending, hpc, mpc, muster, results>>

TakeRegular(s) ==
  /\ spc[s] = "regular"
  /\ IF realToBeSent[s] > 0
       THEN /\ realToBeSent' = Dec(realToBeSent, s)
            /\ spc' = [spc EXCEPT ![s] = "send"]
       ELSE /\ UNCHANGED realToBeSent
            /\ spc' = [spc EXCEPT ![s] = IF fwdLeft[s] = 0 THEN "finish" ELSE "delay"]
  /\ UNCHANGED <<stages, toBeSent, newSent, toBeResent, delaySending, hpc, mpc, muster, results>>

(* sendEvent blocks while muster's Work channel is full (BlockOnSend).     *)
SendEvent(s) ==
  /\ spc[s] \in {"send", "sendAgain"}
  /\ work < CapWork
  /\ work' = work + 1
  /\ spc' = [spc EXCEPT ![s] = "delay"]
  /\ UNCHANGED <<stages, channels, hpc, mpc, batch, wpc, fired, results>>

(* The sampler set the sample rate of the event to -1, or SendPresampled   *)
(* returns an error, which is logged and no more.                          *)
DropEvent(s) ==
  /\ \/ Sampling /\ spc[s] = "send"
     \/ Refusing /\ spc[s] \in {"send", "sendAgain"}
  /\ dropped' = dropped + 1
  /\ spc' = [spc EXCEPT ![s] = "delay"]
  /\ UNCHANGED <<stages, channels, hpc, mpc, muster, responses, fails, answered, counters>>

(* doneSending is unbuffered: the sender ends together with the parser's   *)
(* goroutine, and what is in toBeResent stays there.                       *)
DoneSending(s) ==
  /\ spc[s] = "finish" /\ ppc[s] = "wait"
  /\ spc' = [spc EXCEPT ![s] = "done"]
  /\ ppc' = [ppc EXCEPT ![s] = "done"]
  /\ UNCHANGED <<input, modBusy, modLeft, fwdBusy, fwdLeft, channels, hpc, mpc, muster, results>>
-----------------------------------------------------------------------------
(* muster's worker adds an event to the batch and sends a full batch.  A   *)
(* tick left in the timer of a batch that became full fires a batch        *)
(* without events, which changes nothing here.                             *)
BatchAdd ==
  /\ wpc = "select" /\ work > 0
  /\ work' = work - 1 /\ batch' = batch + 1
  /\ wpc' = IF batch' >= BatchSize THEN "send" ELSE "select"
  /\ UNCHANGED <<stages, channels, spc, hpc, mpc, fired, results>>

BatchTimeout ==
  /\ wpc = "select" /\ batch > 0
  /\ wpc' = "send"
  /\ UNCHANGED <<stages, channels, spc, hpc, mpc, work, batch, fired, results>>

WorkClosed ==
  /\ wpc = "select" /\ mpc = "close" /\ work = 0
  /\ wpc' = IF batch > 0 THEN "last" ELSE "exited"
  /\ UNCHANGED <<stages, channels, spc, hpc, mpc, work, batch, fired, results>>

(* The batch is fired when fewer than NumSenders batches are in flight:    *)
(* workGroup.Add blocks otherwise.                                         *)
FireBatch ==
  /\ wpc \in {"send", "last"}
  /\ \E i \in Batches : fired[i] = 0 /\ fired' = [fired EXCEPT ![i] = batch]
  /\ batch' = 0
  /\ wpc' = IF wpc = "send" THEN "select" ELSE "exited"
  /\ UNCHANGED <<stages, channels, spc, hpc, mpc, work, results>>

(* The server answered: one response per event is put in the channel,      *)
(* which blocks while it is full (BlockOnResponse).                        *)
Respond(i, k) ==
  /\ fired[i] > 0 /\ InResponses < CapResponses
  /\ k = "retry" => fails < MaxFails
  /\ fired' = Dec(fired, i)
  /\ responses' = Inc(responses, k)
  /\ fails' = IF k = "retry" THEN fails + 1 ELSE fails
  /\ UNCHANGED <<stages, channels, spc, hpc, mpc, work, batch, wpc, answered, dropped, counters>>
-----------------------------------------------------------------------------
(* A response is counted whatever its status.                              *)
Update == count' = count + 1

(* handleResponses receives any stream's response.                         *)
HandleResponse(s, k) ==
  /\ Started(s) /\ hpc[s] = "receive" /\ responses[k] > 0
  /\ responses' = Dec(responses, k)
  /\ Update
  /\ IF BackOff /\ k = "retry"
       THEN hpc' = [hpc EXCEPT ![s] = "delay"] /\ UNCHANGED answered
       ELSE answered' = answered + 1 /\ UNCHANGED hpc
  /\ UNCHANGED <<stages, channels, spc, mpc, muster, fails, dropped, totalCount>>

HandleDelay(s) ==
  /\ hpc[s] = "delay" /\ delaySending[s] < CapRetry
  /\ delaySending' = Inc(delaySending, s)
  /\ hpc' = [hpc EXCEPT ![s] = "resend"]
  /\ UNCHANGED <<stages, toBeSent, newSent, realToBeSent, toBeResent, spc, mpc, muster, results>>

HandleResendDropped(s) ==  \* the event is dropped when toBeResent is full
  /\ hpc[s] = "resend"
  /\ toBeResent' = IF toBeResent[s] < CapRetry THEN Inc(toBeResent, s) ELSE toBeResent
  /\ hpc' = [hpc EXCEPT ![s] = "receive"]
  /\ UNCHANGED <<stages, toBeSent, newSent, realToBeSent, delaySending, spc, mpc, muster, results>>

HandleResend(s) ==
  /\ hpc[s] = "resend" /\ toBeResent[s] < CapRetry
  /\ toBeResent' = Inc(toBeResent, s)
  /\ hpc' = [hpc EXCEPT ![s] = "receive"]
  /\ UNCHANGED <<stages, toBeSent, newSent, realToBeSent, delaySending, spc, mpc, muster, results>>

HandleClosedNever(s) ==  \* the responses channel is never seen closed
  /\ Started(s) /\ hpc[s] = "receive"
  /\ mpc = "done" /\ InResponses = 0
  /\ hpc' = [hpc EXCEPT ![s] = "done"]
  /\ UNCHANGED <<stages, channels, spc, mpc, muster, results>>

HandleClosed(s) ==
  /\ Started(s) /\ hpc[s] = "receive"
  /\ mpc = "responses" /\ InResponses = 0
  /\ hpc' = [hpc EXCEPT ![s] = "done"]
  /\ UNCHANGED <<stages, channels, spc, mpc, muster, results>>
-----------------------------------------------------------------------------
(* run(): the tail package closes the channel of streams; wait for the     *)
(* parsers; close libclick, which closes Work, waits for the batches and   *)
(* closes the responses channel; wait for the handlers.                    *)
StreamsClosed ==
  /\ mpc = "range"
  /\ mpc' = "wait"
  /\ UNCHANGED <<stages, channels, spc, hpc, muster, results>>

ParsersDoneEarly ==  \* run() does not wait for the senders
  /\ mpc = "wait" /\ \A s \in Streams : ppc[s] \in {"new", "wait", "done"}
  /\ mpc' = "close"
  /\ UNCHANGED <<stages, channels, spc, hpc, muster, results>>

ParsersDone ==
  /\ mpc = "wait" /\ \A s \in Streams : ppc[s] \in {"new", "done"}
  /\ mpc' = "close"
  /\ UNCHANGED <<stages, channels, spc, hpc, muster, results>>

LibclickClosed ==
  /\ mpc = "close" /\ wpc = "exited" /\ \A i \in Batches : fired[i] = 0
  /\ mpc' = "responses"
  /\ UNCHANGED <<stages, channels, spc, hpc, muster, results>>

ResponsesDoneEarly ==  \* run() does not wait for the handlers
  /\ mpc = "responses"
  /\ mpc' = "final"
  /\ UNCHANGED <<stages, channels, spc, hpc, muster, results>>

ResponsesDone ==
  /\ mpc = "responses" /\ \A s \in Streams : Started(s) => hpc[s] = "done"
  /\ mpc' = "final"
  /\ UNCHANGED <<stages, channels, spc, hpc, muster, results>>

(* logFinal adds the count to the total, without a reset, and prints it.   *)
LogFinal ==
  /\ mpc = "final"
  /\ totalCount' = totalCount + count
  /\ mpc' = "done"
  /\ UNCHANGED <<stages, channels, spc, hpc, muster, responses, fails, answered, dropped, count>>

ResetForgets ==  \* the count is not added to the total
  count' = 0 /\ UNCHANGED totalCount

Reset == totalCount' = totalCount + count /\ count' = 0

(* Each handler starts a ticker of its own.                                *)
LogStats == Ticking /\ \E s \in Streams : Started(s)

(* A ticker prints the counters and resets them.                           *)
Tick ==
  /\ LogStats
  /\ Reset
  /\ UNCHANGED <<stages, channels, spc, hpc, mpc, muster, responses, fails, answered, dropped>>
-----------------------------------------------------------------------------
ParserStep(s) == StartStream(s) \/ Parse(s) \/ CloseToBeSent(s)
ModifierStep(s) == ModifyReceive(s) \/ ModifySend(s) \/ ModifyReturn(s)
ForwarderStep(s) == ForwardReceive(s) \/ ForwardSend(s) \/ ForwardReturn(s)
SenderStep(s) == \/ TakeDelay(s) \/ TakeResent(s) \/ TakeRegular(s)
                 \/ SendEvent(s) \/ DropEvent(s) \/ DoneSending(s)
WorkerStep == BatchAdd \/ BatchTimeout \/ WorkClosed \/ FireBatch
HandlerStep(s) == \/ \E k \in Kinds : HandleResponse(s, k)
                  \/ HandleDelay(s) \/ HandleResend(s) \/ HandleClosed(s)
MainStep == StreamsClosed \/ ParsersDone \/ LibclickClosed \/ ResponsesDone \/ LogFinal

Next == \/ \E s \in Streams : \/ ParserStep(s) \/ ModifierStep(s) \/ ForwarderStep(s)
                              \/ SenderStep(s) \/ HandlerStep(s)
        \/ WorkerStep
        \/ \E i \in Batches, k \in Kinds : Respond(i, k)
        \/ MainStep \/ Tick

Spec == Init /\ [][Next]_vars

(* Every goroutine is scheduled, the input ends (--tail.stop), and the     *)
(* server answers every batch.                                             *)
Fairness ==
  /\ \A s \in Streams : /\ WF_vars(ParserStep(s)) /\ WF_vars(ModifierStep(s))
                        /\ WF_vars(ForwarderStep(s)) /\ WF_vars(SenderStep(s))
                        /\ WF_vars(HandlerStep(s))
  /\ WF_vars(WorkerStep) /\ WF_vars(MainStep)
  /\ \A i \in Batches : WF_vars(\E k \in Kinds : Respond(i, k))

FairSpec == Spec /\ Fairness
-----------------------------------------------------------------------------
(* Events of s that dbtail holds: still to be parsed, in a channel, in the *)
(* hands of a goroutine, or waiting to be retried.                         *)
Held(s) ==
  input[s] + toBeSent[s] + modBusy[s] + newSent[s] + fwdBusy[s] + realToBeSent[s]
  + toBeResent[s] + (IF spc[s] \in {"send", "sendAgain"} THEN 1 ELSE 0)
  + (IF hpc[s] \in {"delay", "resend"} THEN 1 ELSE 0)

(* Events that dbtail holds.                                               *)
Waiting == Total([s \in Streams |-> Held(s)])

(* Events that libclick holds, up to their response being handled.         *)
Out == work + batch + Total(fired) + InResponses

(* No goroutine loses, invents or duplicates an event on its way through   *)
(* run(): every step is one of the four of module EventLedger, or none.    *)
Ledger == INSTANCE EventLedger WITH waiting <- Waiting, out <- Out
ImplementsLedger == Ledger!LedgerSpec

(* The sender ends only after every event of its stream went to libclick,  *)
(* those of toBeResent excepted.  About leash.go:178 "wait for all the     *)
(* events in toBeSent to be handed to libclick" and the three closes       *)
(* before it.                                                              *)
SenderLeavesNothing ==
  \A s \in Streams : spc[s] \in {"finish", "done"} =>
    input[s] + toBeSent[s] + modBusy[s] + newSent[s] + fwdBusy[s] + realToBeSent[s] = 0

(* Nobody sends on a closed channel: not a sender on Work, once libclick   *)
(* is being closed, nor a batch on responses, once libclick is closed.     *)
(* About the order of parsersWG.Wait, libclick.Close and responsesWG.Wait. *)
NoSendOnClosed ==
  /\ mpc \notin {"range", "wait"} =>
       \A s \in Streams : spc[s] \notin {"send", "sendAgain"}
  /\ mpc \in {"responses", "final", "done"} =>
       work + batch = 0 /\ \A i \in Batches : fired[i] = 0

(* When run() prints its totals every event of every stream it received    *)
(* has been answered or dropped, those of toBeResent excepted.  About the  *)
(* waits at the end of run(), and handlers that share one channel.         *)
DoneMeansDrained ==
  mpc = "done" =>
    /\ work + batch + InResponses = 0 /\ \A i \in Batches : fired[i] = 0
    /\ \A s \in Streams : Started(s) => Held(s) = toBeResent[s]

(* The responses that handlers have received.                              *)
Handled == answered + (IF BackOff THEN fails - responses["retry"] ELSE 0)

(* The total that run() prints last counts every response once, of every   *)
(* stream and every retry, however the ticks of the streams fall.  About   *)
(* update, logAndReset and logFinal of response_stats.go.                  *)
FinalTotal == [][mpc # "done" /\ mpc' = "done" => totalCount' = Handled']_vars

(* A handler waits for room in a channel that only the sender of its       *)
(* stream empties.                                                         *)
HandlerBlocked(s) == \/ hpc[s] = "delay" /\ delaySending[s] = CapRetry
                     \/ hpc[s] = "resend" /\ toBeResent[s] = CapRetry

(* Once the input has ended run() returns, unless it ends with a handler   *)
(* blocked for good: the retry channels are the only thing that can keep   *)
(* it.  About the goroutines and the three waits at the end of run().      *)
RunReturns == \/ <>(mpc = "done")
              \/ <>[](\E s \in Streams : HandlerBlocked(s))
-----------------------------------------------------------------------------
(* leash.go:55-56 "if we can't send fast enough, we slow down reading the  *)
(* log": sender, worker, batches and handlers are never all waiting, each  *)
(* for the next.                                                           *)
NoStandstill ==
  ~ /\ \A s \in Streams : /\ spc[s] \in {"send", "sendAgain"} /\ work = CapWork
                          /\ HandlerBlocked(s)
    /\ wpc = "send" /\ \A i \in Batches : fired[i] > 0
    /\ InResponses = CapResponses
=============================================================================
