----------------------------- MODULE DynSampler -----------------------------
(***************************************************************************)
(* The dynamic sampler AvgSampleWithMin of dynsampler-go, as dbtail uses   *)
(* it: every event counts for its key and is given the key's rate; a       *)
(* ticker takes the counts of one window away, calculates the rates for    *)
(* the next window from them without the lock, and stores them.            *)
(*                                                                         *)
(* The code calculates with floating point numbers.  Here a number of      *)
(* events is a number of parts, Unit of which are an event, every division *)
(* is rounded down to a part, and the logarithms are any numbers that are  *)
(* 0 for 1 only: it is what is shared out that matters, not its digits.    *)
(***************************************************************************)
EXTENDS Sums

CONSTANTS Keys,       (* the keys of events, numbered in the order of sort.Strings *)
          MaxCount,   (* bound: events of one key in one window *)
          MinEvents,  (* MinEventsPerSec * ClearFrequencySec *)
          Unit,       (* parts of an event *)
          Log10       (* the logarithm of every count, in parts of any size *)

ASSUME SamplerAssumption ==
  /\ Keys \subseteq Nat /\ IsFiniteSet(Keys)
  /\ MaxCount \in Nat /\ MinEvents \in Nat /\ Unit \in Nat \ {0}
  /\ Log10 \in [1 .. MaxCount -> Nat]
  /\ \A n \in 1 .. MaxCount : Log10[n] = 0 <=> n = 1

VARIABLES
  currentCounts,     (* events of each key in this window *)
  savedSampleRates,  (* the rates, 0 for a key that has none *)
  haveData,
  updating,  (* updateMaps is between its two critical sections *)
  tmpCounts, keysLeft, extra, newRates,
             (* its locals: the counts it calculates from, the keys that have no *)
             (* rate yet, the parts that keys have left over, the rates so far   *)
  window     (* the counts that savedSampleRates were calculated from *)

locals  == <<tmpCounts, keysLeft, extra, newRates>>
sampler == <<currentCounts, savedSampleRates, haveData, updating, locals, window>>

Zero    == [k \in Keys |-> 0]
Seen(c) == {k \in Keys : c[k] > 0}

(* What int() makes of a rate that is not a number; on amd64 it is the     *)
(* least integer.                                                          *)
NoNumber == -1

SamplerTypeOK ==
  /\ {currentCounts, tmpCounts, window} \subseteq [Keys -> 0 .. MaxCount]
  /\ {savedSampleRates, newRates} \subseteq [Keys -> Nat \cup {NoNumber}]
  /\ {haveData, updating} \subseteq BOOLEAN
  /\ keysLeft \subseteq Seen(tmpCounts) /\ extra \in Nat

(* A window without traffic, or with less than the minimum.                *)
Quiet(c) == Total(c) = 0 \/ Total(c) < MinEvents

SamplerInit ==
  /\ currentCounts = Zero /\ savedSampleRates = Zero /\ haveData = FALSE
  /\ updating = FALSE /\ window = Zero
  /\ tmpCounts = Zero /\ keysLeft = {} /\ extra = 0 /\ newRates = Zero
-----------------------------------------------------------------------------
SampleRate(k, goal) ==
  IF ~haveData THEN goal ELSE IF savedSampleRates[k] # 0 THEN savedSampleRates[k] ELSE 1

(* The part of GetSampleRate that counts; its result is SampleRate.        *)
GetSampleRate(k) ==
  /\ currentCounts[k] < MaxCount
  /\ currentCounts' = [currentCounts EXCEPT ![k] = @ + 1]
  /\ UNCHANGED <<savedSampleRates, haveData, updating, locals, window>>

(* The first critical section of updateMaps.                               *)
TakeCounts ==
  /\ ~updating /\ updating' = TRUE
  /\ tmpCounts' = currentCounts /\ currentCounts' = Zero
  /\ keysLeft' = Seen(currentCounts)
  /\ UNCHANGED <<savedSampleRates, haveData, extra, newRates, window>>

(* updateMaps returns, its locals are gone.                                *)
Return ==
  /\ updating' = FALSE /\ window' = tmpCounts
  /\ tmpCounts' = Zero /\ keysLeft' = {} /\ extra' = 0 /\ newRates' = Zero
  /\ UNCHANGED currentCounts

StoreNothing ==  \* the rates of the window before are left
  /\ updating /\ Quiet(tmpCounts)
  /\ UNCHANGED <<savedSampleRates, haveData>>
  /\ Return

(* Every key that was seen is given the rate 1.  haveData is not set.  The *)
(* rates are assigned without the lock, but they are one pointer: whoever  *)
(* reads it has the rates before or those after.                           *)
StoreQuiet ==
  /\ updating /\ Quiet(tmpCounts)
  /\ savedSampleRates' = [k \in Keys |-> IF tmpCounts[k] = 0 THEN 0 ELSE 1]
  /\ UNCHANGED haveData
  /\ Return
-----------------------------------------------------------------------------
(* The events that are to be sent of c, which the keys share in proportion *)
(* to the logarithms of their counts.                                      *)
GoalCount(c, goal) == (Unit * Total(c)) \div goal
Log(n)             == IF n = 0 THEN 0 ELSE Log10[n]
LogSum(c)          == Total([k \in Keys |-> Log(c[k])])
Share(c, k, goal)  == (Log(c[k]) * GoalCount(c, goal)) \div LogSum(c)

(* When every key was seen once all logarithms are 0, and no share is a    *)
(* number.                                                                 *)
Singles(c) == \A k \in Keys : c[k] <= 1

RateRoundedDown(count, parts) ==
  IF Unit * count <= parts THEN 1 ELSE (Unit * count) \div parts

(* The rate at which not more than these parts of a key's events are sent, *)
(* and what is sent of them.                                               *)
Rate(count, parts)  == IF Unit * count <= parts THEN 1 ELSE (Unit * count + parts - 1) \div parts
Passed(count, rate) == (Unit * count) \div rate

(* The next key has its share, but one event at least, and its part of     *)
(* what the keys before it have left over.                                 *)
ShareKey(goal) ==
  /\ updating /\ ~Quiet(tmpCounts)
  /\ \E k \in keysLeft :
       /\ \A j \in keysLeft : k <= j
       /\ keysLeft' = keysLeft \ {k}
       /\ \/ /\ Singles(tmpCounts)
             /\ newRates' = [newRates EXCEPT ![k] = NoNumber]
             /\ UNCHANGED extra
          \/ /\ ~Singles(tmpCounts)
             /\ LET share == Share(tmpCounts, k, goal)
                    take  == extra \div Cardinality(keysLeft)
                    parts == (IF share < Unit THEN Unit ELSE share) + take
                    rate  == Rate(tmpCounts[k], parts)
                IN /\ newRates' = [newRates EXCEPT ![k] = rate]
                   /\ extra' = extra - take + parts - Passed(tmpCounts[k], rate)
  /\ UNCHANGED <<currentCounts, savedSampleRates, haveData, updating, tmpCounts, window>>

(* The second critical section.                                            *)
StoreRates ==
  /\ updating /\ ~Quiet(tmpCounts) /\ keysLeft = {}
  /\ savedSampleRates' = newRates
  /\ haveData' = TRUE
  /\ Return

UpdateMaps(goal) == TakeCounts \/ StoreQuiet \/ ShareKey(goal) \/ StoreRates
-----------------------------------------------------------------------------
(* Once there was a busy window, after a quiet one every event is sent.    *)
(* About the rates of keys that were not seen again, and main.go:77 "if    *)
(* the rate of traffic falls below this, dynsampler won't sample".         *)
QuietSendsAll ==
  haveData /\ Quiet(window) => \A k \in Keys : SampleRate(k, 0) = 1

(* The rates of a busy window are rates, and had they been applied to it,  *)
(* what was sent would have been the goal, and at most one event more for  *)
(* each key whose share is less than one.  A window in which every key was *)
(* seen once is excepted.                                                  *)
Small(c, goal)     == {k \in Seen(c) : Share(c, k, goal) < Unit}
GoalAt(c, r, goal) ==
  /\ \A k \in Seen(c) : r[k] >= 1
  /\ Total([k \in Keys |-> IF c[k] = 0 THEN 0 ELSE Passed(c[k], r[k])])
       <= GoalCount(c, goal) + Unit * Cardinality(Small(c, goal))
GoalMet(goal) == ~Quiet(window) /\ ~Singles(window) => GoalAt(window, savedSampleRates, goal)
=============================================================================
