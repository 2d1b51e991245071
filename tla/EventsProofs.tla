---------------------------- MODULE EventsProofs ----------------------------
(***************************************************************************)
(* Proofs about the way of an event, for all options, lines and times: the *)
(* content that is to be hidden, the rate, the year, and the sampler.      *)
(***************************************************************************)
EXTENDS Events, SumsProofs

USE DEF scenario, content, sampler, locals

(* main() makes usable options of the flags, and dynamic sampling and the  *)
(* sampling of lines exclude each other.                                   *)
LEMMA EffectiveOptions ==
  ASSUME NEW o \in OptionSet
  PROVE  /\ Effective(o) \in OptionSet
         /\ Effective(o).dynSample => Effective(o).sampleRate = 1
         /\ ~Effective(o).dynSample => Effective(o).tailSample \/ Effective(o).parser = "mysql"
         /\ Effective(o).parser = o.parser
  <1> DEFINE b == BackfillOptions(o)
             p == ParserRequestShape(b)
  <1>1. b \in OptionSet /\ b.parser = o.parser
    <2>1. CASE ~o.backfill
      BY <2>1 DEF BackfillOptions
    <2>2. CASE o.backfill
      <3>1. b = [o EXCEPT !.backOff = TRUE, !.readFrom = "beginning", !.stop = TRUE]
        BY <2>2 DEF BackfillOptions
      <3> HIDE DEF b
      <3> QED
        BY <3>1 DEF OptionSet, Word
    <2> QED
      BY <2>1, <2>2
  <1>2. p \in OptionSet /\ p.parser = o.parser
    <2>1. CASE b.parser # "nginx"
      BY <1>1, <2>1 DEF ParserRequestShape
    <2>2. CASE b.parser = "nginx"
      <3>1. Append(b.shape, Request) \in Seq(Field)
        BY <1>1 DEF OptionSet, Request, Field, Word
      <3>2. p = [b EXCEPT !.shape = Append(@, Request)]
        BY <2>2 DEF ParserRequestShape
      <3> HIDE DEF p, b
      <3> QED
        BY <1>1, <3>1, <3>2 DEF OptionSet
    <2> QED
      BY <2>1, <2>2
  <1>3. Effective(o) = SamplingOptions(p)
    BY DEF Effective
  <1> HIDE DEF b, p
  <1>4. CASE p.dynSample
    <2> DEFINE q == [p EXCEPT !.tailSample = FALSE]
               r == [q EXCEPT !.goal = p.sampleRate]
    <2>1. Effective(o) = [r EXCEPT !.sampleRate = 1]
      BY <1>2, <1>3, <1>4 DEF SamplingOptions
    <2>2. q \in OptionSet /\ q.dynSample /\ q.parser = o.parser
      BY <1>2, <1>4 DEF OptionSet
    <2>3. p.sampleRate \in Nat
      BY <1>2 DEF OptionSet
    <2> HIDE DEF q
    <2>4. r \in OptionSet /\ r.dynSample /\ r.parser = o.parser
      BY <2>2, <2>3 DEF OptionSet
    <2> HIDE DEF r
    <2> QED
      BY <2>1, <2>4 DEF OptionSet
  <1>5. CASE ~p.dynSample
    <2>1. Effective(o) = [p EXCEPT !.tailSample = p.parser # "mysql"]
      BY <1>3, <1>5 DEF SamplingOptions
    <2> QED
      BY <1>2, <1>5, <2>1 DEF OptionSet
  <1> QED
    BY <1>4, <1>5
-----------------------------------------------------------------------------
(* A day within the last year is found again without its year.             *)
LEMMA YearOfAPastDay ==
  ASSUME NEW day \in Date, NEW today \in Date, Real(day), Before(day, today),
         Before(today, InYear(day, day.y + 1))
  PROVE  LastPast(day, today) = day
  <1>1. today.y = day.y \/ today.y = day.y + 1
    BY DEF Date, Before, InYear
  <1>2. CASE today.y = day.y
    BY <1>2 DEF LastPast, Real
  <1>3. CASE today.y = day.y + 1
    <2>1. ~Before(InYear(day, today.y), today)
      BY <1>3 DEF Before, InYear, Date
    <2>2. today.y - 1 = day.y
      BY <1>3 DEF Date
    <2> QED
      BY <2>1, <2>2 DEF LastPast, Real
  <1> QED
    BY <1>1, <1>2, <1>3

LEMMA InYearType ==
  ASSUME NEW day \in Date, NEW y \in Nat \ {0}
  PROVE  InYear(day, y) \in Date
  BY DEF InYear, Date
-----------------------------------------------------------------------------
Shaping == {"add", "shape", "sample", "send", "sent"}

(* What is known of the options at each stage.                             *)
OptInv ==
  /\ stage \in Stages
  /\ flags \in OptionSet
  /\ opt = IF stage = "flags" THEN flags ELSE Effective(flags)
  /\ stage \notin {"flags", "refused"} => ~Refused(opt)

LEMMA OptStep == OptInv /\ [Next]_vars => OptInv'
  <1> SUFFICES ASSUME OptInv, [Next]_vars PROVE OptInv'
    OBVIOUS
  <1> USE DEF OptInv, Stages
  <1>1. CASE Main
    BY <1>1 DEF Main
  <1>2. CASE SampleLine
    BY <1>2 DEF SampleLine, Keep
  <1>3. CASE Parse
    <2>1. stage = "parse" /\ stage' = "drop" /\ UNCHANGED <<flags, opt>>
      BY <1>3, Zenon DEF Parse, ParseFields, ParseMySQL, ParseMongo
    <2> QED
      BY <2>1
  <1>4. CASE Drop \/ Scrub \/ Add
    BY <1>4 DEF Drop, Scrub, Add, Munge
  <1>5. CASE ShapeField \/ ShapeDone
    BY <1>5 DEF ShapeField, ShapeDone
  <1>6. CASE Stamp \/ DynSample \/ Send
    BY <1>6 DEF Stamp, DynSample, Send
  <1>7. CASE SamplerStep
    BY <1>7 DEF SamplerStep
  <1>8. CASE UNCHANGED vars
    BY <1>8 DEF vars
  <1>9. CASE ParsePanics
    BY <1>9 DEF ParsePanics
  <1> QED
    BY <1>1, <1>2, <1>3, <1>4, <1>5, <1>6, <1>7, <1>8, <1>9 DEF Next, EventStep
-----------------------------------------------------------------------------
(* What is left of the fields that are to be dropped or scrubbed.          *)
CleanInv ==
  /\ stage \in {"drop", "scrub"} => \A f \in DOMAIN data : data[f] = Raw(f)
  /\ stage = "scrub" => \A f \in DOMAIN data : f \notin opt.drop
  /\ stage \in Shaping =>
       \A f \in DOMAIN data : data[f].how = "raw" => data[f].of \notin opt.drop \cup opt.scrub

LEMMA CleanStep == CleanInv /\ [Next]_vars => CleanInv'
  <1> SUFFICES ASSUME CleanInv, [Next]_vars PROVE CleanInv'
    OBVIOUS
  <1> USE DEF CleanInv, Shaping
  <1>1. CASE Main
    BY <1>1 DEF Main
  <1>2. CASE SampleLine
    BY <1>2 DEF SampleLine, Keep
  <1>3. CASE Parse
    <2>1. stage' = "drop" /\ data' = [f \in DOMAIN parsed' |-> Raw(f)]
      BY <1>3, Zenon DEF Parse
    <2> QED
      BY <2>1
  <1>4. CASE Drop
    BY <1>4 DEF Drop, Munge
  <1>5. CASE Scrub
    BY <1>5 DEF Scrub, Munge, Raw, Hashed
  <1>6. CASE Add
    BY <1>6 DEF Add, Munge, Added
  <1>7. CASE ShapeField
    BY <1>7 DEF ShapeField
  <1>8. CASE ShapeDone
    BY <1>8 DEF ShapeDone
  <1>9. CASE Stamp \/ DynSample \/ Send
    BY <1>9 DEF Stamp, DynSample, Send
  <1>10. CASE SamplerStep
    BY <1>10 DEF SamplerStep
  <1>11. CASE UNCHANGED vars
    BY <1>11 DEF vars
  <1>12. CASE ParsePanics
    BY <1>12 DEF ParsePanics
  <1> QED
    BY <1>1, <1>2, <1>3, <1>4, <1>5, <1>6, <1>7, <1>8, <1>9, <1>10, <1>11, <1>12 DEF Next, EventStep

(* A field that is dropped or scrubbed never arrives with its content, and *)
(* nothing is derived from it: the order of the steps sees to that.        *)
THEOREM HiddenStaysHidden == Spec => []NothingHiddenIsSent
  <1>1. Init => CleanInv
    BY DEF Init, CleanInv, Shaping
  <1>2. CleanInv => NothingHiddenIsSent
    BY DEF CleanInv, NothingHiddenIsSent, Shaping
  <1> QED
    BY <1>1, <1>2, CleanStep, PTL DEF Spec
-----------------------------------------------------------------------------
(* How many lines an event stands for, at each stage.                      *)
RatedInv ==
  /\ stage \in {"flags", "tail"} => factor = 1
  /\ stage \in {"parse", "drop", "scrub", "add", "shape", "sample"} =>
       factor = IF opt.dynSample THEN 1 ELSE opt.sampleRate
  /\ stage = "send" => rate \in {factor, -1}
  /\ stage = "sent" => rate = factor

LEMMA RatedStep == OptInv /\ SamplerTypeOK /\ RatedInv /\ [Next]_vars => RatedInv'
  <1> SUFFICES ASSUME OptInv, SamplerTypeOK, RatedInv, [Next]_vars PROVE RatedInv'
    OBVIOUS
  <1>0. stage # "flags" =>
          /\ opt \in OptionSet
          /\ opt.dynSample => opt.sampleRate = 1
          /\ ~opt.dynSample => opt.tailSample \/ opt.parser = "mysql"
    BY EffectiveOptions DEF OptInv
  <1>1. CASE Main
    BY <1>1 DEF Main, RatedInv
  <1>2. CASE SampleLine
    <2>1. stage = "tail" /\ factor = 1 /\ opt.sampleRate \in Nat
      BY <1>0, <1>2 DEF SampleLine, RatedInv, OptionSet
    <2>2. UNCHANGED <<opt, rate>>
      BY <1>2 DEF SampleLine
    <2>3. CASE stage' = "dropped"
      BY <2>3 DEF RatedInv
    <2>4. CASE stage' # "dropped"
      <3>1. /\ stage' = "parse"
            /\ factor' = factor * (IF opt.tailSample \/ opt.parser = "mysql" THEN opt.sampleRate ELSE 1)
        BY <1>2, <2>4 DEF SampleLine, Keep
      <3>2. factor' = IF opt.dynSample THEN 1 ELSE opt.sampleRate
        BY <1>0, <2>1, <3>1
      <3> QED
        BY <2>2, <3>1, <3>2 DEF RatedInv
    <2> QED
      BY <2>3, <2>4
  <1>3. CASE Parse
    <2>1. stage = "parse" /\ stage' = "drop" /\ UNCHANGED <<opt, factor>>
      BY <1>3, Zenon DEF Parse, ParseFields, ParseMySQL, ParseMongo
    <2> QED
      BY <2>1 DEF RatedInv
  <1>4. CASE Drop \/ Scrub \/ Add
    BY <1>4 DEF Drop, Scrub, Add, Munge, RatedInv
  <1>5. CASE ShapeField \/ ShapeDone
    BY <1>5 DEF ShapeField, ShapeDone, RatedInv
  <1>6. CASE Stamp
    BY <1>6 DEF Stamp, RatedInv
  <1>7. CASE DynSample
    <2>1. stage = "sample" /\ factor = 1
      BY <1>7 DEF DynSample, RatedInv
    <2>2. PICK k \in Keys :
            LET sr == SampleRate(k, opt.goal)
            IN \/ sr >= 1 /\ rate' = sr /\ factor' = factor * sr /\ stage' = "send"
               \/ rate' = -1 /\ stage' = "send"
               \/ stage' = "panicked"
      BY <1>7 DEF DynSample
    <2>3. SampleRate(k, opt.goal) \in Int
      BY <1>0, <2>1 DEF SampleRate, SamplerTypeOK, OptionSet, NoNumber
    <2> QED
      BY <2>1, <2>2, <2>3 DEF RatedInv
  <1>8. CASE Send
    BY <1>8 DEF Send, RatedInv
  <1>9. CASE SamplerStep
    BY <1>9 DEF SamplerStep, RatedInv
  <1>10. CASE UNCHANGED vars
    BY <1>10 DEF vars, RatedInv
  <1>11. CASE ParsePanics
    BY <1>11 DEF ParsePanics, RatedInv
  <1> QED
    BY <1>1, <1>2, <1>3, <1>4, <1>5, <1>6, <1>7, <1>8, <1>9, <1>10, <1>11 DEF Next, EventStep
-----------------------------------------------------------------------------
(* The arithmetic of the sampler: what its divisions keep.                 *)
LEMMA Division ==
  ASSUME NEW a \in Nat, NEW b \in Nat \ {0}
  PROVE  /\ a \div b \in Nat
         /\ b * (a \div b) <= a /\ a < b * (a \div b) + b
  OBVIOUS

LEMMA Smaller ==
  ASSUME NEW a \in Nat, NEW b \in Nat, NEW q \in Nat \ {0}, q * a <= q * b
  PROVE  a <= b
  <1> SUFFICES ASSUME a > b PROVE FALSE
    OBVIOUS
  <1>1. PICK d \in Nat : a = b + 1 + d
    <2>1. a - b - 1 \in Nat /\ a = b + 1 + (a - b - 1)
      OBVIOUS
    <2> QED BY <2>1
  <1>2. q * a = q * b + q + q * d
    BY <1>1
  <1>3. q * d >= 0 /\ q * b \in Nat
    OBVIOUS
  <1> QED BY <1>2, <1>3

(* A rate is rounded up, so that a key stays within its parts.             *)
LEMMA KeyIsShared ==
  ASSUME NEW count \in Nat \ {0}, NEW parts \in Nat \ {0}
  PROVE  /\ Rate(count, parts) \in Nat \ {0}
         /\ Passed(count, Rate(count, parts)) \in Nat
         /\ Passed(count, Rate(count, parts)) <= parts
  <1> DEFINE all == Unit * count
  <1>0. all \in Nat /\ Unit \in Nat \ {0}
    BY SamplerAssumption
  <1>1. CASE all <= parts
    <2>1. Rate(count, parts) = 1
      BY <1>1 DEF Rate
    <2>2. Passed(count, 1) = all
      BY <1>0, Division DEF Passed
    <2> QED
      BY <1>0, <1>1, <2>1, <2>2
  <1>2. CASE ~(all <= parts)
    <2> PICK keyRate : keyRate = Rate(count, parts)
      OBVIOUS
    <2>1. keyRate = (all + parts - 1) \div parts /\ all + parts - 1 \in Nat
      BY <1>0, <1>2 DEF Rate
    <2> HIDE DEF all
    <2>2. keyRate \in Nat /\ all + parts - 1 < parts * keyRate + parts
      BY <2>1, Division
    <2>3. parts * keyRate \in Nat /\ all <= parts * keyRate
      BY <1>0, <2>2
    <2>4. keyRate # 0
      BY <1>0, <1>2, <2>3
    <2>5. all \div keyRate \in Nat /\ keyRate * (all \div keyRate) <= all
      BY <1>0, <2>2, <2>4, Division
    <2> PICK p \in Nat : p = all \div keyRate
      BY <2>5
    <2>6. keyRate * p <= keyRate * parts
      BY <1>0, <2>2, <2>3, <2>5
    <2>7. p <= parts
      BY <2>2, <2>4, <2>6, Smaller
    <2> QED
      BY <2>2, <2>4, <2>5, <2>7 DEF all, Passed
  <1> QED
    BY <1>1, <1>2

LEMMA LogType == ASSUME NEW n \in 0 .. MaxCount PROVE Log(n) \in Nat /\ (n > 1 => Log(n) > 0)
  BY SamplerAssumption DEF Log

(* Unless every key was seen once there is something to divide by.         *)
LEMMA ShareType ==
  ASSUME NEW c \in [Keys -> 0 .. MaxCount], NEW goal \in Nat \ {0}, ~Singles(c), NEW k \in Keys
  PROVE  /\ LogSum(c) \in Nat \ {0} /\ GoalCount(c, goal) \in Nat /\ Share(c, k, goal) \in Nat
         /\ Share(c, k, goal) * LogSum(c) <= GoalCount(c, goal) * Log(c[k])
  <1>1. LogSum(c) \in Nat \ {0}
    <2> DEFINE logs == [j \in Keys |-> Log(c[j])]
    <2>1. logs \in [Keys -> Nat]
      BY LogType
    <2>2. PICK j \in Keys : c[j] > 1
      BY SamplerAssumption DEF Singles
    <2>3. logs[j] > 0
      BY <2>2, LogType
    <2> HIDE DEF logs
    <2>4. Total(logs) \in Nat /\ Total(logs) >= logs[j]
      BY <2>1, SamplerAssumption, TotalUpdate
    <2>5. Total(logs) \in Nat \ {0}
      BY <2>1, <2>3, <2>4
    <2> QED
      BY <2>5 DEF LogSum, logs
  <1>2. GoalCount(c, goal) \in Nat
    <2>1. Total(c) \in Nat
      BY SamplerAssumption, TotalType, c \in [Keys -> Nat]
    <2>2. Unit * Total(c) \in Nat
      BY <2>1, SamplerAssumption
    <2> QED
      BY <2>2, Division DEF GoalCount
  <1>3. Log(c[k]) \in Nat
    BY LogType
  <1> PICK l \in Nat, g \in Nat, s \in Nat \ {0} : l = Log(c[k]) /\ g = GoalCount(c, goal) /\ s = LogSum(c)
    BY <1>1, <1>2, <1>3
  <1>4. l * g \in Nat
    OBVIOUS
  <1>5. Share(c, k, goal) = (l * g) \div s
    BY DEF Share
  <1>6. (l * g) \div s \in Nat /\ s * ((l * g) \div s) <= l * g
    BY <1>4, Division
  <1> QED
    BY <1>5, <1>6

(* The calculation so far, when the keys of left have no rate yet: what is *)
(* passed of the others and left over is their part of the goal, and an    *)
(* event for each of the small ones.                                       *)
PassedSoFar(c, left, r) == [k \in Keys |-> IF k \in Seen(c) \ left THEN Passed(c[k], r[k]) ELSE 0]
LogsSoFar(c, left)      == [k \in Keys |-> IF k \in Seen(c) \ left THEN Log(c[k]) ELSE 0]

Shared(c, left, r, e, goal) ==
  /\ \A k \in Seen(c) \ left : r[k] >= 1
  /\ (Total(PassedSoFar(c, left, r)) + e) * LogSum(c)
       <= Unit * Cardinality(Small(c, goal) \ left) * LogSum(c)
            + GoalCount(c, goal) * Total(LogsSoFar(c, left))

LEMMA SoFarType ==
  ASSUME NEW c \in [Keys -> 0 .. MaxCount], NEW left, NEW r \in [Keys -> Nat \cup {NoNumber}],
         \A k \in Seen(c) \ left : r[k] >= 1
  PROVE  PassedSoFar(c, left, r) \in [Keys -> Nat] /\ LogsSoFar(c, left) \in [Keys -> Nat]
  <1>1. ASSUME NEW k \in Seen(c) \ left PROVE Passed(c[k], r[k]) \in Nat
    <2>1. r[k] \in Nat \ {0} /\ c[k] \in Nat
      BY <1>1 DEF NoNumber, Seen
    <2>2. Unit * c[k] \in Nat
      BY <2>1, SamplerAssumption
    <2> QED
      BY <2>1, <2>2, Division DEF Passed
  <1> QED
    BY <1>1, LogType DEF PassedSoFar, LogsSoFar

(* One more base in the sum of what is passed and left over, which is at   *)
(* most one event, or the key's part of the goal.                          *)
LEMMA OneMore ==
  ASSUME NEW p \in Nat, NEW e \in Nat, NEW l \in Nat, NEW d \in Nat, NEW g \in Nat, NEW b \in Nat,
         NEW u \in Nat, NEW base \in Nat, NEW log \in Nat, NEW more \in {0, 1},
         (p + e) * l <= u * d * l + g * b,
         IF more = 1 THEN base = u ELSE base * l <= g * log
  PROVE  (p + (e + base)) * l <= u * (d + more) * l + g * (b + log)
  <1>1. (p + (e + base)) * l = (p + e) * l + base * l /\ g * (b + log) = g * b + g * log
    OBVIOUS
  <1>2. g * log >= 0 /\ base * l >= 0
    OBVIOUS
  <1>3. CASE more = 1
    <2>1. u * (d + 1) * l = u * d * l + u * l
      OBVIOUS
    <2> QED
      BY <1>1, <1>2, <1>3, <2>1
  <1>4. CASE more = 0
    BY <1>1, <1>2, <1>4
  <1> QED
    BY <1>3, <1>4

LEMMA SharedStart ==
  ASSUME NEW c \in [Keys -> 0 .. MaxCount], NEW r, NEW goal \in Nat \ {0}, ~Singles(c)
  PROVE  Shared(c, Seen(c), r, 0, goal)
  <1>1. PICK k \in Keys : TRUE
    BY DEF Singles
  <1>2. LogSum(c) \in Nat /\ GoalCount(c, goal) \in Nat
    BY <1>1, ShareType
  <1>3. Total(PassedSoFar(c, Seen(c), r)) = 0 /\ Total(LogsSoFar(c, Seen(c))) = 0
    <2>1. PassedSoFar(c, Seen(c), r) = Zero /\ LogsSoFar(c, Seen(c)) = Zero
      BY DEF PassedSoFar, LogsSoFar, Zero
    <2>2. Zero \in [Keys -> Nat] /\ \A j \in Keys : Zero[j] = 0
      BY DEF Zero
    <2> QED
      BY <2>1, <2>2, SamplerAssumption, TotalType
  <1>4. Cardinality(Small(c, goal) \ Seen(c)) = 0
    <2>1. Small(c, goal) \ Seen(c) = {}
      BY DEF Small
    <2> QED
      BY <2>1, FS_EmptySet
  <1> QED
    BY <1>2, <1>3, <1>4, SamplerAssumption DEF Shared

(* The next key keeps this.                                                *)
LEMMA SharedFurther ==
  ASSUME NEW c \in [Keys -> 0 .. MaxCount], NEW left \in SUBSET Seen(c),
         NEW r \in [Keys -> Nat \cup {NoNumber}], NEW e \in Nat, NEW goal \in Nat \ {0},
         ~Singles(c), NEW k \in left, Shared(c, left, r, e, goal)
  PROVE  LET share == Share(c, k, goal)
             take  == e \div Cardinality(left)
             parts == (IF share < Unit THEN Unit ELSE share) + take
             keyRate  == Rate(c[k], parts)
             rest  == e - take + parts - Passed(c[k], keyRate)
         IN /\ keyRate \in Nat \ {0} /\ rest \in Nat
            /\ Shared(c, left \ {k}, [r EXCEPT ![k] = keyRate], rest, goal)
  <1>1. k \in Keys /\ c[k] \in Nat \ {0} /\ IsFiniteSet(Keys) /\ Unit \in Nat \ {0}
    BY SamplerAssumption DEF Seen
  <1> DEFINE share == Share(c, k, goal)
             base  == IF share < Unit THEN Unit ELSE share
             take  == e \div Cardinality(left)
             parts == base + take
             keyRate  == Rate(c[k], parts)
             rest  == e - take + parts - Passed(c[k], keyRate)
             q     == [r EXCEPT ![k] = keyRate]
             L     == LogSum(c)
             G     == GoalCount(c, goal)
             more  == IF share < Unit THEN 1 ELSE 0
             small == Small(c, goal)
  <1>2. share \in Nat /\ L \in Nat \ {0} /\ G \in Nat /\ share * L <= G * Log(c[k])
    BY <1>1, ShareType
  <1>3. take \in Nat /\ take <= e
    <2>1. IsFiniteSet(left) /\ left # {}
      BY <1>1, FS_Subset DEF Seen
    <2>2. Cardinality(left) \in Nat \ {0}
      BY <2>1, FS_CardinalityType, FS_EmptySet
    <2> PICK n \in Nat \ {0} : n = Cardinality(left)
      BY <2>2
    <2>3. e \div n \in Nat /\ n * (e \div n) <= e
      BY Division
    <2>4. e \div n <= n * (e \div n)
      BY <2>3
    <2> QED
      BY <2>3, <2>4
  <1>4. base \in Nat \ {0} /\ (IF more = 1 THEN base = Unit ELSE base * L <= G * Log(c[k]))
    BY <1>1, <1>2
  <1> HIDE DEF share, take, L, G
  <1>5. parts \in Nat \ {0} /\ parts = base + take
    BY <1>3, <1>4
  <1> HIDE DEF base, parts
  <1>6. keyRate \in Nat \ {0} /\ Passed(c[k], keyRate) \in Nat /\ Passed(c[k], keyRate) <= parts
    BY <1>1, <1>5, KeyIsShared
  <1> HIDE DEF keyRate
  <1>7. rest \in Nat /\ Passed(c[k], keyRate) + rest = e + base
    BY <1>3, <1>4, <1>5, <1>6
  <1> HIDE DEF rest
  <1>8. \A j \in Seen(c) \ (left \ {k}) : q[j] >= 1
    BY <1>1, <1>6 DEF Shared, Seen
  <1>9. q \in [Keys -> Nat \cup {NoNumber}] /\ q[k] = keyRate /\ \A j \in Keys \ {k} : q[j] = r[j]
    BY <1>1, <1>6
  <1> HIDE DEF q
  <1>10. Total(PassedSoFar(c, left \ {k}, q)) = Total(PassedSoFar(c, left, r)) + Passed(c[k], keyRate)
         /\ Total(PassedSoFar(c, left, r)) \in Nat
    <2> DEFINE f == PassedSoFar(c, left, r)
               g == PassedSoFar(c, left \ {k}, q)
    <2>1. f \in [Keys -> Nat] /\ g \in [Keys -> Nat]
      BY <1>8, <1>9, SoFarType DEF Shared
    <2>2. f[k] = 0 /\ g[k] = Passed(c[k], keyRate) /\ \A j \in Keys \ {k} : g[j] = f[j]
      BY <1>1, <1>9 DEF PassedSoFar, Seen
    <2> HIDE DEF f, g
    <2>3. Total(f) \in Nat /\ Total(g) = Total(f) - f[k] + g[k]
      BY <1>1, <2>1, <2>2, TotalUpdate
    <2>4. Total(g) = Total(f) + Passed(c[k], keyRate)
      BY <1>6, <2>2, <2>3
    <2> QED
      BY <2>3, <2>4 DEF f, g
  <1>11. Total(LogsSoFar(c, left \ {k})) = Total(LogsSoFar(c, left)) + Log(c[k])
         /\ Total(LogsSoFar(c, left)) \in Nat /\ Log(c[k]) \in Nat
    <2> DEFINE f == LogsSoFar(c, left)
               g == LogsSoFar(c, left \ {k})
    <2>1. f \in [Keys -> Nat] /\ g \in [Keys -> Nat]
      BY <1>8, <1>9, SoFarType DEF Shared
    <2>2. f[k] = 0 /\ g[k] = Log(c[k]) /\ (\A j \in Keys \ {k} : g[j] = f[j]) /\ Log(c[k]) \in Nat
      BY <1>1, LogType DEF LogsSoFar, Seen
    <2> HIDE DEF f, g
    <2>3. Total(f) \in Nat /\ Total(g) = Total(f) - f[k] + g[k]
      BY <1>1, <2>1, <2>2, TotalUpdate
    <2>4. Total(g) = Total(f) + Log(c[k])
      BY <2>2, <2>3
    <2> QED
      BY <2>2, <2>3, <2>4 DEF f, g
  <1>12. /\ Cardinality(small \ left) \in Nat /\ more \in {0, 1}
         /\ Cardinality(small \ (left \ {k})) = Cardinality(small \ left) + more
    <2>1. IsFiniteSet(small \ left)
      BY <1>1, FS_Subset DEF Small, Seen
    <2>2. Cardinality(small \ left) \in Nat
      BY <2>1, FS_CardinalityType
    <2>3. CASE share < Unit
      <3>1. small \ (left \ {k}) = (small \ left) \cup {k} /\ k \notin small \ left
        BY <1>1, <2>3 DEF Small, Seen, share
      <3> QED
        BY <2>1, <2>2, <2>3, <3>1, FS_AddElement
    <2>4. CASE ~(share < Unit)
      <3>1. small \ (left \ {k}) = small \ left
        BY <2>4 DEF Small, share
      <3> QED
        BY <2>2, <2>4, <3>1
    <2> QED
      BY <2>3, <2>4
  <1>13. (Total(PassedSoFar(c, left \ {k}, q)) + rest) * L
           <= Unit * Cardinality(small \ (left \ {k})) * L + G * Total(LogsSoFar(c, left \ {k}))
    <2> PICK p \in Nat, b \in Nat, d \in Nat, log \in Nat :
           /\ p = Total(PassedSoFar(c, left, r)) /\ b = Total(LogsSoFar(c, left))
           /\ d = Cardinality(small \ left) /\ log = Log(c[k])
      BY <1>10, <1>11, <1>12
    <2>1. (p + e) * L <= Unit * d * L + G * b
      BY DEF Shared, L, G
    <2> HIDE DEF more, small
    <2>2. (p + (e + base)) * L <= Unit * (d + more) * L + G * (b + log)
      BY <1>1, <1>2, <1>4, <1>12, <2>1, OneMore
    <2>3. Total(PassedSoFar(c, left \ {k}, q)) + rest = p + (e + base)
      BY <1>4, <1>6, <1>7, <1>10
    <2> QED
      BY <1>11, <1>12, <2>2, <2>3
  <1>14. Shared(c, left \ {k}, q, rest, goal)
    BY <1>8, <1>13 DEF Shared, L, G
  <1> QED
    BY <1>6, <1>7, <1>14 DEF q, rest, keyRate, parts, base, take, share

(* When every key has its rate, its logarithms are all logarithms.         *)
LEMMA SharedOut ==
  ASSUME NEW c \in [Keys -> 0 .. MaxCount], NEW r \in [Keys -> Nat \cup {NoNumber}], NEW e \in Nat,
         NEW goal \in Nat \ {0}, ~Singles(c), Shared(c, {}, r, e, goal)
  PROVE  GoalAt(c, r, goal)
  <1>1. \A k \in Seen(c) : r[k] >= 1
    BY DEF Shared
  <1>2. /\ PassedSoFar(c, {}, r) = [k \in Keys |-> IF c[k] = 0 THEN 0 ELSE Passed(c[k], r[k])]
        /\ LogsSoFar(c, {}) = [k \in Keys |-> Log(c[k])]
    BY DEF PassedSoFar, LogsSoFar, Seen, Log
  <1>3. LogSum(c) \in Nat \ {0} /\ GoalCount(c, goal) \in Nat
    <2>1. PICK k \in Keys : TRUE
      BY DEF Singles
    <2> QED
      BY <2>1, ShareType
  <1>4. Cardinality(Small(c, goal)) \in Nat /\ Small(c, goal) \ {} = Small(c, goal)
    <2>1. IsFiniteSet(Small(c, goal))
      BY SamplerAssumption, FS_Subset DEF Small, Seen
    <2> QED
      BY <2>1, FS_CardinalityType
  <1>5. Total(PassedSoFar(c, {}, r)) \in Nat
    <2>1. PassedSoFar(c, {}, r) \in [Keys -> Nat]
      BY <1>1, SoFarType
    <2> QED
      BY <2>1, SamplerAssumption, TotalType
  <1> PICK p \in Nat, l \in Nat \ {0}, d \in Nat, g \in Nat :
         /\ p = Total(PassedSoFar(c, {}, r)) /\ l = LogSum(c)
         /\ d = Cardinality(Small(c, goal)) /\ g = GoalCount(c, goal)
    BY <1>3, <1>4, <1>5
  <1>6. (p + e) * l <= Unit * d * l + g * l
    BY <1>2, <1>4 DEF Shared, LogSum
  <1>7. Unit \in Nat /\ Unit * d \in Nat
    BY SamplerAssumption
  <1>8. l * p <= l * (g + Unit * d)
    <2> PICK u \in Nat : u = Unit * d
      BY <1>7
    <2>1. (p + e) * l = l * p + l * e /\ u * l + g * l = l * (g + u) /\ l * e >= 0
      OBVIOUS
    <2>2. l * p \in Nat /\ l * e \in Nat /\ l * (g + u) \in Nat
      OBVIOUS
    <2> QED
      BY <1>6, <2>1, <2>2
  <1>9. p <= g + Unit * d
    BY <1>7, <1>8, Smaller
  <1> QED
    BY <1>1, <1>2, <1>9 DEF GoalAt
-----------------------------------------------------------------------------
(* The sampler: what it holds while it calculates, and what its rates have *)
(* to do with the window they were calculated from.                        *)
SharingInv ==
  /\ stage = "flags" => window = Zero
  /\ updating => opt.dynSample /\ stage \notin {"flags", "refused"}
  /\ ~updating => extra = 0 /\ keysLeft = {}
  /\ updating /\ ~Quiet(tmpCounts) /\ ~Singles(tmpCounts)
       => Shared(tmpCounts, keysLeft, newRates, extra, opt.goal)
  /\ GoalMet(opt.goal)

SamplerInv == SamplerTypeOK /\ SharingInv

LEMMA QuietZero ==
  /\ Zero \in [Keys -> 0 .. MaxCount] /\ Zero \in [Keys -> Nat \cup {NoNumber}]
  /\ Quiet(Zero)
  <1>1. Zero \in [Keys -> Nat] /\ \A k \in Keys : Zero[k] = 0
    BY DEF Zero
  <1>2. IsFiniteSet(Keys)
    BY SamplerAssumption
  <1>3. Total(Zero) = 0
    BY <1>1, <1>2, TotalType
  <1> QED
    BY <1>1, <1>3, SamplerAssumption DEF Quiet, Zero

(* Dynamic sampling has a goal, or main() refuses it.                      *)
LEMMA GoalOfSampler ==
  ASSUME OptInv, stage \notin {"flags", "refused"}, opt.dynSample
  PROVE  opt.goal \in Nat \ {0}
  <1>1. opt \in OptionSet /\ opt.sampleRate = 1 /\ ~Refused(opt)
    BY EffectiveOptions DEF OptInv
  <1>2. opt.goal \in Nat
    BY <1>1 DEF OptionSet
  <1> QED
    BY <1>1, <1>2 DEF Refused

(* What a step is to the sampler.                                          *)
LEMMA SamplerSteps ==
  ASSUME [Next]_vars
  PROVE  \/ Main
         \/ /\ UNCHANGED <<opt, sampler>>
            /\ stage' = stage \/ stage' \notin {"flags", "refused"}
         \/ /\ UNCHANGED opt /\ opt.dynSample
            /\ {stage, stage'} \cap {"flags", "refused"} = {}
            /\ UpdateMaps(opt.goal) \/ \E k \in Keys : GetSampleRate(k)
  <1>1. CASE SampleLine
    BY <1>1 DEF SampleLine, Keep
  <1>2. CASE Parse
    BY <1>2, Zenon DEF Parse
  <1>3. CASE Drop \/ Scrub \/ Add
    BY <1>3 DEF Drop, Scrub, Add, Munge
  <1>4. CASE ShapeField \/ ShapeDone
    BY <1>4 DEF ShapeField, ShapeDone
  <1>5. CASE Stamp \/ Send
    BY <1>5 DEF Stamp, Send
  <1>6. CASE DynSample
    <2>1. stage = "sample" /\ stage' \in {"send", "panicked"}
      BY <1>6 DEF DynSample
    <2> QED
      BY <1>6, <2>1 DEF DynSample
  <1>7. CASE SamplerStep
    BY <1>7 DEF SamplerStep
  <1>8. CASE UNCHANGED vars
    BY <1>8 DEF vars
  <1>9. CASE ParsePanics
    BY <1>9 DEF ParsePanics
  <1> QED
    BY <1>1, <1>2, <1>3, <1>4, <1>5, <1>6, <1>7, <1>8, <1>9 DEF Next, EventStep

LEMMA ShareKeyStep ==
  ASSUME OptInv, SamplerInv, ShareKey(opt.goal), UNCHANGED opt, opt.dynSample,
         {stage, stage'} \cap {"flags", "refused"} = {}
  PROVE  SamplerInv'
  <1>1. opt.goal \in Nat \ {0}
    BY GoalOfSampler
  <1>2. PICK k \in keysLeft :
          /\ keysLeft' = keysLeft \ {k}
          /\ \/ Singles(tmpCounts) /\ newRates' = [newRates EXCEPT ![k] = NoNumber] /\ UNCHANGED extra
             \/ /\ ~Singles(tmpCounts)
                /\ LET share == Share(tmpCounts, k, opt.goal)
                       take  == extra \div Cardinality(keysLeft)
                       parts == (IF share < Unit THEN Unit ELSE share) + take
                       keyRate  == Rate(tmpCounts[k], parts)
                   IN /\ newRates' = [newRates EXCEPT ![k] = keyRate]
                      /\ extra' = extra - take + parts - Passed(tmpCounts[k], keyRate)
    BY DEF ShareKey
  <1>3. updating /\ ~Quiet(tmpCounts)
        /\ UNCHANGED <<currentCounts, savedSampleRates, haveData, updating, tmpCounts, window>>
    BY DEF ShareKey
  <1>4. k \in Keys
    BY DEF SamplerInv, SamplerTypeOK, Seen
  <1>5. CASE Singles(tmpCounts)
    BY <1>2, <1>3, <1>4, <1>5 DEF SamplerInv, SamplerTypeOK, SharingInv, GoalMet, NoNumber
  <1>6. CASE ~Singles(tmpCounts)
    <2>1. /\ newRates' \in [Keys -> Nat \cup {NoNumber}] /\ extra' \in Nat
          /\ Shared(tmpCounts, keysLeft \ {k}, newRates', extra', opt.goal)
      <3> DEFINE share == Share(tmpCounts, k, opt.goal)
                 take  == extra \div Cardinality(keysLeft)
                 parts == (IF share < Unit THEN Unit ELSE share) + take
                 keyRate  == Rate(tmpCounts[k], parts)
                 rest  == extra - take + parts - Passed(tmpCounts[k], keyRate)
      <3>1. newRates' = [newRates EXCEPT ![k] = keyRate] /\ extra' = rest
        BY <1>2, <1>6
      <3>2. /\ tmpCounts \in [Keys -> 0 .. MaxCount] /\ keysLeft \in SUBSET Seen(tmpCounts)
            /\ newRates \in [Keys -> Nat \cup {NoNumber}] /\ extra \in Nat
        BY DEF SamplerInv, SamplerTypeOK
      <3>3. Shared(tmpCounts, keysLeft, newRates, extra, opt.goal)
        BY <1>3, <1>6 DEF SamplerInv, SharingInv
      <3>4. keyRate \in Nat \ {0} /\ rest \in Nat
            /\ Shared(tmpCounts, keysLeft \ {k}, [newRates EXCEPT ![k] = keyRate], rest, opt.goal)
        BY <1>1, <1>6, <3>2, <3>3, SharedFurther
      <3> HIDE DEF keyRate, rest
      <3> QED
        BY <1>4, <3>1, <3>2, <3>4
    <2> QED
      BY <1>2, <1>3, <2>1 DEF SamplerInv, SamplerTypeOK, SharingInv, GoalMet
  <1> QED
    BY <1>5, <1>6

LEMMA SamplerInvStep == OptInv /\ SamplerInv /\ [Next]_vars => SamplerInv'
  <1> SUFFICES ASSUME OptInv, SamplerInv, [Next]_vars PROVE SamplerInv'
    OBVIOUS
  <1>1. CASE Main
    <2>1. stage = "flags" /\ stage' \in {"refused", "tail"} /\ UNCHANGED sampler
      BY <1>1 DEF Main
    <2>2. ~updating /\ window = Zero
      BY <2>1 DEF SamplerInv, SharingInv
    <2> QED
      BY <2>1, <2>2, QuietZero DEF SamplerInv, SharingInv, SamplerTypeOK, GoalMet
  <1>2. CASE UNCHANGED <<opt, sampler>> /\ (stage' = stage \/ stage' \notin {"flags", "refused"})
    BY <1>2 DEF SamplerInv, SharingInv, SamplerTypeOK, GoalMet
  <1>3. ASSUME UNCHANGED opt, opt.dynSample, {stage, stage'} \cap {"flags", "refused"} = {},
               UpdateMaps(opt.goal) \/ \E k \in Keys : GetSampleRate(k)
        PROVE  SamplerInv'
    <2>1. ASSUME NEW k \in Keys, GetSampleRate(k) PROVE SamplerInv'
      <3>1. currentCounts' \in [Keys -> 0 .. MaxCount]
        BY <2>1, SamplerAssumption DEF GetSampleRate, SamplerInv, SamplerTypeOK
      <3> QED
        BY <1>3, <2>1, <3>1 DEF GetSampleRate, SamplerInv, SharingInv, SamplerTypeOK, GoalMet
    <2>2. CASE TakeCounts
      <3>1. /\ currentCounts' = Zero /\ tmpCounts' = currentCounts /\ keysLeft' = Seen(tmpCounts')
            /\ updating' = TRUE /\ extra' = 0
            /\ UNCHANGED <<savedSampleRates, haveData, extra, newRates, window>>
        BY <2>2 DEF TakeCounts, SamplerInv, SharingInv
      <3>2. ~Singles(tmpCounts') => Shared(tmpCounts', keysLeft', newRates', extra', opt.goal)
        <4> PICK c \in [Keys -> 0 .. MaxCount] : c = tmpCounts'
          BY <3>1 DEF SamplerInv, SamplerTypeOK
        <4>1. ~Singles(c) => Shared(c, Seen(c), newRates, 0, opt.goal)
          BY <1>3, GoalOfSampler, SharedStart
        <4>2. newRates' = newRates /\ extra' = 0 /\ keysLeft' = Seen(c) /\ opt' = opt
          BY <1>3, <3>1 DEF Seen
        <4> QED
          BY <4>1, <4>2 DEF Singles, Shared
      <3> QED
        BY <1>3, <3>1, <3>2, QuietZero DEF SamplerInv, SharingInv, SamplerTypeOK, GoalMet
    <2>3. CASE StoreQuiet
      <3>1. savedSampleRates' \in [Keys -> Nat \cup {NoNumber}] /\ Quiet(window')
        BY <2>3 DEF StoreQuiet, Return
      <3>2. SamplerTypeOK'
        BY <2>3, <3>1, QuietZero DEF StoreQuiet, Return, SamplerInv, SamplerTypeOK
      <3> QED
        BY <1>3, <2>3, <3>1, <3>2 DEF StoreQuiet, Return, SamplerInv, SharingInv, GoalMet
    <2>4. CASE ShareKey(opt.goal)
      BY <1>3, <2>4, ShareKeyStep
    <2>5. CASE StoreRates
      <3>1. /\ savedSampleRates' = newRates /\ window' = tmpCounts /\ haveData' = TRUE /\ updating' = FALSE
            /\ tmpCounts' = Zero /\ keysLeft' = {} /\ extra' = 0 /\ newRates' = Zero /\ UNCHANGED currentCounts
        BY <2>5 DEF StoreRates, Return
      <3>2. SamplerTypeOK'
        BY <3>1, QuietZero DEF SamplerInv, SamplerTypeOK
      <3>3. ~Quiet(tmpCounts) /\ ~Singles(tmpCounts) => GoalAt(tmpCounts, newRates, opt.goal)
        <4>1. updating /\ keysLeft = {}
          BY <2>5 DEF StoreRates
        <4> QED
          BY <1>3, <4>1, GoalOfSampler, SharedOut DEF SamplerInv, SharingInv, SamplerTypeOK
      <3>4. GoalMet(opt.goal)'
        BY <1>3, <3>1, <3>3 DEF GoalMet
      <3> QED
        BY <1>3, <3>1, <3>2, <3>4 DEF SamplerInv, SharingInv
    <2> QED
      BY <1>3, <2>1, <2>2, <2>3, <2>4, <2>5 DEF UpdateMaps
  <1> QED
    BY <1>1, <1>2, <1>3, SamplerSteps

LEMMA QuietStep == QuietSendsAll /\ [Next]_vars => QuietSendsAll'
  <1> SUFFICES ASSUME QuietSendsAll, [Next]_vars PROVE QuietSendsAll'
    OBVIOUS
  <1>1. \/ UNCHANGED <<savedSampleRates, haveData, window>>
        \/ StoreQuiet
        \/ StoreRates
    BY SamplerSteps DEF Main, UpdateMaps, GetSampleRate, TakeCounts, ShareKey
  <1>2. CASE UNCHANGED <<savedSampleRates, haveData, window>>
    BY <1>2 DEF QuietSendsAll, SampleRate
  <1>3. CASE StoreQuiet
    BY <1>3 DEF StoreQuiet, Return, QuietSendsAll, SampleRate
  <1>4. CASE StoreRates
    <2>1. ~Quiet(window')
      BY <1>4 DEF StoreRates, Return
    <2> QED
      BY <2>1 DEF QuietSendsAll
  <1> QED
    BY <1>1, <1>2, <1>3, <1>4

LEMMA SamplerStart == Init => SamplerInv /\ QuietSendsAll
  <1> SUFFICES ASSUME Init PROVE SamplerInv /\ QuietSendsAll
    OBVIOUS
  <1>1. /\ currentCounts = Zero /\ savedSampleRates = Zero /\ haveData = FALSE
        /\ updating = FALSE /\ window = Zero
        /\ tmpCounts = Zero /\ keysLeft = {} /\ extra = 0 /\ newRates = Zero
    BY DEF Init, SamplerInit
  <1>2. SamplerTypeOK
    BY <1>1, QuietZero DEF SamplerTypeOK
  <1>3. SharingInv
    BY <1>1, QuietZero DEF SharingInv, GoalMet
  <1>4. QuietSendsAll
    BY <1>1 DEF QuietSendsAll
  <1> QED
    BY <1>2, <1>3, <1>4 DEF SamplerInv

LEMMA OptStart == Init => OptInv
  BY ScenarioAssumption DEF Init, OptInv, Stages

(* After a quiet window nothing is sampled away, whichever keys come.      *)
THEOREM QuietWindowsSendAll == Spec => []QuietSendsAll
  BY SamplerStart, QuietStep, PTL DEF Spec

(* The sampler's rates send what main() was asked to send, for any number  *)
(* of keys, counts and logarithms: what the keys have and what they left   *)
(* over is never more than their part of the goal (Shared).                *)
THEOREM RatesKeepTheGoal == Spec => []RatesMeetGoal
  <1>1. SamplerInv => RatesMeetGoal
    BY DEF SamplerInv, SharingInv, RatesMeetGoal
  <1> QED
    BY <1>1, OptStart, OptStep, SamplerStart, SamplerInvStep, PTL DEF Spec

(* The samplers of lines, of groups of lines and of events never add up    *)
(* without the event's rate telling so.                                    *)
THEOREM RateIsTheSamplers == Spec => []RateMeansRate
  <1>1. Init => RatedInv
    BY DEF Init, RatedInv
  <1>2. RatedInv => RateMeansRate
    BY DEF RatedInv, RateMeansRate
  <1>3. SamplerInv => SamplerTypeOK
    BY DEF SamplerInv
  <1> QED
    BY <1>1, <1>2, <1>3, OptStart, OptStep, SamplerStart, SamplerInvStep, RatedStep, PTL DEF Spec
-----------------------------------------------------------------------------
(* The names of a request's parts are words, so that a derived name begins *)
(* with the prefix when there is one.                                      *)
PartNames == WordParts \cup PathParts \cup QueryParts \cup {"path_key"}

LEMMA PartsAreNamed ==
  ASSUME NEW parts \in RequestParts
  PROVE  parts \subseteq PartNames
  BY DEF RequestParts, PartNames

LEMMA PrefixComesFirst ==
  ASSUME NEW f \in Field, NEW part, opt.prefixed
  PROVE  Derived(f, part)[1] = "prefix"
  <1>1. \E S : f \in Seq(S)
    BY DEF Field
  <1>2. PICK S : f \in Seq(S)
    BY <1>1
  <1> DEFINE T == S \cup {part, "prefix"}
  <1>3. f \in Seq(T) /\ part \in T /\ "prefix" \in T
    BY <1>2
  <1> HIDE DEF T
  <1>4. Append(f, part) \in Seq(T) /\ <<"prefix">> \in Seq(T)
    BY <1>3
  <1>5. (<<"prefix">> \o Append(f, part))[1] = "prefix"
    BY <1>4
  <1> QED
    BY <1>5 DEF Derived

(* A name that shaping may give to a field.                                *)
Reserved(f) == IF opt.prefixed THEN f[1] = "prefix" ELSE f \in DerivedNames

UntouchedInv ==
  stage \in {"drop", "scrub", "add", "shape", "sample", "send", "sent"} =>
    \A f \in DOMAIN parsed \ (opt.drop \cup opt.scrub \cup opt.add) :
      ~Reserved(f) => f \in DOMAIN data /\ data[f] = Raw(f)

LEMMA UntouchedStep == OptInv /\ UntouchedInv /\ [Next]_vars => UntouchedInv'
  <1> SUFFICES ASSUME OptInv, UntouchedInv, [Next]_vars PROVE UntouchedInv'
    OBVIOUS
  <1>0. ASSUME UNCHANGED opt, NEW f PROVE Reserved(f)' = Reserved(f)
    BY <1>0 DEF Reserved, DerivedNames, Derived, QueryParts
  <1>1. CASE Main
    BY <1>1 DEF Main, UntouchedInv
  <1>2. CASE SampleLine
    BY <1>2 DEF SampleLine, Keep, UntouchedInv
  <1>3. CASE Parse
    <2>1. data' = [f \in DOMAIN parsed' |-> Raw(f)]
      BY <1>3, Zenon DEF Parse
    <2> QED
      BY <2>1 DEF UntouchedInv
  <1>4. CASE Drop
    <2>1. stage = "drop" /\ UNCHANGED <<opt, parsed>> /\ data' = [f \in DOMAIN data \ opt.drop |-> data[f]]
      BY <1>4 DEF Drop, Munge
    <2> QED
      BY <1>0, <2>1 DEF UntouchedInv
  <1>5. CASE Scrub
    <2>1. /\ stage = "scrub" /\ UNCHANGED <<opt, parsed>>
          /\ data' = [f \in DOMAIN data |-> IF f \in opt.scrub THEN Hashed(data[f].of) ELSE data[f]]
      BY <1>5 DEF Scrub, Munge
    <2> QED
      BY <1>0, <2>1 DEF UntouchedInv
  <1>6. CASE Add
    <2>1. /\ stage = "add" /\ UNCHANGED <<opt, parsed>>
          /\ data' = [f \in DOMAIN data \cup opt.add |-> IF f \in opt.add THEN Added ELSE data[f]]
      BY <1>6 DEF Add, Munge
    <2> QED
      BY <1>0, <2>1 DEF UntouchedInv
  <1>7. CASE ShapeField
    <2>1. stage = "shape" /\ nextField \in DOMAIN opt.shape /\ UNCHANGED <<opt, parsed>>
      BY <1>7 DEF ShapeField
    <2>2. CASE UNCHANGED data
      BY <1>0, <2>1, <2>2 DEF UntouchedInv
    <2>3. CASE ~UNCHANGED data
      <3> DEFINE g == opt.shape[nextField]
      <3>1. PICK parts \in RequestParts :
              data' = [h \in DOMAIN data \cup {Derived(g, p) : p \in parts} |->
                         IF \E p \in parts : h = Derived(g, p) THEN data[g] ELSE data[h]]
        BY <1>7, <2>3 DEF ShapeField
      <3>2. ASSUME NEW f, ~Reserved(f), NEW p \in parts PROVE f # Derived(g, p)
        <4>1. CASE opt.prefixed
          <5>1. g \in Field
            BY <2>1, EffectiveOptions DEF OptInv, OptionSet
          <5>2. Derived(g, p)[1] = "prefix"
            BY <4>1, <5>1, PrefixComesFirst
          <5> QED
            BY <3>2, <4>1, <5>2 DEF Reserved
        <4>2. CASE ~opt.prefixed
          <5>1. p \in WordParts \cup PathParts \cup QueryParts \cup {"path_key"}
            BY <3>1, PartsAreNamed DEF PartNames
          <5>2. Derived(g, p) \in DerivedNames
            BY <2>1, <5>1 DEF DerivedNames
          <5> QED
            BY <3>2, <4>2, <5>2 DEF Reserved
        <4> QED
          BY <4>1, <4>2
      <3>3. ASSUME NEW f \in DOMAIN data, ~Reserved(f) PROVE f \in DOMAIN data' /\ data'[f] = data[f]
        BY <3>1, <3>2, <3>3
      <3> HIDE DEF g
      <3> QED
        BY <1>0, <2>1, <3>3 DEF UntouchedInv
    <2> QED
      BY <2>2, <2>3
  <1>8. CASE ShapeDone
    BY <1>0, <1>8 DEF ShapeDone, UntouchedInv
  <1>9. CASE Stamp \/ DynSample \/ Send
    BY <1>0, <1>9 DEF Stamp, DynSample, Send, UntouchedInv
  <1>10. CASE SamplerStep
    BY <1>0, <1>10 DEF SamplerStep, UntouchedInv
  <1>11. CASE UNCHANGED vars
    BY <1>0, <1>11 DEF vars, UntouchedInv
  <1>12. CASE ParsePanics
    BY <1>12 DEF ParsePanics, UntouchedInv
  <1> QED
    BY <1>1, <1>2, <1>3, <1>4, <1>5, <1>6, <1>7, <1>8, <1>9, <1>10, <1>11, <1>12 DEF Next, EventStep

(* Shaping overwrites no field but one whose name it may give.             *)
THEOREM OthersArrive == Spec => []OthersUntouched
  <1>1. Init => UntouchedInv
    BY DEF Init, UntouchedInv
  <1>2. UntouchedInv => OthersUntouched
    BY DEF UntouchedInv, OthersUntouched, Reserved
  <1> QED
    BY <1>1, <1>2, OptStart, OptStep, UntouchedStep, PTL DEF Spec
-----------------------------------------------------------------------------
(* What is known of the line.                                              *)
LineInv ==
  /\ now \in Date /\ now.y > 1
  /\ flags.parser = "mysql" => {line.comment, line.set} \subseteq Date \cup {NoDate}
  /\ flags.parser = "mongodb" => line.date \in Date
  /\ flags.parser \notin {"mysql", "mongodb"} => \A f \in DOMAIN line.fields : line.fields[f] \in Content

LEMMA LineStart == Init => LineInv
  <1> SUFFICES ASSUME Init PROVE LineInv
    OBVIOUS
  <1>1. PICK s \in Scenarios : flags = s.flags /\ line = s.line /\ now = s.now
    BY DEF Init
  <1>2. now \in Date /\ now.y > 1
    BY <1>1, ScenarioAssumption
  <1>3. flags.parser = "mysql" => {line.comment, line.set} \subseteq Date \cup {NoDate}
    BY <1>1, ScenarioAssumption
  <1>4. flags.parser = "mongodb" => line.date \in Date
    BY <1>1, ScenarioAssumption
  <1>5. flags.parser \notin {"mysql", "mongodb"} => \A f \in DOMAIN line.fields : line.fields[f] \in Content
    BY <1>1, ScenarioAssumption
  <1> QED
    BY <1>2, <1>3, <1>4, <1>5 DEF LineInv

LEMMA SameLine == [Next]_vars => UNCHANGED <<flags, line, now>>
  BY DEF Next, EventStep, vars, Main, SampleLine, Parse, ParsePanics, Drop, Scrub, Add, Munge,
         ShapeField, ShapeDone, Stamp, DynSample, Send, SamplerStep

LEMMA LineStep == LineInv /\ [Next]_vars => LineInv'
  BY SameLine DEF LineInv

(* Only Parse leads to the stage at which the time is looked at.           *)
LEMMA OnlyParse ==
  ASSUME [Next]_vars
  PROVE  \/ stage' # "drop"
         \/ UNCHANGED <<stage, scenario, opt, parsed, time>>
         \/ Parse
  BY DEF Next, EventStep, vars, Main, SampleLine, Keep, ParsePanics, Drop, Scrub, Add, Munge,
         ShapeField, ShapeDone, Stamp, DynSample, Send, SamplerStep

LEMMA YearStep == OptInv /\ LineInv /\ YearRecovered /\ [Next]_vars => YearRecovered'
  <1> SUFFICES ASSUME OptInv, LineInv, YearRecovered, [Next]_vars PROVE YearRecovered'
    OBVIOUS
  <1>1. CASE stage' # "drop"
    BY <1>1 DEF YearRecovered
  <1>2. CASE UNCHANGED <<stage, scenario, opt, parsed, time>>
    BY <1>2 DEF YearRecovered
  <1>3. CASE Parse /\ opt.parser = "mongodb"
    <2>1. stage = "parse" /\ UNCHANGED <<scenario, opt>> /\ ParseMongo
      BY <1>3 DEF Parse, ParseMongo, ParseFields, ParseMySQL
    <2>2. line.date \in Date /\ now \in Date
      BY <1>3, <2>1, EffectiveOptions DEF OptInv, LineInv
    <2>3. time' = IF line.year THEN line.date ELSE LastPast(line.date, now)
      BY <2>1 DEF ParseMongo
    <2>4. (/\ Real(line.date) /\ Before(line.date, now)
           /\ Before(now, InYear(line.date, line.date.y + 1))) => time' = line.date
      BY <2>2, <2>3, YearOfAPastDay
    <2> QED
      BY <2>1, <2>4 DEF YearRecovered
  <1>4. CASE Parse /\ opt.parser # "mongodb"
    <2>1. UNCHANGED opt
      BY <1>4, Zenon DEF Parse
    <2> QED
      BY <1>4, <2>1 DEF YearRecovered
  <1> QED
    BY <1>1, <1>2, <1>3, <1>4, OnlyParse

(* A mongodb line is given its own year, at New Year and in leap years.    *)
THEOREM YearIsRecovered == Spec => []YearRecovered
  <1>1. Init => YearRecovered
    BY DEF Init, YearRecovered
  <1> QED
    BY <1>1, OptStart, OptStep, LineStart, LineStep, YearStep, PTL DEF Spec
-----------------------------------------------------------------------------
(* A set of places in TimeFieldNames has a first and a last one.           *)
LEMMA FirstAndLastPlace ==
  ASSUME NEW S, S \subseteq DOMAIN TimeFieldNames, S # {}
  PROVE  Least(S) \in S /\ Greatest(S) \in S
  <1>0. \A i \in S : i = 1 \/ i = 2 \/ i = 3
    BY DEF TimeFieldNames
  <1>1. \E i \in S : \A j \in S : i <= j
    <2>1. CASE 1 \in S
      BY <1>0, <2>1
    <2>2. CASE 1 \notin S /\ 2 \in S
      BY <1>0, <2>2
    <2>3. CASE 1 \notin S /\ 2 \notin S
      BY <1>0, <2>3
    <2> QED
      BY <2>1, <2>2, <2>3
  <1>2. \E i \in S : \A j \in S : j <= i
    <2>1. CASE 3 \in S
      BY <1>0, <2>1
    <2>2. CASE 3 \notin S /\ 2 \in S
      BY <1>0, <2>2
    <2>3. CASE 3 \notin S /\ 2 \notin S
      BY <1>0, <2>3
    <2> QED
      BY <2>1, <2>2, <2>3
  <1> QED
    BY <1>1, <1>2 DEF Least, Greatest

(* The field that GetTimestamp deletes without being told which gave the   *)
(* time, or there is none that could.                                      *)
LEMMA GuessedField ==
  ASSUME NEW m, NEW t
  PROVE  LET found == GetTimestamp(m, NoField, t)
         IN \/ found.time = m[found.field].date
            \/ Parsable(m) = {} /\ found.time = t
  <1>1. GetTimestamp(m, NoField, t) = Guess(m, t)
    BY DEF GetTimestamp, NoField
  <1>2. CASE Parsable(m) # {}
    BY <1>1, <1>2 DEF Guess
  <1>3. CASE Parsable(m) = {}
    BY <1>1, <1>3 DEF Guess
  <1> QED
    BY <1>2, <1>3

LEMMA GivenField ==
  ASSUME NEW m, NEW t, NEW name, name # NoField
  PROVE  GetTimestamp(m, name, t).field = name
  BY DEF GetTimestamp, Specified, NoField

LEMMA LostStep == OptInv /\ OnlyTimeFieldLost /\ [Next]_vars => OnlyTimeFieldLost'
  <1> SUFFICES ASSUME OptInv, OnlyTimeFieldLost, [Next]_vars PROVE OnlyTimeFieldLost'
    OBVIOUS
  <1>1. CASE stage' # "drop"
    BY <1>1 DEF OnlyTimeFieldLost
  <1>2. CASE UNCHANGED <<stage, scenario, opt, parsed, time>>
    BY <1>2 DEF OnlyTimeFieldLost, TimeField
  <1>3. CASE Parse /\ opt.parser \notin {"mysql", "mongodb"} /\ LoneTimeOption
    <2>1. UNCHANGED <<scenario, opt>> /\ parsed' = line.fields
      BY <1>3 DEF Parse, ParseMongo, ParseFields, ParseMySQL
    <2> QED
      BY <2>1 DEF OnlyTimeFieldLost
  <1>5. CASE Parse /\ opt.parser \notin {"mysql", "mongodb"} /\ ~LoneTimeOption
    <2> DEFINE found == GetTimestamp(line.fields, TimeField, now)
    <2>1. UNCHANGED <<scenario, opt>> /\ time' = found.time /\ parsed' = Without(line.fields, found.field)
      BY <1>5 DEF Parse, ParseMongo, ParseFields, ParseMySQL
    <2>2. TimeField' = TimeField
      BY <2>1 DEF TimeField
    <2>3. \A f \in DOMAIN line.fields \ DOMAIN parsed' : f = found.field
      BY <2>1 DEF Without
    <2>4. CASE TimeField = NoField
      <3>1. \/ found.time = line.fields[found.field].date
            \/ Parsable(line.fields) = {} /\ found.time = now
        BY <2>4, GuessedField
      <3> HIDE DEF found
      <3> QED
        BY <2>1, <2>3, <3>1 DEF OnlyTimeFieldLost
    <2>5. CASE TimeField # NoField
      <3>1. found.field = TimeField
        BY <2>5, GivenField
      <3> HIDE DEF found
      <3> QED
        BY <2>1, <2>2, <2>3, <3>1 DEF OnlyTimeFieldLost
    <2> QED
      BY <2>4, <2>5
  <1>4. CASE Parse /\ opt.parser \in {"mysql", "mongodb"}
    <2>1. UNCHANGED opt
      BY <1>4, Zenon DEF Parse
    <2> QED
      BY <1>4, <2>1 DEF OnlyTimeFieldLost
  <1> QED
    BY <1>1, <1>2, <1>3, <1>4, <1>5, OnlyParse

(* GetTimestamp takes no field away that has nothing to do with the time.  *)
THEOREM OtherFieldsStay == Spec => []OnlyTimeFieldLost
  <1>1. Init => OnlyTimeFieldLost
    BY DEF Init, OnlyTimeFieldLost
  <1> QED
    BY <1>1, OptStart, OptStep, LostStep, PTL DEF Spec
-----------------------------------------------------------------------------
(* The time that GetTimestamp finds is one of the fields', or now.         *)
LEMMA FoundTime ==
  ASSUME NEW m, NEW name, NEW t \in Date,
         \A f \in DOMAIN m : m[f] \in Content
  PROVE  GetTimestamp(m, name, t).time \in Date \cup {NoDate}
  <1>1. CASE name # <<>>
    BY <1>1 DEF GetTimestamp, Specified, Content
  <1>2. CASE name = <<>> /\ Parsable(m) # {}
    <2> DEFINE f == TimeFieldNames[Least(Parsable(m))]
    <2>1. Least(Parsable(m)) \in Parsable(m)
      BY <1>2, FirstAndLastPlace DEF Parsable, Candidates
    <2>2. f \in DOMAIN m
      BY <2>1 DEF Parsable, Candidates
    <2>3. GetTimestamp(m, name, t).time = m[f].date
      BY <1>2 DEF GetTimestamp, Guess
    <2> HIDE DEF f
    <2> QED
      BY <2>2, <2>3 DEF Content
  <1>3. CASE name = <<>> /\ Parsable(m) = {}
    BY <1>3 DEF GetTimestamp, Guess
  <1> QED
    BY <1>1, <1>2, <1>3

LEMMA ParsedTime ==
  ASSUME OptInv, LineInv, Parse
  PROVE  time' \in Date \cup {NoDate}
  <1>1. stage = "parse" /\ opt.parser = flags.parser
    BY EffectiveOptions, Zenon DEF Parse, ParseFields, ParseMySQL, ParseMongo, OptInv
  <1>2. CASE ParseFields
    BY <1>1, <1>2, FoundTime DEF ParseFields, LineInv
  <1>3. CASE ParseMySQL
    BY <1>1, <1>3 DEF ParseMySQL, LineInv, CombinedTime
  <1>4. CASE ParseMongo
    <2>1. line.date \in Date /\ now \in Date /\ now.y \in Nat \ {0} /\ now.y - 1 \in Nat \ {0}
      BY <1>1, <1>4 DEF ParseMongo, LineInv, Date
    <2>2. LastPast(line.date, now) \in Date
      BY <2>1, InYearType DEF LastPast
    <2> QED
      BY <1>4, <2>1, <2>2 DEF ParseMongo
  <1> QED
    BY <1>2, <1>3, <1>4 DEF Parse

TypeInv ==
  /\ nextField \in Nat \ {0}
  /\ time \in Date \cup {NoDate}
  /\ \A f \in DOMAIN data : data[f].how \in {"raw", "hashed", "added"}
  /\ rate \in Nat \cup {-1} /\ factor \in Nat \ {0}

LEMMA TypeStep == OptInv /\ LineInv /\ SamplerTypeOK /\ TypeInv /\ [Next]_vars => TypeInv'
  <1> SUFFICES ASSUME OptInv, LineInv, SamplerTypeOK, TypeInv, [Next]_vars PROVE TypeInv'
    OBVIOUS
  <1>0. stage \notin {"flags", "refused"} =>
          opt \in OptionSet /\ opt.sampleRate \in Nat \ {0} /\ opt.goal \in Nat
    BY EffectiveOptions DEF OptInv, OptionSet, Refused
  <1>1. CASE Main
    BY <1>1 DEF Main, TypeInv
  <1>2. CASE SampleLine
    <2>1. stage = "tail" /\ UNCHANGED <<nextField, content, rate>>
      BY <1>2 DEF SampleLine
    <2>2. \/ UNCHANGED factor
          \/ factor' = factor * opt.sampleRate
          \/ factor' = factor * 1
      BY <1>2 DEF SampleLine, Keep
    <2> QED
      BY <1>0, <2>1, <2>2 DEF TypeInv
  <1>3. CASE Parse
    <2>1. data' = [f \in DOMAIN parsed' |-> Raw(f)] /\ UNCHANGED <<nextField, rate, factor>>
      BY <1>3, Zenon DEF Parse
    <2>2. \A f \in DOMAIN data' : data'[f].how = "raw"
      BY <2>1 DEF Raw
    <2> QED
      BY <1>3, <2>1, <2>2, ParsedTime DEF TypeInv
  <1>4. CASE Drop
    BY <1>4 DEF Drop, Munge, TypeInv
  <1>5. CASE Scrub
    BY <1>5 DEF Scrub, Munge, TypeInv, Hashed
  <1>6. CASE Add
    BY <1>6 DEF Add, Munge, TypeInv, Added
  <1>7. CASE ShapeField
    <2>1. /\ UNCHANGED <<time, rate, factor>>
          /\ nextField' \in {nextField, nextField + 1}
      BY <1>7 DEF ShapeField
    <2>2. CASE UNCHANGED data
      BY <2>1, <2>2 DEF TypeInv
    <2>3. CASE ~UNCHANGED data
      <3> DEFINE g == opt.shape[nextField]
      <3>1. g \in DOMAIN data
        BY <1>7, <2>3 DEF ShapeField
      <3>2. PICK parts \in RequestParts :
              data' = [h \in DOMAIN data \cup {Derived(g, p) : p \in parts} |->
                         IF \E p \in parts : h = Derived(g, p) THEN data[g] ELSE data[h]]
        BY <1>7, <2>3 DEF ShapeField
      <3>3. \A h \in DOMAIN data' : data'[h] = data[g] \/ (h \in DOMAIN data /\ data'[h] = data[h])
        BY <3>2
      <3> HIDE DEF g
      <3> QED
        BY <2>1, <3>1, <3>3 DEF TypeInv
    <2> QED
      BY <2>2, <2>3
  <1>8. CASE ShapeDone
    BY <1>8 DEF ShapeDone, TypeInv
  <1>9. CASE Stamp
    BY <1>0, <1>9 DEF Stamp, TypeInv
  <1>10. CASE DynSample
    <2>1. UNCHANGED <<nextField, content>> /\ stage = "sample"
      BY <1>10 DEF DynSample
    <2>2. PICK k \in Keys :
            LET sr == SampleRate(k, opt.goal)
            IN \/ sr >= 1 /\ rate' = sr /\ factor' = factor * sr
               \/ rate' = -1 /\ UNCHANGED factor
               \/ UNCHANGED <<rate, factor>>
      BY <1>10 DEF DynSample
    <2>3. SampleRate(k, opt.goal) \in Int
      BY <1>0, <2>1 DEF SampleRate, SamplerTypeOK, NoNumber
    <2>4. rate' \in Nat \cup {-1} /\ factor' \in Nat \ {0}
      BY <2>2, <2>3 DEF TypeInv
    <2> QED
      BY <2>1, <2>4 DEF TypeInv
  <1>11. CASE Send
    BY <1>11 DEF Send, TypeInv
  <1>12. CASE SamplerStep
    BY <1>12 DEF SamplerStep, TypeInv
  <1>13. CASE UNCHANGED vars
    BY <1>13 DEF vars, TypeInv
  <1>14. CASE ParsePanics
    BY <1>14 DEF ParsePanics, TypeInv
  <1> QED
    BY <1>1, <1>2, <1>3, <1>4, <1>5, <1>6, <1>7, <1>8, <1>9, <1>10, <1>11, <1>12, <1>13, <1>14 DEF Next, EventStep

(* The types of the event's state, for every scenario.                     *)
THEOREM TypesOfTheEvent == Spec => []TypeOK
  <1>1. Init => TypeInv
    BY DEF Init, TypeInv
  <1>2. OptInv /\ TypeInv /\ SamplerTypeOK => TypeOK
    BY DEF OptInv, TypeInv, TypeOK
  <1>3. SamplerInv => SamplerTypeOK
    BY DEF SamplerInv
  <1> QED
    BY <1>1, <1>2, <1>3, OptStart, OptStep, LineStart, LineStep, SamplerStart, SamplerInvStep,
       TypeStep, PTL DEF Spec
-----------------------------------------------------------------------------
(* What the steps of Decompose do to the values of a mongodb line.         *)
Same(v, n, f) == (f \in DOMAIN n <=> f \in DOMAIN v) /\ (f \in DOMAIN v => n[f] = v[f])

Database   == <<"database">>
Collection == <<"collection">>

LEMMA ShardingValues ==
  ASSUME NEW v, LineValues(v)
  PROVE  LET n == DecomposeSharding(v)
         IN /\ \A f : f \notin {Changelog, Namespace} => Same(v, n, f)
            /\ Namespace \in DOMAIN n => n[Namespace].dotted \in BOOLEAN
            /\ GivesNamespace(v) /\ Namespace \in DOMAIN n => n[Namespace].path[1] = "sharding_changelog"
  <1>1. Namespace # Changelog
    BY DEF Namespace, Changelog
  <1>2. CASE ~HasMap(v, Changelog)
    BY <1>2 DEF DecomposeSharding, Same, LineValues, GivesNamespace
  <1>3. CASE HasMap(v, Changelog) /\ v[Changelog].map = "none"
    <2>1. DecomposeSharding(v) = Without(v, Changelog)
      BY <1>3 DEF DecomposeSharding
    <2> QED
      BY <1>1, <1>3, <2>1 DEF Without, Same, LineValues, GivesNamespace
  <1>4. CASE GivesNamespace(v)
    <2> DEFINE x == Value(<<"sharding_changelog", "ns">>, v[Changelog].map # "other", v[Changelog].map = "dotted")
    <2>1. DecomposeSharding(v) = Without(With(v, Namespace, x), Changelog)
      BY <1>4 DEF DecomposeSharding, GivesNamespace
    <2>2. x.path[1] = "sharding_changelog" /\ x.dotted \in BOOLEAN
      BY DEF Value
    <2> HIDE DEF x
    <2> QED
      BY <1>1, <2>1, <2>2 DEF Without, With, Same
  <1> QED
    BY <1>2, <1>3, <1>4 DEF GivesNamespace

LEMMA NamespaceValues ==
  ASSUME NEW v, Database \notin DOMAIN v, Namespace \in DOMAIN v => v[Namespace].dotted \in BOOLEAN
  PROVE  LET n == DecomposeNamespace(v)
         IN /\ \A f : f \notin {Database, Collection} => Same(v, n, f)
            /\ Database \in DOMAIN n <=> Namespace \in DOMAIN v /\ v[Namespace].dotted
            /\ Database \in DOMAIN n => n[Database].path = Append(v[Namespace].path, "first")
  <1>1. CASE Namespace \notin DOMAIN v \/ ~v[Namespace].dotted
    BY <1>1 DEF DecomposeNamespace, Same
  <1>2. CASE Namespace \in DOMAIN v /\ v[Namespace].dotted
    <2> DEFINE part(p) == Value(Append(v[Namespace].path, p), TRUE, FALSE)
               a == part("first")
               b == part("rest")
    <2>1. DecomposeNamespace(v) = With(With(v, Collection, b), Database, a)
      BY <1>2 DEF DecomposeNamespace, Database, Collection
    <2>2. a.path = Append(v[Namespace].path, "first")
      BY DEF Value
    <2> HIDE DEF a, b
    <2> QED
      BY <1>2, <2>1, <2>2 DEF With, Same
  <1> QED
    BY <1>1, <1>2

(* The names of lock types are different, and so are the suffixes of the   *)
(* attributes that are kept: each count has a field of its own.            *)
LEMMA OwnLockField ==
  ASSUME NEW locks, locks \subseteq [scope : Scopes, attr : Attrs, type : LockTypes],
         NEW k \in Kept(locks), NEW l \in Kept(locks), LockField(k) = LockField(l)
  PROVE  k = l
  <1>1. /\ k \in [scope : Scopes, attr : Attrs, type : LockTypes] /\ LockSuffix(k.attr) # "none"
        /\ l \in [scope : Scopes, attr : Attrs, type : LockTypes] /\ LockSuffix(l.attr) # "none"
    BY DEF Kept
  <1>2. k.scope = l.scope /\ LockName(k.type) = LockName(l.type) /\ LockSuffix(k.attr) = LockSuffix(l.attr)
    BY DEF LockField
  <1>3. /\ LockName("r") = "read" /\ LockName("R") = "Read" /\ LockName("w") = "write" /\ LockName("W") = "W"
    BY DEF LockName
  <1>4. /\ LockSuffix("acquireCount") = "lock" /\ LockSuffix("acquireWaitCount") = "lock_wait"
        /\ LockSuffix("timeAcquiringMicros") = "lock_wait_us" /\ LockSuffix("deadlockCount") = "none"
    BY DEF LockSuffix
  <1>5. k.type = l.type
    BY <1>1, <1>2, <1>3 DEF LockTypes
  <1>6. k.attr = l.attr
    BY <1>1, <1>2, <1>4 DEF Attrs
  <1> QED
    BY <1>1, <1>2, <1>5, <1>6

LEMMA LocksValues ==
  ASSUME NEW v, HasMap(v, Locks) => v[Locks].map \subseteq [scope : Scopes, attr : Attrs, type : LockTypes]
  PROVE  LET n == DecomposeLocks(v)
         IN /\ Same(v, n, Namespace) /\ Same(v, n, Database) /\ Same(v, n, LocksMicros)
            /\ HasMap(v, Locks) => \A l \in Kept(v[Locks].map) :
                 /\ LockField(l) \in DOMAIN n
                 /\ n[LockField(l)].path = <<"locks", l.scope, l.attr, l.type>>
  <1>1. CASE ~HasMap(v, Locks)
    BY <1>1 DEF DecomposeLocks, Same
  <1>2. CASE HasMap(v, Locks)
    <2> DEFINE counts == Kept(v[Locks].map)
               fields == {LockField(c) : c \in counts}
               path(l) == <<"locks", l.scope, l.attr, l.type>>
               at(f) == CHOOSE c \in counts : LockField(c) = f
               value(f) == Value(path(at(f)), FALSE, FALSE)
               rest == Without(v, Locks)
               n == DecomposeLocks(v)
    <2>1. n = [f \in DOMAIN rest \cup fields |-> IF f \in fields THEN value(f) ELSE rest[f]]
      BY <1>2, Zenon DEF DecomposeLocks, WithCounts
    <2>2. ASSUME NEW l \in counts PROVE LockField(l) \in fields /\ at(LockField(l)) = l
      <3>1. at(LockField(l)) \in counts /\ LockField(at(LockField(l))) = LockField(l)
        OBVIOUS
      <3>2. v[Locks].map \subseteq [scope : Scopes, attr : Attrs, type : LockTypes]
        BY <1>2
      <3> QED
        BY <3>1, <3>2, OwnLockField
    <2>3. \A l \in counts : value(LockField(l)).path = path(l)
      BY <2>2 DEF Value
    <2>4. Namespace \notin fields /\ Database \notin fields /\ LocksMicros \notin fields
      BY DEF LockField, Namespace, Database, LocksMicros
    <2>5. /\ Namespace # Locks /\ Database # Locks /\ LocksMicros # Locks
      BY DEF Namespace, Database, LocksMicros, Locks
    <2> HIDE DEF fields, value, n, counts
    <2>6. Same(v, n, Namespace) /\ Same(v, n, Database) /\ Same(v, n, LocksMicros)
      BY <2>1, <2>4, <2>5 DEF Same, Without
    <2>7. \A l \in counts : LockField(l) \in DOMAIN n /\ n[LockField(l)].path = path(l)
      BY <2>1, <2>2, <2>3
    <2> QED
      BY <2>6, <2>7 DEF n, counts
  <1> QED
    BY <1>1, <1>2

LEMMA LocksMicrosValues ==
  ASSUME NEW v
  PROVE  LET n == DecomposeLocksMicros(v)
         IN /\ Same(v, n, Namespace) /\ Same(v, n, Database)
            /\ \A l : Same(v, n, LockField(l))
  <1>1. CASE ~HasMap(v, LocksMicros)
    BY <1>1 DEF DecomposeLocksMicros, Same
  <1>2. CASE HasMap(v, LocksMicros)
    <2> DEFINE counts == v[LocksMicros].map
               field(t) == <<LockName(t), "lock_held_us">>
               fields == {field(c) : c \in counts}
               value(f) == Value(<<"locks(micros)", CHOOSE c \in counts : field(c) = f>>, FALSE, FALSE)
               rest == Without(v, LocksMicros)
               n == DecomposeLocksMicros(v)
    <2>1. n = [f \in DOMAIN rest \cup fields |-> IF f \in fields THEN value(f) ELSE rest[f]]
      BY <1>2, Zenon DEF DecomposeLocksMicros, WithCounts
    <2>2. Namespace \notin fields /\ Database \notin fields /\ \A l : LockField(l) \notin fields
      BY DEF LockField, Namespace, Database
    <2>3. Namespace # LocksMicros /\ Database # LocksMicros /\ \A l : LockField(l) # LocksMicros
      BY DEF LockField, Namespace, Database, LocksMicros
    <2> HIDE DEF fields, value, n
    <2>4. ASSUME NEW f, f \notin fields, f # LocksMicros PROVE Same(v, n, f)
      BY <2>1, <2>4 DEF Same, Without
    <2>5. Same(v, n, Namespace) /\ Same(v, n, Database) /\ \A l : Same(v, n, LockField(l))
      BY <2>2, <2>3, <2>4
    <2> QED
      BY <2>5 DEF n
  <1> QED
    BY <1>1, <1>2

(* Whatever steps overwrite and delete, what was split and counted is      *)
(* there at the end.                                                       *)
LEMMA DecomposedValues ==
  ASSUME NEW v, LineValues(v), Database \notin DOMAIN v
  PROVE  LET n == Decompose(v)
         IN /\ Namespace \in DOMAIN n =>
                 /\ GivesNamespace(v) => n[Namespace].path[1] = "sharding_changelog"
                 /\ n[Namespace].dotted <=> Database \in DOMAIN n
                 /\ n[Namespace].dotted => n[Database].path = Append(n[Namespace].path, "first")
            /\ HasMap(v, Locks) => \A l \in Kept(v[Locks].map) :
                 /\ LockField(l) \in DOMAIN n
                 /\ n[LockField(l)].path = <<"locks", l.scope, l.attr, l.type>>
  <1> DEFINE a == DecomposeSharding(v)
             b == DecomposeNamespace(a)
             c == DecomposeLocks(b)
             n == DecomposeLocksMicros(c)
  <1>0. /\ Database \notin {Changelog, Namespace} /\ Locks \notin {Changelog, Namespace}
        /\ Namespace \notin {Database, Collection} /\ Locks \notin {Database, Collection}
    BY DEF Database, Collection, Changelog, Namespace, Locks
  <1>1. /\ Same(v, a, Locks) /\ Same(v, a, Database)
        /\ Namespace \in DOMAIN a => a[Namespace].dotted \in BOOLEAN
        /\ GivesNamespace(v) /\ Namespace \in DOMAIN a
             => a[Namespace].path[1] = "sharding_changelog"
    BY <1>0, ShardingValues
  <1> HIDE DEF a
  <1>2. Database \notin DOMAIN a
    BY <1>1 DEF Same
  <1>3. /\ Same(a, b, Locks) /\ Same(a, b, Namespace)
        /\ Database \in DOMAIN b <=> Namespace \in DOMAIN a /\ a[Namespace].dotted
        /\ Database \in DOMAIN b => b[Database].path = Append(a[Namespace].path, "first")
    BY <1>0, <1>1, <1>2, NamespaceValues
  <1> HIDE DEF b
  <1>4. /\ HasMap(b, Locks) <=> HasMap(v, Locks)
        /\ HasMap(b, Locks) => b[Locks] = v[Locks]
        /\ HasMap(b, Locks) => b[Locks].map \subseteq [scope : Scopes, attr : Attrs, type : LockTypes]
    BY <1>1, <1>3 DEF LineValues, HasMap, Same
  <1>5. /\ Same(b, c, Namespace) /\ Same(b, c, Database)
        /\ HasMap(b, Locks) => \A l \in Kept(b[Locks].map) :
             LockField(l) \in DOMAIN c /\ c[LockField(l)].path = <<"locks", l.scope, l.attr, l.type>>
    BY <1>4, LocksValues
  <1> HIDE DEF c
  <1>6. Same(c, n, Namespace) /\ Same(c, n, Database) /\ \A l : Same(c, n, LockField(l))
    BY LocksMicrosValues
  <1>7. n = Decompose(v)
    BY DEF a, b, c, Decompose
  <1> HIDE DEF n
  <1>8. /\ Namespace \in DOMAIN n =>
             /\ GivesNamespace(v) => n[Namespace].path[1] = "sharding_changelog"
             /\ n[Namespace].dotted <=> Database \in DOMAIN n
             /\ n[Namespace].dotted => n[Database].path = Append(n[Namespace].path, "first")
    BY <1>1, <1>3, <1>5, <1>6 DEF Same
  <1>9. HasMap(v, Locks) => \A l \in Kept(v[Locks].map) :
          /\ LockField(l) \in DOMAIN n
          /\ n[LockField(l)].path = <<"locks", l.scope, l.attr, l.type>>
    BY <1>4, <1>5, <1>6 DEF Same
  <1> QED
    BY <1>7, <1>8, <1>9

(* The line of a scenario, for mongodb: its values.                        *)
ValuesInv ==
  flags.parser = "mongodb" => LineValues(line.values) /\ Database \notin DOMAIN line.values

(* What Parse leaves of the values.                                        *)
ParsedInv ==
  stage = "drop" /\ opt.parser = "mongodb" =>
    LET n == Decompose(line.values)
    IN DOMAIN parsed = DOMAIN n /\ \A f \in DOMAIN n : parsed[f].value = n[f]

LEMMA ParsedStep == ParsedInv /\ [Next]_vars => ParsedInv'
  <1> SUFFICES ASSUME ParsedInv, [Next]_vars PROVE ParsedInv'
    OBVIOUS
  <1>1. CASE stage' # "drop"
    BY <1>1 DEF ParsedInv
  <1>2. CASE UNCHANGED <<stage, scenario, opt, parsed, time>>
    BY <1>2 DEF ParsedInv
  <1>3. CASE Parse /\ opt.parser = "mongodb"
    <2>1. UNCHANGED <<scenario, opt>> /\ ParseMongo
      BY <1>3 DEF Parse, ParseMongo, ParseFields, ParseMySQL
    <2> PICK n : n = Decompose(line.values)
      OBVIOUS
    <2>2. parsed' = [f \in DOMAIN n |-> [kind |-> IF n[f].text THEN "text" ELSE "other",
                                         empty |-> FALSE, date |-> NoDate, value |-> n[f]]]
      BY <2>1 DEF ParseMongo
    <2>3. DOMAIN parsed' = DOMAIN n /\ \A f \in DOMAIN n : parsed'[f].value = n[f]
      BY <2>2
    <2> QED
      BY <2>1, <2>3 DEF ParsedInv
  <1>4. CASE Parse /\ opt.parser # "mongodb"
    <2>1. UNCHANGED opt
      BY <1>4, Zenon DEF Parse
    <2> QED
      BY <1>4, <2>1 DEF ParsedInv
  <1> QED
    BY <1>1, <1>2, <1>3, <1>4, OnlyParse

(* Of a mongodb line the namespace, its parts and the lock counts arrive,  *)
(* whichever values there are, unless the line has a field that is called  *)
(* like the part of a namespace.                                           *)
THEOREM MongoValuesArrive ==
  ASSUME \A s \in Scenarios : s.flags.parser = "mongodb" => Database \notin DOMAIN s.line.values
  PROVE  Spec => []MongoValuesKept
  <1>1. Init => ValuesInv /\ ParsedInv
    <2> SUFFICES ASSUME Init PROVE ValuesInv /\ ParsedInv
      OBVIOUS
    <2>1. PICK s \in Scenarios : flags = s.flags /\ line = s.line
      BY DEF Init
    <2>2. s.flags.parser = "mongodb" => LineValues(s.line.values)
      BY ScenarioAssumption
    <2> QED
      BY <2>1, <2>2 DEF Init, ValuesInv, ParsedInv
  <1>2. ValuesInv /\ [Next]_vars => ValuesInv'
    BY SameLine DEF ValuesInv
  <1>3. OptInv /\ ValuesInv /\ ParsedInv => MongoValuesKept
    <2> SUFFICES ASSUME OptInv, ValuesInv, ParsedInv, stage = "drop", opt.parser = "mongodb"
                 PROVE  MongoValuesKept
      BY DEF MongoValuesKept
    <2>1. LineValues(line.values) /\ Database \notin DOMAIN line.values
      BY EffectiveOptions DEF OptInv, ValuesInv
    <2> PICK n : n = Decompose(line.values)
      OBVIOUS
    <2>2. DOMAIN parsed = DOMAIN n /\ \A f \in DOMAIN n : parsed[f].value = n[f]
      BY DEF ParsedInv
    <2>3. /\ Namespace \in DOMAIN n =>
               /\ GivesNamespace(line.values)
                    => n[Namespace].path[1] = "sharding_changelog"
               /\ n[Namespace].dotted <=> Database \in DOMAIN n
               /\ n[Namespace].dotted => n[Database].path = Append(n[Namespace].path, "first")
          /\ HasMap(line.values, Locks) => \A l \in Kept(line.values[Locks].map) :
               /\ LockField(l) \in DOMAIN n
               /\ n[LockField(l)].path = <<"locks", l.scope, l.attr, l.type>>
      BY <2>1, DecomposedValues
    <2>4. HasMap(line.values, Locks) => \A l \in Kept(line.values[Locks].map) :
            \E f \in DOMAIN parsed : parsed[f].value.path = <<"locks", l.scope, l.attr, l.type>>
      BY <2>2, <2>3
    <2>5. Namespace \in DOMAIN parsed =>
            /\ parsed[Namespace].value = n[Namespace]
            /\ Database \in DOMAIN parsed => parsed[Database].value = n[Database]
      BY <2>2
    <2> QED
      BY <2>2, <2>3, <2>4, <2>5 DEF MongoValuesKept, Database
  <1> QED
    BY <1>1, <1>2, <1>3, ParsedStep, OptStart, OptStep, PTL DEF Spec
=============================================================================
