------------------------------- MODULE Events -------------------------------
(***************************************************************************)
(* The way of one event through dbtail: main() turns the flags into        *)
(* options, the line is sampled, its parser makes the fields and the time, *)
(* modifyEventContents drops, scrubs, adds and shapes fields and samples   *)
(* the event, sendEvent hands it on.  The goroutines and channels of this  *)
(* way are module Pipeline; here it is what happens to the content.  Other *)
(* events are seen only by the dynamic sampler they share.                 *)
(***************************************************************************)
EXTENDS Options, EventTime, MongoEvent, DynSampler

CONSTANT Scenarios  (* the flags, lines and times that are looked at *)

ASSUME ScenarioAssumption ==
  \A s \in Scenarios :
    /\ s.flags \in OptionSet /\ s.now \in Date /\ s.now.y > 1
    /\ CASE s.flags.parser = "mysql"   -> {s.line.comment, s.line.set} \subseteq Date \cup {NoDate}
         [] s.flags.parser = "mongodb" -> s.line.date \in Date /\ LineValues(s.line.values)
         [] OTHER -> \A f \in DOMAIN s.line.fields : s.line.fields[f] \in Content

(* A scenario: flags are options of module Options, now is when the line   *)
(* is read, and line is what the parser finds in it:                       *)
(*   mysql    [fields, comment, set]: the fields of a group of lines and   *)
(*            the times of two of them;                                    *)
(*   mongodb  [values, date, year]: the values of module MongoEvent, when  *)
(*            the line was written, and whether it tells the year;         *)
(*   others   [fields]: the fields, time fields with them.                 *)
VARIABLES
  flags, line, now,
  opt,     (* the options after main() *)
  stage,   (* what is to be done next *)
  nextField,  (* the next field of opt.shape *)
  parsed,  (* the fields the parser has sent *)
  data,    (* ev.Data: [of, how], which parser's field, and what was done to it *)
  time,    (* ev.Timestamp *)
  rate,    (* ev.SampleRate *)
  factor   (* one of this many lines like this one is kept, by all samplers so far *)

scenario == <<flags, line, now>>
content  == <<parsed, data, time>>
vars == <<scenario, opt, stage, nextField, content, rate, factor, sampler>>

Stages == {"flags", "tail", "parse", "drop", "scrub", "add", "shape", "sample", "send",
           "sent", "dropped", "refused", "panicked"}

(* A value of the parser, one that went through the hash, one of an option. *)
Raw(f)    == [of |-> f, how |-> "raw"]
Hashed(f) == [of |-> f, how |-> "hashed"]
Added     == [of |-> NoField, how |-> "added"]

Init ==
  /\ \E s \in Scenarios : flags = s.flags /\ line = s.line /\ now = s.now
  /\ opt = flags /\ stage = "flags" /\ nextField = 1
  /\ parsed = <<>> /\ data = <<>> /\ time = NoDate
  /\ rate = 0 /\ factor = 1
  /\ SamplerInit
-----------------------------------------------------------------------------
Main ==
  /\ stage = "flags"
  /\ opt' = Effective(flags)
  /\ stage' = IF Refused(opt') THEN "refused" ELSE "tail"
  /\ UNCHANGED <<scenario, nextField, content, rate, factor, sampler>>

(* One of n is kept.                                                       *)
Keep(n, then) ==
  \/ stage' = then /\ factor' = factor * n
  \/ n > 1 /\ stage' = "dropped" /\ UNCHANGED factor

(* WatchSampledEntries, or no sampling; in the mysql parser a group of     *)
(* lines.                                                                  *)
SampleLine ==
  /\ stage = "tail"
  /\ Keep(IF opt.tailSample \/ opt.parser = "mysql" THEN opt.sampleRate ELSE 1, "parse")
  /\ UNCHANGED <<scenario, opt, nextField, content, rate, sampler>>

(* The field that GetTimestamp is told to look at.  nginx looks for two of *)
(* its own before it guesses.                                              *)
TimeField ==
  IF opt.timeField # NoField \/ opt.parser # "nginx" THEN opt.timeField
  ELSE IF <<"time_local">> \in DOMAIN line.fields THEN <<"time_local">>
  ELSE IF <<"time_iso8601">> \in DOMAIN line.fields THEN <<"time_iso8601">>
  ELSE NoField

(* With one of the two options only, nginx's parser takes the present.     *)
LoneTimeOption == opt.parser = "nginx" /\ (opt.timeField = NoField <=> opt.timeFormat)

ParseFields ==
  /\ stage = "parse" /\ opt.parser \notin {"mysql", "mongodb"}
  /\ \/ /\ LoneTimeOption
        /\ time' = now /\ parsed' = line.fields
     \/ /\ ~LoneTimeOption
        /\ LET found == GetTimestamp(line.fields, TimeField, now)
           IN time' = found.time /\ parsed' = Without(line.fields, found.field)

ParseMySQL ==
  /\ stage = "parse" /\ opt.parser = "mysql"
  /\ time' = CombinedTime(line.comment, line.set, now)
  /\ parsed' = line.fields

ParseMongo ==
  /\ stage = "parse" /\ opt.parser = "mongodb" /\ ~NamespacePanics(line.values)
  /\ time' = IF line.year THEN line.date ELSE LastPast(line.date, now)
  /\ LET v == Decompose(line.values)
     IN parsed' = [f \in DOMAIN v |-> [kind |-> IF v[f].text THEN "text" ELSE "other",
                                       empty |-> FALSE, date |-> NoDate, value |-> v[f]]]

Parse ==
  /\ ParseFields \/ ParseMySQL \/ ParseMongo
  /\ data' = [f \in DOMAIN parsed' |-> Raw(f)]
  /\ stage' = "drop"
  /\ UNCHANGED <<scenario, opt, nextField, rate, factor, sampler>>

(* decomposeNamespace takes the namespace for a text.                      *)
ParsePanics ==
  /\ stage = "parse" /\ opt.parser = "mongodb" /\ NamespacePanics(line.values)
  /\ stage' = "panicked"
  /\ UNCHANGED <<scenario, opt, nextField, content, rate, factor, sampler>>
-----------------------------------------------------------------------------
(* The four steps of modifyEventContents on the content.                   *)
Munge(at, then, new) ==
  /\ stage = at /\ stage' = then
  /\ data' = new
  /\ UNCHANGED <<scenario, opt, nextField, parsed, time, rate, factor, sampler>>

Drop == Munge("drop", "scrub", [f \in DOMAIN data \ opt.drop |-> data[f]])

ScrubUnshaped ==  \* a field that is shaped later is not scrubbed
  Munge("scrub", "add",
        [f \in DOMAIN data |-> IF f \in opt.scrub /\ \A i \in DOMAIN opt.shape : f # opt.shape[i]
                                 THEN Hashed(data[f].of) ELSE data[f]])

Scrub == Munge("scrub", "add",
               [f \in DOMAIN data |-> IF f \in opt.scrub THEN Hashed(data[f].of) ELSE data[f]])

Add == Munge("add", "shape",
             [f \in DOMAIN data \cup opt.add |-> IF f \in opt.add THEN Added ELSE data[f]])

-----------------------------------------------------------------------------
IsText(f) == IF data[f].how = "raw" THEN parsed[data[f].of].kind = "text" ELSE TRUE

DerivedNoPrefix(f, part) == Append(f, part)  \* the prefix is forgotten

(* The name of the field for a part of field f.                            *)
Derived(f, part) == IF opt.prefixed THEN <<"prefix">> \o Append(f, part) ELSE Append(f, part)

(* The parts of a request: a method and a protocol when it has three       *)
(* words; then those of the path, of a path field of a request pattern,    *)
(* and of the query, if there are any.                                     *)
WordParts  == {"method", "protocol_version"}
PathParts  == {"uri", "path", "shape", "pathshape"}
QueryParts == {"query", "queryshape"} \cup (IF opt.query = "all" \/ opt.listed THEN {"query_key"} ELSE {})

RequestParts ==
  {w \cup p : w \in {{}, WordParts},
              p \in {{}} \cup {PathParts \cup q \cup k : q \in {{}, QueryParts}, k \in {{}, {"path_key"}}}}

(* requestShape.  A field that is there and not a text ends the program.   *)
ShapeField ==
  /\ stage = "shape" /\ nextField \in DOMAIN opt.shape
  /\ LET f == opt.shape[nextField]
     IN \/ /\ f \notin DOMAIN data
           /\ nextField' = nextField + 1
           /\ UNCHANGED <<data, stage>>
        \/ /\ f \in DOMAIN data /\ ~IsText(f)
           /\ stage' = "panicked"
           /\ UNCHANGED <<data, nextField>>
        \/ /\ f \in DOMAIN data /\ IsText(f)
           /\ \E parts \in RequestParts :
                data' = [g \in DOMAIN data \cup {Derived(f, p) : p \in parts} |->
                           IF \E p \in parts : g = Derived(f, p) THEN data[f] ELSE data[g]]
           /\ nextField' = nextField + 1
           /\ UNCHANGED stage
  /\ UNCHANGED <<scenario, opt, parsed, time, rate, factor, sampler>>

ShapeDone ==
  /\ stage = "shape" /\ nextField \notin DOMAIN opt.shape
  /\ stage' = "sample"
  /\ UNCHANGED <<scenario, opt, nextField, content, rate, factor, sampler>>
-----------------------------------------------------------------------------
(* Without dynamic sampling the event is stamped with the rate of the      *)
(* option.                                                                 *)
Stamp ==
  /\ stage = "sample" /\ ~opt.dynSample
  /\ rate' = opt.sampleRate
  /\ stage' = "send"
  /\ UNCHANGED <<scenario, opt, nextField, content, factor, sampler>>

(* With it the event is kept with the rate of its key, or marked.  A rate  *)
(* below 1 ends the program.                                               *)
DynSample ==
  /\ stage = "sample" /\ opt.dynSample
  /\ \E k \in Keys :
       /\ GetSampleRate(k)
       /\ LET sr == SampleRate(k, opt.goal)
          IN \/ /\ sr >= 1
                /\ rate' = sr /\ factor' = factor * sr
                /\ stage' = "send"
             \/ /\ sr > 1
                /\ rate' = -1
                /\ stage' = "send"
                /\ UNCHANGED factor
             \/ /\ sr < 1
                /\ stage' = "panicked"
                /\ UNCHANGED <<rate, factor>>
  /\ UNCHANGED <<scenario, opt, nextField, content>>

(* sendEvent.  libclick is told that the event has been sampled.           *)
Send ==
  /\ stage = "send"
  /\ stage' = IF rate = -1 THEN "dropped" ELSE "sent"
  /\ UNCHANGED <<scenario, opt, nextField, content, rate, factor, sampler>>

(* The other events that are sampled, and the ticker.                      *)
SamplerStep ==
  /\ opt.dynSample /\ stage \notin {"flags", "refused", "panicked"}
  /\ UpdateMaps(opt.goal) \/ \E k \in Keys : GetSampleRate(k)
  /\ UNCHANGED <<scenario, opt, stage, nextField, content, rate, factor>>

EventStep == \/ Main \/ SampleLine \/ Parse \/ ParsePanics
             \/ Drop \/ Scrub \/ Add \/ ShapeField \/ ShapeDone
             \/ Stamp \/ DynSample \/ Send

Next == EventStep \/ SamplerStep

Spec == Init /\ [][Next]_vars
-----------------------------------------------------------------------------
TypeOK ==
  /\ stage \in Stages /\ nextField \in Nat \ {0}
  /\ opt \in {flags, Effective(flags)}
  /\ time \in Date \cup {NoDate}
  /\ \A f \in DOMAIN data : data[f].how \in {"raw", "hashed", "added"}
  /\ rate \in Nat \cup {-1} /\ factor \in Nat \ {0}
  /\ SamplerTypeOK

(* The content of a field that is to be dropped or scrubbed is in no field *)
(* of an event that is sent, a shaped one either.  About the order of the  *)
(* steps of modifyEventContents.                                           *)
NothingHiddenIsSent ==
  stage = "sent" =>
    \A f \in DOMAIN data : data[f].how = "raw" => data[f].of \notin opt.drop \cup opt.scrub

(* A field of the parser that no option names arrives as it was, also when *)
(* its name looks like one that shaping derives and there is a prefix.     *)
(* About main.go:68 "to prevent field collision".                          *)
DerivedNames == {Derived(opt.shape[i], p) : i \in DOMAIN opt.shape,
                                            p \in WordParts \cup PathParts \cup QueryParts \cup {"path_key"}}
OthersUntouched ==
  stage = "sent" =>
    \A f \in DOMAIN parsed \ (opt.drop \cup opt.scrub \cup opt.add) :
      (IF opt.prefixed THEN f[1] # "prefix" ELSE f \notin DerivedNames)
        => f \in DOMAIN data /\ data[f] = Raw(f)

(* The rate of an event that is sent is the rate it was sampled with, of   *)
(* whichever samplers there were.  About TailSample, the mysql parser's    *)
(* SampleRate and dynamic sampling, which main() must keep apart.          *)
RateMeansRate == stage = "sent" => rate = factor

(* The parser takes a field away from the event only if it gave the time,  *)
(* or if none gave it.  About GetTimestamp's loop, which deletes the last  *)
(* field it has looked at.                                                 *)
OnlyTimeFieldLost ==
  stage = "drop" /\ opt.parser \notin {"mysql", "mongodb"} =>
    \A f \in DOMAIN line.fields \ DOMAIN parsed :
      \/ time = line.fields[f].date
      \/ f = TimeField
      \/ Parsable(line.fields) = {} /\ time = now

(* A mongodb line without the year that is read within a year is given the *)
(* day it was written.  About parseTimestamp at the turn of the year and   *)
(* on the 29th of February.                                                *)
YearRecovered ==
  (/\ stage = "drop" /\ opt.parser = "mongodb"
   /\ Real(line.date) /\ Before(line.date, now)
   /\ Before(now, InYear(line.date, line.date.y + 1))) => time = line.date

(* The database and the collection are those of the namespace, which is    *)
(* the changelog's when it has one, and every lock count is in a field of  *)
(* its own.  About the order in which values are decomposed, each of which *)
(* overwrites and deletes others, and the names given to lock types.       *)
MongoValuesKept ==
  stage = "drop" /\ opt.parser = "mongodb" =>
    /\ Namespace \in DOMAIN parsed =>
         LET ns == parsed[Namespace].value
         IN /\ GivesNamespace(line.values) => ns.path[1] = "sharding_changelog"
            /\ ns.dotted <=> <<"database">> \in DOMAIN parsed
            /\ ns.dotted => parsed[<<"database">>].value.path = Append(ns.path, "first")
    /\ HasMap(line.values, Locks) =>
         \A l \in Kept(line.values[Locks].map) :
           \E f \in DOMAIN parsed : parsed[f].value.path = <<"locks", l.scope, l.attr, l.type>>

(* Applied to the window they were calculated from, the rates of the       *)
(* dynamic sampler send no more than the goal, and an event of every key   *)
(* with a share below one.  About the shares, the rounding, the surplus    *)
(* that updateMaps hands from key to key, and the goal main() sets,        *)
(* main.go:76 "used to hold the desired sample rate".                      *)
RatesMeetGoal == GoalMet(opt.goal)
=============================================================================
