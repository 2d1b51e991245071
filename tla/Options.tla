------------------------------- MODULE Options -------------------------------
(***************************************************************************)
(* The options of dbtail that decide what becomes of an event, and what    *)
(* main() makes of them before run() sees them (main.go): --backfill, the  *)
(* defaults of the parser, and the options that are refused.               *)
(*                                                                         *)
(* A field of an event is a tuple of words: <<"request">>, or              *)
(* <<"request", "path">>, which request shaping derives from it.  Lists of *)
(* fields keep their order only where it matters.                          *)
(***************************************************************************)
EXTENDS Integers, Sequences

Request == <<"request">>
NoField == <<>>

(* An option record (OptionSet) has these fields.                          *)
(*   parser      --parser                                                  *)
(*   sampleRate  --samplerate                                              *)
(*   dynSample   whether there is a --dynsampling field                    *)
(*   goal        GoalSampleRate, not a flag                                *)
(*   tailSample  TailSample, not a flag                                    *)
(*   drop, scrub, add      the fields of --drop_field, --scrub_field and   *)
(*                         --add_field                                     *)
(*   shape       the list of --request_shape                               *)
(*   prefixed    whether there is a --shape_prefix                         *)
(*   query       --request_parse_query                                     *)
(*   listed      whether the query key of the line is a                    *)
(*               --request_query_keys                                      *)
(*   timeField   the parser's time field option, or NoField                *)
(*   timeFormat  whether there is one of its format; nginx heeds it        *)
(*   backfill, backOff, stop, readFrom   --backfill, --backoff,            *)
(*                         --tail.stop and --tail.read_from                *)

(* Every text is a word; the two that are named here, which main() sets,    *)
(* spare the provers the question whether they are texts.                  *)
Word  == STRING \cup {"request", "beginning"}
Field == Seq(Word)

OptionSet ==
  [parser : STRING, sampleRate : Nat, dynSample : BOOLEAN, goal : Nat, tailSample : BOOLEAN,
   drop : SUBSET Field, scrub : SUBSET Field, add : SUBSET Field, shape : Seq(Field),
   prefixed : BOOLEAN, query : STRING, listed : BOOLEAN, timeField : Field, timeFormat : BOOLEAN,
   backfill : BOOLEAN, backOff : BOOLEAN, stop : BOOLEAN, readFrom : Word]

(* What no flag was given for.                                             *)
Defaults ==
  [parser |-> "json", sampleRate |-> 1, dynSample |-> FALSE, goal |-> 0, tailSample |-> FALSE,
   drop |-> {}, scrub |-> {}, add |-> {}, shape |-> <<>>, prefixed |-> FALSE,
   query |-> "whitelist", listed |-> FALSE, timeField |-> NoField, timeFormat |-> FALSE,
   backfill |-> FALSE, backOff |-> FALSE, stop |-> FALSE, readFrom |-> "last"]

(* The flag alias --backfill.                                              *)
BackfillOptions(o) ==
  IF o.backfill THEN [o EXCEPT !.backOff = TRUE, !.readFrom = "beginning", !.stop = TRUE] ELSE o

ParserRequestShape(o) ==
  IF o.parser = "nginx" THEN [o EXCEPT !.shape = Append(@, Request)] ELSE o

SamplingOptionsKeepRate(o) ==  \* the rate stays what it was with dynamic sampling
  IF o.dynSample
    THEN [o EXCEPT !.tailSample = FALSE, !.goal = o.sampleRate]
    ELSE [o EXCEPT !.tailSample = o.parser # "mysql"]

(* Lines are sampled when they are tailed, groups of lines in the mysql    *)
(* parser, and with dynamic sampling only events are.                      *)
SamplingOptions(o) ==
  IF o.dynSample
    THEN [o EXCEPT !.tailSample = FALSE, !.goal = o.sampleRate, !.sampleRate = 1]
    ELSE [o EXCEPT !.tailSample = o.parser # "mysql"]

Effective(flags) == SamplingOptions(ParserRequestShape(BackfillOptions(flags)))

(* sanityCheckOptions exits.                                               *)
Refused(o) ==
  \/ o.sampleRate = 0
  \/ o.readFrom = "end" /\ o.stop
  \/ o.query \notin {"whitelist", "all"}
  \/ o.dynSample /\ o.sampleRate <= 1 /\ o.goal <= 1
=============================================================================
