------------------------------ MODULE EventTime ------------------------------
(***************************************************************************)
(* The time of an event: GetTimestamp of httime, which looks for a field   *)
(* with a time, the year that mongodb's parser adds to a date without one, *)
(* and the two times of a mysql entry.  A time is a date; what the formats *)
(* recognise in a text is the date it stands for, or NoDate.               *)
(***************************************************************************)
EXTENDS Integers, Sequences

Date   == [y : Nat \ {0}, m : 1 .. 12, d : 1 .. 31]
NoDate == [y |-> 0, m |-> 0, d |-> 0]

Before(a, b) == \/ a.y < b.y
                \/ a.y = b.y /\ a.m < b.m
                \/ a.y = b.y /\ a.m = b.m /\ a.d < b.d

Leap(y) == (y % 4 = 0 /\ y % 100 # 0) \/ y % 400 = 0

(* time.AddDate(y, 0, 0) of a day of the year 0, which is a leap year: the *)
(* 29th of February becomes the 1st of March when y has no such day.       *)
InYear(day, y) ==
  IF day.m = 2 /\ day.d = 29 /\ ~Leap(y)
    THEN [y |-> y, m |-> 3, d |-> 1]
    ELSE [y |-> y, m |-> day.m, d |-> day.d]

(* A day that the calendar of its year has.                                *)
Real(date) == InYear(date, date.y) = date
-----------------------------------------------------------------------------
ThisYear(day, now) == InYear(day, now.y)  \* a date in the future is left as it is

(* mongodb's parseTimestamp: a date without a year is of this year, unless *)
(* it would not be in the past.                                            *)
LastPast(day, now) ==
  IF Before(InYear(day, now.y), now) THEN InYear(day, now.y) ELSE InYear(day, now.y - 1)
-----------------------------------------------------------------------------
(* The content of a field: kind is "text", "int" (GetTimestamp reads it,   *)
(* too) or "other"; empty tells the empty text; date is the time that the  *)
(* formats find in it.                                                     *)
Content == [kind : {"text", "int", "other"}, empty : BOOLEAN, date : Date \cup {NoDate}]

(* possibleTimeFieldNames, some of them, in their order.                   *)
TimeFieldNames == << <<"time">>, <<"timestamp">>, <<"date">> >>

Least(S)    == CHOOSE i \in S : \A j \in S : i <= j
Greatest(S) == CHOOSE i \in S : \A j \in S : j <= i

(* The places in TimeFieldNames of the fields of m that are texts, and of  *)
(* those that a time is found in.                                          *)
Candidates(m) == {i \in DOMAIN TimeFieldNames :
                    TimeFieldNames[i] \in DOMAIN m /\ m[TimeFieldNames[i]].kind = "text"}
Parsable(m)   == {i \in Candidates(m) : m[TimeFieldNames[i]].date # NoDate}

GuessLast(m, now) ==  \* the loop does not stop at a field that parses
  IF Candidates(m) = {} THEN [time |-> now, field |-> <<>>]
  ELSE LET f == TimeFieldNames[Greatest(Candidates(m))]
       IN [time |-> IF m[f].date = NoDate THEN now ELSE m[f].date, field |-> f]

(* Without a specified field: the first candidate that parses, or now.     *)
(* field is the last candidate that was tried.                             *)
Guess(m, now) ==
  IF Parsable(m) # {}
    THEN LET f == TimeFieldNames[Least(Parsable(m))] IN [time |-> m[f].date, field |-> f]
    ELSE [time |-> now, field |-> IF Candidates(m) = {} THEN <<>>
                                  ELSE TimeFieldNames[Greatest(Candidates(m))]]

(* With a specified field: no other is looked at.  The empty text is left  *)
(* with the zero time.                                                     *)
Specified(m, name, now) ==
  [time |-> IF name \notin DOMAIN m \/ m[name].kind = "other" THEN now
            ELSE IF m[name].empty THEN NoDate
            ELSE IF m[name].date = NoDate THEN now
            ELSE m[name].date,
   field |-> name]

(* GetTimestamp: the time, and the field that is deleted from the event.   *)
GetTimestamp(m, name, now) == IF name = <<>> THEN Guess(m, now) ELSE Specified(m, name, now)
-----------------------------------------------------------------------------
(* The times of mysql's "# Time:" and "SET timestamp=" lines, NoDate for a *)
(* line that is missing.  When both are there the fraction of a second is  *)
(* the comment's, which is below what a date tells.                        *)
CombinedTime(comment, set, now) ==
  IF set # NoDate THEN set ELSE IF comment # NoDate THEN comment ELSE now
=============================================================================
