----------------------------- MODULE MongoEvent -----------------------------
(***************************************************************************)
(* What mongodb's parser makes of the values of a line                     *)
(* (parsers/mongodb/mongodb.go): the changelog of a sharded cluster gives  *)
(* its namespace to the event, a namespace is split into database and      *)
(* collection, and every lock count becomes a field.  Values are a         *)
(* function from fields; path is where in the line a value was.  A value   *)
(* that is a map is a record [map], as far as it is looked into: of the    *)
(* changelog what it holds as the namespace ("none", "plain", "dotted", or *)
(* "other", no text), of the locks the counts, of the others their types.  *)
(***************************************************************************)
EXTENDS Integers, Sequences

Namespace == <<"namespace">>
Changelog == <<"sharding_changelog">>
Locks     == <<"locks">>
LocksMicros == <<"locks(micros)">>

Scopes    == {"global", "database"}
Attrs     == {"acquireCount", "acquireWaitCount", "timeAcquiringMicros", "deadlockCount"}
LockTypes == {"r", "R", "w", "W"}

HasMap(v, f) == f \in DOMAIN v /\ "map" \in DOMAIN v[f]

(* The values of a line, as far as they are looked into.                   *)
LineValues(v) ==
  /\ Namespace \in DOMAIN v => v[Namespace].dotted \in BOOLEAN
  /\ HasMap(v, Changelog) => v[Changelog].map \in {"none", "plain", "dotted", "other"}
  /\ HasMap(v, Locks) => v[Locks].map \subseteq [scope : Scopes, attr : Attrs, type : LockTypes]

Without(v, f) == [g \in DOMAIN v \ {f} |-> v[g]]
With(v, f, x) == [g \in DOMAIN v \cup {f} |-> IF g = f THEN x ELSE v[g]]

(* A value: whether it is a text, and a text with a dot.                   *)
Value(path, text, dotted) == [path |-> path, text |-> text, dotted |-> dotted]
-----------------------------------------------------------------------------
GivesNamespace(v) == HasMap(v, Changelog) /\ v[Changelog].map # "none"

DecomposeSharding(v) ==
  IF ~HasMap(v, Changelog) THEN v
  ELSE LET ns == v[Changelog].map
       IN Without(IF ns = "none" THEN v
                  ELSE With(v, Namespace, Value(<<"sharding_changelog", "ns">>, ns # "other", ns = "dotted")),
                  Changelog)

(* The namespace to split is no text, which nothing tests.                 *)
NamespacePanics(v) ==
  LET w == DecomposeSharding(v) IN Namespace \in DOMAIN w /\ ~w[Namespace].text

DecomposeNamespace(v) ==
  IF Namespace \notin DOMAIN v \/ ~v[Namespace].dotted THEN v
  ELSE LET part(p) == Value(Append(v[Namespace].path, p), TRUE, FALSE)
       IN With(With(v, <<"collection">>, part("rest")), <<"database">>, part("first"))

(* The last case of the source tests "w" again, so "W" keeps its letter.   *)
LockName(t) == CASE t = "r" -> "read" [] t = "R" -> "Read" [] t = "w" -> "write" [] t = "W" -> "W"

LockSuffix(attr) ==
  CASE attr = "acquireCount" -> "lock" [] attr = "acquireWaitCount" -> "lock_wait"
    [] attr = "timeAcquiringMicros" -> "lock_wait_us" [] attr = "deadlockCount" -> "none"

LockField(l) == <<l.scope, LockName(l.type), LockSuffix(l.attr)>>

(* The counts of other attributes are left out.                            *)
Kept(locks) == {l \in locks : LockSuffix(l.attr) # "none"}

(* v is overwritten by the fields of these counts, in any order.           *)
WithCounts(v, counts, field(_), path(_)) ==
  LET fields == {field(c) : c \in counts}
  IN [f \in DOMAIN v \cup fields |->
        IF f \in fields THEN Value(path(CHOOSE c \in counts : field(c) = f), FALSE, FALSE) ELSE v[f]]

DecomposeLocks(v) ==
  IF ~HasMap(v, Locks) THEN v
  ELSE LET path(l) == <<"locks", l.scope, l.attr, l.type>>
       IN WithCounts(Without(v, Locks), Kept(v[Locks].map), LockField, path)

DecomposeLocksMicros(v) ==
  IF ~HasMap(v, LocksMicros) THEN v
  ELSE LET field(t) == <<LockName(t), "lock_held_us">>
           path(t) == <<"locks(micros)", t>>
       IN WithCounts(Without(v, LocksMicros), v[LocksMicros].map, field, path)

DecomposeNamespaceFirst(v) ==  \* the namespace is split before the changelog sets it
  DecomposeLocksMicros(DecomposeLocks(DecomposeSharding(DecomposeNamespace(v))))

Decompose(v) == DecomposeLocksMicros(DecomposeLocks(DecomposeNamespace(DecomposeSharding(v))))
=============================================================================
