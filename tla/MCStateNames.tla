---------------------------- MODULE MCStateNames ----------------------------
(***************************************************************************)
(* Configurations of StateNames for TLC: one glob, an exact file, a glob   *)
(* beside an exact file or another glob of the same names in another       *)
(* directory, a glob over directories, one without .log, two that overlap. *)
(***************************************************************************)
EXTENDS StateNames

File(d, s, l)  == [dir |-> d, stem |-> s, log |-> l]
Glob(D, S, l)  == [dirs |-> D, stems |-> S, log |-> l, glob |-> TRUE]
Exact(d, s, l) == [dirs |-> {d}, stems |-> {s}, log |-> l, glob |-> FALSE]
Config(P, s, k) == [paths |-> P, state |-> s, kind |-> k]

McLogs == {File("a", "x", TRUE), File("a", "y", TRUE), File("b", "x", TRUE), File("a", "x", FALSE)}

AllOf(d) == Glob({d}, {"x", "y"}, TRUE)

McConfigs ==
  {Config({Exact("a", "x", TRUE)}, s, k) : s \in {"slash", "plain"}, k \in {"missing", "file", "dir"}}
  \cup {Config({AllOf("a")}, "plain", k) : k \in {"missing", "file"}}
  \cup {Config(P, s, "missing") : s \in {"unset", "plain"},
          P \in {{AllOf("a"), Exact("b", "x", TRUE)}, {Glob({"a", "b"}, {"x"}, TRUE)},
                 {Exact("a", "x", TRUE), Exact("a", "y", TRUE)}}}
  \cup {Config(P, "unset", "missing") :
          P \in {{AllOf("a"), AllOf("b")}, {Glob({"a"}, {"x", "y"}, FALSE)},
                 {AllOf("a"), Glob({"a"}, {"x"}, TRUE)}}}
=============================================================================
