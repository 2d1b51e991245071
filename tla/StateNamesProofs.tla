-------------------------- MODULE StateNamesProofs --------------------------
(***************************************************************************)
(* Proofs about StateNames, for all logfiles and configurations: a         *)
(* logfile that shares its stem with no other one keeps its state file,    *)
(* whatever is cleaned up beside it.                                       *)
(***************************************************************************)
EXTENDS StateNames, TLAPS

USE DEF logs, disk, proc, past

(* The name of f's state file, as all calls of getStateFile agree on it.   *)
NameOf(f) == StateName(f, TRUE, pathKind)

Wanted(f) == \E p \in paths : Matches(p, f)

(* The strengthening.  Once a run has started, the path of --tail.state_   *)
(* file is a directory if it has to be; only a single exact path does      *)
(* without, and then totalFiles is 1.                                      *)
Prepared ==
  /\ up => runs > 0
  /\ ~up => todo = {} /\ known = {} /\ tailers = {}
  /\ runs = 0 => /\ opened = {} /\ \A f \in Logs : last[f] = Never
                 /\ \A n \in Names : states[n] = Absent
  /\ config.state # "unset" /\ DirectoryState /\ runs > 0 => pathKind = "dir"
  /\ todo # {} /\ ~DirectoryState => single

Named ==
  /\ \A f \in opened : Wanted(f)
  /\ \A t \in tailers : t.log \in opened /\ t.name = NameOf(t.log)

Kept ==
  \A f \in Logs : last[f] # Never =>
    /\ f \in opened
    /\ f \in present /\ Alone(f) /\ Undisturbed(f) => states[NameOf(f)] = At(f, last[f])

New ==
  \A f \in Logs : Wanted(f) /\ Alone(f) /\ f \notin opened => states[NameOf(f)] = Absent

Inv == TypeOK /\ Prepared /\ Named /\ Kept /\ New
-----------------------------------------------------------------------------
LEMMA ConfigType ==
  ASSUME TypeOK
  PROVE  /\ config.state \in {"unset", "slash", "plain"} /\ paths # {}
         /\ paths \subseteq UNION {c.paths : c \in Configs}
         /\ \A p \in paths : ~p.glob => \E d \in p.dirs, s \in p.stems : p.dirs = {d} /\ p.stems = {s}
  BY StateNamesAssumption DEF TypeOK, paths

LEMMA NameType == \A f \in Logs, one \in BOOLEAN : \A k : StateName(f, one, k) \in Names
  BY DEF StateName, Names, Stems, Itself

LEMMA NameOfType == (\A f \in Logs : NameOf(f) \in Names) /\ (\A f \in Logs : NameOf(f)' \in Names)
  BY DEF NameOf, StateName, Names, Stems, Itself

LEMMA CellType ==
  /\ Absent \in StateFile /\ Blank \in StateFile
  /\ \A f \in Logs \cup {NoLog}, o \in 0 .. MaxSize : At(f, o) \in StateFile
  BY StateNamesAssumption DEF Absent, Blank, At, StateFile

LEMMA CellKinds ==
  /\ Absent.kind = "absent" /\ Blank.kind = "blank"
  /\ \A f, o : At(f, o).kind = "at" /\ At(f, o).log = f /\ At(f, o).off = o
  BY DEF Absent, Blank, At

LEMMA OffsetType ==
  ASSUME TypeOK, NEW f \in Logs, NEW n \in Names, NEW g
  PROVE  StartOffset(g, f, states[n]) \in 0 .. MaxSize
  <1>1. states[n] \in StateFile /\ size[f] \in 0 .. MaxSize
    BY DEF TypeOK
  <1>2. states[n].kind \in {"absent", "blank", "at"} /\ states[n].off \in 0 .. MaxSize
    BY <1>1 DEF StateFile
  <1>3. 0 \in 0 .. MaxSize
    BY StateNamesAssumption
  <1> QED
    BY <1>1, <1>2, <1>3 DEF StartOffset

(* The one logfile of an exact path.                                       *)
LEMMA ExactIsOne ==
  ASSUME TypeOK, ~DirectoryState, NEW f \in Logs, NEW g \in Logs, Wanted(f), Wanted(g)
  PROVE  f = g
  <1>1. PICK p \in paths : Matches(p, f)
    BY DEF Wanted
  <1>2. PICK q \in paths : Matches(q, g)
    BY DEF Wanted
  <1>3. p = q /\ ~p.glob
    BY DEF DirectoryState, Globs
  <1>4. \E d \in p.dirs, s \in p.stems : p.dirs = {d} /\ p.stems = {s}
    BY <1>3, ConfigType
  <1>5. f.dir = g.dir /\ f.stem = g.stem /\ f.log = g.log
    BY <1>1, <1>2, <1>3, <1>4 DEF Matches
  <1>6. /\ f = [dir |-> f.dir, stem |-> f.stem, log |-> f.log]
        /\ g = [dir |-> g.dir, stem |-> g.stem, log |-> g.log]
    BY StateNamesAssumption
  <1> QED
    BY <1>5, <1>6

(* Only what shares its stem with no other file has a name of its own.     *)
LEMMA OwnName ==
  ASSUME TypeOK, Prepared, runs > 0, NEW f \in Logs, NEW g \in Logs,
         Wanted(f), Wanted(g), Alone(f), NameOf(f) = NameOf(g)
  PROVE  f = g
  <1>1. CASE NameOf(f) = Itself
    <2>1. config.state # "unset" /\ pathKind # "dir"
      BY <1>1 DEF NameOf, StateName, Itself
    <2> QED
      BY <2>1, ExactIsOne DEF Prepared
  <1>2. CASE NameOf(f) # Itself
    <2>1. f.stem = g.stem
      BY <1>2 DEF NameOf, StateName
    <2> QED
      BY <2>1 DEF Alone, Wanted
  <1> QED
    BY <1>1, <1>2

(* All calls of getStateFile that name one file agree.                     *)
LEMMA OpenName ==
  ASSUME TypeOK, Prepared, NEW k \in todo
  PROVE  StateName(k[2], single, pathKind) = NameOf(k[2])
  <1>1. runs > 0
    BY DEF Prepared
  <1>2. CASE DirectoryState
    BY <1>1, <1>2 DEF Prepared, NameOf, StateName
  <1>3. CASE ~DirectoryState
    BY <1>3 DEF Prepared, NameOf
  <1> QED
    BY <1>2, <1>3

LEMMA ScanName ==
  ASSUME TypeOK, Prepared, up, Globs # {}, NEW f
  PROVE  StateName(f, FALSE, pathKind) = NameOf(f)
  BY DEF Prepared, DirectoryState, NameOf, StateName
-----------------------------------------------------------------------------
LEMMA InitInv == Init => Inv
  <1> SUFFICES ASSUME Init PROVE Inv
    OBVIOUS
  <1>1. TypeOK
    <2>1. states \in [Names -> StateFile]
      BY CellType DEF Init
    <2>2. config.kind \in {"missing", "file", "dir"}
      BY StateNamesAssumption DEF Init
    <2>3. 0 \in 0 .. MaxSize /\ 0 \in 0 .. MaxRuns
      BY StateNamesAssumption
    <2>4. size \in [Logs -> 0 .. MaxSize] /\ last \in [Logs -> (0 .. MaxSize) \cup {Never}]
      BY <2>3 DEF Init
    <2>5. tailers \subseteq Tailer /\ known \cup todo = {}
      BY DEF Init
    <2> QED
      BY <2>1, <2>2, <2>3, <2>4, <2>5 DEF Init, TypeOK
  <1>2. Prepared /\ Named /\ Kept
    BY DEF Init, Prepared, Named, Kept
  <1>3. New
    BY NameType DEF Init, New, NameOf
  <1> QED
    BY <1>1, <1>2, <1>3 DEF Inv

(* What does not change the configuration or the state files changes no    *)
(* name, and the sets Alone and Wanted not at all.                         *)
LEMMA SameNames ==
  ASSUME config' = config
  PROVE  /\ paths' = paths /\ Globs' = Globs /\ (DirectoryState <=> DirectoryState')
         /\ \A f : /\ Alone(f)' <=> Alone(f)
                   /\ Undisturbed(f)' <=> Undisturbed(f)
                   /\ Wanted(f)' <=> Wanted(f)
         /\ pathKind' = pathKind => \A f : NameOf(f)' = NameOf(f)
  <1>1. paths' = paths
    BY DEF paths
  <1>2. Globs' = Globs
    BY <1>1 DEF Globs
  <1> QED
    BY <1>1, <1>2 DEF DirectoryState, Alone, Undisturbed, Wanted, NameOf, StateName

LEMMA WriterInv ==
  ASSUME Inv, NEW f \in Logs, CreateLog(f) \/ Grow(f) \/ RemoveLog(f)
  PROVE  Inv'
  <1> USE DEF Inv
  <1>1. UNCHANGED <<config, disk, proc, past>>
    BY DEF CreateLog, Grow, RemoveLog
  <1>2. made \subseteq made' /\ made' \subseteq Logs /\ present' \subseteq made'
    BY DEF CreateLog, Grow, RemoveLog, TypeOK
  <1>3. size' \in [Logs -> 0 .. MaxSize]
    <2>1. CASE size' = size
      BY <2>1 DEF TypeOK
    <2>2. CASE Grow(f)
      <3>1. size[f] + 1 \in 0 .. MaxSize
        BY <2>2, StateNamesAssumption DEF Grow, TypeOK
      <3> QED
        BY <2>2, <3>1 DEF Grow, TypeOK
    <2> QED
      BY <2>1, <2>2 DEF CreateLog, RemoveLog
  <1>4. TypeOK'
    BY <1>1, <1>2, <1>3 DEF TypeOK, paths, Matches
  <1>5. Prepared' /\ Named' /\ New'
    BY <1>1, SameNames DEF Prepared, Named, New
  <1>6. Kept'
    <2> SUFFICES ASSUME NEW g \in Logs, last'[g] # Never
                 PROVE  /\ g \in opened'
                        /\ g \in present' /\ Alone(g)' /\ Undisturbed(g)'
                             => states'[NameOf(g)'] = At(g, last'[g])
      BY <1>1 DEF Kept
    <2>1. g \in opened /\ g \in made
      BY <1>1 DEF Kept, TypeOK
    <2>2. g \in present' => g \in present
      BY <2>1 DEF CreateLog, Grow, RemoveLog
    <2> QED
      BY <1>1, <2>1, <2>2, SameNames DEF Kept
  <1> QED
    BY <1>4, <1>5, <1>6

LEMMA StartInv == Inv /\ Start => Inv'
  <1> SUFFICES ASSUME Inv, Start PROVE Inv'
    OBVIOUS
  <1> USE DEF Inv
  <1>1. UNCHANGED <<config, logs, tailers, past>> /\ ~up /\ up' /\ runs' = runs + 1 /\ runs \in Nat
    BY StateNamesAssumption DEF Start, TypeOK
  <1>2. todo' = Pairs(paths) /\ known' = Pairs(Globs) /\ single' = (\E k \in todo' : todo' = {k})
    BY DEF Start
  <1>3. states' = [n \in Names |-> IF n \in Cleanup(pathKind') THEN Absent ELSE states[n]]
    BY DEF Start
  <1>4. \A k \in known' \cup todo' : k \in paths \X present /\ Matches(k[1], k[2])
    BY <1>2 DEF Pairs, Globs
  <1>5. TypeOK'
    <2>1. states' \in [Names -> StateFile]
      BY <1>3, CellType DEF TypeOK
    <2>2. runs' \in 0 .. MaxRuns /\ single' \in BOOLEAN /\ up' \in BOOLEAN
      BY <1>1, <1>2, StateNamesAssumption DEF Start, TypeOK
    <2>3. pathKind' \in {"missing", "file", "dir"}
      BY DEF Start, ValidateConfiguration, TypeOK
    <2>4. \A k \in known' \cup todo' : k \in paths' \X made' /\ Matches(k[1], k[2])'
      BY <1>1, <1>4 DEF TypeOK, paths, Matches
    <2> QED
      BY <1>1, <2>1, <2>2, <2>3, <2>4 DEF TypeOK
  <1>6. config.state # "unset" /\ DirectoryState => pathKind' = "dir"
    BY DEF Start, ValidateConfiguration
  <1>7. Prepared'
    <2>1. todo' # {} /\ ~DirectoryState => single'
      <3> SUFFICES ASSUME NEW k \in todo', ~DirectoryState PROVE single'
        OBVIOUS
      <3>1. \A j \in todo' : j = k
        <4> SUFFICES ASSUME NEW j \in todo' PROVE j = k
          OBVIOUS
        <4>1. /\ j \in paths \X Logs /\ Matches(j[1], j[2])
              /\ k \in paths \X Logs /\ Matches(k[1], k[2])
          BY <1>4 DEF TypeOK
        <4>2. j[2] = k[2]
          BY <4>1, ExactIsOne DEF Wanted
        <4>3. j[1] = k[1]
          BY <4>1 DEF DirectoryState
        <4> QED
          BY <4>1, <4>2, <4>3
      <3> QED
        BY <3>1, <1>2
    <2> QED
      BY <1>1, <1>6, <2>1, SameNames DEF Prepared
  <1>8. \A f \in Logs : NameOf(f)' = NameOf(f) \/ \A n \in Names : states[n] = Absent
    BY DEF Start, ValidateConfiguration, Prepared, TypeOK, NameOf, StateName
  <1>9. Named' /\ \A f \in Logs : last'[f] # Never => f \in opened'
    BY <1>1, SameNames DEF Prepared, Named, Kept
  <1>10. ASSUME NEW f \in present, Undisturbed(f) PROVE NameOf(f)' \notin Cleanup(pathKind')
    <2> SUFFICES ASSUME NEW p \in Globs, p.log, NEW s \in p.stems,
                        NameOf(f)' = StateName([stem |-> s], FALSE, pathKind')
                 PROVE  \E g \in Found(p) : NameOf(f)' = StateName(g, FALSE, pathKind')
      BY DEF Cleanup
    <2>1. NameOf(f)' = StateName(f, FALSE, pathKind')
      BY <1>1, <1>6 DEF NameOf, StateName, DirectoryState
    <2>2. f.stem = s
      BY <2>1 DEF StateName
    <2>3. f \in Found(p)
      BY <1>10, <2>2 DEF Undisturbed, Found
    <2> QED
      BY <2>1, <2>3
  <1>11. \A f \in Logs : NameOf(f)' \in Names
    BY NameOfType
  <1>12. Kept'
    <2> SUFFICES ASSUME NEW f \in Logs, last'[f] # Never, f \in present', Alone(f)', Undisturbed(f)'
                 PROVE  states'[NameOf(f)'] = At(f, last'[f])
      BY <1>9 DEF Kept
    <2>1. /\ f \in present /\ Alone(f) /\ Undisturbed(f) /\ last[f] # Never
          /\ states[NameOf(f)] = At(f, last[f])
      BY <1>1, SameNames DEF Kept
    <2>2. NameOf(f)' = NameOf(f)
      <3> Absent # At(f, last[f])
        BY CellKinds
      <3> QED
        BY <1>8, <2>1, NameOfType
    <2> QED
      BY <1>1, <1>3, <1>10, <1>11, <2>1, <2>2
  <1>13. New'
    <2> SUFFICES ASSUME NEW f \in Logs, Wanted(f)', Alone(f)', f \notin opened'
                 PROVE  states'[NameOf(f)'] = Absent
      BY DEF New
    <2>1. states[NameOf(f)] = Absent
      BY <1>1, SameNames DEF New
    <2> QED
      BY <1>3, <1>8, <1>11, <2>1
  <1> QED
    BY <1>5, <1>7, <1>9, <1>12, <1>13

LEMMA OpenInv == ASSUME Inv, NEW k \in todo, Open(k) PROVE Inv'
  <1> USE DEF Inv
  <1> DEFINE f == k[2]
             n == StateName(f, single, pathKind)
             t == [path |-> k[1], log |-> f, name |-> n, linked |-> TRUE,
                   off |-> StartOffset(k[1].glob, f, states[n])]
  <1>1. UNCHANGED <<config, logs, up, runs, single, last>> /\ todo' = todo \ {k}
    BY DEF Open
  <1>2. /\ k \in paths \X made /\ Matches(k[1], f) /\ f \in Logs /\ Wanted(f)
        /\ single \in BOOLEAN /\ n \in Names /\ n = NameOf(f) /\ runs > 0 /\ up
    BY OpenName, NameType DEF TypeOK, Wanted, Prepared
  <1>3. CASE f \notin present
    <2>1. UNCHANGED <<known, tailers, disk, past>>
      BY <1>3 DEF Open
    <2>2. TypeOK'
      BY <1>1, <2>1 DEF TypeOK, paths, Matches
    <2>3. Prepared' /\ Named' /\ Kept' /\ New'
      BY <1>1, <2>1, SameNames DEF Prepared, Named, Kept, New
    <2> QED
      BY <2>2, <2>3
  <1>4. CASE f \in present
    <2>1. /\ tailers' = tailers \cup {t}
          /\ states' = [states EXCEPT ![n] = IF @ = Absent THEN Blank ELSE @]
          /\ pathKind' = IF n = Itself THEN "file" ELSE pathKind
          /\ known' = IF k[1].glob THEN known \cup {k} ELSE known
          /\ opened' = opened \cup {f}
      BY <1>4 DEF Open
    <2>2. t \in Tailer
      <3>1. k[1] \in UNION {c.paths : c \in Configs}
        BY <1>2, ConfigType
      <3>2. StartOffset(k[1].glob, f, states[n]) \in 0 .. MaxSize
        BY <1>2, OffsetType
      <3> QED
        BY <1>2, <3>1, <3>2 DEF Tailer
    <2>3. TypeOK'
      <3>1. states' \in [Names -> StateFile]
        BY <2>1, CellType DEF TypeOK
      <3>2. tailers' \subseteq Tailer /\ opened' \subseteq made' /\ pathKind' \in {"missing", "file", "dir"}
        BY <1>1, <1>2, <2>1, <2>2 DEF TypeOK
      <3>3. known' \cup todo' \subseteq known \cup todo
        BY <1>1, <2>1
      <3> QED
        BY <1>1, <3>1, <3>2, <3>3 DEF TypeOK, paths, Matches
    <2>4. n = Itself => config.state # "unset" /\ pathKind # "dir"
      BY <1>2 DEF NameOf, StateName, Itself
    <2>5. \A g : NameOf(g)' = NameOf(g)
      BY <1>1, <2>1, <2>4 DEF NameOf, StateName
    <2>6. Prepared'
      BY <1>1, <1>2, <2>1, <2>4, SameNames DEF Prepared
    <2>7. Named'
      BY <1>1, <1>2, <2>1, <2>5, SameNames DEF Named
    <2>8. ASSUME NEW g \in Logs, states[NameOf(g)] # Absent PROVE states'[NameOf(g)] = states[NameOf(g)]
      BY <1>2, <2>1, <2>8, NameOfType DEF TypeOK
    <2>9. Kept'
      <3> SUFFICES ASSUME NEW g \in Logs, last[g] # Never
                   PROVE  /\ g \in opened'
                          /\ g \in present' /\ Alone(g)' /\ Undisturbed(g)'
                               => states'[NameOf(g)'] = At(g, last'[g])
        BY <1>1 DEF Kept
      <3>1. g \in opened' /\ Absent # At(g, last[g])
        BY <2>1, CellKinds DEF Kept
      <3> QED
        BY <1>1, <2>5, <2>8, <3>1, SameNames DEF Kept
    <2>10. New'
      <3> SUFFICES ASSUME NEW g \in Logs, Wanted(g)', Alone(g)', g \notin opened'
                   PROVE  states'[NameOf(g)'] = Absent
        BY DEF New
      <3>1. g # f /\ states[NameOf(g)] = Absent /\ Wanted(g) /\ Alone(g)
        BY <1>1, <2>1, SameNames DEF New
      <3>2. NameOf(g) # n
        BY <1>2, <3>1, OwnName
      <3> QED
        BY <2>1, <2>5, <3>1, <3>2, NameOfType DEF TypeOK
    <2> QED
      BY <2>3, <2>6, <2>7, <2>9, <2>10
  <1> QED
    BY <1>3, <1>4

LEMMA ReadInv == ASSUME Inv, NEW t \in tailers, Read(t) PROVE Inv'
  <1> USE DEF Inv
  <1> DEFINE u == [t EXCEPT !.off = @ + 1]
  <1>1. /\ UNCHANGED <<config, logs, disk, up, runs, known, todo, single, past>>
        /\ tailers' = (tailers \ {t}) \cup {u} /\ t.off < size[t.log]
    BY DEF Read
  <1>2. t \in Tailer /\ size[t.log] \in 0 .. MaxSize /\ t.off \in 0 .. MaxSize
    BY DEF TypeOK, Tailer
  <1>3. u \in Tailer
    <2>1. t.off + 1 \in 0 .. MaxSize
      BY <1>1, <1>2, StateNamesAssumption
    <2> QED
      BY <1>2, <2>1 DEF Tailer
  <1>4. TypeOK'
    BY <1>1, <1>3 DEF TypeOK, paths, Matches
  <1>5. u.log = t.log /\ u.name = t.name
    BY <1>2 DEF Tailer
  <1>6. Prepared' /\ Named' /\ Kept' /\ New'
    BY <1>1, <1>5, SameNames DEF Prepared, Named, Kept, New
  <1> QED
    BY <1>4, <1>6

LEMMA SaveInv == ASSUME Inv, NEW t \in tailers, Save(t) PROVE Inv'
  <1> USE DEF Inv
  <1> DEFINE f == t.log
             cell == At(IF f \in present THEN f ELSE NoLog, t.off)
  <1>1. /\ UNCHANGED <<config, logs, pathKind, proc, opened>>
        /\ states' = [states EXCEPT ![t.name] = cell]
        /\ last' = [last EXCEPT ![f] = t.off]
    BY DEF Save
  <1>2. t \in Tailer /\ f \in Logs /\ t.off \in 0 .. MaxSize /\ t.name \in Names
    BY DEF TypeOK, Tailer
  <1>3. Wanted(f) /\ t.name = NameOf(f) /\ f \in opened /\ runs > 0
    BY DEF Named, Prepared
  <1>4. TypeOK'
    <2>1. states' \in [Names -> StateFile] /\ last' \in [Logs -> (0 .. MaxSize) \cup {Never}]
      BY <1>1, <1>2, CellType DEF TypeOK
    <2> QED
      BY <1>1, <2>1 DEF TypeOK, paths, Matches
  <1>5. Prepared' /\ Named'
    BY <1>1, <1>3, SameNames DEF Prepared, Named
  <1>6. ASSUME NEW g \in Logs, g # f, Wanted(g), Alone(g) PROVE states'[NameOf(g)] = states[NameOf(g)]
    <2>1. NameOf(g) # t.name
      BY <1>3, <1>2, <1>6, OwnName
    <2> QED
      BY <1>1, <2>1, NameOfType DEF TypeOK
  <1>7. Kept'
    <2> SUFFICES ASSUME NEW g \in Logs, last'[g] # Never
                 PROVE  /\ g \in opened'
                        /\ g \in present' /\ Alone(g)' /\ Undisturbed(g)'
                             => states'[NameOf(g)'] = At(g, last'[g])
      BY DEF Kept
    <2>1. CASE g = f
      BY <1>1, <1>2, <1>3, <2>1, SameNames DEF TypeOK
    <2>2. CASE g # f
      <3>1. last'[g] = last[g] /\ g \in opened /\ Wanted(g)
        BY <1>1, <2>2 DEF TypeOK, Kept, Named
      <3> QED
        BY <1>1, <1>6, <2>2, <3>1, SameNames DEF Kept
    <2> QED
      BY <2>1, <2>2
  <1>8. New'
    <2> SUFFICES ASSUME NEW g \in Logs, Wanted(g)', Alone(g)', g \notin opened'
                 PROVE  states'[NameOf(g)'] = Absent
      BY DEF New
    <2>1. g # f /\ Wanted(g) /\ Alone(g) /\ states[NameOf(g)] = Absent /\ NameOf(g)' = NameOf(g)
      BY <1>1, <1>3, SameNames DEF New
    <2> QED
      BY <1>6, <2>1
  <1> QED
    BY <1>4, <1>5, <1>7, <1>8

LEMMA ScanInv == ASSUME Inv, NEW p \in paths, Scan(p) PROVE Inv'
  <1> USE DEF Inv
  <1> DEFINE gone  == {k \in known : k[1] = p /\ k[2] \notin present}
             names == {StateName(k[2], FALSE, pathKind) : k \in gone}
  <1>1. /\ UNCHANGED <<config, logs, pathKind, up, runs, past>> /\ up /\ p \in Globs
        /\ known' = known \ gone
        /\ states' = [n \in Names |-> IF n \in names THEN Absent ELSE states[n]]
        /\ tailers' = {[t EXCEPT !.linked = @ /\ t.name \notin names] : t \in tailers}
        /\ todo' = Pairs({p}) \ known
    BY DEF Scan
  <1>2. DirectoryState /\ runs > 0 /\ single' = FALSE
    BY <1>1 DEF DirectoryState, Prepared, Scan
  <1>3. \A t \in tailers' : t \in Tailer /\ \E u \in tailers : t.log = u.log /\ t.name = u.name
    <2> SUFFICES ASSUME NEW t \in tailers'
                 PROVE  t \in Tailer /\ \E u \in tailers : t.log = u.log /\ t.name = u.name
      OBVIOUS
    <2> DEFINE unlinked(v) == [v EXCEPT !.linked = @ /\ v.name \notin names]
    <2>0. PICK u \in tailers : t = unlinked(u)
      BY <1>1
    <2>1. u \in Tailer
      BY DEF TypeOK
    <2>2. (u.linked /\ u.name \notin names) \in BOOLEAN
      OBVIOUS
    <2> QED
      BY <2>0, <2>1, <2>2 DEF Tailer
  <1>4. TypeOK'
    <2>1. states' \in [Names -> StateFile]
      BY <1>1, CellType DEF TypeOK
    <2>2. \A k \in known' \cup todo' : k \in paths \X made /\ Matches(k[1], k[2])
      BY <1>1 DEF Pairs, TypeOK
    <2>3. tailers' \subseteq Tailer /\ single' \in BOOLEAN
      BY <1>2, <1>3
    <2> QED
      BY <1>1, <2>1, <2>2, <2>3 DEF TypeOK, paths, Matches
  <1>5. Prepared'
    BY <1>1, <1>2, SameNames DEF Prepared
  <1>6. Named'
    BY <1>1, <1>3, SameNames DEF Named
  <1>7. ASSUME NEW g \in Logs, Wanted(g), Alone(g), g \in present PROVE NameOf(g) \notin names
    <2> SUFFICES ASSUME NEW k \in gone, NameOf(g) = StateName(k[2], FALSE, pathKind) PROVE FALSE
      OBVIOUS
    <2>1. k[2] \in Logs /\ Wanted(k[2]) /\ k[2] # g
      BY <1>7 DEF TypeOK, Wanted
    <2>2. NameOf(k[2]) = NameOf(g)
      BY <1>1, ScanName
    <2> QED
      BY <1>2, <1>7, <2>1, <2>2, OwnName
  <1>8. Kept'
    <2> SUFFICES ASSUME NEW g \in Logs, last'[g] # Never
                 PROVE  /\ g \in opened'
                        /\ g \in present' /\ Alone(g)' /\ Undisturbed(g)'
                             => states'[NameOf(g)'] = At(g, last'[g])
      BY DEF Kept
    <2>1. last'[g] = last[g] /\ g \in opened /\ Wanted(g)
      BY <1>1 DEF Kept, Named
    <2> QED
      BY <1>1, <1>7, <2>1, NameOfType, SameNames DEF Kept
  <1>9. New'
    BY <1>1, NameOfType, SameNames DEF New
  <1> QED
    BY <1>4, <1>5, <1>6, <1>8, <1>9

LEMMA CrashInv == Inv /\ Crash => Inv'
  <1> SUFFICES ASSUME Inv, Crash PROVE Inv'
    OBVIOUS
  <1> USE DEF Inv
  <1>1. /\ UNCHANGED <<config, logs, disk, runs, past>> /\ up' = FALSE /\ known' = {} /\ todo' = {}
        /\ single' = FALSE /\ tailers' = {}
    BY DEF Crash
  <1>2. TypeOK'
    BY <1>1 DEF TypeOK, paths
  <1>3. Prepared' /\ Named' /\ Kept' /\ New'
    BY <1>1, SameNames DEF Prepared, Named, Kept, New
  <1> QED
    BY <1>2, <1>3

LEMMA NextInv == Inv /\ [Next]_vars => Inv'
  <1> SUFFICES ASSUME Inv, [Next]_vars PROVE Inv'
    OBVIOUS
  <1>1. CASE UNCHANGED vars
    <2>1. TypeOK'
      BY <1>1 DEF Inv, vars, TypeOK, paths, Matches
    <2> QED
      BY <1>1, <2>1, SameNames DEF Inv, vars, Prepared, Named, Kept, New
  <1>2. CASE Next
    BY <1>2, WriterInv, StartInv, OpenInv, ReadInv, SaveInv, ScanInv, CrashInv DEF Next
  <1> QED
    BY <1>1, <1>2

LEMMA AlwaysInv == Spec => []Inv
  BY InitInv, NextInv, PTL DEF Spec
-----------------------------------------------------------------------------
(* TypeOK: every variable keeps its type, and what is known or listed was  *)
(* matched by its path.  About the whole of StateNames.                    *)
THEOREM TypeCorrect == Spec => []TypeOK
  BY AlwaysInv, PTL DEF Inv

(* StatesWhereAsked: with --tail.state_file nothing is kept in the         *)
(* temporary directory.  About validateConfiguration and getStateFile.     *)
THEOREM StatesAreWhereAsked == Spec => []StatesWhereAsked
  <1>1. Init => StatesWhereAsked
    BY DEF Init, StatesWhereAsked, Names
  <1>2. Inv /\ StatesWhereAsked /\ [Next]_vars => StatesWhereAsked'
    <2> SUFFICES ASSUME Inv, StatesWhereAsked, [Next]_vars, config'.state # "unset"
                 PROVE  /\ \A t \in tailers' : t.name[1] # "tmp"
                        /\ \A s \in Stems : states'[<<"tmp", s>>] = Absent
      BY DEF StatesWhereAsked
    <2> USE DEF Inv
    <2>1. config' = config /\ config.state # "unset"
      BY DEF Next, vars, CreateLog, Grow, RemoveLog, Start, Crash, Open, Read, Save, Scan
    <2>2. /\ \A t \in tailers : t.name[1] # "tmp"
          /\ \A s \in Stems : states[<<"tmp", s>>] = Absent /\ <<"tmp", s>> \in Names
      BY <2>1 DEF StatesWhereAsked, Names
    <2>3. \A f : NameOf(f)[1] # "tmp"
      BY <2>1 DEF NameOf, StateName, Itself
    <2>4. CASE UNCHANGED <<tailers, states>>
      BY <2>2, <2>4
    <2>5. CASE Start
      BY <2>2, <2>5 DEF Start
    <2>6. ASSUME NEW k \in todo, Open(k)
          PROVE  (\A t \in tailers' : t.name[1] # "tmp") /\ \A s \in Stems : states'[<<"tmp", s>>] = Absent
      <3> DEFINE n == StateName(k[2], single, pathKind)
      <3>1. n[1] # "tmp"
        BY <2>3, OpenName
      <3>2. CASE k[2] \notin present
        BY <2>2, <2>6, <3>2 DEF Open
      <3>3. CASE k[2] \in present
        <4>1. /\ states' = [states EXCEPT ![n] = IF @ = Absent THEN Blank ELSE @]
              /\ \A t \in tailers' : t \in tailers \/ t.name = n
          BY <2>6, <3>3 DEF Open
        <4>2. \A s \in Stems : <<"tmp", s>> # n
          BY <3>1
        <4> QED
          BY <2>2, <3>1, <4>1, <4>2 DEF TypeOK
      <3> QED
        BY <3>2, <3>3
    <2>7. ASSUME NEW t \in tailers, Read(t) PROVE states' = states /\ \A u \in tailers' : u.name[1] # "tmp"
      <3>1. t \in Tailer
        BY DEF TypeOK
      <3> QED
        BY <2>2, <2>7, <3>1 DEF Read, Tailer
    <2>8. ASSUME NEW t \in tailers, Save(t)
          PROVE  tailers' = tailers /\ \A s \in Stems : states'[<<"tmp", s>>] = Absent
      <3>1. \A s \in Stems : <<"tmp", s>> # t.name
        BY <2>2
      <3>2. tailers' = tailers /\ \A n \in Names : n # t.name => states'[n] = states[n]
        BY <2>8 DEF Save, TypeOK
      <3> QED
        BY <2>2, <3>1, <3>2
    <2>9. ASSUME NEW p \in paths, Scan(p)
          PROVE  (\A t \in tailers' : t.name[1] # "tmp") /\ \A s \in Stems : states'[<<"tmp", s>>] = Absent
      <3>1. \A s \in Stems : states'[<<"tmp", s>>] = Absent
        BY <2>2, <2>9 DEF Scan
      <3>2. ASSUME NEW t \in tailers' PROVE \E u \in tailers : t.name = u.name
        <4> DEFINE gone  == {k \in known : k[1] = p /\ k[2] \notin present}
                   names == {StateName(k[2], FALSE, pathKind) : k \in gone}
                   unlinked(v) == [v EXCEPT !.linked = @ /\ v.name \notin names]
        <4>1. PICK u \in tailers : t = unlinked(u)
          BY <2>9 DEF Scan
        <4>2. u \in Tailer
          BY DEF TypeOK
        <4> QED
          BY <4>1, <4>2 DEF Tailer
      <3> QED
        BY <2>2, <3>1, <3>2
    <2>10. CASE Crash
      BY <2>2, <2>10 DEF Crash
    <2>11. \A f \in Logs : CreateLog(f) \/ Grow(f) \/ RemoveLog(f) => UNCHANGED <<tailers, states>>
      BY DEF CreateLog, Grow, RemoveLog
    <2> QED
      BY <2>2, <2>4, <2>5, <2>6, <2>7, <2>8, <2>9, <2>10, <2>11 DEF Next, vars
  <1> QED
    BY <1>1, <1>2, AlwaysInv, PTL DEF Spec

(* Only startWatchedFile starts a tailer.                                  *)
LEMMA StartedByOpen ==
  ASSUME Inv, [Next]_vars, NEW t \in Started
  PROVE  /\ t.log \in present /\ t.log \in Logs /\ Wanted(t.log) /\ runs > 0
         /\ t.off = StartOffset(t.path.glob, t.log, states[NameOf(t.log)])
  <1> USE DEF Inv
  <1>1. t \in tailers' /\ \A u \in tailers : u.path # t.path \/ u.log # t.log
    BY DEF Started
  <1>2. t \notin tailers
    BY <1>1
  <1>3. ASSUME NEW u \in tailers, Read(u) PROVE FALSE
    <2>1. u \in Tailer
      BY DEF TypeOK
    <2> QED
      BY <1>1, <1>3, <2>1 DEF Read, Tailer
  <1>4. ASSUME NEW p \in paths, Scan(p) PROVE FALSE
    <2> DEFINE gone  == {k \in known : k[1] = p /\ k[2] \notin present}
               names == {StateName(k[2], FALSE, pathKind) : k \in gone}
               unlinked(v) == [v EXCEPT !.linked = @ /\ v.name \notin names]
    <2>1. PICK u \in tailers : t = unlinked(u)
      BY <1>1, <1>4 DEF Scan
    <2>2. u \in Tailer
      BY DEF TypeOK
    <2> QED
      BY <1>1, <2>1, <2>2 DEF Tailer
  <1>5. PICK k \in todo : Open(k)
    BY <1>1, <1>2, <1>3, <1>4 DEF Next, vars, CreateLog, Grow, RemoveLog, Start, Crash, Save
  <1>6. k[2] \in present /\ t.log = k[2] /\ t.path = k[1]
        /\ t.off = StartOffset(k[1].glob, k[2], states[StateName(k[2], single, pathKind)])
    BY <1>2, <1>1, <1>5 DEF Open
  <1>7. k[2] \in Logs /\ Wanted(k[2]) /\ runs > 0
    BY DEF TypeOK, Wanted, Prepared
  <1> QED
    BY <1>6, <1>7, OpenName

(* ResumesWhereSaved: a logfile whose stem is its own, and beside which no *)
(* glob cleans up, is started where it was last saved, in all restarts.    *)
(* About getStateFile, cleanupStaleGlobStates and removeStateFile.         *)
THEOREM SavedPositionsCount == Spec => ResumesWhereSaved
  <1>1. Inv /\ [Next]_vars =>
          [\A t \in Started : Alone(t.log) /\ Undisturbed(t.log) /\ last[t.log] # Never
                                => t.off = last[t.log]]_vars
    <2> SUFFICES ASSUME Inv, [Next]_vars, NEW t \in Started,
                        Alone(t.log), Undisturbed(t.log), last[t.log] # Never
                 PROVE  t.off = last[t.log]
      OBVIOUS
    <2>1. states[NameOf(t.log)] = At(t.log, last[t.log])
      BY StartedByOpen DEF Inv, Kept
    <2> QED
      BY <2>1, StartedByOpen, CellKinds DEF StartOffset
  <1> QED
    BY <1>1, AlwaysInv, PTL DEF Spec, ResumesWhereSaved

(* NewFilesWhole: a logfile that a glob finds for the first time is read   *)
(* from its beginning.  About startWatchedFile, which takes a file without *)
(* a state file to be new.                                                 *)
THEOREM NewFilesAreRead == Spec => NewFilesWhole
  <1>1. Inv /\ [Next]_vars =>
          [\A t \in Started : t.path.glob /\ Alone(t.log) /\ t.log \notin opened => t.off = 0]_vars
    <2> SUFFICES ASSUME Inv, [Next]_vars, NEW t \in Started,
                        t.path.glob, Alone(t.log), t.log \notin opened
                 PROVE  t.off = 0
      OBVIOUS
    <2>1. states[NameOf(t.log)] = Absent
      BY StartedByOpen DEF Inv, New
    <2> QED
      BY <2>1, StartedByOpen, CellKinds DEF StartOffset
  <1> QED
    BY <1>1, AlwaysInv, PTL DEF Spec, NewFilesWhole
=============================================================================
