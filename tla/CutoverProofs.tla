--------------------------- MODULE CutoverProofs ----------------------------
(***************************************************************************)
(* Proofs about Cutover: CutoverInv is inductive, so the legacy rows       *)
(* survive any number of overlapping, stopped and restarted runs, and only *)
(* a run told to resume drops a rebuilt target.                            *)
(***************************************************************************)
EXTENDS Cutover, TLAPS

-----------------------------------------------------------------------------
(* What a step does to the runs.                                           *)

(* Run o, and no other, is replaced; the result is shaped like a run.      *)
Moves(o) ==
    /\ DOMAIN run' = Runs
    /\ \A p \in Runs \ {o} : run'[p] = run[p]
    /\ DOMAIN run'[o] = DOMAIN idleRun

LEMMA RefuseMoves ==
    ASSUME RunsTyped, NEW o \in Runs, Refuse(o)
    PROVE  /\ Moves(o)
           /\ run'[o].pc = "idle" /\ run'[o].staged = <<>>
BY DEF RunsTyped, Refuse, Moves, idleRun

LEMMA GotoMoves ==
    ASSUME RunsTyped, NEW o \in Runs, NEW pc, Goto(o, pc)
    PROVE  /\ Moves(o)
           /\ run'[o].pc = pc /\ run'[o].staged = run[o].staged
           /\ run'[o].resume = run[o].resume /\ run'[o].tables = run[o].tables
BY DEF RunsTyped, Goto, Moves, idleRun

LEMMA AdvanceMoves ==
    ASSUME RunsTyped, NEW o \in Runs, run' = [run EXCEPT ![o].at = @ + 1]
    PROVE  /\ Moves(o)
           /\ run'[o].pc = run[o].pc /\ run'[o].staged = run[o].staged
           /\ run'[o].resume = run[o].resume /\ run'[o].tables = run[o].tables
BY DEF RunsTyped, Moves, idleRun

(* The phases exclude each other.                                          *)
LEMMA PhasesDiffer ==
    ASSUME RunsTyped, Renamed \/ Replaced
    PROVE  /\ db["preserve"] # None /\ DOMAIN db["preserve"] = DOMAIN legacy
           /\ "resources" \in DOMAIN legacy /\ ~Untouched
<1>1. db["preserve"] = LegacyTables(legacy) /\ "resources" \in DOMAIN legacy
  BY DEF Renamed, Replaced
<1>2. LegacyTables(legacy) # None /\ DOMAIN LegacyTables(legacy) = DOMAIN legacy
  BY CutoverAssumption DEF RunsTyped, LegacyTables
<1>3. "resources" \notin DOMAIN <<>>
  OBVIOUS
<1> QED
  BY <1>1, <1>2, <1>3 DEF Untouched

(* A step that leaves the databases alone.                                 *)
LEMMA QuietStep ==
    ASSUME CutoverInv, NEW o \in Runs, UNCHANGED <<legacy, db>>, Moves(o),
           run'[o].pc \in Places,
           Untouched => run'[o].pc \in Early,
           Renamed => run'[o].pc \in Early \cup {"again"},
           Replaced /\ run'[o].pc = "drop" => run'[o].resume,
           Untouched /\ run'[o].pc \in {"preserve", "preserved", "empty", "fresh"} =>
               run'[o].tables = DOMAIN legacy,
           run'[o].pc \in {"createPreserve", "rename"} =>
               run'[o].tables = DOMAIN legacy /\ "resources" \in DOMAIN legacy,
           StagedInv(o)'
    PROVE  CutoverInv'
<1>1. RunsTyped'
  BY DEF CutoverInv, RunsTyped, Moves
<1>2. Untouched \/ Renamed \/ Replaced
  BY DEF CutoverInv
<1>3. \A p \in Runs : run'[p] = run[p] \/ p = o
  BY DEF Moves
<1>4. Untouched => Untouched'
  BY <1>3 DEF Untouched
<1>5. Renamed => Renamed'
  BY <1>3 DEF Renamed, HasTables, ListTables, Early
<1>6. Replaced => Replaced'
  BY <1>3 DEF Replaced
<1>7. ~Untouched => ~Untouched'
  <2>1. ~Untouched => db["preserve"] # None /\ DOMAIN db["preserve"] # {}
    BY <1>2, PhasesDiffer DEF CutoverInv
  <2>2. DOMAIN <<>> = {}
    OBVIOUS
  <2> QED
    BY <2>1, <2>2 DEF Untouched
<1>8. ASSUME NEW p \in Runs PROVE ListedInv(p)' /\ StagedInv(p)'
  BY <1>3, <1>7 DEF CutoverInv, ListedInv, StagedInv
<1> QED
  BY <1>1, <1>2, <1>4, <1>5, <1>6, <1>8 DEF CutoverInv

(* The steps that read information_schema or count rows.                   *)
LEMMA StartStop ==
    ASSUME CutoverInv, NEW o \in Runs, Start(o) \/ Stop(o)
    PROVE  CutoverInv'
<1>1. Moves(o) /\ run'[o].pc \in {"idle", "runtime"} /\ run'[o].staged = <<>>
  <2>1. PICK new : /\ run' = [run EXCEPT ![o] = new] /\ DOMAIN new = DOMAIN idleRun
                   /\ new.pc \in {"idle", "runtime"} /\ new.staged = <<>>
    <3>1. ASSUME NEW resume
          PROVE  LET new == [idleRun EXCEPT !.pc = "runtime", !.resume = resume]
                 IN  DOMAIN new = DOMAIN idleRun /\ new.pc = "runtime" /\ new.staged = <<>>
      BY DEF idleRun
    <3>2. idleRun.pc = "idle" /\ idleRun.staged = <<>>
      BY DEF idleRun
    <3> QED
      BY <3>1, <3>2 DEF Start, Stop
  <2> QED
    BY <2>1 DEF CutoverInv, RunsTyped, Moves
<1>2. UNCHANGED <<legacy, db>>
  BY DEF Start, Stop
<1> QED
  BY <1>1, <1>2, QuietStep DEF Early, Places, StagedInv

LEMMA Refused ==
    ASSUME CutoverInv, NEW o \in Runs, Refuse(o), UNCHANGED <<legacy, db>>
    PROVE  CutoverInv'
BY RefuseMoves, QuietStep DEF CutoverInv, Early, Places, StagedInv

LEMMA FirstChecks ==
    ASSUME CutoverInv, NEW o \in Runs,
           CheckRuntime(o) \/ CheckTables(o) \/ CheckPreserve(o) \/ CheckPreserved(o)
    PROVE  CutoverInv'
<1>1. RunsTyped /\ StagedInv(o) /\ ListedInv(o) /\ UNCHANGED <<legacy, db>>
  BY DEF CutoverInv, CheckRuntime, CheckTables, CheckPreserve, CheckPreserved
<1>2. CASE CheckRuntime(o)
  <2>1. Refuse(o) \/ Goto(o, "tables")
    BY <1>2 DEF CheckRuntime
  <2> QED
    BY <1>1, <1>2, <2>1, Refused, GotoMoves, QuietStep DEF CheckRuntime, At, Early, Places, StagedInv
<1>3. CASE CheckTables(o)
  <2>1. CASE Refuse(o)
    BY <1>1, <2>1, Refused
  <2>2. CASE run' = [run EXCEPT ![o].pc = "preserve", ![o].tables = ListTables("target")]
    <3>1. /\ Moves(o) /\ run'[o].pc = "preserve" /\ run'[o].staged = run[o].staged
          /\ run'[o].tables = ListTables("target")
      BY <1>1, <2>2 DEF RunsTyped, Moves, idleRun
    <3>2. Untouched => ListTables("target") = DOMAIN legacy
      BY <1>1, CutoverAssumption DEF Untouched, ListTables, LegacyTables, RunsTyped
    <3> QED
      BY <1>1, <1>3, <3>1, <3>2, QuietStep DEF CheckTables, At, Early, Places, StagedInv
  <2> QED
    BY <1>3, <2>1, <2>2 DEF CheckTables
<1>4. CASE CheckPreserve(o)
  <2>1. PICK pc \in {"preserved", "fresh"} : Goto(o, pc)
    BY <1>4 DEF CheckPreserve
  <2>2. Untouched => run[o].tables = DOMAIN legacy
    BY <1>1, <1>4 DEF ListedInv, CheckPreserve, At
  <2> QED
    BY <1>1, <1>4, <2>1, <2>2, GotoMoves, QuietStep DEF CheckPreserve, At, Early, Places, StagedInv
<1>5. CASE CheckPreserved(o)
  <2>1. PICK pc \in {"again", "empty"} : Goto(o, pc) /\ (pc = "again" => HasTables("preserve"))
    BY <1>5 DEF CheckPreserved
  <2>2. Untouched => run[o].tables = DOMAIN legacy /\ ~HasTables("preserve")
    <3>1. DOMAIN <<>> = {}
      OBVIOUS
    <3> QED
      BY <1>1, <1>5, <3>1 DEF ListedInv, CheckPreserved, At, Untouched, HasTables, ListTables
  <2> QED
    BY <1>1, <1>5, <2>1, <2>2, GotoMoves, QuietStep DEF CheckPreserved, At, Early, Places, StagedInv
<1> QED
  BY <1>2, <1>3, <1>4, <1>5

(* A schema that can be read tells the phase.                              *)
LEMMA SchemaTells ==
    ASSUME CutoverInv, SchemaReadable
    PROVE  /\ "resources" \in DOMAIN db["target"] /\ db["target"] # None
           /\ ~Renamed
           /\ Untouched => LegacyRuntime /\ "resources" \in DOMAIN legacy
           /\ Replaced => ~LegacyRuntime
<1>1. "resources" \in DOMAIN db["target"] /\ db["target"] # None /\ ~Renamed
  BY DEF SchemaReadable, ListTables, HasTables, Renamed
<1>2. Untouched => LegacyRuntime /\ "resources" \in DOMAIN legacy
  BY <1>1 DEF Untouched, LegacyTables, LegacyRuntime
<1>3. Replaced => ~LegacyRuntime
  BY <1>1 DEF Replaced, Rebuilt, LegacyRuntime
<1> QED
  BY <1>1, <1>2, <1>3

LEMMA SchemaCheck ==
    ASSUME CutoverInv, NEW o \in Runs, CheckSchema(o)
    PROVE  CutoverInv'
<1>1. RunsTyped /\ StagedInv(o) /\ ListedInv(o) /\ UNCHANGED <<legacy, db>>
  BY DEF CutoverInv, CheckSchema
<1>2. CASE Refuse(o)
  BY <1>1, <1>2, Refused
<1>3. CASE SchemaReadable /\ run[o].pc = "again" /\ MayResume(o) /\ Goto(o, "drop")
  BY <1>1, <1>3, SchemaTells, GotoMoves, QuietStep DEF MayResume, Places, StagedInv
<1>4. ASSUME SchemaReadable, LegacyRuntime, run[o].pc \in {"empty", "fresh"},
             NEW pc \in {"rename", "createPreserve"}, Goto(o, pc)
      PROVE  CutoverInv'
  <2>1. Untouched /\ "resources" \in DOMAIN legacy
    BY <1>4, SchemaTells DEF CutoverInv
  <2>2. run[o].tables = DOMAIN legacy
    BY <1>1, <1>4, <2>1 DEF ListedInv
  <2>3. ~Renamed /\ ~Replaced
    BY <1>4, SchemaTells
  <2> QED
    BY <1>1, <1>4, <2>1, <2>2, <2>3, GotoMoves, QuietStep DEF Early, Places, StagedInv
<1> QED
  BY <1>2, <1>3, <1>4 DEF CheckSchema, At

LEMMA EmptyCheck ==
    ASSUME CutoverInv, NEW o \in Runs, EnsureEmptyTarget(o)
    PROVE  CutoverInv'
<1>1. RunsTyped /\ StagedInv(o) /\ UNCHANGED <<legacy, db>> /\ ~Untouched /\ ~Renamed
  BY DEF CutoverInv, EnsureEmptyTarget, At, Untouched, Renamed, Early
<1>2. Refuse(o) \/ Goto(o, "import") \/ run' = [run EXCEPT ![o].at = @ + 1]
  BY DEF EnsureEmptyTarget
<1> QED
  BY <1>1, <1>2, Refused, GotoMoves, AdvanceMoves, QuietStep
     DEF EnsureEmptyTarget, At, Early, Places, StagedInv

LEMMA ImportStep ==
    ASSUME CutoverInv, NEW o \in Runs, ImportTable(o)
    PROVE  CutoverInv'
<1>1. RunsTyped /\ StagedInv(o) /\ UNCHANGED <<legacy, db>> /\ ~Untouched /\ ~Renamed /\ Replaced
  BY DEF CutoverInv, ImportTable, At, Untouched, Renamed, Early
<1>2. CASE Refuse(o)
  BY <1>1, <1>2, Refused
<1>3. ASSUME NEW staged, ImportNext(o, staged), staged = run[o].staged \/ Rebuilt(db["target"])
      PROVE  CutoverInv'
  <2>1. Moves(o) /\ run'[o].pc \in {"import", "commit"} /\ run'[o].staged = staged
    BY <1>1, <1>3 DEF ImportNext, RunsTyped, Moves, idleRun
  <2>2. StagedInv(o)'
    BY <1>1, <1>3, <2>1 DEF StagedInv
  <2> QED
    BY <1>1, <2>1, <2>2, QuietStep DEF Places, Early
<1>4. CASE ~Refuse(o)
  <2> DEFINE t == ImportOrder[run[o].at]
             more == [u \in DOMAIN run[o].staged \cup {t} |->
                        IF u = t THEN StagedTable(o, t) ELSE run[o].staged[u]]
  <2>1. \/ ImportNext(o, run[o].staged)
        \/ ImportNext(o, more) /\ SourceRows(t) # {} /\ \A row \in SourceRows(t) : Insertable(t, row)
    BY <1>4, Zenon DEF ImportTable
  <2> HIDE DEF t, more
  <2>2. (\E row \in SourceRows(t) : Insertable(t, row)) => Rebuilt(db["target"])
    BY <1>1 DEF Insertable, ListTables, Replaced
  <2> QED
    BY <1>3, <2>1, <2>2
<1> QED
  BY <1>2, <1>4

-----------------------------------------------------------------------------
(* The steps that change a database.                                       *)

LEMMA CreatePreserveStep ==
    ASSUME CutoverInv, NEW o \in Runs, CreatePreserve(o)
    PROVE  CutoverInv'
<1>1. RunsTyped /\ ListedInv(o) /\ StagedInv(o) /\ run[o].pc = "createPreserve" /\ UNCHANGED legacy
  BY DEF CutoverInv, CreatePreserve, At
<1>2. CASE DatabaseExists("preserve")
  BY <1>1, <1>2, Refused DEF CreatePreserve, CreateDatabase
<1>3. CASE ~DatabaseExists("preserve")
  <2>1. Untouched
    BY <1>1, <1>3, PhasesDiffer DEF CutoverInv, DatabaseExists
  <2>2. db' = [db EXCEPT !["preserve"] = <<>>] /\ Goto(o, "rename")
    BY <1>3 DEF CreatePreserve, CreateDatabase
  <2>3. db'["target"] = db["target"] /\ db'["preserve"] = <<>> /\ DOMAIN db' = Databases
    BY <1>1, <2>2 DEF RunsTyped, Databases
  <2>4. /\ Moves(o) /\ run'[o].pc = "rename" /\ run'[o].staged = run[o].staged
        /\ run'[o].tables = run[o].tables
    BY <1>1, <2>2, GotoMoves
  <2>5. \A p \in Runs : run'[p] = run[p] \/ p = o
    BY <2>4 DEF Moves
  <2>6. RunsTyped'
    BY <1>1, <2>3, <2>4, <2>5 DEF RunsTyped, Moves, Places, Early
  <2>7. Untouched'
    BY <1>1, <2>1, <2>3, <2>4, <2>5 DEF Untouched, Early
  <2>8. ASSUME NEW p \in Runs PROVE ListedInv(p)' /\ StagedInv(p)'
    BY <1>1, <2>1, <2>3, <2>4, <2>5 DEF CutoverInv, ListedInv, StagedInv
  <2> QED
    BY <2>6, <2>7, <2>8 DEF CutoverInv
<1> QED
  BY <1>2, <1>3

LEMMA RenameStep ==
    ASSUME CutoverInv, NEW o \in Runs, RenameTables(o)
    PROVE  CutoverInv'
<1> DEFINE tables == run[o].tables
<1>1. RunsTyped /\ StagedInv(o) /\ run[o].pc = "rename" /\ UNCHANGED legacy
  BY DEF CutoverInv, RenameTables, At
<1>2. tables = DOMAIN legacy /\ "resources" \in DOMAIN legacy
  BY <1>1 DEF CutoverInv, ListedInv
<1>3. CASE Refuse(o) /\ UNCHANGED db
  BY <1>1, <1>3, Refused
<1>4. CASE ~(Refuse(o) /\ UNCHANGED db)
  <2>1. /\ DatabaseExists("preserve") /\ tables \cap ListTables("preserve") = {}
        /\ db' = [db EXCEPT
              !["preserve"] = [t \in DOMAIN db["preserve"] \cup tables |->
                                 IF t \in tables THEN db["target"][t] ELSE db["preserve"][t]],
              !["target"] = [t \in DOMAIN db["target"] \ tables |-> db["target"][t]]]
        /\ Goto(o, "drop")
    BY <1>4 DEF RenameTables
  <2>2. Untouched /\ db["preserve"] = <<>>
    <3>1. Untouched
      BY <1>1, <1>2, <2>1, PhasesDiffer DEF CutoverInv, ListTables
    <3> QED
      BY <2>1, <3>1 DEF Untouched, DatabaseExists
  <2>3. DOMAIN <<>> = {} /\ DOMAIN db["target"] = DOMAIN legacy
    BY <2>2 DEF Untouched, LegacyTables
  <2>4. /\ db'["preserve"] = [t \in DOMAIN legacy |-> db["target"][t]]
        /\ DOMAIN db'["target"] = {} /\ DOMAIN db' = Databases
    <3>1. DOMAIN db["preserve"] \cup tables = DOMAIN legacy /\ DOMAIN db["target"] \ tables = {}
      BY <1>2, <2>2, <2>3
    <3> HIDE DEF tables
    <3>2. /\ db'["preserve"] = [t \in DOMAIN db["preserve"] \cup tables |->
                                 IF t \in tables THEN db["target"][t] ELSE db["preserve"][t]]
          /\ db'["target"] = [t \in DOMAIN db["target"] \ tables |-> db["target"][t]]
          /\ DOMAIN db' = Databases
      BY <1>1, <2>1 DEF RunsTyped, Databases
    <3>3. \A t \in DOMAIN db["preserve"] \cup tables : t \in tables
      BY <1>2, <3>1
    <3> QED
      BY <3>1, <3>2, <3>3
  <2>5. db'["preserve"] = LegacyTables(legacy)
    BY <2>2, <2>4 DEF Untouched, LegacyTables
  <2>6. Moves(o) /\ run'[o].pc = "drop" /\ run'[o].staged = run[o].staged
    BY <1>1, <2>1, GotoMoves
  <2>7. \A p \in Runs : run'[p] = run[p] \/ p = o
    BY <2>6 DEF Moves
  <2>8. RunsTyped'
    BY <1>1, <2>4, <2>6, <2>7 DEF RunsTyped, Moves, Places
  <2>9. Renamed'
    <3>1. LegacyTables(legacy)' = LegacyTables(legacy)
      BY <1>1 DEF LegacyTables
    <3> QED
      BY <1>1, <1>2, <2>2, <2>4, <2>5, <2>6, <2>7, <3>1
         DEF Renamed, Untouched, HasTables, ListTables, Early
  <2>10. ~Untouched'
    <3>1. LegacyTables(legacy) # None
      BY <1>1, CutoverAssumption DEF RunsTyped
    <3>2. "resources" \in DOMAIN db'["preserve"]
      BY <1>2, <2>4
    <3> QED
      BY <2>3, <2>5, <3>1, <3>2 DEF Untouched
  <2>11. ASSUME NEW p \in Runs PROVE ListedInv(p)' /\ StagedInv(p)'
    <3>1. run[p].pc \in Early /\ run[p].staged = <<>>
      BY <2>2 DEF Untouched, CutoverInv, StagedInv, Early
    <3> QED
      BY <1>1, <1>2, <2>6, <2>7, <2>10, <3>1 DEF CutoverInv, ListedInv, StagedInv, Early
  <2> QED
    BY <2>8, <2>9, <2>11 DEF CutoverInv
<1> QED
  BY <1>3, <1>4

(* A target that is dropped, created, filled or emptied.                   *)
LEMMA TargetStep ==
    ASSUME CutoverInv, NEW o \in Runs, NEW target, UNCHANGED legacy, Moves(o),
           db["preserve"] = LegacyTables(legacy), "resources" \in DOMAIN legacy,
           db' = [db EXCEPT !["target"] = target],
           (target = None /\ Unlocked) \/ Rebuilt(target),
           run'[o].pc \in (Places \ Early) \cup {"idle"}, run'[o].pc # "drop",
           \A p \in Runs \ {o} : run[p].pc = "drop" => run[p].resume,
           run'[o].staged = <<>>
    PROVE  CutoverInv'
<1>1. RunsTyped /\ \A p \in Runs : ListedInv(p) /\ StagedInv(p)
  BY DEF CutoverInv
<1>2. db'["target"] = target /\ db'["preserve"] = db["preserve"] /\ DOMAIN db' = Databases
  BY <1>1 DEF RunsTyped, Databases
<1>3. \A p \in Runs : run'[p] = run[p] \/ p = o
  BY DEF Moves
<1>4. RunsTyped'
  BY <1>1, <1>2, <1>3 DEF RunsTyped, Moves, Places, Early
<1>5. LegacyTables(legacy)' = LegacyTables(legacy)
  BY DEF LegacyTables
<1>6. Replaced'
  BY <1>2, <1>3, <1>5 DEF Replaced
<1>7. ~Untouched'
  <2>1. LegacyTables(legacy) # None /\ DOMAIN LegacyTables(legacy) = DOMAIN legacy
    BY <1>1, CutoverAssumption DEF RunsTyped, LegacyTables
  <2>2. "resources" \notin DOMAIN <<>>
    OBVIOUS
  <2> QED
    BY <1>2, <2>1, <2>2 DEF Untouched
<1>8. ASSUME NEW p \in Runs PROVE ListedInv(p)'
  BY <1>1, <1>3, <1>7 DEF ListedInv, Early
<1>9. ASSUME NEW p \in Runs PROVE StagedInv(p)'
  <2>1. CASE p = o
    BY <1>1, <1>2, <2>1 DEF StagedInv
  <2>2. CASE p # o
    <3>1. run'[p] = run[p] /\ (Rebuilt(target) \/ run[p].staged = <<>>)
      BY <1>3, <2>2 DEF Unlocked
    <3> QED
      BY <1>1, <1>2, <3>1 DEF StagedInv
  <2> QED
    BY <2>1, <2>2
<1> QED
  BY <1>4, <1>6, <1>8, <1>9 DEF CutoverInv

LEMMA DropStep ==
    ASSUME CutoverInv, NEW o \in Runs, DropTarget(o)
    PROVE  CutoverInv'
<1>1. /\ RunsTyped /\ UNCHANGED legacy /\ run[o].pc = "drop" /\ Unlocked
      /\ db' = [db EXCEPT !["target"] = None] /\ Goto(o, "create")
  BY DEF CutoverInv, DropTarget, At
<1>2. Renamed \/ Replaced
  BY <1>1 DEF CutoverInv, Untouched, Early
<1>3. /\ db["preserve"] = LegacyTables(legacy) /\ "resources" \in DOMAIN legacy
      /\ \A p \in Runs \ {o} : run[p].pc = "drop" => run[p].resume
  BY <1>1, <1>2 DEF Renamed, Replaced
<1>4. Moves(o) /\ run'[o].pc = "create" /\ run'[o].staged = <<>>
  BY <1>1, GotoMoves DEF Unlocked
<1> QED
  BY <1>1, <1>3, <1>4, TargetStep DEF Places, Early

(* Where a run has gone beyond the drop, the target was replaced.          *)
LEMMA BeyondTheDrop ==
    ASSUME CutoverInv, NEW o \in Runs, run[o].pc \in Places \ (Early \cup {"again", "drop"})
    PROVE  /\ Replaced /\ RunsTyped /\ StagedInv(o)
           /\ db["preserve"] = LegacyTables(legacy) /\ "resources" \in DOMAIN legacy
           /\ \A p \in Runs : run[p].pc = "drop" => run[p].resume
           /\ db["target"] # None => Rebuilt(db["target"])
BY DEF CutoverInv, Untouched, Renamed, Replaced

LEMMA CreateStep ==
    ASSUME CutoverInv, NEW o \in Runs, CreateTarget(o)
    PROVE  CutoverInv'
<1>1. run[o].pc = "create" /\ UNCHANGED legacy
  BY DEF CreateTarget, At
<1>2. CASE DatabaseExists("target")
  BY <1>1, <1>2, Refused DEF CreateTarget, CreateDatabase
<1>3. CASE ~DatabaseExists("target")
  <2>1. db' = [db EXCEPT !["target"] = <<>>] /\ Goto(o, "migrate")
    BY <1>3 DEF CreateTarget, CreateDatabase
  <2>2. Rebuilt(<<>>)
    BY DEF Rebuilt
  <2>3. run[o].pc \in Places \ (Early \cup {"again", "drop"})
    BY <1>1 DEF Places, Early
  <2>4. Moves(o) /\ run'[o].pc = "migrate" /\ run'[o].staged = <<>>
    BY <1>1, <2>1, <2>3, BeyondTheDrop, GotoMoves DEF StagedInv
  <2> QED
    BY <1>1, <2>1, <2>2, <2>3, <2>4, BeyondTheDrop, TargetStep DEF Places, Early
<1> QED
  BY <1>2, <1>3

(* A run beyond the drop fills or empties tables of the target.           *)
LEMMA FillStep ==
    ASSUME CutoverInv, NEW o \in Runs, NEW target, UNCHANGED legacy, Moves(o),
           run[o].pc \in Places \ (Early \cup {"again", "drop"}),
           db' = [db EXCEPT !["target"] = target], Rebuilt(target),
           run'[o].pc \in (Places \ (Early \cup {"again", "drop"})) \cup {"idle"},
           run'[o].staged = <<>>
    PROVE  CutoverInv'
BY BeyondTheDrop, TargetStep DEF Places, Early

LEMMA OneTable ==
    ASSUME CutoverInv, NEW o \in Runs, run[o].pc \in Places \ (Early \cup {"again", "drop"}),
           NEW t, NEW rows, db["target"] # None
    PROVE  /\ WithTable(t, rows) = [db EXCEPT !["target"] = WithTable(t, rows)["target"]]
           /\ Rebuilt(WithTable(t, rows)["target"])
<1> DEFINE target == [u \in DOMAIN db["target"] \cup {t} |->
                        IF u = t THEN [schema |-> "bigint", rows |-> rows] ELSE db["target"][u]]
<1>1. RunsTyped /\ Rebuilt(db["target"])
  BY BeyondTheDrop
<1>2. WithTable(t, rows) = [db EXCEPT !["target"] = target]
  BY DEF WithTable
<1>3. \A u \in DOMAIN target : DOMAIN target[u] = {"schema", "rows"} /\ target[u].schema = "bigint"
  BY <1>1 DEF Rebuilt
<1>4. Rebuilt(target)
  BY <1>3 DEF Rebuilt
<1> HIDE DEF target
<1>5. WithTable(t, rows)["target"] = target
  BY <1>1, <1>2 DEF RunsTyped, Databases
<1> QED
  BY <1>2, <1>4, <1>5

LEMMA MigrateStep ==
    ASSUME CutoverInv, NEW o \in Runs, RunMigrations(o)
    PROVE  CutoverInv'
<1>1. /\ run[o].pc = "migrate" /\ UNCHANGED legacy
      /\ run[o].pc \in Places \ (Early \cup {"again", "drop"})
  BY DEF RunMigrations, At, Places, Early
<1>2. RunsTyped /\ run[o].staged = <<>> /\ ~Untouched /\ ~Renamed
  BY <1>1, BeyondTheDrop DEF StagedInv, CutoverInv, Untouched, Renamed, Early
<1>3. CASE Refuse(o) /\ UNCHANGED db
  BY <1>1, <1>3, Refused
<1>4. CASE DatabaseExists("target") /\ db' = WithTable("goose", {0}) /\ UNCHANGED run
  BY <1>1, <1>2, <1>4, OneTable, FillStep DEF DatabaseExists, Moves, RunsTyped
<1>5. CASE Goto(o, "truncate") /\ UNCHANGED db
  BY <1>1, <1>2, <1>5, GotoMoves, QuietStep DEF Places, Early, StagedInv
<1>6. ASSUME NEW v, run' = [run EXCEPT ![o].pc = "apply", ![o].at = 1, ![o].version = v + 1],
             UNCHANGED db
      PROVE  CutoverInv'
  <2>1. Moves(o) /\ run'[o].pc = "apply" /\ run'[o].staged = <<>>
    BY <1>2, <1>6 DEF RunsTyped, Moves, idleRun
  <2> QED
    BY <1>1, <1>2, <1>6, <2>1, QuietStep DEF Places, Early, StagedInv
<1> QED
  BY <1>3, <1>4, <1>5, <1>6 DEF RunMigrations

LEMMA SchemaStep ==
    ASSUME CutoverInv, NEW o \in Runs, CreateSchema(o) \/ AlterSchema(o)
    PROVE  CutoverInv'
<1>1. /\ run[o].pc = "apply" /\ UNCHANGED legacy
      /\ run[o].pc \in Places \ (Early \cup {"again", "drop"})
  BY DEF CreateSchema, AlterSchema, At, Places, Early
<1>2. RunsTyped /\ run[o].staged = <<>>
  BY <1>1, BeyondTheDrop DEF StagedInv
<1>3. CASE Refuse(o) /\ UNCHANGED db
  BY <1>1, <1>3, Refused
<1>4. ASSUME NEW t, NEW rows, db["target"] # None, db' = WithTable(t, rows),
             Goto(o, "migrate") \/ run' = [run EXCEPT ![o].at = @ + 1]
      PROVE  CutoverInv'
  <2>1. Moves(o) /\ run'[o].pc \in {"apply", "migrate"} /\ run'[o].staged = <<>>
    BY <1>1, <1>2, <1>4, GotoMoves, AdvanceMoves
  <2> QED
    BY <1>1, <1>4, <2>1, OneTable, FillStep DEF Places, Early
<1>5. CASE CreateSchema(o)
  BY <1>3, <1>4, <1>5 DEF CreateSchema, DatabaseExists
<1>6. CASE AlterSchema(o)
  <2>1. CASE AlteredTables \cup {"goose"} \subseteq ListTables("target")
    BY <1>3, <1>4, <1>6, <2>1 DEF AlterSchema, ListTables
  <2>2. CASE ~(AlteredTables \cup {"goose"} \subseteq ListTables("target"))
    BY <1>3, <1>6, <2>2 DEF AlterSchema
  <2> QED
    BY <2>1, <2>2
<1> QED
  BY <1>5, <1>6

(* The rows of the tables of a rebuilt target change.                      *)
LEMMA OtherRows ==
    ASSUME NEW tables, Rebuilt(tables), NEW target,
           target = [t \in DOMAIN tables |-> target[t]],
           \A t \in DOMAIN tables : \E rows : target[t] = [tables[t] EXCEPT !.rows = rows]
    PROVE  Rebuilt(target)
<1>1. ASSUME NEW t \in DOMAIN tables
      PROVE  DOMAIN target[t] = {"schema", "rows"} /\ target[t].schema = "bigint"
  <2>1. PICK rows : target[t] = [tables[t] EXCEPT !.rows = rows]
    OBVIOUS
  <2> QED
    BY <2>1 DEF Rebuilt
<1> QED
  BY <1>1 DEF Rebuilt

LEMMA SeedStep ==
    ASSUME CutoverInv, NEW o \in Runs, SeedData(o)
    PROVE  CutoverInv'
<1> DEFINE v == run[o].version
           more(t) == IF t = "goose" THEN {v} ELSE SeedRows(t, v)
           target == [t \in DOMAIN db["target"] |->
                        [db["target"][t] EXCEPT !.rows = @ \cup more(t)]]
<1>1. /\ run[o].pc = "apply" /\ UNCHANGED legacy
      /\ run[o].pc \in Places \ (Early \cup {"again", "drop"})
  BY DEF SeedData, At, Places, Early
<1>2. RunsTyped /\ run[o].staged = <<>>
  BY <1>1, BeyondTheDrop DEF StagedInv
<1>3. CASE SeedFails(v)
  BY <1>1, <1>3, Refused DEF SeedData
<1>4. CASE ~SeedFails(v)
  <2>1. db' = [db EXCEPT !["target"] = target] /\ Goto(o, "migrate")
    BY <1>4 DEF SeedData
  <2>2. db["target"] # None
    BY <1>4 DEF SeedFails, ListTables
  <2>3. Rebuilt(db["target"])
    BY <1>1, <2>2, BeyondTheDrop
  <2>4. Rebuilt(target)
    <3> HIDE DEF more
    <3>2. target = [t \in DOMAIN db["target"] |-> target[t]]
      OBVIOUS
    <3>3. \A t \in DOMAIN db["target"] :
            target[t] = [db["target"][t] EXCEPT !.rows = db["target"][t].rows \cup more(t)]
      OBVIOUS
    <3> HIDE DEF target
    <3>4. ASSUME NEW t \in DOMAIN db["target"]
          PROVE  \E rows : target[t] = [db["target"][t] EXCEPT !.rows = rows]
      BY <3>3, Zenon
    <3> QED
      BY <2>3, <3>2, <3>4, OtherRows
  <2>5. Moves(o) /\ run'[o].pc = "migrate" /\ run'[o].staged = <<>>
    BY <1>2, <2>1, GotoMoves
  <2> HIDE DEF target
  <2> QED
    BY <1>1, <2>1, <2>4, <2>5, FillStep DEF Places, Early
<1> QED
  BY <1>3, <1>4

LEMMA TruncateStep ==
    ASSUME CutoverInv, NEW o \in Runs, TruncateTargetBusinessTables(o)
    PROVE  CutoverInv'
<1>1. /\ run[o].pc = "truncate" /\ UNCHANGED legacy
      /\ run[o].pc \in Places \ (Early \cup {"again", "drop"})
  BY DEF TruncateTargetBusinessTables, At, Places, Early
<1>2. RunsTyped /\ run[o].staged = <<>>
  BY <1>1, BeyondTheDrop DEF StagedInv
<1>3. CASE Refuse(o) /\ UNCHANGED db
  BY <1>1, <1>3, Refused
<1>4. CASE ~(Refuse(o) /\ UNCHANGED db)
  <2> DEFINE t == TargetBusinessTables[run[o].at]
  <2>1. /\ db["target"] # None
        /\ db' = WithTable(t, {})
        /\ Goto(o, "ensureEmpty") \/ run' = [run EXCEPT ![o].at = @ + 1]
    BY <1>4 DEF TruncateTargetBusinessTables, ListTables
  <2> HIDE DEF t
  <2>2. Moves(o) /\ run'[o].pc \in {"ensureEmpty", "truncate"} /\ run'[o].staged = <<>>
    BY <1>1, <1>2, <2>1, GotoMoves, AdvanceMoves
  <2> QED
    BY <1>1, <2>1, <2>2, OneTable, FillStep DEF Places, Early
<1> QED
  BY <1>3, <1>4

LEMMA CommitStep ==
    ASSUME CutoverInv, NEW o \in Runs, Commit(o)
    PROVE  CutoverInv'
<1> DEFINE staged == run[o].staged
           new(t) == IF t \in DOMAIN staged THEN {staged[t][id] : id \in DOMAIN staged[t]} ELSE {}
           target == [t \in DOMAIN db["target"] |->
                        [db["target"][t] EXCEPT !.rows = @ \cup new(t)]]
<1>1. /\ run[o].pc = "commit" /\ UNCHANGED legacy
      /\ run' = [run EXCEPT ![o] = [idleRun EXCEPT !.outcome = "ok"]]
      /\ run[o].pc \in Places \ (Early \cup {"again", "drop"})
  BY DEF Commit, At, Places, Early
<1>2. RunsTyped /\ StagedInv(o)
  BY <1>1, BeyondTheDrop
<1>3. Moves(o) /\ run'[o].pc = "idle" /\ run'[o].staged = <<>>
  <2>1. LET done == [idleRun EXCEPT !.outcome = "ok"]
        IN  DOMAIN done = DOMAIN idleRun /\ done.pc = "idle" /\ done.staged = <<>>
    BY DEF idleRun
  <2>2. run'[o] = [idleRun EXCEPT !.outcome = "ok"]
    BY <1>1, <1>2 DEF RunsTyped
  <2>3. DOMAIN run' = Runs /\ \A p \in Runs \ {o} : run'[p] = run[p]
    BY <1>1, <1>2 DEF RunsTyped
  <2> QED
    BY <2>1, <2>2, <2>3 DEF Moves
<1>4. CASE staged = <<>>
  <2>1. UNCHANGED db
    BY <1>4 DEF Commit
  <2> QED
    BY <1>1, <1>3, <2>1, QuietStep DEF Places, Early, StagedInv
<1>5. CASE staged # <<>>
  <2>1. db' = [db EXCEPT !["target"] = target]
    BY <1>5 DEF Commit
  <2>2. Rebuilt(target)
    <3>1. Rebuilt(db["target"])
      BY <1>2, <1>5 DEF StagedInv
    <3> HIDE DEF new
    <3>2. target = [t \in DOMAIN db["target"] |-> target[t]]
      OBVIOUS
    <3>3. \A t \in DOMAIN db["target"] :
            target[t] = [db["target"][t] EXCEPT !.rows = db["target"][t].rows \cup new(t)]
      OBVIOUS
    <3> HIDE DEF target
    <3>4. ASSUME NEW t \in DOMAIN db["target"]
          PROVE  \E rows : target[t] = [db["target"][t] EXCEPT !.rows = rows]
      BY <3>3, Zenon
    <3> QED
      BY <3>1, <3>2, <3>4, OtherRows
  <2> HIDE DEF target
  <2> QED
    BY <1>1, <1>3, <2>1, <2>2, FillStep
<1> QED
  BY <1>4, <1>5

-----------------------------------------------------------------------------
(* The invariant, and what follows from it.                                *)

LEMMA InitCutoverInv ==
    ASSUME Init
    PROVE  CutoverInv
<1>1. /\ legacy \in Legacies /\ DOMAIN db = Databases /\ DOMAIN run = Runs
      /\ db["target"] = LegacyTables(legacy) /\ db["preserve"] \in {None, <<>>}
      /\ \A o \in Runs : run[o] = idleRun
  BY DEF Init, Databases
<1>2. idleRun.pc = "idle" /\ idleRun.staged = <<>>
  BY DEF idleRun
<1> QED
  BY <1>1, <1>2 DEF CutoverInv, RunsTyped, Untouched, ListedInv, StagedInv, Early, Places

LEMMA NextCutoverInv ==
    ASSUME CutoverInv, [Next]_vars
    PROVE  CutoverInv'
<1>1. CASE UNCHANGED vars
  <2>1. legacy' = legacy /\ db' = db /\ run' = run
    BY <1>1 DEF vars
  <2> QED
    BY <2>1 DEF CutoverInv, RunsTyped, Untouched, Renamed, Replaced, ListedInv, StagedInv,
       LegacyTables, HasTables, ListTables, Rebuilt
<1>2. ASSUME NEW o \in Runs,
             \/ Start(o) \/ Stop(o)
             \/ CheckRuntime(o) \/ CheckTables(o) \/ CheckPreserve(o) \/ CheckPreserved(o)
             \/ CheckSchema(o) \/ EnsureEmptyTarget(o) \/ ImportTable(o)
      PROVE  CutoverInv'
  BY <1>2, StartStop, FirstChecks, SchemaCheck, EmptyCheck, ImportStep
<1>3. ASSUME NEW o \in Runs,
             \/ CreatePreserve(o) \/ RenameTables(o) \/ DropTarget(o) \/ CreateTarget(o)
             \/ RunMigrations(o) \/ CreateSchema(o) \/ SeedData(o) \/ AlterSchema(o)
             \/ TruncateTargetBusinessTables(o) \/ Commit(o)
      PROVE  CutoverInv'
  BY <1>3, CreatePreserveStep, RenameStep, DropStep, CreateStep, MigrateStep, SchemaStep, SeedStep,
     TruncateStep, CommitStep
<1> QED
  BY <1>1, <1>2, <1>3 DEF Next

LEMMA Invariance == Spec => []CutoverInv
<1>1. Init => CutoverInv
  BY InitCutoverInv
<1>2. CutoverInv /\ [Next]_vars => CutoverInv'
  BY NextCutoverInv
<1> QED
  BY <1>1, <1>2, PTL DEF Spec

(* The legacy rows are never lost: after any number of runs, stopped at    *)
(* any statement, restarted with or without --resume and overlapping each  *)
(* other, one database holds every legacy table with all its rows.         *)
THEOREM LegacyIsNeverLost == Spec => []LegacySurvives
<1>1. ASSUME CutoverInv PROVE LegacySurvives
  <2>1. RunsTyped
    BY <1>1 DEF CutoverInv
  <2>2. PICK d \in Databases : db[d] = LegacyTables(legacy)
    BY <1>1 DEF CutoverInv, Untouched, Renamed, Replaced, Databases
  <2>3. LegacyTables(legacy) # None /\ DOMAIN LegacyTables(legacy) = DOMAIN legacy
    BY <2>1, CutoverAssumption DEF RunsTyped, LegacyTables
  <2>4. \A t \in DOMAIN legacy : LegacyTables(legacy)[t] = [schema |-> "legacy", rows |-> legacy[t]]
    BY DEF LegacyTables
  <2>5. /\ DatabaseExists(d)
        /\ \A t \in DOMAIN legacy :
             t \in ListTables(d) /\ db[d][t] = [schema |-> "legacy", rows |-> legacy[t]]
    BY <2>2, <2>3, <2>4 DEF DatabaseExists, ListTables
  <2> QED
    BY <2>5 DEF LegacySurvives
<1> QED
  BY <1>1, Invariance, PTL

(* A rebuilt target is dropped only by a run that was told to resume: the  *)
(* run that renamed the legacy tables finds an empty target, and no other  *)
(* passes the schema check without --resume.                               *)
THEOREM OnlyResumeDrops == Spec => OnlyResumeDropsTheRebuilt
<1>1. ASSUME CutoverInv, NEW o \in Runs, At(o, "drop"),
             NEW t \in ListTables("target")
      PROVE  run[o].resume
  BY <1>1 DEF CutoverInv, Untouched, Renamed, Replaced, At, Early, HasTables
<1>2. CutoverInv /\ [Next]_vars =>
        [\A o \in Runs :
           /\ At(o, "drop") /\ run'[o].pc = "create"
           /\ \E t \in ListTables("target") : db["target"][t].schema = "bigint"
           => run[o].resume]_vars
  BY <1>1
<1> QED
  BY <1>2, Invariance, PTL DEF Spec, OnlyResumeDropsTheRebuilt
=============================================================================
