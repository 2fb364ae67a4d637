----------------------------- MODULE MCCutover ------------------------------
(***************************************************************************)
(* An instance of Cutover for TLC: two processes that stop, start again    *)
(* and overlap, over four legacy databases (complete, without profile      *)
(* tables, with a dangling reference, with a name of the seeds).           *)
(***************************************************************************)
EXTENDS Cutover, TLC

Row(id, at, name, refs) == [id |-> id, at |-> at, name |-> name, refs |-> refs]

Complete ==
    [roles |-> {Row(7, 2, "admin", <<>>), Row(8, 1, "viewer", <<>>)},
     environments |-> {Row(5, 1, "prod", <<>>)},
     owners |-> {Row(6, 1, "dba", <<>>)},
     users |-> {Row(9, 1, "ann", [role |-> 7]), Row(4, 2, "bob", [role |-> 8])},
     resources |-> {Row(3, 2, "db1", [environment |-> 5, owner |-> 6, archivedBy |-> None]),
                    Row(2, 1, "db2", [environment |-> 5, owner |-> 6, archivedBy |-> 4])},
     profiles |-> {Row(1, 1, "mysql", [resource |-> 3])},
     relations |-> {Row(1, 1, "depends_on", [from |-> 3, to |-> 2])},
     audit_events |-> {Row(1, 1, "login", [actor |-> None, target |-> None]),
                       Row(2, 2, "archive", [actor |-> 4, target |-> 2])}]

WithoutProfiles == [t \in DOMAIN Complete \ {"profiles"} |-> Complete[t]]

Dangling ==
    [Complete EXCEPT !["audit_events"] =
        @ \cup {Row(3, 3, "delete", [actor |-> 1, target |-> 3])}]

\* A role has the name of one that the migrations seed.
SeededName ==
    [Complete EXCEPT !["roles"] = {Row(7, 2, "seed", <<>>), Row(8, 1, "viewer", <<>>)}]

MCLegacies == {Complete, WithoutProfiles, Dangling, SeededName}

(* History: the processes that another one has overlapped since they       *)
(* started.                                                                *)
VARIABLE overlapped

Busy == {o \in Runs : ~At(o, "idle")}
Overlapping == IF Cardinality(Busy) > 1 THEN Busy ELSE {}

HInit == Init /\ overlapped = {}
HNext == Next /\ overlapped' = ((overlapped \cup Overlapping') \cap Busy')
HSpec == HInit /\ [][HNext]_<<vars, overlapped>>

(* A run that reports success has put every legacy row into the target,    *)
(* with its references translated, even while another run drops, migrates  *)
(* and truncates that target.  If none overlapped it, though earlier ones  *)
(* may have stopped anywhere, the target holds exactly the legacy data: no *)
(* seed of the migrations is left, and no row is there twice.              *)
SuccessIsFaithful ==
    [][\A o \in Runs : Succeeds(o) =>
         HoldsLegacy' /\ (o \notin overlapped => HoldsNothingElse')]_vars

Symmetry == Permutations(Runs)
=============================================================================
