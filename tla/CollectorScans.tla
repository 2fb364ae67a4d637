--------------------------- MODULE CollectorScans ---------------------------
(***************************************************************************)
(* Collector ingestion: a machine principal confirms the rows of one scan *)
(* under a scan ID of its own choosing.  The transaction first claims the *)
(* scan ID in collector_scan_ledger, then writes the inventory, then      *)
(* moves one presence state per CI that the principal ever reported, and   *)
(* commits all of it or none.                                              *)
(*                                                                         *)
(* Every key of both tables starts with the machine principal, so the     *)
(* module follows one principal.  What the rows do to the inventory is    *)
(* left to the inventory: here a transaction's inventory writes succeed or *)
(* are refused.                                                            *)
(***************************************************************************)
EXTENDS Integers, Sequences, FiniteSets

CONSTANTS
    Senders,       \* handler goroutines, each serving one confirmation after another
    Scans,         \* collector scan IDs
    CIs,
    Fingerprints,  \* the reviewed preview a confirmation names
    Requests,      \* the confirmations the collector sends, again and again
    MaxCompleteScanOmissions,
    MaxCollectorStateEntries,
    MaxSends,      \* bound on the confirmations sent; also the clock
    None           \* NULL

Results == {"complete", "incomplete", "failed"}

(* A confirmation: the rows stand for the CIs they resolve to.             *)
Request == [scan : Scans, result : Results, rows : SUBSET CIs,
            fingerprint : Fingerprints]

ASSUME ScanAssumption ==
    /\ Requests \subseteq Request
    /\ MaxCompleteScanOmissions \in Nat \ {0}
    /\ {MaxCollectorStateEntries, MaxSends} \subseteq Nat
    /\ None \notin Scans \cup (1 .. MaxSends) /\ None \notin Request /\ None # "ok"

Times == 1 .. MaxSends

CollectorCIState ==
    [omissions : 0 .. MaxCompleteScanOmissions, lastSeen : Scans,
     lastCompleted : Scans \cup {None}, missingSince : Times \cup {None}]

VARIABLES
    phase,     \* where each sender's transaction is
    req,       \* the confirmation it serves
    at,        \* its CompletedAt, taken before the transaction begins
    written,   \* the states its open transaction will commit
    answer,    \* what its last confirmation was told
    ledger,    \* collector_scan_ledger, committed rows by scan ID
    states,    \* collector_ci_scan_states, committed rows by CI
    sends,
    log        \* history: the scans applied, in the order they committed

vars == <<phase, req, at, written, answer, ledger, states, sends, log>>

Phases == {"idle", "claim", "ingest", "commit"}
Answers == {None, "ok", "collector_scan_conflict", "collector_state_limit", "error"}

(* The hash covers the rows and the reviewed fingerprint; the result is    *)
(* compared beside it.                                                     *)
collectorIngestionPayloadHash(r) == <<r.fingerprint, r.rows>>
LedgerEntry(r) == [payloadHash |-> collectorIngestionPayloadHash(r), result |-> r.result]
(* Mutant: the content of a retry is not compared.                         *)
MatchesResultOnly(entry, r) == entry.result = r.result

MatchesRetry(entry, r) == entry = LedgerEntry(r)

Init ==
    /\ phase = [s \in Senders |-> "idle"]
    /\ req = [s \in Senders |-> None]
    /\ at = [s \in Senders |-> None]
    /\ written = [s \in Senders |-> None]
    /\ answer = [s \in Senders |-> None]
    /\ ledger = <<>>
    /\ states = <<>>
    /\ sends = 0
    /\ log = <<>>

-----------------------------------------------------------------------------
(* The pure transition of one CI's presence state.                         *)

NewState == [omissions |-> 0, lastSeen |-> None, lastCompleted |-> None,
             missingSince |-> None]

ApplySeen(state, scan, result) ==
    [omissions |-> 0, lastSeen |-> scan,
     lastCompleted |-> IF result = "complete" THEN scan ELSE state.lastCompleted,
     missingSince |-> None]

(* Mutant: the omissions are not capped.                                   *)
ApplyOmissionUncapped(state, scan, time) ==
    [state EXCEPT !.omissions = @ + 1, !.lastCompleted = scan,
                  !.missingSince = IF state.omissions + 1 = MaxCompleteScanOmissions
                                   THEN time ELSE @]

ApplyOmission(state, scan, time) ==
    LET omissions == IF state.omissions < MaxCompleteScanOmissions
                     THEN state.omissions + 1 ELSE state.omissions
    IN [omissions |-> omissions, lastSeen |-> state.lastSeen, lastCompleted |-> scan,
        missingSince |->
            IF omissions = MaxCompleteScanOmissions /\ state.missingSince = None
            THEN time ELSE state.missingSince]

ApplyCollectorScan(state, scan, result, time, seen) ==
    IF result = "complete" /\ state.lastCompleted = scan THEN state
    ELSE IF seen THEN ApplySeen(state, scan, result)
    ELSE IF result # "complete" \/ state.lastSeen = None THEN state
    ELSE ApplyOmission(state, scan, time)

ApplyCollectorScanStates(r, time) ==
    [c \in DOMAIN states \cup r.rows |->
        ApplyCollectorScan(IF c \in DOMAIN states THEN states[c] ELSE NewState,
                           r.scan, r.result, time, c \in r.rows)]

(* The presence an operator reads beside a CI.                             *)
CollectorPresence(state) == IF state.missingSince = None THEN "present" ELSE "missing"

-----------------------------------------------------------------------------

End(s, outcome) ==
    /\ phase' = [phase EXCEPT ![s] = "idle"]
    /\ at' = [at EXCEPT ![s] = None]
    /\ written' = [written EXCEPT ![s] = None]
    /\ answer' = [answer EXCEPT ![s] = outcome]

(* A confirmation arrives, a first one or a retry of any earlier one, and  *)
(* takes its completion time.                                              *)
ConfirmCollectorIngestion(s) ==
    /\ phase[s] = "idle"
    /\ sends < MaxSends
    /\ \E r \in Requests : req' = [req EXCEPT ![s] = r]
    /\ sends' = sends + 1
    /\ at' = [at EXCEPT ![s] = sends + 1]
    /\ phase' = [phase EXCEPT ![s] = "claim"]
    /\ answer' = [answer EXCEPT ![s] = None]
    /\ UNCHANGED <<written, ledger, states, log>>

(* Mutant: the ledger is read without waiting for its uncommitted rows.    *)
ClaimWithoutWaiting(s) == s \in Senders

(* An uncommitted ledger row makes an insert of the same key wait.         *)
ClaimIsFree(s) ==
    \A o \in Senders \ {s} :
        phase[o] \in {"ingest", "commit"} => req[o].scan # req[s].scan

ClaimCollectorScan(s) ==
    /\ phase[s] = "claim"
    /\ ClaimIsFree(s)
    /\ req[s].scan \notin DOMAIN ledger
    /\ phase' = [phase EXCEPT ![s] = "ingest"]
    /\ UNCHANGED <<req, at, written, answer, ledger, states, sends, log>>

(* The key is taken: an exact retry is answered without further writes,    *)
(* anything else is a conflict.                                            *)
CompareCollectorScanRetry(s) ==
    /\ phase[s] = "claim"
    /\ ClaimIsFree(s)
    /\ req[s].scan \in DOMAIN ledger
    /\ End(s, IF MatchesRetry(ledger[req[s].scan], req[s])
              THEN "ok" ELSE "collector_scan_conflict")
    /\ UNCHANGED <<req, ledger, states, sends, log>>

(* Mutants: the states are read without a lock, or every transaction holds *)
(* a shared lock on them from its start and upgrades it here.              *)
StatesUnlocked(s) == s \in Senders
StatesSharedThenUpgraded(s) ==
    \A o \in Senders \ {s} : phase[o] \notin {"ingest", "commit"}

(* SELECT ... FOR UPDATE over the principal's states: the range stays      *)
(* locked until the transaction that read it ends.  (Two transactions that *)
(* lock the gap of an empty range deadlock at their inserts and InnoDB     *)
(* rolls one back: Fail.)                                                  *)
StatesAreFree(s) == \A o \in Senders \ {s} : phase[o] # "commit"

StateLimitReached(r) ==
    Cardinality(DOMAIN states \cup r.rows) > MaxCollectorStateEntries

(* The inventory is written and the states are moved.                      *)
ApplyStates(s) ==
    /\ phase[s] = "ingest"
    /\ StatesAreFree(s)
    /\ ~StateLimitReached(req[s])
    /\ written' = [written EXCEPT ![s] = ApplyCollectorScanStates(req[s], at[s])]
    /\ phase' = [phase EXCEPT ![s] = "commit"]
    /\ UNCHANGED <<req, at, answer, ledger, states, sends, log>>

RefuseOverLimit(s) ==
    /\ phase[s] = "ingest"
    /\ StatesAreFree(s)
    /\ StateLimitReached(req[s])
    /\ End(s, "collector_state_limit")
    /\ UNCHANGED <<req, ledger, states, sends, log>>

(* The commit lands; its acknowledgement may be lost.                      *)
Commit(s) ==
    /\ phase[s] = "commit"
    /\ ledger' = [i \in DOMAIN ledger \cup {req[s].scan} |->
                    IF i = req[s].scan THEN LedgerEntry(req[s]) ELSE ledger[i]]
    /\ states' = written[s]
    /\ log' = Append(log, [scan |-> req[s].scan, result |-> req[s].result,
                           seen |-> req[s].rows, at |-> at[s]])
    /\ \E outcome \in {"ok", "error"} : End(s, outcome)
    /\ UNCHANGED <<req, sends>>

(* Any statement may fail, and the inventory may refuse the rows (an       *)
(* ambiguous match, a stale preview, an identity already taken): the       *)
(* deferred rollback takes the claim back.                                 *)
Fail(s) ==
    /\ phase[s] # "idle"
    /\ End(s, "error")
    /\ UNCHANGED <<req, ledger, states, sends, log>>

Step(s) ==
    \/ ClaimCollectorScan(s) \/ CompareCollectorScanRetry(s)
    \/ ApplyStates(s) \/ RefuseOverLimit(s) \/ Commit(s)

Next == \E s \in Senders : ConfirmCollectorIngestion(s) \/ Step(s) \/ Fail(s)

(* The handler runs its statements one after the other and nothing else    *)
(* holds it up than another confirmation's locks; that a statement fails   *)
(* is never relied on.                                                     *)
Fairness == \A s \in Senders : WF_vars(Step(s))

Spec == Init /\ [][Next]_vars /\ Fairness

-----------------------------------------------------------------------------

TypeOK ==
    /\ phase \in [Senders -> Phases]
    /\ req \in [Senders -> Request \cup {None}]
    /\ at \in [Senders -> Times \cup {None}]
    /\ DOMAIN written = Senders
    /\ answer \in [Senders -> Answers]
    /\ DOMAIN ledger \subseteq Scans
    /\ \A i \in DOMAIN ledger :
          ledger[i] \in [payloadHash : Fingerprints \X SUBSET CIs, result : Results]
    /\ DOMAIN states \subseteq CIs
    /\ \A c \in DOMAIN states : states[c] \in CollectorCIState
    /\ sends \in 0 .. MaxSends
    /\ log \in Seq([scan : Scans, result : Results, seen : SUBSET CIs, at : Times])
    /\ \A s \in Senders :
          /\ phase[s] # "idle" => req[s] # None /\ at[s] # None
          /\ phase[s] = "commit" =>
                /\ DOMAIN written[s] \subseteq CIs
                /\ \A c \in DOMAIN written[s] : written[s][c] \in CollectorCIState

(* What the log says of a CI: when it was last seen, and the complete      *)
(* scans that left it out since.                                           *)
Sightings(c) == {i \in DOMAIN log : c \in log[i].seen}
OmittedBy(c) ==
    {i \in DOMAIN log : log[i].result = "complete" /\ \A j \in Sightings(c) : j < i}
UpTo(i, positions) == {j \in positions : j <= i}
IsOmission(c, i, n) ==
    i \in OmittedBy(c) /\ Cardinality(UpTo(i, OmittedBy(c))) = n

(* Its omissions are the complete scans since the last sighting, capped at *)
(* the limit, and it is missing since the one that reached the limit.      *)
FollowsTheLog(c) ==
    LET omitted == Cardinality(OmittedBy(c))
        limit == MaxCompleteScanOmissions
    IN  /\ states[c].omissions = IF omitted < limit THEN omitted ELSE limit
        /\ (CollectorPresence(states[c]) = "missing") <=> (omitted >= limit)
        /\ \A i \in DOMAIN log :
              IsOmission(c, i, limit) => states[c].missingSince = log[i].at

(* Retries, concurrent confirmations, lost acknowledgements and rollbacks  *)
(* leave the presence states exactly where the committed scans put them:   *)
(* a CI has a state once some scan saw it, its omissions are the complete  *)
(* scans since the last sighting, incomplete and failed ones not counted   *)
(* and capped at the limit, and it is missing since the scan that reached  *)
(* the limit, not since a later one.                                       *)
StatesFollowTheLog ==
    /\ DOMAIN states = {c \in CIs : Sightings(c) # {}}
    /\ \A c \in DOMAIN states : FollowsTheLog(c)

(* A scan ID is applied at most once, however often it is sent and by      *)
(* however many confirmations at a time; the ledger names the scans applied. *)
EachScanAppliedOnce ==
    /\ \A i, j \in DOMAIN log : log[i].scan = log[j].scan => i = j
    /\ DOMAIN ledger = {log[i].scan : i \in DOMAIN log}

(* A confirmation answered 200 has its own rows, its own reviewed preview  *)
(* and its own result on record, whoever wrote the record.                 *)
OkMeansRecorded ==
    \A s \in Senders : answer[s] = "ok" =>
        /\ req[s].scan \in DOMAIN ledger
        /\ ledger[req[s].scan] = LedgerEntry(req[s])

-----------------------------------------------------------------------------
(* Why a scan is applied once: the confirmations whose claim is written    *)
(* hold different scans, none of them committed, and are not answered yet. *)
Claiming(s) == phase[s] \in {"ingest", "commit"}
ClaimsAreExclusive ==
    /\ \A s, o \in Senders : Claiming(s) /\ Claiming(o) /\ s # o =>
          req[s].scan # req[o].scan
    /\ \A s \in Senders : Claiming(s) => req[s].scan \notin DOMAIN ledger
    /\ \A s \in Senders : answer[s] = "ok" => phase[s] = "idle" /\ req[s] # None

(* Why the states follow the log: the transaction about to commit is the   *)
(* only one, and holds what its scan makes of the states as they are.      *)
StatesAreLocked ==
    /\ \A s, o \in Senders : phase[s] = "commit" /\ phase[o] = "commit" => s = o
    /\ \A s \in Senders : phase[s] = "commit" =>
          written[s] = ApplyCollectorScanStates(req[s], at[s])
    /\ \A c \in DOMAIN states : states[c].lastCompleted \in DOMAIN ledger \cup {None}

ScanInv == TypeOK /\ ClaimsAreExclusive /\ EachScanAppliedOnce /\ OkMeansRecorded
LogInv == ScanInv /\ StatesAreLocked /\ StatesFollowTheLog

-----------------------------------------------------------------------------
(* Waiting for another confirmation's claim or states ends: every          *)
(* confirmation is answered.                                               *)
EveryConfirmationAnswered == \A s \in Senders : phase[s] # "idle" ~> phase[s] = "idle"
=============================================================================
