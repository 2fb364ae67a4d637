------------------------ MODULE CollectorScansProofs ------------------------
(***************************************************************************)
(* Theorems about CollectorScans, for all sets of senders, scans, CIs and  *)
(* requests and all limits: the state stays well typed, a scan is applied  *)
(* at most once, and an answer ok is on record.                            *)
(***************************************************************************)
EXTENDS CollectorScans, TLAPS, SequenceTheorems, FiniteSetTheorems

-----------------------------------------------------------------------------
(* The transition of one presence state.                                   *)

(* A stored state stays a state, whatever scan is applied to it: the count *)
(* never passes its cap.                                                   *)
LEMMA KnownStateType ==
    ASSUME NEW state \in CollectorCIState, NEW scan \in Scans, NEW result \in Results,
           NEW time \in Times, NEW seen \in BOOLEAN
    PROVE  ApplyCollectorScan(state, scan, result, time, seen) \in CollectorCIState
<1>0. /\ state.omissions \in 0 .. MaxCompleteScanOmissions /\ state.lastSeen \in Scans
      /\ state.lastCompleted \in Scans \cup {None}
      /\ state.missingSince \in Times \cup {None}
  BY DEF CollectorCIState
<1>1. 0 \in 0 .. MaxCompleteScanOmissions
  BY ScanAssumption
<1>2. ApplySeen(state, scan, result) \in CollectorCIState
  BY <1>0, <1>1 DEF ApplySeen, CollectorCIState
<1>3. ApplyOmission(state, scan, time) \in CollectorCIState
  <2> DEFINE n == IF state.omissions < MaxCompleteScanOmissions
                  THEN state.omissions + 1 ELSE state.omissions
  <2>1. n \in 0 .. MaxCompleteScanOmissions
    BY <1>0, ScanAssumption
  <2>2. ApplyOmission(state, scan, time)
          = [omissions |-> n, lastSeen |-> state.lastSeen, lastCompleted |-> scan,
             missingSince |-> IF n = MaxCompleteScanOmissions /\ state.missingSince = None
                              THEN time ELSE state.missingSince]
    BY DEF ApplyOmission
  <2> HIDE DEF n
  <2> QED BY <1>0, <2>1, <2>2 DEF CollectorCIState
<1> QED BY <1>2, <1>3 DEF ApplyCollectorScan

(* The first sighting of a CI makes a state.                               *)
LEMMA NewStateType ==
    ASSUME NEW scan \in Scans, NEW result \in Results, NEW time \in Times
    PROVE  ApplyCollectorScan(NewState, scan, result, time, TRUE) \in CollectorCIState
<1>1. NewState.lastCompleted = None /\ None # scan
  BY ScanAssumption DEF NewState
<1>2. ApplySeen(NewState, scan, result) \in CollectorCIState
  <2>1. ApplySeen(NewState, scan, result)
          = [omissions |-> 0, lastSeen |-> scan,
             lastCompleted |-> IF result = "complete" THEN scan ELSE None,
             missingSince |-> None]
    BY DEF ApplySeen, NewState
  <2>2. 0 \in 0 .. MaxCompleteScanOmissions
    BY ScanAssumption
  <2> QED BY <2>1, <2>2 DEF CollectorCIState
<1> QED BY <1>1, <1>2 DEF ApplyCollectorScan

(* What a transaction is about to commit is a table of states.             *)
LEMMA WrittenType ==
    ASSUME DOMAIN states \subseteq CIs, \A c \in DOMAIN states : states[c] \in CollectorCIState,
           NEW r \in Request, NEW time \in Times
    PROVE  /\ DOMAIN ApplyCollectorScanStates(r, time) \subseteq CIs
           /\ \A c \in DOMAIN ApplyCollectorScanStates(r, time) :
                 ApplyCollectorScanStates(r, time)[c] \in CollectorCIState
<1> DEFINE new == ApplyCollectorScanStates(r, time)
<1>1. r.scan \in Scans /\ r.result \in Results /\ r.rows \subseteq CIs
  BY DEF Request
<1>2. DOMAIN new = DOMAIN states \cup r.rows
  BY DEF ApplyCollectorScanStates
<1>3. ASSUME NEW c \in DOMAIN new
      PROVE  new[c] \in CollectorCIState
  <2>1. CASE c \in DOMAIN states
    <3>1. new[c] = ApplyCollectorScan(states[c], r.scan, r.result, time, c \in r.rows)
      BY <1>2, <1>3, <2>1 DEF ApplyCollectorScanStates
    <3>2. states[c] \in CollectorCIState /\ (c \in r.rows) \in BOOLEAN
      BY <2>1
    <3> HIDE DEF new
    <3> QED BY <1>1, <3>1, <3>2, KnownStateType
  <2>2. CASE c \notin DOMAIN states
    <3>1. c \in r.rows /\ (c \in r.rows) = TRUE
      BY <1>2, <1>3, <2>2
    <3>2. new[c] = ApplyCollectorScan(NewState, r.scan, r.result, time, TRUE)
      BY <1>2, <1>3, <2>2, <3>1 DEF ApplyCollectorScanStates
    <3> QED BY <1>1, <3>2, NewStateType
  <2> QED BY <2>1, <2>2
<1> QED BY <1>1, <1>2, <1>3

-----------------------------------------------------------------------------
(* Type correctness.                                                       *)

LogEntry == [scan : Scans, result : Results, seen : SUBSET CIs, at : Times]
LedgerRow == [payloadHash : Fingerprints \X SUBSET CIs, result : Results]

(* A request of a sender that is serving one is made of scans and CIs.     *)
LEMMA Serving ==
    ASSUME TypeOK, NEW s \in Senders, phase[s] # "idle"
    PROVE  /\ req[s] \in Request /\ at[s] \in Times
           /\ req[s].scan \in Scans /\ LedgerEntry(req[s]) \in LedgerRow
<1>1. req[s] \in Request /\ at[s] \in Times
  BY DEF TypeOK
<1>2. req[s] \in [scan : Scans, result : Results, rows : SUBSET CIs,
                  fingerprint : Fingerprints]
  BY <1>1 DEF Request
<1> QED
  BY <1>1, <1>2 DEF LedgerEntry, LedgerRow, collectorIngestionPayloadHash

(* Initially everything has its type.                                      *)
LEMMA InitType == Init => TypeOK
<1> SUFFICES ASSUME Init PROVE TypeOK
  OBVIOUS
<1>1. /\ DOMAIN ledger = {} /\ DOMAIN states = {}
      /\ log \in Seq([scan : Scans, result : Results, seen : SUBSET CIs, at : Times])
  BY DEF Init
<1>2. sends \in 0 .. MaxSends
  BY ScanAssumption DEF Init
<1> QED
  BY <1>1, <1>2 DEF Init, TypeOK, Phases, Answers

(* Ending a confirmation keeps the types of the sender's own state.        *)
LEMMA EndType ==
    ASSUME TypeOK, NEW s \in Senders, NEW outcome \in Answers, End(s, outcome),
           UNCHANGED <<req, sends>>
    PROVE  /\ DOMAIN written' = Senders
           /\ phase' \in [Senders -> Phases] /\ req' \in [Senders -> Request \cup {None}]
           /\ at' \in [Senders -> Times \cup {None}] /\ answer' \in [Senders -> Answers]
           /\ sends' \in 0 .. MaxSends
           /\ \A o \in Senders :
                /\ phase'[o] # "idle" => req'[o] # None /\ at'[o] # None
                /\ phase'[o] = "commit" =>
                      /\ DOMAIN (written'[o]) \subseteq CIs
                      /\ \A c \in DOMAIN (written'[o]) : written'[o][c] \in CollectorCIState
<1>1. /\ phase' = [phase EXCEPT ![s] = "idle"] /\ at' = [at EXCEPT ![s] = None]
      /\ answer' = [answer EXCEPT ![s] = outcome] /\ req' = req /\ sends' = sends
  BY DEF End
<1>2. /\ DOMAIN written' = Senders
      /\ phase' \in [Senders -> Phases] /\ req' \in [Senders -> Request \cup {None}]
      /\ at' \in [Senders -> Times \cup {None}] /\ answer' \in [Senders -> Answers]
      /\ sends' \in 0 .. MaxSends
  BY <1>1 DEF TypeOK, Phases, End
<1>3. ASSUME NEW o \in Senders
      PROVE  /\ phase'[o] # "idle" => req'[o] # None /\ at'[o] # None
             /\ phase'[o] = "commit" =>
                   /\ DOMAIN (written'[o]) \subseteq CIs
                   /\ \A c \in DOMAIN (written'[o]) : written'[o][c] \in CollectorCIState
  <2>1. CASE o = s
    BY <1>1, <2>1 DEF TypeOK
  <2>2. CASE o # s
    <3>1. /\ phase'[o] = phase[o] /\ req'[o] = req[o] /\ at'[o] = at[o]
      BY <1>1, <2>2 DEF TypeOK
    <3>2. phase[o] = "commit" => written'[o] = written[o]
      BY <2>2 DEF End, TypeOK
    <3> QED BY <3>1, <3>2 DEF TypeOK
  <2> QED BY <2>1, <2>2
<1> QED BY <1>2, <1>3

(* Every step keeps the types.                                             *)
LEMMA NextType == TypeOK /\ [Next]_vars => TypeOK'
<1> SUFFICES ASSUME TypeOK, [Next]_vars PROVE TypeOK'
  OBVIOUS
<1>1. CASE UNCHANGED vars
  BY <1>1 DEF vars, TypeOK
<1>2. ASSUME NEW s \in Senders, ConfirmCollectorIngestion(s) PROVE TypeOK'
  <2>1. PICK r \in Requests : req' = [req EXCEPT ![s] = r]
    BY <1>2 DEF ConfirmCollectorIngestion
  <2>2. r \in Request /\ r # None
    BY ScanAssumption
  <2>3. sends + 1 \in Times /\ sends + 1 # None
    BY <1>2, ScanAssumption DEF ConfirmCollectorIngestion, TypeOK, Times
  <2>4. sends' \in 0 .. MaxSends
    BY <1>2, ScanAssumption DEF ConfirmCollectorIngestion, TypeOK
  <2> QED
    BY <1>2, <2>1, <2>2, <2>3, <2>4
    DEF ConfirmCollectorIngestion, TypeOK, Phases, Answers
<1>3. ASSUME NEW s \in Senders, ClaimCollectorScan(s) PROVE TypeOK'
  BY <1>3 DEF ClaimCollectorScan, TypeOK, Phases
<1>4. ASSUME NEW s \in Senders, NEW outcome \in Answers, End(s, outcome),
             UNCHANGED <<req, ledger, states, sends, log>>
      PROVE  TypeOK'
  BY <1>4, EndType DEF TypeOK
<1>5. ASSUME NEW s \in Senders, ApplyStates(s) PROVE TypeOK'
  <2>1. /\ phase[s] = "ingest" /\ phase' = [phase EXCEPT ![s] = "commit"]
        /\ written' = [written EXCEPT ![s] = ApplyCollectorScanStates(req[s], at[s])]
        /\ UNCHANGED <<req, at, answer, ledger, states, sends, log>>
    BY <1>5 DEF ApplyStates
  <2>2. req[s] \in Request /\ at[s] \in Times
    BY <2>1, Serving
  <2>3. /\ DOMAIN ApplyCollectorScanStates(req[s], at[s]) \subseteq CIs
        /\ \A c \in DOMAIN ApplyCollectorScanStates(req[s], at[s]) :
              ApplyCollectorScanStates(req[s], at[s])[c] \in CollectorCIState
    BY <2>2, WrittenType DEF TypeOK
  <2> QED BY <2>1, <2>3 DEF TypeOK, Phases
<1>6. ASSUME NEW s \in Senders, Commit(s) PROVE TypeOK'
  <2>1. PICK outcome \in {"ok", "error"} : End(s, outcome)
    BY <1>6 DEF Commit
  <2>2. outcome \in Answers /\ phase[s] = "commit" /\ UNCHANGED <<req, sends>>
    BY <1>6 DEF Answers, Commit
  <2>3. /\ req[s] \in Request /\ at[s] \in Times
        /\ req[s].scan \in Scans /\ LedgerEntry(req[s]) \in LedgerRow
    BY <2>2, Serving
  <2>4. /\ DOMAIN ledger' \subseteq Scans
        /\ \A i \in DOMAIN ledger' : ledger'[i] \in LedgerRow
    BY <1>6, <2>3 DEF Commit, TypeOK, LedgerRow
  <2>5. /\ DOMAIN states' \subseteq CIs
        /\ \A c \in DOMAIN states' : states'[c] \in CollectorCIState
    BY <1>6, <2>2 DEF Commit, TypeOK
  <2>6. log' \in Seq(LogEntry)
    <3>1. log \in Seq(LogEntry)
      BY DEF TypeOK, LogEntry
    <3>2. [scan |-> req[s].scan, result |-> req[s].result,
           seen |-> req[s].rows, at |-> at[s]] \in LogEntry
      BY <2>3 DEF Request, LogEntry
    <3> QED BY <1>6, <3>1, <3>2, AppendProperties DEF Commit
  <2> QED
    BY <2>1, <2>2, <2>4, <2>5, <2>6, EndType DEF TypeOK, LogEntry, LedgerRow
<1>7. ASSUME NEW s \in Senders, CompareCollectorScanRetry(s) PROVE TypeOK'
  BY <1>4, <1>7 DEF CompareCollectorScanRetry, Answers
<1>8. ASSUME NEW s \in Senders, RefuseOverLimit(s) PROVE TypeOK'
  BY <1>4, <1>8 DEF RefuseOverLimit, Answers
<1>9. ASSUME NEW s \in Senders, Fail(s) PROVE TypeOK'
  BY <1>4, <1>9 DEF Fail, Answers
<1> QED
  BY <1>1, <1>2, <1>3, <1>5, <1>6, <1>7, <1>8, <1>9 DEF Next, Step

(* Types hold in every reachable state: the omission counters stay within  *)
(* their cap and every table row is made of scans, CIs and times.          *)
THEOREM ScanTypes == Spec => []TypeOK
<1> QED BY InitType, NextType, PTL DEF Spec

-----------------------------------------------------------------------------
(* A scan is applied once, and ok is on record.                            *)

(* A step that ends a confirmation without a commit, with an answer that   *)
(* is ok only for what the ledger holds.                                   *)
LEMMA EndInv ==
    ASSUME ScanInv, NEW s \in Senders, NEW outcome \in Answers, End(s, outcome),
           UNCHANGED <<req, ledger, states, sends, log>>, phase[s] # "idle",
           outcome = "ok" => /\ req[s].scan \in DOMAIN ledger
                             /\ ledger[req[s].scan] = LedgerEntry(req[s])
    PROVE  ClaimsAreExclusive' /\ EachScanAppliedOnce' /\ OkMeansRecorded'
<1>1. /\ phase' = [phase EXCEPT ![s] = "idle"] /\ answer' = [answer EXCEPT ![s] = outcome]
      /\ req' = req /\ ledger' = ledger /\ log' = log
  BY DEF End
<1>2. phase \in [Senders -> Phases] /\ answer \in [Senders -> Answers] /\ req[s] # None
  BY DEF ScanInv, TypeOK
<1>3. EachScanAppliedOnce'
  BY <1>1 DEF ScanInv, EachScanAppliedOnce
<1>4. OkMeansRecorded'
  BY <1>1, <1>2 DEF ScanInv, OkMeansRecorded
<1>5. ClaimsAreExclusive'
  BY <1>1, <1>2 DEF ScanInv, ClaimsAreExclusive, Claiming
<1> QED BY <1>3, <1>4, <1>5

(* A commit: the scan was in no ledger row and no other open claim.        *)
LEMMA CommitInv ==
    ASSUME ScanInv, NEW s \in Senders, Commit(s)
    PROVE  ClaimsAreExclusive' /\ EachScanAppliedOnce' /\ OkMeansRecorded'
<1> DEFINE scan == req[s].scan
           entry == [scan |-> scan, result |-> req[s].result,
                     seen |-> req[s].rows, at |-> at[s]]
<1>1. PICK outcome \in {"ok", "error"} : End(s, outcome)
  BY DEF Commit
<1>2. /\ phase' = [phase EXCEPT ![s] = "idle"] /\ answer' = [answer EXCEPT ![s] = outcome]
      /\ req' = req /\ log' = Append(log, entry) /\ phase[s] = "commit"
      /\ ledger' = [i \in DOMAIN ledger \cup {scan} |->
                        IF i = scan THEN LedgerEntry(req[s]) ELSE ledger[i]]
  BY <1>1 DEF Commit, End
<1>3. /\ phase \in [Senders -> Phases] /\ answer \in [Senders -> Answers]
      /\ req[s] # None /\ log \in Seq(LogEntry)
  BY <1>2 DEF ScanInv, TypeOK, LogEntry
<1>4. scan \notin DOMAIN ledger
  BY <1>2 DEF ScanInv, ClaimsAreExclusive, Claiming
<1>5. /\ DOMAIN ledger' = DOMAIN ledger \cup {scan}
      /\ ledger'[scan] = LedgerEntry(req[s])
      /\ \A i \in DOMAIN ledger : ledger'[i] = ledger[i]
  BY <1>2, <1>4
<1>6. EachScanAppliedOnce'
  <2>1. /\ Len(log) \in Nat /\ DOMAIN log = 1 .. Len(log)
        /\ DOMAIN log' = 1 .. Len(log) + 1
        /\ log'[Len(log) + 1] = entry /\ \A i \in DOMAIN log : log'[i] = log[i]
    BY <1>2, <1>3, AppendProperties, LenProperties
  <2>2. \A i \in DOMAIN log : log[i].scan \in DOMAIN ledger
    BY DEF ScanInv, EachScanAppliedOnce
  <2>3. \A i, j \in DOMAIN log' : log'[i].scan = log'[j].scan => i = j
    <3> SUFFICES ASSUME NEW i \in DOMAIN log', NEW j \in DOMAIN log',
                        log'[i].scan = log'[j].scan
                 PROVE  i = j
      OBVIOUS
    <3>1. CASE i \in DOMAIN log /\ j \in DOMAIN log
      BY <2>1, <3>1 DEF ScanInv, EachScanAppliedOnce
    <3>2. CASE i \notin DOMAIN log /\ j \in DOMAIN log
      BY <1>4, <2>1, <2>2, <3>2
    <3>3. CASE i \in DOMAIN log /\ j \notin DOMAIN log
      BY <1>4, <2>1, <2>2, <3>3
    <3>4. CASE i \notin DOMAIN log /\ j \notin DOMAIN log
      BY <2>1, <3>4
    <3> QED BY <3>1, <3>2, <3>3, <3>4
  <2>4. DOMAIN ledger' = {log'[i].scan : i \in DOMAIN log'}
    <3>1. DOMAIN ledger = {log[i].scan : i \in DOMAIN log}
      BY DEF ScanInv, EachScanAppliedOnce
    <3>2. DOMAIN log' = DOMAIN log \cup {Len(log) + 1} /\ log'[Len(log) + 1].scan = scan
      BY <2>1
    <3> QED BY <1>5, <2>1, <3>1, <3>2
  <2> QED BY <2>3, <2>4 DEF EachScanAppliedOnce
<1>7. OkMeansRecorded'
  BY <1>2, <1>3, <1>5 DEF ScanInv, OkMeansRecorded
<1>8. ClaimsAreExclusive'
  <2>1. \A o \in Senders \ {s} : Claiming(o) => req[o].scan # scan
    BY <1>2 DEF ScanInv, ClaimsAreExclusive, Claiming
  <2> QED
    BY <1>2, <1>3, <1>5, <2>1 DEF ScanInv, ClaimsAreExclusive, Claiming
<1> QED BY <1>6, <1>7, <1>8

(* The invariant is inductive.                                             *)
LEMMA NextInv == ScanInv /\ [Next]_vars => ScanInv'
<1> SUFFICES ASSUME ScanInv, [Next]_vars
             PROVE  ClaimsAreExclusive' /\ EachScanAppliedOnce' /\ OkMeansRecorded'
  BY NextType DEF ScanInv
<1>1. CASE UNCHANGED vars
  BY <1>1 DEF vars, ScanInv, ClaimsAreExclusive, Claiming, EachScanAppliedOnce,
              OkMeansRecorded
<1>2. ASSUME NEW s \in Senders, ConfirmCollectorIngestion(s)
      PROVE  ClaimsAreExclusive' /\ EachScanAppliedOnce' /\ OkMeansRecorded'
  <2>1. PICK r \in Requests : req' = [req EXCEPT ![s] = r]
    BY <1>2 DEF ConfirmCollectorIngestion
  <2>2. /\ phase' = [phase EXCEPT ![s] = "claim"] /\ answer' = [answer EXCEPT ![s] = None]
        /\ ledger' = ledger /\ log' = log /\ phase[s] = "idle" /\ None # "ok"
    BY <1>2, ScanAssumption DEF ConfirmCollectorIngestion
  <2>3. /\ phase \in [Senders -> Phases] /\ answer \in [Senders -> Answers]
        /\ req \in [Senders -> Request \cup {None}]
    BY DEF ScanInv, TypeOK
  <2>4. EachScanAppliedOnce'
    BY <2>2 DEF ScanInv, EachScanAppliedOnce
  <2>5. OkMeansRecorded'
    BY <2>1, <2>2, <2>3 DEF ScanInv, OkMeansRecorded
  <2>6. ClaimsAreExclusive'
    BY <2>1, <2>2, <2>3 DEF ScanInv, ClaimsAreExclusive, Claiming
  <2> QED BY <2>4, <2>5, <2>6
<1>3. ASSUME NEW s \in Senders, ClaimCollectorScan(s)
      PROVE  ClaimsAreExclusive' /\ EachScanAppliedOnce' /\ OkMeansRecorded'
  <2>1. /\ phase' = [phase EXCEPT ![s] = "ingest"] /\ phase[s] = "claim"
        /\ UNCHANGED <<req, answer, ledger, log>> /\ req[s].scan \notin DOMAIN ledger
        /\ \A o \in Senders \ {s} : Claiming(o) => req[o].scan # req[s].scan
    BY <1>3 DEF ClaimCollectorScan, ClaimIsFree, Claiming
  <2>2. phase \in [Senders -> Phases]
    BY DEF ScanInv, TypeOK
  <2>3. EachScanAppliedOnce' /\ OkMeansRecorded'
    BY <2>1 DEF ScanInv, EachScanAppliedOnce, OkMeansRecorded
  <2>4. ClaimsAreExclusive'
    BY <2>1, <2>2 DEF ScanInv, ClaimsAreExclusive, Claiming
  <2> QED BY <2>3, <2>4
<1>4. ASSUME NEW s \in Senders, ApplyStates(s)
      PROVE  ClaimsAreExclusive' /\ EachScanAppliedOnce' /\ OkMeansRecorded'
  <2>1. /\ phase' = [phase EXCEPT ![s] = "commit"] /\ phase[s] = "ingest"
        /\ UNCHANGED <<req, answer, ledger, log>> /\ phase \in [Senders -> Phases]
    BY <1>4 DEF ApplyStates, ScanInv, TypeOK
  <2>2. EachScanAppliedOnce' /\ OkMeansRecorded'
    BY <2>1 DEF ScanInv, EachScanAppliedOnce, OkMeansRecorded
  <2>3. ClaimsAreExclusive'
    BY <2>1 DEF ScanInv, ClaimsAreExclusive, Claiming
  <2> QED BY <2>2, <2>3
<1>5. ASSUME NEW s \in Senders, CompareCollectorScanRetry(s)
      PROVE  ClaimsAreExclusive' /\ EachScanAppliedOnce' /\ OkMeansRecorded'
  <2> DEFINE outcome == IF MatchesRetry(ledger[req[s].scan], req[s])
                        THEN "ok" ELSE "collector_scan_conflict"
  <2>1. /\ End(s, outcome) /\ UNCHANGED <<req, ledger, states, sends, log>>
        /\ phase[s] # "idle" /\ req[s].scan \in DOMAIN ledger
    BY <1>5 DEF CompareCollectorScanRetry
  <2>2. outcome \in Answers /\ (outcome = "ok" => ledger[req[s].scan] = LedgerEntry(req[s]))
    BY DEF Answers, MatchesRetry
  <2> HIDE DEF outcome
  <2> QED BY <2>1, <2>2, EndInv
<1>6. ASSUME NEW s \in Senders, RefuseOverLimit(s)
      PROVE  ClaimsAreExclusive' /\ EachScanAppliedOnce' /\ OkMeansRecorded'
  BY <1>6, EndInv DEF RefuseOverLimit, Answers
<1>7. ASSUME NEW s \in Senders, Fail(s)
      PROVE  ClaimsAreExclusive' /\ EachScanAppliedOnce' /\ OkMeansRecorded'
  BY <1>7, EndInv DEF Fail, Answers
<1> QED
  BY <1>1, <1>2, <1>3, <1>4, <1>5, <1>6, <1>7, CommitInv DEF Next, Step

(* It holds initially.                                                     *)
LEMMA InitScanInv == Init => ScanInv
<1> SUFFICES ASSUME Init PROVE ScanInv
  OBVIOUS
<1>1. DOMAIN log = {} /\ DOMAIN ledger = {}
  BY DEF Init
<1>2. EachScanAppliedOnce
  BY <1>1 DEF EachScanAppliedOnce
<1>3. ClaimsAreExclusive /\ OkMeansRecorded
  BY ScanAssumption DEF Init, ClaimsAreExclusive, Claiming, OkMeansRecorded
<1> QED BY <1>2, <1>3, InitType DEF ScanInv

(* The invariant holds in every reachable state.                           *)
LEMMA ScanInvariance == Spec => []ScanInv
<1> QED BY InitScanInv, NextInv, PTL DEF Spec

(* However often a scan is sent, and by however many confirmations at a    *)
(* time, it is applied at most once, and the ledger lists what was applied. *)
THEOREM ScanAppliedOnce == Spec => []EachScanAppliedOnce
<1>1. ScanInv => EachScanAppliedOnce
  BY DEF ScanInv
<1> QED BY <1>1, ScanInvariance, PTL

(* An ok answer means that the ledger holds exactly what was confirmed,    *)
(* lost acknowledgements, retries and changed payloads included.           *)
THEOREM OkIsOnRecord == Spec => []OkMeansRecorded
<1>1. ScanInv => OkMeansRecorded
  BY DEF ScanInv
<1> QED BY <1>1, ScanInvariance, PTL

-----------------------------------------------------------------------------
(* The states are those of the committed scans.                            *)

(* Counting: what a new last element does to a set of log positions and to *)
(* the number of its elements up to a position.                            *)
LEMMA Counting ==
    ASSUME NEW n \in Nat, NEW S \in SUBSET (1 .. n)
    PROVE  /\ Cardinality(S) \in Nat
           /\ Cardinality(S \cup {n + 1}) = Cardinality(S) + 1
           /\ \A i \in S : Cardinality(UpTo(i, S)) <= Cardinality(S)
           /\ \A i \in S : UpTo(i, S \cup {n + 1}) = UpTo(i, S)
           /\ UpTo(n + 1, S \cup {n + 1}) = S \cup {n + 1}
<1>1. IsFiniteSet(1 .. n)
  BY FS_Interval
<1>2. IsFiniteSet(S) /\ Cardinality(S) \in Nat
  BY <1>1, FS_Subset, FS_CardinalityType
<1>3. n + 1 \notin S
  OBVIOUS
<1>4. Cardinality(S \cup {n + 1}) = Cardinality(S) + 1
  BY <1>2, <1>3, FS_AddElement
<1>5. \A i \in S : Cardinality(UpTo(i, S)) <= Cardinality(S)
  <2> SUFFICES ASSUME NEW i \in S
               PROVE  Cardinality(UpTo(i, S)) <= Cardinality(S)
    OBVIOUS
  <2>1. UpTo(i, S) \in SUBSET S
    BY DEF UpTo
  <2> QED BY <1>2, <2>1, FS_Subset
<1>6. \A i \in S : UpTo(i, S \cup {n + 1}) = UpTo(i, S)
  BY DEF UpTo
<1>7. UpTo(n + 1, S \cup {n + 1}) = S \cup {n + 1}
  <2>1. \A j \in S \cup {n + 1} : j <= n + 1
    OBVIOUS
  <2> QED BY <2>1 DEF UpTo
<1> QED BY <1>2, <1>4, <1>5, <1>6, <1>7

(* What a commit appends, and what that does to the sightings and the      *)
(* omissions of a CI.                                                      *)
LEMMA LogGrows ==
    ASSUME TypeOK, NEW s \in Senders, Commit(s), NEW c \in CIs
    PROVE  LET n == Len(log)
           IN  /\ n \in Nat /\ DOMAIN log = 1 .. n /\ DOMAIN log' = 1 .. n + 1
               /\ \A i \in 1 .. n : log'[i] = log[i]
               /\ log'[n + 1].at = at[s]
               /\ Sightings(c)' = IF c \in req[s].rows THEN Sightings(c) \cup {n + 1}
                                                       ELSE Sightings(c)
               /\ OmittedBy(c)' = IF c \in req[s].rows THEN {}
                                  ELSE IF req[s].result = "complete"
                                  THEN OmittedBy(c) \cup {n + 1} ELSE OmittedBy(c)
<1> DEFINE n == Len(log)
           entry == [scan |-> req[s].scan, result |-> req[s].result,
                     seen |-> req[s].rows, at |-> at[s]]
<1>1. log \in Seq(LogEntry) /\ log' = Append(log, entry)
  BY DEF TypeOK, LogEntry, Commit
<1>2. /\ n \in Nat /\ DOMAIN log = 1 .. n /\ DOMAIN log' = 1 .. n + 1
      /\ \A i \in 1 .. n : log'[i] = log[i]
      /\ log'[n + 1] = entry
  BY <1>1, AppendProperties, LenProperties
<1>3. /\ log'[n + 1].at = at[s] /\ log'[n + 1].seen = req[s].rows
      /\ log'[n + 1].result = req[s].result
  BY <1>2
<1> HIDE DEF n, entry
<1>4. Sightings(c)' = IF c \in req[s].rows THEN Sightings(c) \cup {n + 1} ELSE Sightings(c)
  BY <1>2, <1>3 DEF Sightings
<1>5. Sightings(c) \subseteq 1 .. n
  BY <1>2 DEF Sightings
<1>6. CASE c \in req[s].rows
  <2>1. n + 1 \in Sightings(c)'
    BY <1>4, <1>6
  <2>2. OmittedBy(c)' = {}
    BY <1>2, <2>1 DEF OmittedBy
  <2> QED BY <1>2, <1>3, <1>4, <1>6, <2>2 DEF n
<1>7. CASE c \notin req[s].rows
  <2>1. Sightings(c)' = Sightings(c)
    BY <1>4, <1>7
  <2>2. OmittedBy(c)' = {i \in 1 .. n + 1 : log'[i].result = "complete"
                                          /\ \A j \in Sightings(c) : j < i}
    BY <1>2, <2>1 DEF OmittedBy
  <2>3. OmittedBy(c) = {i \in 1 .. n : log[i].result = "complete"
                                      /\ \A j \in Sightings(c) : j < i}
    BY <1>2 DEF OmittedBy
  <2>4. \A j \in Sightings(c) : j < n + 1
    BY <1>2, <1>5
  <2>5. OmittedBy(c)' = IF req[s].result = "complete"
                        THEN OmittedBy(c) \cup {n + 1} ELSE OmittedBy(c)
    BY <1>2, <1>3, <2>2, <2>3, <2>4
  <2> QED BY <1>2, <1>3, <1>4, <1>7, <2>5 DEF n
<1> QED BY <1>6, <1>7

(* A CI that the committed scan saw starts over.                           *)
LEMMA SeenFollows ==
    ASSUME LogInv, NEW s \in Senders, Commit(s), NEW c \in CIs, c \in req[s].rows,
           states'[c].omissions = 0, states'[c].missingSince = None
    PROVE  FollowsTheLog(c)'
<1>1. OmittedBy(c)' = {}
  BY LogGrows DEF LogInv, ScanInv
<1>2. Cardinality(OmittedBy(c)') = 0
  BY <1>1, FS_EmptySet
<1>3. MaxCompleteScanOmissions \in Nat /\ 0 < MaxCompleteScanOmissions
  BY ScanAssumption
<1>4. \A i \in DOMAIN log' : ~ IsOmission(c, i, MaxCompleteScanOmissions)'
  BY <1>1 DEF IsOmission
<1>5. CollectorPresence(states[c])' = "present"
  BY DEF CollectorPresence
<1> QED BY <1>2, <1>3, <1>4, <1>5 DEF FollowsTheLog

(* A CI that the committed scan left out, without being complete, stays.   *)
LEMMA SkippedFollows ==
    ASSUME LogInv, NEW s \in Senders, Commit(s), NEW c \in CIs, c \notin req[s].rows,
           req[s].result # "complete", c \in DOMAIN states, states'[c] = states[c]
    PROVE  FollowsTheLog(c)'
<1> DEFINE n == Len(log)
<1>1. /\ n \in Nat /\ DOMAIN log = 1 .. n /\ DOMAIN log' = 1 .. n + 1
      /\ OmittedBy(c)' = OmittedBy(c)
      /\ \A i \in 1 .. n : log'[i] = log[i]
  BY LogGrows DEF LogInv, ScanInv
<1>2. FollowsTheLog(c)
  BY DEF LogInv, StatesFollowTheLog
<1>3. OmittedBy(c) \subseteq 1 .. n
  BY <1>1 DEF OmittedBy
<1>4. ASSUME NEW i \in DOMAIN log', IsOmission(c, i, MaxCompleteScanOmissions)'
      PROVE  states'[c].missingSince = log'[i].at
  <2>1. i \in DOMAIN log /\ IsOmission(c, i, MaxCompleteScanOmissions)
    BY <1>1, <1>3, <1>4 DEF IsOmission
  <2>2. log'[i] = log[i]
    BY <1>1, <2>1
  <2> QED BY <1>2, <2>1, <2>2 DEF FollowsTheLog
<1>5. CollectorPresence(states[c])' = CollectorPresence(states[c])
  BY DEF CollectorPresence
<1> QED BY <1>1, <1>2, <1>4, <1>5 DEF FollowsTheLog

(* A CI that a complete scan left out has one omission more, up to the cap. *)
LEMMA OmittedFollows ==
    ASSUME LogInv, NEW s \in Senders, Commit(s), NEW c \in CIs, c \notin req[s].rows,
           req[s].result = "complete", c \in DOMAIN states,
           states'[c] = ApplyOmission(states[c], req[s].scan, at[s])
    PROVE  FollowsTheLog(c)'
<1> DEFINE n == Len(log)
           limit == MaxCompleteScanOmissions
           O == OmittedBy(c)
           omitted == Cardinality(O)
           state == states[c]
<1>1. /\ n \in Nat /\ DOMAIN log = 1 .. n /\ DOMAIN log' = 1 .. n + 1
      /\ \A i \in 1 .. n : log'[i] = log[i]
      /\ log'[n + 1].at = at[s] /\ OmittedBy(c)' = O \cup {n + 1}
  BY LogGrows DEF LogInv, ScanInv
<1>2. /\ state.omissions = IF omitted < limit THEN omitted ELSE limit
      /\ (state.missingSince # None) <=> (omitted >= limit)
      /\ \A i \in DOMAIN log : IsOmission(c, i, limit) => state.missingSince = log[i].at
  BY DEF LogInv, StatesFollowTheLog, FollowsTheLog, CollectorPresence
<1>3. limit \in Nat /\ limit > 0
  BY ScanAssumption
<1>4. at[s] # None
  BY DEF LogInv, ScanInv, TypeOK, Commit
<1>5. O \subseteq 1 .. n
  BY <1>1 DEF OmittedBy
<1>6. /\ omitted \in Nat /\ Cardinality(OmittedBy(c)') = omitted + 1
      /\ \A i \in O : Cardinality(UpTo(i, O)) <= omitted
      /\ \A i \in O : UpTo(i, OmittedBy(c)') = UpTo(i, O)
      /\ Cardinality(UpTo(n + 1, OmittedBy(c)')) = omitted + 1
  <2> HIDE DEF n, O
  <2>1. /\ Cardinality(O) \in Nat
        /\ Cardinality(O \cup {n + 1}) = Cardinality(O) + 1
        /\ \A i \in O : Cardinality(UpTo(i, O)) <= Cardinality(O)
        /\ \A i \in O : UpTo(i, O \cup {n + 1}) = UpTo(i, O)
        /\ UpTo(n + 1, O \cup {n + 1}) = O \cup {n + 1}
    BY <1>1, <1>5, Counting
  <2> QED BY <1>1, <2>1
<1>7. /\ states'[c].omissions = IF state.omissions < limit THEN state.omissions + 1
                                                           ELSE state.omissions
      /\ states'[c].missingSince = IF states'[c].omissions = limit /\ state.missingSince = None
                                   THEN at[s] ELSE state.missingSince
  BY DEF ApplyOmission
<1>8. ASSUME NEW i \in DOMAIN log', IsOmission(c, i, limit)'
      PROVE  (i = n + 1 /\ omitted + 1 = limit) \/ (i \in O /\ IsOmission(c, i, limit))
  <2>1. i \in O \cup {n + 1} /\ Cardinality(UpTo(i, OmittedBy(c)')) = limit
    BY <1>1, <1>8 DEF IsOmission
  <2>2. CASE i = n + 1
    BY <1>6, <2>1, <2>2
  <2>3. CASE i \in O
    BY <1>6, <2>1, <2>3 DEF IsOmission
  <2> QED BY <2>1, <2>2, <2>3
<1>9. \A i \in O : IsOmission(c, i, limit) => omitted >= limit
  BY <1>3, <1>6 DEF IsOmission
<1>10. \A i \in O : i \in DOMAIN log /\ log'[i] = log[i]
  BY <1>1, <1>5
<1> HIDE DEF n, limit, O, omitted, state
<1>11. states'[c].omissions = IF omitted + 1 < limit THEN omitted + 1 ELSE limit
  BY <1>2, <1>3, <1>6, <1>7
<1>12. (states'[c].missingSince # None) <=> (omitted + 1 >= limit)
  BY <1>2, <1>3, <1>4, <1>6, <1>7, <1>11
<1>13. \A i \in DOMAIN log' : IsOmission(c, i, limit)' => states'[c].missingSince = log'[i].at
  <2> SUFFICES ASSUME NEW i \in DOMAIN log', IsOmission(c, i, limit)'
               PROVE  states'[c].missingSince = log'[i].at
    OBVIOUS
  <2>1. CASE i = n + 1 /\ omitted + 1 = limit
    <3>1. state.missingSince = None /\ states'[c].omissions = limit
      BY <1>2, <1>3, <1>6, <1>11, <2>1
    <3> QED BY <1>1, <1>7, <2>1, <3>1
  <2>2. CASE i \in O /\ IsOmission(c, i, limit)
    <3>1. omitted >= limit
      BY <1>9, <2>2
    <3>2. state.missingSince # None
      BY <1>2, <3>1
    <3>3. states'[c].missingSince = state.missingSince
      BY <1>7, <3>2
    <3> QED BY <1>2, <1>10, <2>2, <3>3
  <2> QED BY <1>8, <2>1, <2>2
<1> QED BY <1>6, <1>11, <1>12, <1>13 DEF FollowsTheLog, CollectorPresence, limit

(* A commit puts every state where the log, with the scan appended, says.  *)
LEMMA CommitFollows ==
    ASSUME LogInv, NEW s \in Senders, Commit(s)
    PROVE  StatesFollowTheLog' /\ StatesAreLocked'
<1> DEFINE r == req[s]
           old(c) == IF c \in DOMAIN states THEN states[c] ELSE NewState
<1>1. /\ TypeOK /\ phase[s] = "commit" /\ req' = req
      /\ states' = ApplyCollectorScanStates(r, at[s])
  BY DEF LogInv, ScanInv, StatesAreLocked, Commit
<1>2. r \in Request /\ at[s] \in Times /\ r.rows \subseteq CIs /\ r.result \in Results
  BY <1>1, Serving DEF Request
<1>3. /\ DOMAIN states' = DOMAIN states \cup r.rows
      /\ \A c \in DOMAIN states' : states'[c] =
            ApplyCollectorScan(old(c), r.scan, r.result, at[s], c \in r.rows)
  BY <1>1 DEF ApplyCollectorScanStates
<1>4. r.scan \notin DOMAIN ledger /\ r.scan # None
  BY <1>1, Serving, ScanAssumption
     DEF LogInv, ScanInv, ClaimsAreExclusive, Claiming
<1>5. ASSUME NEW c \in DOMAIN states'
      PROVE  /\ old(c).lastCompleted # r.scan
             /\ old(c).lastCompleted \in DOMAIN ledger \cup {None}
  <2>1. NewState.lastCompleted = None
    BY DEF NewState
  <2> QED BY <1>4, <2>1 DEF LogInv, StatesAreLocked
<1>6. StatesFollowTheLog'
  <2>1. DOMAIN states' = {c \in CIs : Sightings(c)' # {}}
    <3>1. DOMAIN states = {c \in CIs : Sightings(c) # {}}
      BY DEF LogInv, StatesFollowTheLog
    <3>2. \A c \in CIs : Sightings(c)' # {} <=> (c \in r.rows \/ Sightings(c) # {})
      BY <1>1, LogGrows
    <3> QED BY <1>2, <1>3, <3>1, <3>2
  <2>2. ASSUME NEW c \in DOMAIN states' PROVE FollowsTheLog(c)'
    <3>1. c \in CIs
      BY <2>1, <2>2
    <3>2. CASE c \in r.rows
      <4>1. states'[c] = ApplySeen(old(c), r.scan, r.result)
        BY <1>3, <1>5, <2>2, <3>2 DEF ApplyCollectorScan
      <4>2. states'[c].omissions = 0 /\ states'[c].missingSince = None
        BY <4>1 DEF ApplySeen
      <4> QED BY <3>1, <3>2, <4>2, SeenFollows
    <3>3. CASE c \notin r.rows
      <4>1. c \in DOMAIN states /\ old(c) = states[c]
        BY <1>3, <2>2, <3>3
      <4>2. states[c].lastSeen # None
        BY <1>1, <4>1, ScanAssumption DEF TypeOK, CollectorCIState
      <4>3. CASE r.result = "complete"
        <5>1. states'[c] = ApplyOmission(states[c], r.scan, at[s])
          BY <1>3, <1>5, <2>2, <3>3, <4>1, <4>2, <4>3 DEF ApplyCollectorScan
        <5> QED BY <3>1, <3>3, <4>1, <4>3, <5>1, OmittedFollows
      <4>4. CASE r.result # "complete"
        <5>1. states'[c] = states[c]
          BY <1>3, <2>2, <3>3, <4>1, <4>4 DEF ApplyCollectorScan
        <5> QED BY <3>1, <3>3, <4>1, <4>4, <5>1, SkippedFollows
      <4> QED BY <4>3, <4>4
    <3> QED BY <3>2, <3>3
  <2> QED BY <2>1, <2>2 DEF StatesFollowTheLog
<1>7. StatesAreLocked'
  <2>1. phase' = [phase EXCEPT ![s] = "idle"] /\ phase \in [Senders -> Phases]
    BY <1>1 DEF Commit, End, TypeOK
  <2>2. \A o \in Senders : phase'[o] # "commit"
    <3>1. \A o \in Senders \ {s} : phase[o] # "commit"
      BY <1>1 DEF LogInv, StatesAreLocked
    <3> QED BY <2>1, <3>1
  <2>3. DOMAIN ledger' = DOMAIN ledger \cup {r.scan}
    BY DEF Commit
  <2>4. ASSUME NEW c \in DOMAIN states'
        PROVE  states'[c].lastCompleted \in DOMAIN ledger' \cup {None}
    <3>1. states'[c] \in {old(c), ApplySeen(old(c), r.scan, r.result),
                          ApplyOmission(old(c), r.scan, at[s])}
      BY <1>3, <2>4 DEF ApplyCollectorScan
    <3>2. /\ ApplySeen(old(c), r.scan, r.result).lastCompleted \in {r.scan, old(c).lastCompleted}
          /\ ApplyOmission(old(c), r.scan, at[s]).lastCompleted = r.scan
      BY DEF ApplySeen, ApplyOmission
    <3> QED BY <1>5, <2>3, <2>4, <3>1, <3>2
  <2> QED BY <2>2, <2>4 DEF StatesAreLocked
<1> QED BY <1>6, <1>7

(* A step that leaves the committed tables alone keeps the states with the *)
(* log.                                                                    *)
LEMMA TablesUnchanged ==
    ASSUME StatesFollowTheLog, UNCHANGED <<states, log>>
    PROVE  StatesFollowTheLog'
<1>1. \A c : Sightings(c)' = Sightings(c)
  BY DEF Sightings
<1>2. \A c : OmittedBy(c)' = OmittedBy(c)
  BY <1>1 DEF OmittedBy
<1>3. \A c, i : IsOmission(c, i, MaxCompleteScanOmissions)'
                 <=> IsOmission(c, i, MaxCompleteScanOmissions)
  BY <1>2 DEF IsOmission
<1> QED
  BY <1>1, <1>2, <1>3 DEF StatesFollowTheLog, FollowsTheLog, CollectorPresence

(* The stronger invariant is inductive too.                                *)
LEMMA NextLogInv == LogInv /\ [Next]_vars => LogInv'
<1> SUFFICES ASSUME LogInv, [Next]_vars PROVE StatesFollowTheLog' /\ StatesAreLocked'
  BY NextInv DEF LogInv
<1>0. /\ phase \in [Senders -> Phases] /\ DOMAIN written = Senders
      /\ req \in [Senders -> Request \cup {None}] /\ at \in [Senders -> Times \cup {None}]
      /\ StatesFollowTheLog /\ StatesAreLocked
  BY DEF LogInv, ScanInv, TypeOK
<1>1. CASE UNCHANGED vars
  BY <1>0, <1>1, TablesUnchanged DEF vars, StatesAreLocked, ApplyCollectorScanStates
<1>2. ASSUME NEW s \in Senders, phase'[s] # "commit",
             \A o \in Senders \ {s} : /\ phase'[o] = phase[o] /\ written'[o] = written[o]
                                       /\ req'[o] = req[o] /\ at'[o] = at[o],
             UNCHANGED <<ledger, states, log>>
      PROVE  StatesFollowTheLog' /\ StatesAreLocked'
  <2>1. \A o \in Senders : phase'[o] = "commit" =>
           /\ o # s /\ phase[o] = "commit" /\ written'[o] = written[o]
           /\ req'[o] = req[o] /\ at'[o] = at[o]
    BY <1>2
  <2>2. ASSUME NEW o \in Senders, phase'[o] = "commit"
        PROVE  written'[o] = ApplyCollectorScanStates(req[o], at[o])'
    <3>1. written'[o] = ApplyCollectorScanStates(req[o], at[o])
      BY <1>0, <2>1, <2>2 DEF StatesAreLocked
    <3>2. ApplyCollectorScanStates(req[o], at[o])' = ApplyCollectorScanStates(req[o], at[o])
      BY <1>2, <2>1, <2>2 DEF ApplyCollectorScanStates
    <3> QED BY <3>1, <3>2
  <2>3. StatesAreLocked'
    BY <1>0, <1>2, <2>1, <2>2 DEF StatesAreLocked
  <2> QED BY <1>0, <1>2, <2>3, TablesUnchanged
<1>3. ASSUME NEW s \in Senders, NEW outcome, End(s, outcome),
             UNCHANGED <<req, ledger, states, log>>
      PROVE  StatesFollowTheLog' /\ StatesAreLocked'
  BY <1>0, <1>2, <1>3 DEF End
<1>4. ASSUME NEW s \in Senders, ConfirmCollectorIngestion(s)
      PROVE  StatesFollowTheLog' /\ StatesAreLocked'
  BY <1>0, <1>2, <1>4 DEF ConfirmCollectorIngestion
<1>5. ASSUME NEW s \in Senders, ClaimCollectorScan(s)
      PROVE  StatesFollowTheLog' /\ StatesAreLocked'
  BY <1>0, <1>2, <1>5 DEF ClaimCollectorScan
<1>6. ASSUME NEW s \in Senders, ApplyStates(s)
      PROVE  StatesFollowTheLog' /\ StatesAreLocked'
  <2>1. /\ phase' = [phase EXCEPT ![s] = "commit"] /\ UNCHANGED <<req, at, ledger, states, log>>
        /\ written' = [written EXCEPT ![s] = ApplyCollectorScanStates(req[s], at[s])]
        /\ \A o \in Senders \ {s} : phase[o] # "commit"
    BY <1>6 DEF ApplyStates, StatesAreFree
  <2>2. \A o \in Senders : phase'[o] = "commit" => o = s
    BY <1>0, <2>1
  <2>3. written'[s] = ApplyCollectorScanStates(req[s], at[s])'
    <3>1. written'[s] = ApplyCollectorScanStates(req[s], at[s])
      BY <1>0, <2>1
    <3>2. ApplyCollectorScanStates(req[s], at[s])' = ApplyCollectorScanStates(req[s], at[s])
      BY <2>1 DEF ApplyCollectorScanStates
    <3> QED BY <3>1, <3>2
  <2>4. StatesAreLocked'
    BY <1>0, <2>1, <2>2, <2>3 DEF StatesAreLocked
  <2> QED BY <1>0, <2>1, <2>4, TablesUnchanged
<1>7. ASSUME NEW s \in Senders, Commit(s) PROVE StatesFollowTheLog' /\ StatesAreLocked'
  BY <1>7, CommitFollows
<1>8. ASSUME NEW s \in Senders, CompareCollectorScanRetry(s) \/ RefuseOverLimit(s) \/ Fail(s)
      PROVE  StatesFollowTheLog' /\ StatesAreLocked'
  BY <1>3, <1>8 DEF CompareCollectorScanRetry, RefuseOverLimit, Fail
<1> QED
  BY <1>1, <1>4, <1>5, <1>6, <1>7, <1>8 DEF Next, Step

(* The presence states are at all times those of the committed scans, in   *)
(* the order of their commits: no retry, race, lost acknowledgement or     *)
(* rollback loses an omission or counts one twice.                         *)
THEOREM StatesAreTheLogs == Spec => []StatesFollowTheLog
<1>1. Init => LogInv
  <2> SUFFICES ASSUME Init PROVE StatesFollowTheLog /\ StatesAreLocked /\ ScanInv
    BY DEF LogInv
  <2>1. DOMAIN log = {} /\ DOMAIN states = {}
    BY DEF Init
  <2>2. StatesFollowTheLog
    BY <2>1 DEF StatesFollowTheLog, Sightings
  <2>3. StatesAreLocked
    BY <2>1 DEF Init, StatesAreLocked
  <2> QED BY <2>2, <2>3, InitScanInv
<1>2. LogInv => StatesFollowTheLog
  BY DEF LogInv
<1> QED BY <1>1, <1>2, NextLogInv, PTL DEF Spec
=============================================================================
