-------------------------- MODULE ExecutionClaims --------------------------
(***************************************************************************)
(* Governed query execution: every request ("attempt") that reaches a     *)
(* resolved target leaves one execution row and one audit row, and a      *)
(* request that carries a client execution id additionally occupies the   *)
(* (target, client_execution_id) slot of query_execution_claims, at most  *)
(* once, before any of its SQL is sent.                                    *)
(*                                                                         *)
(* One action is one step between two points at which the goroutine that  *)
(* serves the attempt waits for a database: the control database (claims, *)
(* executions, audit_events) or the target database.  A transaction on    *)
(* the control database is atomic; whether it committed is known to the   *)
(* server only if the acknowledgement arrives.                             *)
(***************************************************************************)
EXTENDS Integers, FiniteSets

CONSTANTS
    Attempts,     \* identities of the requests served, retries included
    Targets,      \* target_resource_id values
    PGTargets,    \* the targets whose engine is PostgreSQL
    Keys,         \* non-empty client execution ids, ordered as their bytes
    ActorIds,     \* numeric ids shared by users and machine principals
    Scopes,       \* (database, schema) pairs of PostgreSQL connections
    Bodies,       \* everything else the request digest covers
    Requests,     \* the requests clients send
    MaxNow,       \* bound on the clock
    NoClaim, NoRequest, NoRecord, NoScope

NoKey == 0

Entries == {"ordinary", "saved", "navigation"}

Actor == [kind : {"user", "machine"}, id : ActorIds]

Slots == Targets \X Keys

(* Requests the three entry points accept: saved and navigation are user  *)
(* only, a MySQL/TiDB request has the empty connection scope.              *)
Request ==
    {r \in [target : Targets, key : Keys \cup {NoKey}, actor : Actor,
            entry : Entries, scope : Scopes \cup {NoScope}, body : Bodies] :
        /\ r.entry # "ordinary" => r.actor.kind = "user"
        /\ (r.target \in PGTargets) = (r.scope # NoScope)}

ASSUME ConstantsAssumption ==
    /\ PGTargets \subseteq Targets
    /\ Keys \subseteq Nat \ {NoKey}
    /\ MaxNow \in Nat
    /\ NoScope \notin Scopes

ASSUME RequestsAssumption == Requests \subseteq Request

Statuses == {"success", "rejected", "failed", "timeout", "cancelled"}

VARIABLES
    pc,        \* where each attempt is
    req,       \* the request each attempt serves
    owned,     \* ownedKey is set: this attempt's INSERT won the slot
    sent,      \* the user's SQL was handed to the target database
    rec,       \* the terminal record built and about to be persisted
    resp,      \* the answer given
    stamp,     \* the ClaimedAt the claim INSERT carries
    limbo,     \* control-database writes whose acknowledgement was lost
    claims,    \* query_execution_claims
    rows,      \* query_executions
    audits,    \* audit_events
    nextId,    \* AUTO_INCREMENT of query_executions
    failures,  \* expvar query_evidence_persistence_failures
    now        \* the clock

attemptVars == <<pc, req, owned, sent, rec, resp, stamp, limbo>>
storeVars   == <<claims, rows, audits, nextId>>
vars        == <<attemptVars, storeVars, failures, now>>

-----------------------------------------------------------------------------
(* Derived from the request.                                               *)

Keyed(a)  == req[a].key # NoKey
SlotOf(a) == <<req[a].target, req[a].key>>
IsPG(a)   == req[a].target \in PGTargets

(* The canonical fingerprint of the resolved request: the entry's domain, *)
(* the connection scope and the request body, never actor or key.          *)
Digest(r) == <<r.entry, r.scope, r.body>>

evidenceEventType(entry) ==
    IF entry = "navigation" THEN "related_record_navigation" ELSE "query.executed"

auditResultFor(status) == IF status = "rejected" THEN "validation_failed" ELSE status

Waiting == {"access", "prepare", "admit", "classify", "guard", "preflight",
            "pgchain", "run", "apply", "persist", "gate"}

PCs == Waiting \cup {"idle", "answered", "lost"}

(* "notOccupant" reaches the client as the same error as "persistError". *)
Answers == {"none", "invalid", "notFound", "unrecorded", "exists", "conflict",
            "recorded", "admissionFailed", "persistError", "notOccupant",
            "upgradeRequired", "rows"}

Record == [status : Statuses, createdAt : 0..MaxNow,
           answer : {"recorded", "admissionFailed", "rows"}]

Digests == Entries \X (Scopes \cup {NoScope}) \X Bodies

Claim == [owner : Attempts, actor : Actor, scope : Scopes \cup {NoScope},
          digest : Digests,
          claimedAt : 0..MaxNow, execution : Nat]

Row == [id : Nat, attempt : Attempts, target : Targets, key : Keys \cup {NoKey},
        actor : Actor, scope : Scopes \cup {NoScope}, status : Statuses,
        createdAt : 0..MaxNow]

Audit == [id : Nat, attempt : Attempts, target : Targets, actor : Actor,
          event : {"query.executed", "related_record_navigation"},
          result : {"success", "validation_failed", "failed", "timeout", "cancelled"}]

ASSUME SentinelsAssumption ==
    /\ NoRequest \notin Request
    /\ NoRecord \notin Record
    /\ NoClaim \notin Claim \cup Digests \cup Statuses
    /\ NoClaim \notin [actor : Actor, claimedAt : 0..MaxNow, execution : Nat]

TypeOK ==
    /\ pc \in [Attempts -> PCs]
    /\ req \in [Attempts -> Requests \cup {NoRequest}]
    /\ owned \in [Attempts -> BOOLEAN]
    /\ sent \in [Attempts -> BOOLEAN]
    /\ rec \in [Attempts -> Record \cup {NoRecord}]
    /\ resp \in [Attempts -> Answers]
    /\ stamp \in [Attempts -> 0..MaxNow]
    /\ limbo \in [Attempts -> SUBSET {"claim", "pair"}]
    /\ claims \in [Slots -> Claim \cup {NoClaim}]
    /\ rows \subseteq Row
    /\ audits \subseteq Audit
    /\ nextId \in Nat \ {0}
    /\ failures \in Nat
    /\ now \in 0..MaxNow

Init ==
    /\ pc = [a \in Attempts |-> "idle"]
    /\ req = [a \in Attempts |-> NoRequest]
    /\ owned = [a \in Attempts |-> FALSE]
    /\ sent = [a \in Attempts |-> FALSE]
    /\ rec = [a \in Attempts |-> NoRecord]
    /\ resp = [a \in Attempts |-> "none"]
    /\ stamp = [a \in Attempts |-> 0]
    /\ limbo = [a \in Attempts |-> {}]
    /\ claims = [s \in Slots |-> NoClaim]
    /\ rows = {}
    /\ audits = {}
    /\ nextId = 1
    /\ failures = 0
    /\ now = 0

-----------------------------------------------------------------------------
(* Steps of one attempt.                                                   *)

Goto(a, l) == pc' = [pc EXCEPT ![a] = l]

Answer(a, r) == Goto(a, "answered") /\ resp' = [resp EXCEPT ![a] = r]

(* Build the terminal record: its time is read here, not at the commit.    *)
Terminate(a, status, answer) ==
    /\ Goto(a, "persist")
    /\ rec' = [rec EXCEPT ![a] =
                 [status |-> status, createdAt |-> now, answer |-> answer]]

(* The claim row is stamped before its INSERT is sent.                     *)
Admit(a) == Goto(a, "admit") /\ stamp' = [stamp EXCEPT ![a] = now]

(* Shape validation: malformed requests, and PostgreSQL requests without  *)
(* a key, are answered before anything is read or written.                 *)
Submit(a) ==
    /\ pc[a] = "idle"
    /\ \E r \in Requests :
         /\ req' = [req EXCEPT ![a] = r]
         /\ \/ Answer(a, "invalid")
            \/ /\ r.target \in PGTargets => r.key # NoKey
               /\ Goto(a, "access")
               /\ UNCHANGED resp
    /\ UNCHANGED <<owned, sent, rec, stamp, limbo, storeVars, failures, now>>

(* MySQL/TiDB: target lookup and governed access.  An unknown target has   *)
(* nothing to attribute a row to, an unclassified resolver error is        *)
(* returned bare, a denial becomes a rejected record without the key.      *)
ResolveMySQLAccess(a) ==
    /\ pc[a] = "access"
    /\ ~IsPG(a)
    /\ \/ \E answer \in {"notFound", "unrecorded"} :
             Answer(a, answer) /\ UNCHANGED <<rec, stamp>>
       \/ Terminate(a, "rejected", "recorded") /\ UNCHANGED <<resp, stamp>>
       \/ /\ req[a].entry = "ordinary"
          /\ Admit(a)
          /\ UNCHANGED <<rec, resp>>
       \/ /\ req[a].entry # "ordinary"
          /\ Goto(a, "prepare")
          /\ UNCHANGED <<rec, resp, stamp>>
    /\ UNCHANGED <<req, owned, sent, limbo, storeVars, failures, now>>

(* PostgreSQL: ordinary and navigation requests resolve access here, a     *)
(* saved statement only finds its target: its connection is the one of the *)
(* statement, read in the next step.                                       *)
ResolvePGAccess(a) ==
    /\ pc[a] = "access"
    /\ IsPG(a)
    /\ \/ Answer(a, "notFound") /\ UNCHANGED <<rec, stamp>>
       \/ /\ req[a].entry # "saved"
          /\ Terminate(a, "rejected", "recorded")
          /\ UNCHANGED <<resp, stamp>>
       \/ /\ req[a].entry = "ordinary"
          /\ Admit(a)
          /\ UNCHANGED <<rec, resp>>
       \/ /\ req[a].entry # "ordinary"
          /\ Goto(a, "prepare")
          /\ UNCHANGED <<rec, resp, stamp>>
    /\ UNCHANGED <<req, owned, sent, limbo, storeVars, failures, now>>

ResolveAccess(a) == ResolveMySQLAccess(a) \/ ResolvePGAccess(a)

(* What an entry reads before the key is touched ends in a record without *)
(* the key, or in the admission.                                           *)
PrepareWith(a, pg, entry, statuses) ==
    /\ pc[a] = "prepare"
    /\ IsPG(a) = pg
    /\ req[a].entry = entry
    /\ \/ \E status \in statuses : Terminate(a, status, "recorded") /\ UNCHANGED stamp
       \/ Admit(a) /\ UNCHANGED rec
    /\ UNCHANGED <<req, owned, sent, resp, limbo, storeVars, failures, now>>

(* The saved statement: not found or not the actor's, bad values, a       *)
(* failed, cancelled (recorded as failed) or expired read.                 *)
PrepareSaved(a) == PrepareWith(a, FALSE, "saved", {"rejected", "failed", "timeout"})

(* The foreign key and the locator values that must fit it.                *)
PrepareNavigation(a) ==
    PrepareWith(a, FALSE, "navigation", {"rejected", "failed", "timeout"})

(* The same on PostgreSQL, where a cancelled read is recorded as such; the *)
(* saved statement's own connection is resolved here, and its target may   *)
(* have gone.                                                              *)
PreparePGSaved(a) ==
    \/ PrepareWith(a, TRUE, "saved", Statuses \ {"success"})
    \/ /\ pc[a] = "prepare"
       /\ IsPG(a)
       /\ req[a].entry = "saved"
       /\ Answer(a, "notFound")
       /\ UNCHANGED <<req, owned, sent, rec, stamp, limbo, storeVars, failures, now>>

PreparePGNavigation(a) ==
    PrepareWith(a, TRUE, "navigation", Statuses \ {"success"})

Prepare(a) ==
    PrepareSaved(a) \/ PrepareNavigation(a) \/ PreparePGSaved(a) \/ PreparePGNavigation(a)

(* Where an admitted attempt continues: PostgreSQL hands everything to    *)
(* the governed chain, a navigation has no statement to guard.            *)
AfterAdmission(a) ==
    IF IsPG(a) THEN "pgchain"
    ELSE IF req[a].entry = "navigation" THEN "preflight" ELSE "guard"

NewClaim(a) ==
    [owner |-> a, actor |-> req[a].actor, scope |-> req[a].scope,
     digest |-> Digest(req[a]), claimedAt |-> stamp[a], execution |-> 0]

(* A request without a key is admitted without touching the claim store.   *)
AdmitKeyless(a) ==
    /\ pc[a] = "admit"
    /\ ~Keyed(a)
    /\ Goto(a, AfterAdmission(a))
    /\ UNCHANGED <<req, owned, sent, rec, resp, stamp, limbo, storeVars, failures, now>>

(* Faults: a repeat of the same request, or any unlinked claim, counts as *)
(* free.                                                                   *)
SlotFreeForRepeat(a) ==
    claims[SlotOf(a)] # NoClaim => claims[SlotOf(a)].digest = Digest(req[a])

SlotFreeUntilLinked(a) ==
    claims[SlotOf(a)] # NoClaim => claims[SlotOf(a)].execution = 0

(* No row has the primary key (target_resource_id, client_execution_id).  *)
SlotFree(a) == claims[SlotOf(a)] = NoClaim

(* The INSERT that decides occupancy: it wins the free slot, or meets the *)
(* primary key and goes on to read the stored digest.                      *)
TryClaim(a) ==
    /\ pc[a] = "admit"
    /\ Keyed(a)
    /\ \/ /\ SlotFree(a)
          /\ claims' = [claims EXCEPT ![SlotOf(a)] = NewClaim(a)]
          /\ owned' = [owned EXCEPT ![a] = TRUE]
          /\ Goto(a, AfterAdmission(a))
       \/ /\ ~SlotFree(a)
          /\ Goto(a, "classify")
          /\ UNCHANGED <<claims, owned>>
    /\ UNCHANGED <<req, sent, rec, resp, stamp, limbo, rows, audits, nextId, failures, now>>

(* The second round trip of a duplicate: the stored digest tells a repeat *)
(* of the same request from a different request under the same key.        *)
ClassifyDuplicate(a) ==
    /\ pc[a] = "classify"
    /\ Answer(a, IF claims[SlotOf(a)].digest = Digest(req[a])
                 THEN "exists" ELSE "conflict")
    /\ UNCHANGED <<req, owned, sent, rec, stamp, limbo, storeVars, failures, now>>

(* Fault: the attempt goes on without the key when the store fails.        *)
ClaimStoreFailsOpen(a) ==
    /\ pc[a] \in {"admit", "classify"}
    /\ Keyed(a)
    /\ Goto(a, AfterAdmission(a))
    /\ UNCHANGED <<req, owned, sent, rec, resp, stamp, limbo, storeVars, failures, now>>

(* Either round trip fails without an answer from the store (connection   *)
(* loss, cancelled request): one failed record without the key.  The      *)
(* INSERT may still reach the server afterwards.                           *)
ClaimStoreFails(a) ==
    /\ pc[a] \in {"admit", "classify"}
    /\ Keyed(a)
    /\ \/ pc[a] = "admit" /\ limbo' = [limbo EXCEPT ![a] = @ \cup {"claim"}]
       \/ UNCHANGED limbo
    /\ Terminate(a, "failed", "admissionFailed")
    /\ UNCHANGED <<req, owned, sent, resp, stamp, storeVars, failures, now>>

(* Statement guard, and for saved statements the compiler: reject or pass. *)
Guard(a) ==
    /\ pc[a] = "guard"
    /\ \/ Terminate(a, "rejected", "recorded")
       \/ Goto(a, "preflight") /\ UNCHANGED rec
    /\ UNCHANGED <<req, owned, sent, resp, stamp, limbo, storeVars, failures, now>>

(* Disclosure preflight: a policy block is a rejection, a cancelled or    *)
(* expired read and an infrastructure failure are not.  A pass sends the  *)
(* statement under the attempt's timeout.                                  *)
Preflight(a) ==
    /\ pc[a] = "preflight"
    /\ \/ /\ \E status \in {"rejected", "failed", "timeout"} :
               Terminate(a, status, "recorded")
          /\ UNCHANGED sent
       \/ /\ Goto(a, "run")
          /\ sent' = [sent EXCEPT ![a] = TRUE]
          /\ UNCHANGED rec
    /\ UNCHANGED <<req, owned, resp, stamp, limbo, storeVars, failures, now>>

(* classifyExecutorError over what the MySQL executor can return: expiry, *)
(* cancellation or backend error, oversized result, or a malformed        *)
(* truncation matrix (a failure).  A sound result goes on to disclosure.   *)
RunMySQL(a) ==
    /\ pc[a] = "run"
    /\ ~IsPG(a)
    /\ \/ \E status \in {"timeout", "failed", "rejected"} :
             Terminate(a, status, "recorded")
       \/ Goto(a, "apply") /\ UNCHANGED rec
    /\ UNCHANGED <<req, owned, sent, resp, stamp, limbo, storeVars, failures, now>>

(* Disclosure apply and the matrix check after it: blocked, broken or a   *)
(* success whose record is written before any row is delivered.            *)
Apply(a) ==
    /\ pc[a] = "apply"
    /\ \/ \E status \in {"rejected", "failed"} : Terminate(a, status, "recorded")
       \/ Terminate(a, "success", "rows")
    /\ UNCHANGED <<req, owned, sent, resp, stamp, limbo, storeVars, failures, now>>

(* The PostgreSQL chain refuses, fails or expires before it has sent the  *)
(* statement, or sends it.                                                 *)
PGChain(a) ==
    /\ pc[a] = "pgchain"
    /\ \/ /\ \E status \in Statuses \ {"success"} :
               Terminate(a, status, "recorded")
          /\ UNCHANGED sent
       \/ /\ Goto(a, "run")
          /\ sent' = [sent EXCEPT ![a] = TRUE]
          /\ UNCHANGED rec
    /\ UNCHANGED <<req, owned, resp, stamp, limbo, storeVars, failures, now>>

(* What the chain returns after sending: a result (nil, well formed or    *)
(* with a malformed matrix), an evidence status (or no evidence), and     *)
(* whether an error came with them.                                        *)
PGOutcome == [result : {"nil", "sound", "malformed"},
              evidence : Statuses \cup {"nil"}, error : BOOLEAN]

ContractFault(o) ==
    \/ ~o.error /\ (o.result = "nil" \/ o.evidence # "success")
    \/ o.error /\ o.evidence = "success"
    \/ o.result = "malformed"

(* Fault: the evidence is believed even when it contradicts the error.     *)
PGTerminalStatusUnchecked(o) == IF o.evidence = "nil" THEN "failed" ELSE o.evidence

PGTerminalStatus(o) ==
    IF ContractFault(o) \/ o.evidence = "nil" THEN "failed" ELSE o.evidence

(* Fault: a contract fault returns before the finalize.                    *)
RunPGFaultReturnsEarly(a) ==
    /\ pc[a] = "run"
    /\ IsPG(a)
    /\ \E o \in PGOutcome :
         \/ ContractFault(o) /\ Answer(a, "recorded") /\ UNCHANGED rec
         \/ /\ ~ContractFault(o)
            /\ Terminate(a, PGTerminalStatus(o), IF o.error THEN "recorded" ELSE "rows")
            /\ UNCHANGED resp
    /\ UNCHANGED <<req, owned, sent, stamp, limbo, storeVars, failures, now>>

(* The consistency gate in front of the one keyed finalize.                *)
RunPG(a) ==
    /\ pc[a] = "run"
    /\ IsPG(a)
    /\ \E o \in PGOutcome :
         Terminate(a, PGTerminalStatus(o),
                   IF ~ContractFault(o) /\ ~o.error THEN "rows" ELSE "recorded")
    /\ UNCHANGED <<req, owned, sent, resp, stamp, limbo, storeVars, failures, now>>

-----------------------------------------------------------------------------
(* Persisting the pair.                                                    *)

(* Fault: the row carries the client's key whether or not it was won.      *)
PairRowAlwaysKeyed(a) ==
    [id |-> nextId, attempt |-> a, target |-> req[a].target, key |-> req[a].key,
     actor |-> req[a].actor, scope |-> req[a].scope,
     status |-> rec[a].status, createdAt |-> rec[a].createdAt]

(* The execution row.  Without the key it records the connection as        *)
(* requested, if at all, and nothing compares it: NoScope stands for it.   *)
PairRow(a) ==
    [id |-> nextId, attempt |-> a, target |-> req[a].target,
     key |-> IF owned[a] THEN req[a].key ELSE NoKey,
     actor |-> req[a].actor,
     scope |-> IF owned[a] THEN req[a].scope ELSE NoScope,
     status |-> rec[a].status, createdAt |-> rec[a].createdAt]

PairAudit(a) ==
    [id |-> nextId, attempt |-> a, target |-> req[a].target, actor |-> req[a].actor,
     event |-> evidenceEventType(req[a].entry),
     result |-> auditResultFor(rec[a].status)]

(* InsertExecutionWithAudit: history row and audit row, no key.            *)
InsertPair(a) ==
    /\ rows' = rows \cup {PairRow(a)}
    /\ audits' = audits \cup {PairAudit(a)}
    /\ nextId' = nextId + 1

(* SELECT ... FOR UPDATE finds this attempt's claim, still unlinked.       *)
OccupantMatches(a) ==
    /\ claims[SlotOf(a)] # NoClaim
    /\ claims[SlotOf(a)].execution = 0
    /\ claims[SlotOf(a)].actor = req[a].actor
    /\ claims[SlotOf(a)].scope = req[a].scope

(* Fault: the update that links the claim also refreshes claimed_at.       *)
LinkClaimTouchesTime(a) ==
    /\ InsertPair(a)
    /\ claims' = [claims EXCEPT ![SlotOf(a)] =
                    [@ EXCEPT !.execution = nextId, !.claimedAt = now]]

(* FinalizeClaimWithAudit: the pair and the claim's link.                  *)
LinkClaim(a) ==
    /\ InsertPair(a)
    /\ claims' = [claims EXCEPT ![SlotOf(a)].execution = nextId]

(* The persistence window acknowledged the commit: a success goes to the  *)
(* delivery gate, every other outcome is now answered.                     *)
Acknowledged(a) ==
    IF rec[a].answer = "rows" THEN Goto(a, "gate") /\ UNCHANGED resp
                              ELSE Answer(a, rec[a].answer)

PersistKeyless(a) ==
    /\ pc[a] = "persist"
    /\ ~owned[a]
    /\ InsertPair(a)
    /\ Acknowledged(a)
    /\ UNCHANGED <<req, owned, sent, rec, stamp, limbo, claims, failures, now>>

PersistKeyed(a) ==
    /\ pc[a] = "persist"
    /\ owned[a]
    /\ IF OccupantMatches(a)
          THEN LinkClaim(a) /\ Acknowledged(a)
          ELSE Answer(a, "notOccupant") /\ UNCHANGED storeVars
    /\ UNCHANGED <<req, owned, sent, rec, stamp, limbo, failures, now>>

(* Faults: a failed write is tried again; the claim is released so that   *)
(* the client may retry.                                                   *)
PersistFailsAndRetries(a) ==
    /\ pc[a] = "persist"
    /\ \/ limbo' = [limbo EXCEPT ![a] = @ \cup {"pair"}]
       \/ UNCHANGED limbo
    /\ failures' = IF failures = 0 THEN 1 ELSE failures
    /\ UNCHANGED <<pc, req, owned, sent, rec, resp, stamp, storeVars, now>>

PersistFailsAndReleases(a) ==
    /\ pc[a] = "persist"
    /\ Answer(a, "persistError")
    /\ claims' = IF owned[a] THEN [claims EXCEPT ![SlotOf(a)] = NoClaim] ELSE claims
    /\ failures' = failures + 1
    /\ UNCHANGED <<req, owned, sent, rec, stamp, limbo, rows, audits, nextId, now>>

(* The transaction fails, or its window ends before the commit is         *)
(* acknowledged: counted once, no retry, no compensation.  An             *)
(* unacknowledged commit may still take effect.                            *)
PersistFails(a) ==
    /\ pc[a] = "persist"
    /\ \/ limbo' = [limbo EXCEPT ![a] = @ \cup {"pair"}]
       \/ UNCHANGED limbo
    /\ Answer(a, "persistError")
    /\ failures' = failures + 1
    /\ UNCHANGED <<req, owned, sent, rec, stamp, storeVars, now>>

(* DecideResultDelivery, after the success is on record: rows, or the     *)
(* upgrade error when cells were truncated and the client did not declare *)
(* the capability.                                                         *)
DeliveryGate(a) ==
    /\ pc[a] = "gate"
    /\ \E answer \in {"rows", "upgradeRequired"} : Answer(a, answer)
    /\ UNCHANGED <<req, owned, sent, rec, stamp, limbo, storeVars, failures, now>>

-----------------------------------------------------------------------------
(* The environment.                                                        *)

(* An unacknowledged write takes effect after all: the claim if its slot  *)
(* is still free, the pair under the row lock it holds.                    *)
LateClaim(a) ==
    /\ "claim" \in limbo[a]
    /\ limbo' = [limbo EXCEPT ![a] = @ \ {"claim"}]
    /\ claims' = [claims EXCEPT ![SlotOf(a)] = IF @ = NoClaim THEN NewClaim(a) ELSE @]
    /\ UNCHANGED <<pc, req, owned, sent, rec, resp, stamp, rows, audits, nextId,
                   failures, now>>

LatePair(a) ==
    /\ "pair" \in limbo[a]
    /\ limbo' = [limbo EXCEPT ![a] = @ \ {"pair"}]
    /\ IF owned[a] THEN LinkClaim(a) ELSE InsertPair(a) /\ UNCHANGED claims
    /\ UNCHANGED <<pc, req, owned, sent, rec, resp, stamp, failures, now>>

(* ... or the server rolls it back.                                        *)
LateAbort(a) ==
    /\ \E w \in limbo[a] : limbo' = [limbo EXCEPT ![a] = @ \ {w}]
    /\ UNCHANGED <<pc, req, owned, sent, rec, resp, stamp, storeVars, failures, now>>

(* The server process dies: every attempt in progress is lost, the        *)
(* counter restarts with the process, the databases keep what they have   *)
(* and may still apply a write that was on its way.                        *)
OnItsWay(a) ==
    CASE pc[a] = "admit" /\ Keyed(a) -> {"claim"}
      [] pc[a] = "persist" -> {"pair"}
      [] OTHER -> {}

Crash ==
    /\ \E a \in Attempts : pc[a] \in Waiting
    /\ pc' = [a \in Attempts |-> IF pc[a] \in Waiting THEN "lost" ELSE pc[a]]
    /\ \E arriving \in SUBSET Attempts :
         limbo' = [a \in Attempts |->
                     IF a \in arriving THEN limbo[a] \cup OnItsWay(a) ELSE limbo[a]]
    /\ failures' = 0
    /\ UNCHANGED <<req, owned, sent, rec, resp, stamp, storeVars, now>>

Tick ==
    /\ now < MaxNow
    /\ now' = now + 1
    /\ UNCHANGED <<attemptVars, storeVars, failures>>

(* Every request has been answered and nothing is outstanding.             *)
Quiescent ==
    /\ \A a \in Attempts : pc[a] \in {"answered", "lost"} /\ limbo[a] = {}
    /\ now = MaxNow
    /\ UNCHANGED vars

-----------------------------------------------------------------------------
Serve(a) ==
    \/ ResolveAccess(a) \/ Prepare(a)
    \/ AdmitKeyless(a) \/ TryClaim(a) \/ ClassifyDuplicate(a) \/ ClaimStoreFails(a)
    \/ Guard(a) \/ Preflight(a) \/ RunMySQL(a) \/ Apply(a)
    \/ PGChain(a) \/ RunPG(a)
    \/ PersistKeyless(a) \/ PersistKeyed(a) \/ PersistFails(a)
    \/ DeliveryGate(a)

Next ==
    \/ \E a \in Attempts : 
        Submit(a) \/ Serve(a) \/ LateClaim(a) \/ LatePair(a) \/ LateAbort(a)
    \/ Crash
    \/ Tick
    \/ Quiescent

Spec == Init /\ [][Next]_vars

(* The goroutine that serves an attempt is never starved: every wait in it *)
(* ends, with an answer, an error or the end of its context.               *)
FairSpec == Spec /\ \A a \in Attempts : WF_vars(Serve(a))

-----------------------------------------------------------------------------
(* Properties.                                                             *)

(* At most one attempt ever sends SQL for one (target, key), whatever      *)
(* happens to acknowledgements, to the server and between retries.         *)
AtMostOneRunPerKey ==
    \A a, b \in Attempts :
        /\ sent[a] /\ sent[b]
        /\ Keyed(a) /\ Keyed(b)
        /\ SlotOf(a) = SlotOf(b)
        => a = b

(* GetClaimWithExecution never meets a broken link: a linked claim points *)
(* at a row with its own key, actor and scope, and a row carries a key     *)
(* only if the claim of that key points at it.                             *)
LinkIntegrity ==
    /\ \A s \in Slots :
         claims[s] # NoClaim /\ claims[s].execution # 0 =>
            \E r \in rows : /\ r.id = claims[s].execution
                            /\ <<r.target, r.key>> = s
                            /\ r.actor = claims[s].actor
                            /\ r.scope = claims[s].scope
    /\ \A r \in rows :
         r.key # NoKey => /\ claims[<<r.target, r.key>>] # NoClaim
                          /\ claims[<<r.target, r.key>>].execution = r.id

(* An attempt leaves at most one evidence pair, although a write whose    *)
(* acknowledgement was lost may take effect after the attempt answered,    *)
(* and each row is matched by one audit row that tells the same result.    *)
OnePairPerAttempt ==
    /\ \A r, q \in rows : r.attempt = q.attempt => r = q
    /\ Cardinality(audits) = Cardinality(rows)
    /\ \A r \in rows : \E x \in audits :
         /\ x.attempt = r.attempt /\ x.target = r.target /\ x.actor = r.actor
         /\ x.result = auditResultFor(r.status)

(* What the answer of one attempt says of the tables.                      *)
AnswerMatches(a) ==
    /\ resp[a] \in {"rows", "upgradeRequired"} =>
         /\ sent[a]
         /\ \E r \in rows : r.attempt = a /\ r.status = "success"
    /\ resp[a] \in {"recorded", "admissionFailed"} =>
         \E r \in rows : r.attempt = a /\ r.status # "success"
    /\ resp[a] \in {"rows", "upgradeRequired", "recorded"} /\ owned[a] =>
         \E r \in rows : r.attempt = a /\ claims[SlotOf(a)].execution = r.id
    /\ resp[a] \in {"invalid", "notFound", "unrecorded", "exists", "conflict"} =>
         ~sent[a] /\ \A r \in rows : r.attempt # a

(* The answer agrees with what is on record: rows and the upgrade error   *)
(* only after a committed success that was really run, a recorded outcome *)
(* only after its committed row, a won key then linked to that row, and    *)
(* an answer that promises no record leaves none.                          *)
AnswersMatchEvidence == \A a \in Attempts : AnswerMatches(a)

(* The owner's finalize always finds its claim unlinked and its own: the  *)
(* defensive refusal in FinalizeClaimWithAudit never fires.                *)
FinalizeFindsItsClaim ==
    \A a \in Attempts : resp[a] # "notOccupant"

(* A step never removes a claim, rewrites one otherwise than by linking    *)
(* it once, or touches a committed row or audit event.                     *)
EvidenceOnlyGrows ==
    [][/\ rows \subseteq rows'
       /\ audits \subseteq audits'
       /\ \A s \in Slots : claims[s] # NoClaim =>
            \/ claims'[s] = claims[s]
            \/ /\ claims[s].execution = 0
               /\ claims'[s] = [claims[s] EXCEPT !.execution = nextId]]_vars

(* Refinement: seen through its slots, the protocol is the ledger.         *)
RanFor(s) == \E a \in Attempts :
    sent[a] /\ req[a] # NoRequest /\ Keyed(a) /\ SlotOf(a) = s

OutcomeOf(s) ==
    IF claims[s] = NoClaim THEN NoClaim
    ELSE IF claims[s].execution = 0 THEN NoClaim
    ELSE (CHOOSE r \in rows : r.id = claims[s].execution).status

OccupantOf(s) == IF claims[s] = NoClaim THEN NoClaim ELSE claims[s].digest

Ledger == INSTANCE IdempotencyLedger WITH
    None <- NoClaim,
    occupant <- [s \in Slots |-> OccupantOf(s)],
    ran <- [s \in Slots |-> RanFor(s)],
    outcome <- [s \in Slots |-> OutcomeOf(s)]

(* Every step of the protocol is a step of the ledger or leaves it as is.  *)
ImplementsLedger == Ledger!Spec

(* A claim and a row as readers see them.                                  *)
StoredClaim(c) ==
    IF c = NoClaim THEN NoClaim
    ELSE [actor |-> c.actor, claimedAt |-> c.claimedAt, execution |-> c.execution]

StoredRow(r) ==
    [id |-> r.id, target |-> r.target, key |-> r.key, actor |-> r.actor,
     status |-> r.status, createdAt |-> r.createdAt]

(* Readers of the two tables may rely on EvidenceStore.                    *)
Evidence == INSTANCE EvidenceStore WITH
    claims <- [s \in Slots |-> StoredClaim(claims[s])],
    rows <- {StoredRow(r) : r \in rows}

(* Every commit of the protocol is one of the three kinds of commits the  *)
(* readers assume, with the times they assume.                             *)
ImplementsEvidenceStore == Evidence!StoreSpec

(* Every attempt the server accepted is answered, unless the server died.  *)
EveryAttemptAnswered ==
    \A a \in Attempts :
        pc[a] \in Waiting ~> pc[a] \in {"answered", "lost"}

(* An occupied slot is linked in the end, or what kept it open is known:  *)
(* the server died, or its owner was told that the record or the claim    *)
(* could not be confirmed.                                                 *)
ClaimSettlesOrIsExplained ==
    \A s \in Slots :
        claims[s] # NoClaim ~>
            /\ claims[s] # NoClaim
            /\ \/ claims[s].execution # 0
               \/ pc[claims[s].owner] = "lost"
               \/ resp[claims[s].owner] \in {"persistError", "admissionFailed"}

-----------------------------------------------------------------------------
(* The inductive invariant: why the properties above hold.                 *)

(* Places before the slot is decided, between winning it and persisting,  *)
(* and after the last step.                                                *)
BeforeClaim == {"idle", "access", "prepare", "admit", "classify"}
Executing   == {"guard", "preflight", "pgchain", "run", "apply"}
Over        == {"answered", "lost"}

(* An attempt serves one request from the moment it leaves "idle", and     *)
(* holds nothing before it claims.                                         *)
AttemptInv ==
    \A a \in Attempts :
        /\ pc[a] # "idle" => req[a] \in Requests
        /\ pc[a] \in BeforeClaim =>
             ~owned[a] /\ ~sent[a] /\ limbo[a] = {}
        /\ pc[a] = "classify" => Keyed(a)
        /\ pc[a] = "persist" => rec[a] \in Record
        /\ "claim" \in limbo[a] =>
             /\ ~owned[a]
             /\ Keyed(a)
             /\ pc[a] \in {"persist"} \cup Over
             /\ pc[a] = "persist" => rec[a].answer = "admissionFailed"
        /\ "pair" \in limbo[a] => pc[a] \in Over /\ rec[a] \in Record

(* A keyed attempt executes only as the owner of its slot, and until it    *)
(* has persisted the slot is its own, unlinked claim.                      *)
OwnerInv ==
    \A a \in Attempts :
        /\ owned[a] =>
             /\ Keyed(a)
             /\ claims[SlotOf(a)] # NoClaim
             /\ claims[SlotOf(a)].owner = a
             /\ pc[a] \in Executing \cup {"persist"} \/ "pair" \in limbo[a] =>
                  claims[SlotOf(a)].execution = 0
        /\ pc[a] \in Executing \cup {"gate"} /\ Keyed(a) => owned[a]
        /\ pc[a] = "persist" /\ rec[a].answer = "rows" /\ Keyed(a) => owned[a]
        /\ sent[a] /\ Keyed(a) => owned[a]

(* A claim carries the identity of the request that inserted it.           *)
InsertedBy(s, o) ==
    /\ pc[o] \notin BeforeClaim
    /\ <<req[o].target, req[o].key>> = s
    /\ claims[s].actor = req[o].actor
    /\ claims[s].scope = req[o].scope
    /\ claims[s].digest = Digest(req[o])

ClaimInv ==
    \A s \in Slots : claims[s] # NoClaim => InsertedBy(s, claims[s].owner)

(* Row ids lie below the counter.                                          *)
RowInv == \A r \in rows : r.id \in 1..(nextId - 1)

IInv ==
    /\ TypeOK
    /\ AttemptInv
    /\ OwnerInv
    /\ ClaimInv
    /\ RowInv
    /\ LinkIntegrity
    /\ FinalizeFindsItsClaim

-----------------------------------------------------------------------------
(* What the evidence and the answers rest on besides.                      *)

(* The record about to be written, or on its way, is a success only if     *)
(* the statement was sent and rows are the answer.                         *)
TruthfulRecord(a) ==
    IF rec[a].answer = "rows" THEN sent[a] /\ rec[a].status = "success"
                              ELSE rec[a].status # "success"

(* The row of an attempt that waits for the delivery gate.                 *)
DeliverableRow(a) ==
    \E r \in rows : /\ r.attempt = a
                    /\ r.status = "success"
                    /\ owned[a] => claims[SlotOf(a)].execution = r.id

(* What an attempt was answered, has sent and is about to record.          *)
Progress(a) ==
    /\ pc[a] # "answered" => resp[a] = "none"
    /\ "pair" \in limbo[a] => resp[a] \in {"none", "persistError"}
    /\ pc[a] \in {"guard", "preflight", "pgchain"} => ~sent[a]
    /\ pc[a] \in {"run", "apply", "gate"} => sent[a]
    /\ pc[a] = "persist" \/ "pair" \in limbo[a] => TruthfulRecord(a)
    /\ pc[a] = "gate" => DeliverableRow(a)

ProgressInv == \A a \in Attempts : Progress(a)

(* A row exists only of an attempt that has persisted and has no pair on   *)
(* its way; ids tell rows and events apart.                                *)
PairInv ==
    /\ \A r \in rows : /\ pc[r.attempt] \in {"gate"} \cup Over
                       /\ "pair" \notin limbo[r.attempt]
    /\ \A r, q \in rows : r.id = q.id => r = q
    /\ \A x \in audits : x.id \in 1..(nextId - 1)
    /\ IsFiniteSet(rows) /\ IsFiniteSet(audits)

(* Times are read before they are written, the claim's before the row's.   *)
TimeInv ==
    /\ \A a \in Attempts :
         /\ stamp[a] <= now
         /\ rec[a] \in Record => rec[a].createdAt <= now
         /\ owned[a] /\ (pc[a] = "persist" \/ "pair" \in limbo[a]) =>
              stamp[a] <= rec[a].createdAt
    /\ \A s \in Slots :
         claims[s] # NoClaim => claims[s].claimedAt = stamp[claims[s].owner]

EInv ==
    /\ IInv
    /\ ProgressInv
    /\ PairInv
    /\ TimeInv
    /\ OnePairPerAttempt
    /\ AnswersMatchEvidence
=============================================================================
