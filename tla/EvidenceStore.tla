--------------------------- MODULE EvidenceStore ---------------------------
(***************************************************************************)
(* What readers of query_execution_claims and query_executions can rely   *)
(* on, whoever writes: three kinds of commits, each atomic, each carrying *)
(* a time that was read some while before the commit.  ExecutionClaims    *)
(* implements this specification; ExecutionHistory reads under it.        *)
(***************************************************************************)
EXTENDS Integers, FiniteSets

CONSTANTS Targets, Keys, Actor, Statuses, NoKey, NoClaim, MaxNow

VARIABLES claims, rows, nextId, now

evidenceVars == <<claims, rows, nextId, now>>

Slots == Targets \X Keys

StoredClaim == [actor : Actor, claimedAt : 0..MaxNow, execution : Nat]

StoredRow == [id : Nat, target : Targets, key : Keys \cup {NoKey}, actor : Actor,
              status : Statuses, createdAt : 0..MaxNow]

StoreInit ==
    /\ claims = [s \in Slots |-> NoClaim]
    /\ rows = {}
    /\ nextId = 1
    /\ now = 0

(* The claim INSERT commits; a second one meets the primary key.           *)
InsertClaim(s, actor, t) ==
    /\ claims[s] = NoClaim
    /\ t <= now
    /\ claims' = [claims EXCEPT ![s] =
                    [actor |-> actor, claimedAt |-> t, execution |-> 0]]
    /\ UNCHANGED <<rows, nextId, now>>

InsertRow(target, key, actor, status, t) ==
    /\ t <= now
    /\ rows' = rows \cup {[id |-> nextId, target |-> target, key |-> key,
                           actor |-> actor, status |-> status, createdAt |-> t]}
    /\ nextId' = nextId + 1

(* InsertExecutionWithAudit: a row without a key.                          *)
InsertKeyless(target, actor, status, t) ==
    /\ InsertRow(target, NoKey, actor, status, t)
    /\ UNCHANGED <<claims, now>>

(* FinalizeClaimWithAudit: the row and the link, stamped no earlier than   *)
(* the claim.                                                              *)
FinalizeClaim(s, status, t) ==
    /\ claims[s] # NoClaim
    /\ claims[s].execution = 0
    /\ claims[s].claimedAt <= t
    /\ InsertRow(s[1], s[2], claims[s].actor, status, t)
    /\ claims' = [claims EXCEPT ![s].execution = nextId]
    /\ UNCHANGED now

ClockTick ==
    /\ now < MaxNow
    /\ now' = now + 1
    /\ UNCHANGED <<claims, rows, nextId>>

StoreNext ==
    \/ \E t \in 0..MaxNow :
         \/ \E s \in Slots, actor \in Actor : InsertClaim(s, actor, t)
         \/ \E target \in Targets, actor \in Actor, status \in Statuses :
              InsertKeyless(target, actor, status, t)
         \/ \E s \in Slots, status \in Statuses : FinalizeClaim(s, status, t)
    \/ ClockTick

StoreSpec == StoreInit /\ [][StoreNext]_evidenceVars
=============================================================================
