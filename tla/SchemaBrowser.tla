--------------------------- MODULE SchemaBrowser ---------------------------
(***************************************************************************)
(* Schema browsing: six metadata reads of a target, five of them served   *)
(* through one bounded in-memory cache (QuerySchemaCache) with a shorter  *)
(* lifetime for empty results, first-in first-out eviction and in-flight  *)
(* coalescing of identical reads (singleflight).                           *)
(*                                                                         *)
(* One action is one step between two points where another request may    *)
(* run: a database round trip, or a release of the cache's lock.           *)
(***************************************************************************)
EXTENDS Integers, Sequences, FiniteSets, SequencesExt

CONSTANTS
    Calls,        \* handler goroutines, each serving one request after another
    Targets, PGTargets, TiDBTargets,
    Databases, Schemas, CredentialRefs,
    Items,        \* object name, search text, page: the rest of the key
    Requests,     \* the requests clients send
    Stored,       \* the credential rows administrators store
    Capacity, PositiveTTL, NegativeTTL,
    MaxNow,       \* bound on the clock
    MaxChanges,   \* bound on the changes of stored credentials
    None          \* an omitted parameter, an absent entry

Scopes == {"databases", "schemas", "objects", "object_details",
           "relationship_map", "table_definition"}

Request == [op : Scopes, target : Targets, database : Databases \cup {None},
            schema : Schemas \cup {None}, item : Items, refresh : BOOLEAN]

ASSUME CacheAssumption ==
    /\ PGTargets \cup TiDBTargets \subseteq Targets
    /\ PGTargets \cap TiDBTargets = {}
    /\ Requests \subseteq Request
    /\ Stored \subseteq [ref : CredentialRefs, schema : Schemas \cup {None}]
    /\ Capacity \in Nat \ {0}
    /\ {PositiveTTL, NegativeTTL, MaxNow, MaxChanges} \subseteq Nat
    /\ NegativeTTL <= PositiveTTL

VARIABLES
    pc,        \* where each call is
    req,       \* its request
    bound,     \* the credential row it resolved
    key,       \* its CacheKey
    held,      \* the Entry read or the Value fetched
    answer,    \* a value, or why there is none
    audited,   \* the audit event written for it
    conns,     \* query_credentials: one row per (target, database)
    changes,   \* how often an administrator changed one
    entries, order,    \* the cache
    now

callVars == <<pc, req, bound, key, held, answer, audited>>
vars == <<callVars, conns, changes, entries, order, now>>

(* MySQL and TiDB have the one credential of the target, PostgreSQL one   *)
(* per database.                                                           *)
ConnectionIds == ((Targets \ PGTargets) \X {None}) \cup (PGTargets \X Databases)

CacheKey == [scope : Scopes, target : Targets, ref : CredentialRefs,
             database : Databases \cup {None}, schema : Schemas \cup {None},
             item : Items]

(* What a fetch returns: the facts it was computed from and whether it     *)
(* holds no items.                                                         *)
Value == [of : CacheKey, empty : BOOLEAN]

Entry == [value : Value, insertedAt : 0..MaxNow]

Init ==
    /\ pc = [c \in Calls |-> "idle"]
    /\ req = [c \in Calls |-> None]
    /\ bound = [c \in Calls |-> None]
    /\ key = [c \in Calls |-> None]
    /\ held = [c \in Calls |-> None]
    /\ answer = [c \in Calls |-> None]
    /\ audited = [c \in Calls |-> "none"]
    /\ conns = [p \in ConnectionIds |-> CHOOSE x \in Stored : x.schema # None]
    /\ changes = 0
    /\ entries = <<>>
    /\ order = <<>>
    /\ now = 0

-----------------------------------------------------------------------------
(* What each read asks of the cache: its key, or None when the parameters  *)
(* are refused.  r is the request, b the credential row it resolved to.    *)

(* Fault: the key leaves out the credential.                               *)
cacheKeyWithoutRef(scope, r, b, database, schema) ==
    [scope |-> scope, target |-> r.target, ref |-> CHOOSE x \in CredentialRefs : TRUE,
     database |-> database, schema |-> schema, item |-> r.item]

cacheKey(scope, r, b, database, schema) ==
    [scope |-> scope, target |-> r.target, ref |-> b.ref,
     database |-> database, schema |-> schema, item |-> r.item]

(* An omitted schema is the connection's default, read with the row.       *)
pgEffectiveSchema(explicit, fallback) == IF explicit = None THEN fallback ELSE explicit

(* A PostgreSQL read pins the connection's database and a schema.          *)
pgPinned(scope, r, b) ==
    LET schema == pgEffectiveSchema(r.schema, b.schema)
    IN  IF schema = None THEN None ELSE cacheKey(scope, r, b, r.database, schema)

listDatabases(r, b)    == cacheKey("databases", r, b, None, None)
listPGDatabases(r, b)  == cacheKey("databases", r, b, r.database, None)
listPGSchemas(r, b)    == cacheKey("schemas", r, b, r.database, None)
listObjects(r, b)      ==
    IF r.database = None \/ r.schema # None THEN None
    ELSE cacheKey("objects", r, b, r.database, None)
listPGObjects(r, b)    == pgPinned("objects", r, b)
getObjectDetails(r, b) ==
    IF r.database = None \/ r.schema # None THEN None
    ELSE cacheKey("object_details", r, b, r.database, None)
getPGObjectDetails(r, b) == pgPinned("object_details", r, b)

(* Relationship maps are read for MySQL only among the MySQL protocols.    *)
getRelationshipMap(r, b) ==
    IF r.database = None \/ r.schema # None \/ r.target \in TiDBTargets THEN None
    ELSE cacheKey("relationship_map", r, b, r.database, None)
getPGRelationshipMap(r, b) == pgPinned("relationship_map", r, b)

(* Definitions are never cached; PostgreSQL refuses them after a probe.    *)
tableDefinition(r, b) ==
    IF r.database = None \/ (r.schema # None /\ r.target \notin PGTargets) THEN None
    ELSE cacheKey("table_definition", r, b, r.database, r.schema)

Plan(r, b) ==
    LET pg == r.target \in PGTargets
    IN  CASE r.op = "databases" -> IF pg THEN listPGDatabases(r, b) ELSE listDatabases(r, b)
          [] r.op = "schemas" -> IF pg THEN listPGSchemas(r, b) ELSE None
          [] r.op = "objects" -> IF pg THEN listPGObjects(r, b) ELSE listObjects(r, b)
          [] r.op = "object_details" ->
                IF pg THEN getPGObjectDetails(r, b) ELSE getObjectDetails(r, b)
          [] r.op = "relationship_map" ->
                IF pg THEN getPGRelationshipMap(r, b) ELSE getRelationshipMap(r, b)
          [] r.op = "table_definition" -> tableDefinition(r, b)

-----------------------------------------------------------------------------
(* Steps of one call.                                                      *)

Goto(c, l) == pc' = [pc EXCEPT ![c] = l]

(* The handler returns: its locals are gone.                               *)
Leave(c) ==
    /\ Goto(c, "answered")
    /\ key' = [key EXCEPT ![c] = None]
    /\ held' = [held EXCEPT ![c] = None]

Browse(c) ==
    /\ pc[c] \in {"idle", "answered"}
    /\ \E r \in Requests : req' = [req EXCEPT ![c] = r]
    /\ bound' = [bound EXCEPT ![c] = None]
    /\ answer' = [answer EXCEPT ![c] = None]
    /\ audited' = [audited EXCEPT ![c] = "none"]
    /\ Goto(c, "access")
    /\ UNCHANGED <<key, held, conns, changes, entries, order, now>>

(* The credential row a request selects.                                   *)
Row(r) == conns[<<r.target, IF r.target \in PGTargets THEN r.database ELSE None>>]

(* Which refused parameters leave a failed event: no usable schema on      *)
(* PostgreSQL, and a relationship map of a TiDB target.                    *)
RefusalIsAudited(r) ==
    \/ r.target \in PGTargets
    \/ r.op = "relationship_map" /\ r.database # None /\ r.schema = None

(* Access is resolved on every request, before the cache is consulted; a   *)
(* denial is answered without an event.                                    *)
ResolveMetadata(c) ==
    /\ pc[c] = "access"
    /\ \/ /\ Goto(c, "answered")
          /\ UNCHANGED <<bound, key>>
       \/ LET r == req[c]
              k == Plan(r, Row(r))
          IN  /\ r.target \in PGTargets => r.database # None
              /\ bound' = [bound EXCEPT ![c] = Row(r)]
              /\ key' = [key EXCEPT ![c] = k]
              /\ Goto(c, IF k = None THEN IF RefusalIsAudited(r) THEN "failing" ELSE "answered"
                         ELSE IF r.op = "table_definition" THEN "define"
                         ELSE IF r.refresh THEN "join" ELSE "lookup")
    /\ UNCHANGED <<req, held, answer, audited, conns, changes, entries, order, now>>

(* Get, first half: the entry is read under the read lock.                 *)
Lookup(c) ==
    /\ pc[c] = "lookup"
    /\ IF key[c] \in DOMAIN entries
          THEN Goto(c, "check") /\ held' = [held EXCEPT ![c] = entries[key[c]]]
          ELSE Goto(c, "join") /\ UNCHANGED held
    /\ UNCHANGED <<req, bound, key, answer, audited, conns, changes, entries, order, now>>

(* SchemaListResponse is not among the types isEmptyResult knows.          *)
isEmptyResult(v) == v.empty /\ v.of.scope \in {"databases", "objects"}

Expired(e) ==
    now - e.insertedAt >= IF isEmptyResult(e.value) THEN NegativeTTL ELSE PositiveTTL

(* Get, second half: without the lock the entry's age decides.             *)
CheckAge(c) ==
    /\ pc[c] = "check"
    /\ IF Expired(held[c])
          THEN Goto(c, "expire") /\ UNCHANGED held
          ELSE Goto(c, "audit") /\ held' = [held EXCEPT ![c] = @.value]
    /\ UNCHANGED <<req, bound, key, answer, audited, conns, changes, entries, order, now>>

(* Fault: the entry goes, its place in the queue stays.                    *)
removeKeyFromMap(k) ==
    /\ entries' = [x \in DOMAIN entries \ {k} |-> entries[x]]
    /\ UNCHANGED order

(* The first place of the key in the queue goes with the entry.            *)
removeKey(k) ==
    /\ entries' = [x \in DOMAIN entries \ {k} |-> entries[x]]
    /\ IF k \in ToSet(order)
          THEN \E i \in DOMAIN order :
                 /\ order[i] = k /\ \A j \in 1..i - 1 : order[j] # k
                 /\ order' = RemoveAt(order, i)
          ELSE UNCHANGED order

(* ... and the lock is taken again to remove whatever is there by now.     *)
RemoveExpired(c) ==
    /\ pc[c] = "expire"
    /\ removeKey(key[c])
    /\ Goto(c, "join")
    /\ UNCHANGED <<req, bound, key, held, answer, audited, conns, changes, now>>

InFlight(k) == \E d \in Calls : pc[d] \in {"fetch", "land"} /\ key[d] = k

(* Do: the first caller of a key runs the read, later ones wait for it.    *)
Join(c) ==
    /\ pc[c] = "join"
    /\ Goto(c, IF InFlight(key[c]) THEN "wait" ELSE "fetch")
    /\ UNCHANGED <<req, bound, key, held, answer, audited, conns, changes, entries, order, now>>

Waiters(c) == {d \in Calls : pc[d] = "wait" /\ key[d] = key[c]}

(* The catalog is read for the leader's own parameters ...                 *)
Fetch(c) ==
    /\ pc[c] = "fetch"
    /\ \E empty \in BOOLEAN :
         held' = [held EXCEPT ![c] =
                    [of |-> [scope |-> req[c].op, target |-> req[c].target,
                             ref |-> bound[c].ref, database |-> key[c].database,
                             schema |-> key[c].schema, item |-> req[c].item],
                     empty |-> empty]]
    /\ Goto(c, "land")
    /\ UNCHANGED <<req, bound, key, answer, audited, conns, changes, entries, order, now>>

(* Fault: on an error only the caller that ran the read returns.           *)
ReturnToLeader(c, l) ==
    pc' = [d \in Calls |-> IF d = c \/ (l = "set" /\ d \in Waiters(c)) THEN l ELSE pc[d]]

(* ... and everyone who waited leaves with it.                             *)
ReturnToAll(c, l) ==
    pc' = [d \in Calls |-> IF d \in {c} \cup Waiters(c) THEN l ELSE pc[d]]

Land(c) ==
    /\ pc[c] = "land"
    /\ ReturnToAll(c, "set")
    /\ held' = [d \in Calls |-> IF d \in Waiters(c) THEN held[c] ELSE held[d]]
    /\ UNCHANGED <<req, bound, key, answer, audited, conns, changes, entries, order, now>>

(* The read fails, the end of the leader's own request included.           *)
FetchFails(c) ==
    /\ pc[c] \in {"fetch", "land"}
    /\ ReturnToAll(c, "failing")
    /\ UNCHANGED <<req, bound, key, held, answer, audited, conns, changes, entries, order, now>>

(* The oldest keys go until there is room for one.                         *)
Evicted == IF Cardinality(DOMAIN entries) < Capacity THEN 0
           ELSE Cardinality(DOMAIN entries) - Capacity + 1

(* Set: replace in place, or evict and append.                             *)
Set(c) ==
    /\ pc[c] = "set"
    /\ LET new == [value |-> held[c], insertedAt |-> now]
           gone == IF key[c] \in DOMAIN entries THEN {} ELSE ToSet(SubSeq(order, 1, Evicted))
           kept == (DOMAIN entries \ gone) \cup {key[c]}
       IN  /\ entries' = [x \in kept |-> IF x = key[c] THEN new ELSE entries[x]]
           /\ order' = IF key[c] \in DOMAIN entries THEN order
                       ELSE Append(SubSeq(order, Evicted + 1, Len(order)), key[c])
    /\ Goto(c, "audit")
    /\ UNCHANGED <<req, bound, key, held, answer, audited, conns, changes, now>>

(* Definitions: read at the source, or refused after the probe.            *)
Define(c) ==
    /\ pc[c] = "define"
    /\ \/ /\ req[c].target \notin PGTargets
          /\ held' = [held EXCEPT ![c] = [of |-> key[c], empty |-> FALSE]]
          /\ Goto(c, "audit")
       \/ Goto(c, "failing") /\ UNCHANGED <<held>>
    /\ UNCHANGED <<req, bound, key, answer, audited, conns, changes, entries, order, now>>

(* A read is served only once its event is written ...                     *)
AuditSuccess(c) ==
    /\ pc[c] = "audit"
    /\ audited' = [audited EXCEPT ![c] = "success"]
    /\ answer' = [answer EXCEPT ![c] = held[c]]
    /\ Leave(c)
    /\ UNCHANGED <<req, bound, conns, changes, entries, order, now>>

(* Fault: a read is served although its event could not be written.        *)
AuditErrorIgnored(c) ==
    /\ pc[c] = "audit"
    /\ answer' = [answer EXCEPT ![c] = held[c]]
    /\ Leave(c)
    /\ UNCHANGED <<req, bound, audited, conns, changes, entries, order, now>>

(* ... otherwise the client gets an error, whether or not it was.          *)
AuditError(c) ==
    /\ pc[c] = "audit"
    /\ \E result \in {"none", "success"} : audited' = [audited EXCEPT ![c] = result]
    /\ Leave(c)
    /\ UNCHANGED <<req, bound, answer, conns, changes, entries, order, now>>

(* The event of a failed read is written if it can be.                     *)
AuditFailure(c) ==
    /\ pc[c] = "failing"
    /\ \E result \in {"none", "failed"} : audited' = [audited EXCEPT ![c] = result]
    /\ Leave(c)
    /\ UNCHANGED <<req, bound, answer, conns, changes, entries, order, now>>

(* An administrator stores another reference or default schema.            *)
PutCredential ==
    /\ changes < MaxChanges
    /\ changes' = changes + 1
    /\ \E p \in ConnectionIds, x \in Stored :
         /\ x # conns[p]
         /\ conns' = [conns EXCEPT ![p] = x]
    /\ UNCHANGED <<callVars, entries, order, now>>

Tick ==
    /\ now < MaxNow
    /\ now' = now + 1
    /\ UNCHANGED <<callVars, conns, changes, entries, order>>

Serve(c) ==
    \/ ResolveMetadata(c)
    \/ Lookup(c) \/ CheckAge(c) \/ RemoveExpired(c)
    \/ Join(c) \/ Fetch(c) \/ Land(c) \/ FetchFails(c)
    \/ Set(c) \/ Define(c)
    \/ AuditSuccess(c) \/ AuditError(c) \/ AuditFailure(c)

Next ==
    \/ \E c \in Calls : Browse(c) \/ Serve(c)
    \/ PutCredential
    \/ Tick

(* A handler runs until its next wait and every wait of its own ends; a    *)
(* follower's wait has no deadline and ends only with its leader's read.   *)
Spec == Init /\ [][Next]_vars /\ \A c \in Calls : WF_vars(Serve(c))

-----------------------------------------------------------------------------
(* The queue lists exactly the cached keys, each once, within the          *)
(* capacity: no key is left that eviction would never reach.               *)
QueueListsTheEntries ==
    /\ ToSet(order) = DOMAIN entries
    /\ IsInjective(order)
    /\ Len(order) <= Capacity

(* A client gets metadata of the very target, credential, database and     *)
(* schema its request resolved to, through whichever of the cache, another *)
(* caller's read and its own read the value came.                          *)
AnswerDescribesRequest ==
    \A c \in Calls : answer[c] # None =>
        LET r == req[c]
            v == answer[c].of
        IN  /\ v.scope = r.op /\ v.target = r.target /\ v.item = r.item
            /\ v.ref = bound[c].ref
            /\ r.op # "databases" \/ r.target \in PGTargets => v.database = r.database
            /\ r.target \in PGTargets /\ r.op \in {"objects", "object_details", "relationship_map"} =>
                 v.schema = IF r.schema # None THEN r.schema ELSE bound[c].schema

(* No metadata leaves without its audit event, cache hits included.        *)
ServedReadsAreAudited ==
    \A c \in Calls : answer[c] # None => audited[c] = "success"

(* Every request is answered: nobody waits for a read nobody runs.         *)
EveryCallAnswered == \A c \in Calls : pc[c] = "access" ~> pc[c] = "answered"

-----------------------------------------------------------------------------
(* The inductive invariant: why the properties hold.                       *)

BrowserTyped ==
    /\ DOMAIN pc = Calls /\ DOMAIN req = Calls /\ DOMAIN bound = Calls
    /\ DOMAIN key = Calls /\ DOMAIN held = Calls /\ DOMAIN answer = Calls
    /\ DOMAIN audited = Calls
    /\ order \in Seq(DOMAIN entries)

(* Places between the resolved access and the end of the read.             *)
Reading == {"lookup", "check", "expire", "join", "wait", "fetch", "land", "set",
            "audit", "define"}

(* A call in progress holds the key its request and its credential row lead *)
(* to, and what it holds was computed for that key.                         *)
CallInv(c) ==
    LET k == Plan(req[c], bound[c])
    IN  /\ pc[c] # "idle" => req[c] \in Requests
        /\ pc[c] \in Reading => key[c] = k /\ k # None
        /\ pc[c] = "check" => held[c].value.of = key[c]
        /\ pc[c] \in {"land", "set", "audit"} => held[c].of = key[c]
        /\ answer[c] # None => /\ pc[c] = "answered" /\ audited[c] = "success"
                               /\ answer[c].of = k /\ k # None

(* An entry was computed for the key it is stored under.                   *)
EntriesInv == \A k \in DOMAIN entries : entries[k].value.of = k

BrowserInv ==
    /\ BrowserTyped
    /\ \A c \in Calls : CallInv(c)
    /\ EntriesInv
    /\ QueueListsTheEntries
=============================================================================
