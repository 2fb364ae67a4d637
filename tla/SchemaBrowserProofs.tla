------------------------ MODULE SchemaBrowserProofs -------------------------
(***************************************************************************)
(* Proofs about SchemaBrowser: BrowserInv is inductive, so the queue and   *)
(* the cache agree and every answer belongs to its request, for any        *)
(* capacity and any number of concurrent calls.                            *)
(***************************************************************************)
EXTENDS SchemaBrowser, TLAPS, SequenceTheorems, FiniteSetTheorems

-----------------------------------------------------------------------------
(* The key of a request.                                                   *)

(* What a key says of the request and the credential row it was made from. *)
Describes(k, r, b) ==
    /\ k = [scope |-> r.op, target |-> r.target, ref |-> b.ref,
            database |-> k.database, schema |-> k.schema, item |-> r.item]
    /\ r.op # "databases" \/ r.target \in PGTargets => k.database = r.database
    /\ r.target \in PGTargets /\ r.op \in {"objects", "object_details", "relationship_map"} =>
         k.schema = IF r.schema # None THEN r.schema ELSE b.schema

LEMMA PlanDescribes ==
    ASSUME NEW r \in Requests, NEW b, Plan(r, b) # None
    PROVE  Describes(Plan(r, b), r, b)
<1>1. r.op \in Scopes
  BY CacheAssumption DEF Request
<1>2. CASE r.op = "databases"
  BY <1>2 DEF Plan, listPGDatabases, listDatabases, cacheKey, Describes
<1>3. CASE r.op = "schemas"
  BY <1>3 DEF Plan, listPGSchemas, cacheKey, Describes
<1>4. CASE r.op = "objects"
  BY <1>4 DEF Plan, listPGObjects, listObjects, pgPinned, pgEffectiveSchema, cacheKey, Describes
<1>5. CASE r.op = "object_details"
  BY <1>5 DEF Plan, getPGObjectDetails, getObjectDetails, pgPinned, pgEffectiveSchema, cacheKey, Describes
<1>6. CASE r.op = "relationship_map"
  BY <1>6 DEF Plan, getPGRelationshipMap, getRelationshipMap, pgPinned, pgEffectiveSchema, cacheKey, Describes
<1>7. CASE r.op = "table_definition"
  BY <1>7 DEF Plan, tableDefinition, cacheKey, Describes
<1> QED
  BY <1>1, <1>2, <1>3, <1>4, <1>5, <1>6, <1>7 DEF Scopes

-----------------------------------------------------------------------------
(* The calls.                                                              *)

LocalsTyped ==
    /\ DOMAIN pc = Calls /\ DOMAIN req = Calls /\ DOMAIN bound = Calls
    /\ DOMAIN key = Calls /\ DOMAIN held = Calls /\ DOMAIN answer = Calls
    /\ DOMAIN audited = Calls

CallsInv == LocalsTyped /\ \A c \in Calls : CallInv(c)

(* A call whose locals do not change keeps its invariant.                  *)
Rests(d) ==
    /\ pc'[d] = pc[d] /\ req'[d] = req[d] /\ bound'[d] = bound[d] /\ key'[d] = key[d]
    /\ held'[d] = held[d] /\ answer'[d] = answer[d] /\ audited'[d] = audited[d]

LEMMA RestKeeps ==
    ASSUME NEW d \in Calls, CallInv(d), Rests(d)
    PROVE  CallInv(d)'
<1>1. Plan(req[d], bound[d])' = Plan(req[d], bound[d])
  BY DEF Rests, Plan, listPGDatabases, listDatabases, listPGSchemas, listPGObjects, listObjects,
     getPGObjectDetails, getObjectDetails, getPGRelationshipMap, getRelationshipMap,
     tableDefinition, pgPinned, pgEffectiveSchema, cacheKey
<1> QED
  BY <1>1 DEF CallInv, Rests

LEMMA BrowseStep ==
    ASSUME CallsInv, NEW c \in Calls, Browse(c)
    PROVE  CallsInv'
<1>1. LocalsTyped'
  BY DEF CallsInv, LocalsTyped, Browse, Goto
<1>2. CallInv(c)'
  BY DEF CallsInv, LocalsTyped, Browse, Goto, CallInv, Reading
<1>3. ASSUME NEW d \in Calls \ {c} PROVE CallInv(d)'
  BY RestKeeps DEF CallsInv, LocalsTyped, Browse, Goto, Rests
<1> QED
  BY <1>1, <1>2, <1>3 DEF CallsInv

LEMMA ResolveStep ==
    ASSUME CallsInv, NEW c \in Calls, ResolveMetadata(c)
    PROVE  CallsInv'
<1>1. LocalsTyped'
  BY DEF CallsInv, LocalsTyped, ResolveMetadata, Goto
<1>2. pc[c] = "access" /\ req'[c] = req[c] /\ held'[c] = held[c] /\ answer'[c] = answer[c]
  BY DEF ResolveMetadata
<1>3. answer[c] = None /\ req[c] \in Requests
  BY <1>2 DEF CallsInv, CallInv
<1>4. ASSUME pc'[c] = "answered" \/ pc'[c] = "failing" PROVE CallInv(c)'
  BY <1>2, <1>3, <1>4 DEF CallInv, Reading
<1>5. ASSUME ~(pc'[c] = "answered" \/ pc'[c] = "failing") PROVE CallInv(c)'
  <2> DEFINE k == Plan(req[c], Row(req[c]))
  <2>1. /\ bound' = [bound EXCEPT ![c] = Row(req[c])]
        /\ key' = [key EXCEPT ![c] = k]
        /\ Goto(c, IF k = None THEN IF RefusalIsAudited(req[c]) THEN "failing" ELSE "answered"
                   ELSE IF req[c].op = "table_definition" THEN "define"
                   ELSE IF req[c].refresh THEN "join" ELSE "lookup")
    <3>1. ~Goto(c, "answered")
      BY <1>5 DEF Goto, CallsInv, LocalsTyped
    <3> QED
      BY <3>1, Zenon DEF ResolveMetadata
  <2> HIDE DEF k
  <2>2. bound'[c] = Row(req[c]) /\ key'[c] = k
    BY <2>1 DEF CallsInv, LocalsTyped
  <2>3. k # None /\ pc'[c] \in {"define", "join", "lookup"}
    <3>1. DOMAIN pc = Calls
      BY DEF CallsInv, LocalsTyped
    <3> QED
      BY <1>5, <2>1, <3>1 DEF Goto
  <2>4. k = Plan(req'[c], bound'[c])
    BY <1>2, <2>2 DEF k
  <2> QED
    BY <1>2, <1>3, <2>2, <2>3, <2>4 DEF CallInv, Reading
<1>6. CallInv(c)'
  BY <1>4, <1>5
<1>7. ASSUME NEW d \in Calls \ {c} PROVE CallInv(d)'
  BY RestKeeps DEF CallsInv, LocalsTyped, ResolveMetadata, Goto, Rests
<1> QED
  BY <1>1, <1>6, <1>7 DEF CallsInv

(* The steps of a call on its own.                                         *)
LEMMA OwnStep ==
    ASSUME CallsInv, EntriesInv, NEW c \in Calls,
           \/ Lookup(c) \/ CheckAge(c) \/ RemoveExpired(c) \/ Join(c) \/ Fetch(c)
           \/ Set(c) \/ Define(c) \/ AuditSuccess(c) \/ AuditError(c) \/ AuditFailure(c)
    PROVE  CallsInv'
<1>1. LocalsTyped /\ CallInv(c)
  BY DEF CallsInv
<1>2. req' = req /\ bound' = bound
  BY DEF Lookup, CheckAge, RemoveExpired, Join, Fetch, Set, Define, AuditSuccess, AuditError, AuditFailure
<1>3. LocalsTyped'
  BY <1>1 DEF LocalsTyped, Lookup, CheckAge, RemoveExpired, Join, Fetch, Set, Define, AuditSuccess,
     AuditError, AuditFailure, Goto, Leave
<1>4. ASSUME Lookup(c) PROVE CallInv(c)'
  BY <1>1, <1>4 DEF LocalsTyped, CallInv, Reading, Lookup, Goto, EntriesInv
<1>5. ASSUME CheckAge(c) PROVE CallInv(c)'
  BY <1>1, <1>5 DEF LocalsTyped, CallInv, Reading, CheckAge, Goto
<1>6. ASSUME RemoveExpired(c) \/ Join(c) PROVE CallInv(c)'
  BY <1>1, <1>6 DEF LocalsTyped, CallInv, Reading, RemoveExpired, Join, Goto
<1>7. ASSUME Fetch(c) PROVE CallInv(c)'
  <2>1. Describes(key[c], req[c], bound[c])
    BY <1>1, <1>7, PlanDescribes DEF CallInv, Fetch, Reading
  <2>2. held'[c].of = key[c] /\ pc'[c] = "land" /\ key' = key /\ answer' = answer /\ pc[c] = "fetch"
    BY <1>1, <1>7, <2>1 DEF Fetch, Goto, LocalsTyped, Describes
  <2> QED
    BY <1>1, <1>2, <2>2 DEF CallInv, Reading
<1>8. ASSUME Set(c) \/ Define(c) PROVE CallInv(c)'
  BY <1>1, <1>8 DEF LocalsTyped, CallInv, Reading, Set, Define, Goto
<1>9. ASSUME AuditSuccess(c) PROVE CallInv(c)'
  BY <1>1, <1>9 DEF LocalsTyped, CallInv, Reading, AuditSuccess, Leave, Goto
<1>10. ASSUME AuditError(c) \/ AuditFailure(c) PROVE CallInv(c)'
  BY <1>1, <1>10 DEF LocalsTyped, CallInv, Reading, AuditError, AuditFailure, Leave, Goto
<1>11. CallInv(c)'
  BY <1>4, <1>5, <1>6, <1>7, <1>8, <1>9, <1>10
<1>12. ASSUME NEW d \in Calls \ {c} PROVE CallInv(d)'
  <2>1. Rests(d)
    BY <1>1 DEF LocalsTyped, Rests, Lookup, CheckAge, RemoveExpired, Join, Fetch, Set, Define,
       AuditSuccess, AuditError, AuditFailure, Goto, Leave
  <2> QED
    BY <2>1, RestKeeps DEF CallsInv
<1> QED
  BY <1>3, <1>11, <1>12 DEF CallsInv

(* The end of a read, for the caller that ran it and for those who wait.   *)
LEMMA SharedStep ==
    ASSUME CallsInv, NEW c \in Calls, Land(c) \/ FetchFails(c)
    PROVE  CallsInv'
<1>1. LocalsTyped /\ \A d \in Calls : CallInv(d)
  BY DEF CallsInv
<1>2. /\ pc[c] \in {"fetch", "land"}
      /\ req' = req /\ bound' = bound /\ key' = key /\ answer' = answer /\ audited' = audited
  BY DEF Land, FetchFails
<1>3. LocalsTyped'
  BY <1>1, <1>2 DEF LocalsTyped, Land, FetchFails, ReturnToAll
<1>4. ASSUME NEW d \in Calls, d \notin {c} \cup Waiters(c) PROVE CallInv(d)'
  <2>1. Rests(d)
    BY <1>2, <1>4 DEF Rests, Land, FetchFails, ReturnToAll
  <2> QED
    BY <1>1, <2>1, RestKeeps
<1>5. ASSUME NEW d \in {c} \cup Waiters(c) PROVE CallInv(d)'
  <2>1. d \in Calls /\ pc[d] \in {"fetch", "land", "wait"} /\ key[d] = key[c]
    BY <1>2 DEF Waiters
  <2>2. CASE FetchFails(c)
    BY <1>1, <1>2, <2>1, <2>2 DEF FetchFails, ReturnToAll, CallInv, Reading
  <2>3. CASE Land(c)
    <3>1. pc'[d] = "set" /\ held'[d] = held[c] /\ held[c].of = key[c]
      BY <1>1, <2>1, <2>3 DEF Land, ReturnToAll, CallInv, LocalsTyped
    <3> QED
      BY <1>1, <1>2, <2>1, <3>1 DEF CallInv, Reading
  <2> QED
    BY <2>2, <2>3
<1> QED
  BY <1>3, <1>4, <1>5 DEF CallsInv

-----------------------------------------------------------------------------
(* The cache and its queue.                                                *)

QueueInv == order \in Seq(DOMAIN entries) /\ QueueListsTheEntries

LEMMA OrderShape ==
    ASSUME QueueInv
    PROVE  /\ Len(order) \in Nat /\ DOMAIN order = 1..Len(order) /\ Len(order) <= Capacity
           /\ \A i \in 1..Len(order) : order[i] \in DOMAIN entries
           /\ \A k \in DOMAIN entries : \E i \in 1..Len(order) : order[i] = k
           /\ \A i, j \in 1..Len(order) : order[i] = order[j] => i = j
<1>1. Len(order) \in Nat /\ DOMAIN order = 1..Len(order)
  BY DEF QueueInv
<1> QED
  BY <1>1 DEF QueueInv, QueueListsTheEntries, ToSet, IsInjective

(* The converse, to conclude with.                                         *)
LEMMA OrderLists ==
    ASSUME NEW E, NEW q \in Seq(E), Len(q) <= Capacity,
           \A k \in E : \E i \in 1..Len(q) : q[i] = k,
           \A i, j \in 1..Len(q) : q[i] = q[j] => i = j
    PROVE  ToSet(q) = E /\ IsInjective(q)
<1>1. DOMAIN q = 1..Len(q) /\ \A i \in 1..Len(q) : q[i] \in E
  OBVIOUS
<1> QED
  BY <1>1 DEF ToSet, IsInjective

(* The queue is as long as the cache is large.                             *)
LEMMA QueueSize ==
    ASSUME QueueInv
    PROVE  Cardinality(DOMAIN entries) = Len(order)
<1>1. order \in [1..Len(order) -> DOMAIN entries] /\ Len(order) \in Nat
  BY OrderShape DEF QueueInv
<1>2. order \in Bijection(1..Len(order), DOMAIN entries)
  BY <1>1, OrderShape DEF Bijection, Injection, Surjection, IsInjective
<1>3. ExistsBijection(1..Len(order), DOMAIN entries)
  BY <1>2 DEF ExistsBijection
<1> QED
  BY <1>1, <1>3, FS_CountingElements

(* A sequence without its i-th element.                                    *)
LEMMA Removed ==
    ASSUME NEW S, NEW s \in Seq(S), NEW i \in 1..Len(s)
    PROVE  LET t == RemoveAt(s, i)
           IN  /\ t \in Seq(S) /\ Len(t) = Len(s) - 1
               /\ \A j \in 1..Len(s) - 1 : t[j] = IF j < i THEN s[j] ELSE s[j + 1]
<1> DEFINE a == SubSeq(s, 1, i - 1)
           b == SubSeq(s, i + 1, Len(s))
<1>1. Len(s) \in Nat /\ i \in Nat
  OBVIOUS
<1>2. /\ a \in Seq(S) /\ Len(a) = i - 1
      /\ \A j \in 1..i - 1 : a[j] = s[j]
  BY <1>1
<1>3. /\ b \in Seq(S) /\ Len(b) = Len(s) - i
      /\ \A j \in 1..Len(s) - i : b[j] = s[i + j]
  BY <1>1
<1> HIDE DEF a, b
<1>4. /\ a \o b \in Seq(S) /\ Len(a \o b) = Len(a) + Len(b)
      /\ \A j \in 1..Len(a) + Len(b) : (a \o b)[j] = IF j <= Len(a) THEN a[j] ELSE b[j - Len(a)]
  BY <1>2, <1>3, ConcatProperties
<1>5. RemoveAt(s, i) = a \o b
  BY DEF RemoveAt, a, b
<1> DEFINE t == a \o b
<1>6. /\ t \in Seq(S) /\ Len(t) = Len(s) - 1
      /\ \A j \in 1..Len(s) - 1 : t[j] = IF j <= i - 1 THEN a[j] ELSE b[j - (i - 1)]
  BY <1>1, <1>2, <1>3, <1>4
<1> HIDE DEF t
<1>7. ASSUME NEW j \in 1..Len(s) - 1
      PROVE  t[j] = IF j < i THEN s[j] ELSE s[j + 1]
  <2>1. CASE j < i
    <3>1. j \in 1..i - 1
      BY <1>1, <2>1
    <3> QED
      BY <1>2, <1>6, <2>1, <3>1
  <2>2. CASE ~(j < i)
    <3>1. j - (i - 1) \in 1..Len(s) - i /\ i + (j - (i - 1)) = j + 1 /\ ~(j <= i - 1)
      BY <1>1, <2>2
    <3> QED
      BY <1>3, <1>6, <2>2, <3>1
  <2> QED
    BY <2>1, <2>2
<1> QED
  BY <1>5, <1>6, <1>7 DEF t

(* A sequence that loses its first e elements and gains one at the end.    *)
LEMMA Shifted ==
    ASSUME NEW S, NEW s \in Seq(S), NEW e \in 0..Len(s), NEW x \in S
    PROVE  LET t == Append(SubSeq(s, e + 1, Len(s)), x)
               n == Len(s) - e
           IN  /\ t \in Seq(S) /\ Len(t) = n + 1 /\ t[n + 1] = x
               /\ \A j \in 1..n : t[j] = s[j + e]
<1> DEFINE n == Len(s) - e
           a == SubSeq(s, e + 1, Len(s))
<1>1. Len(s) \in Nat /\ e \in Nat /\ n \in Nat
  OBVIOUS
<1>2. a \in Seq(S) /\ Len(a) = n /\ \A j \in 1..n : a[j] = s[j + e]
  BY <1>1
<1> HIDE DEF a
<1> QED
  BY <1>1, <1>2, AppendProperties DEF a

LEMMA RemoveStep ==
    ASSUME QueueInv, EntriesInv, NEW k, removeKey(k)
    PROVE  QueueInv' /\ EntriesInv'
<1> DEFINE E == DOMAIN entries \ {k}
<1>1. entries' = [x \in E |-> entries[x]] /\ DOMAIN entries' = E
  BY DEF removeKey
<1>2. EntriesInv'
  BY <1>1 DEF EntriesInv
<1>3. CASE k \notin ToSet(order)
  <2>1. order' = order /\ E = DOMAIN entries
    BY <1>3 DEF removeKey, QueueInv, QueueListsTheEntries
  <2> QED
    BY <1>1, <1>2, <2>1 DEF QueueInv, QueueListsTheEntries
<1>4. CASE k \in ToSet(order)
  <2>1. PICK i \in 1..Len(order) : order[i] = k /\ order' = RemoveAt(order, i)
    BY <1>4, OrderShape DEF removeKey
  <2> DEFINE n == Len(order)
  <2>2. /\ Len(order') = n - 1
        /\ \A j \in 1..n - 1 : order'[j] = IF j < i THEN order[j] ELSE order[j + 1]
    BY <2>1, Removed DEF QueueInv
  <2>3. order' \in Seq(DOMAIN entries)
    BY <2>1, Removed DEF QueueInv
  <2>4. n \in Nat /\ Capacity \in Nat /\ n <= Capacity
    BY OrderShape, CacheAssumption
  <2>5. \A j \in 1..n - 1 : order'[j] # k
    BY <2>1, <2>2, <2>4, OrderShape
  <2>6. order' \in Seq(E)
    BY <2>2, <2>3, <2>5
  <2>7. ASSUME NEW x \in E PROVE \E j \in 1..n - 1 : order'[j] = x
    <3>1. PICK m \in 1..n : order[m] = x
      BY OrderShape
    <3>2. m # i
      BY <2>1, <3>1
    <3>3. CASE m < i
      <4>1. m \in 1..n - 1 /\ order'[m] = x
        BY <2>1, <2>2, <2>4, <3>1, <3>3
      <4> QED
        BY <4>1
    <3>4. CASE m > i
      <4>1. m - 1 \in 1..n - 1 /\ order'[m - 1] = x
        BY <2>1, <2>2, <2>4, <3>1, <3>4
      <4> QED
        BY <4>1
    <3> QED
      BY <2>4, <3>2, <3>3, <3>4
  <2>8. ASSUME NEW j \in 1..n - 1, NEW m \in 1..n - 1, order'[j] = order'[m] PROVE j = m
    <3>1. /\ order'[j] = IF j < i THEN order[j] ELSE order[j + 1]
          /\ order'[m] = IF m < i THEN order[m] ELSE order[m + 1]
      BY <2>2
    <3>2. j \in 1..n /\ m \in 1..n /\ j + 1 \in 1..n /\ m + 1 \in 1..n
      BY <2>4
    <3>3. \A a, b \in 1..n : order[a] = order[b] => a = b
      BY OrderShape
    <3> HIDE DEF n
    <3>4. CASE j < i /\ m < i
      BY <2>8, <3>1, <3>2, <3>3, <3>4
    <3>5. CASE j < i /\ ~(m < i)
      <4>1. j = m + 1
        BY <2>8, <3>1, <3>2, <3>3, <3>5
      <4>2. i \in Int /\ j \in Int /\ m \in Int
        BY <2>4 DEF n
      <4> QED
        BY <4>1, <4>2, <3>5
    <3>6. CASE ~(j < i) /\ m < i
      <4>1. j + 1 = m
        BY <2>8, <3>1, <3>2, <3>3, <3>6
      <4>2. i \in Int /\ j \in Int /\ m \in Int
        BY <2>4 DEF n
      <4> QED
        BY <4>1, <4>2, <3>6
    <3>7. CASE ~(j < i) /\ ~(m < i)
      <4>1. j + 1 = m + 1
        BY <2>8, <3>1, <3>2, <3>3, <3>7
      <4> QED
        BY <4>1
    <3> QED
      BY <3>4, <3>5, <3>6, <3>7
  <2>9. ToSet(order') = E /\ IsInjective(order') /\ Len(order') <= Capacity
    <3>1. /\ \A x \in E : \E j \in 1..Len(order') : order'[j] = x
          /\ \A j, m \in 1..Len(order') : order'[j] = order'[m] => j = m
      BY <2>2, <2>7, <2>8
    <3>2. Len(order') <= Capacity
      BY <2>2, <2>4
    <3> HIDE DEF E
    <3> QED
      BY <2>6, <3>1, <3>2, OrderLists
  <2> QED
    BY <1>1, <1>2, <2>6, <2>9 DEF QueueInv, QueueListsTheEntries
<1> QED
  BY <1>3, <1>4

(* Eviction makes room for one.                                            *)
LEMMA RoomIsMade ==
    ASSUME QueueInv
    PROVE  Evicted \in 0..Len(order) /\ Len(order) - Evicted + 1 <= Capacity
<1>1. Cardinality(DOMAIN entries) = Len(order)
  BY QueueSize
<1>2. Len(order) \in Nat /\ Len(order) <= Capacity /\ Capacity \in Nat /\ Capacity # 0
  BY OrderShape, CacheAssumption
<1> QED
  BY <1>1, <1>2 DEF Evicted

LEMMA SetStep ==
    ASSUME QueueInv, EntriesInv, NEW c \in Calls, CallInv(c), Set(c)
    PROVE  QueueInv' /\ EntriesInv'
<1> DEFINE k == key[c]
           new == [value |-> held[c], insertedAt |-> now]
           gone == IF k \in DOMAIN entries THEN {} ELSE ToSet(SubSeq(order, 1, Evicted))
           E == (DOMAIN entries \ gone) \cup {k}
<1>1. /\ entries' = [x \in E |-> IF x = k THEN new ELSE entries[x]]
      /\ order' = IF k \in DOMAIN entries THEN order
                  ELSE Append(SubSeq(order, Evicted + 1, Len(order)), k)
  BY DEF Set
<1>2. held[c].of = k
  BY DEF Set, CallInv
<1>3. EntriesInv'
  BY <1>1, <1>2 DEF EntriesInv
<1>4. DOMAIN entries' = E
  BY <1>1
<1>5. CASE k \in DOMAIN entries
  <2>1. E = DOMAIN entries /\ order' = order
    BY <1>1, <1>5
  <2> QED
    BY <1>3, <1>4, <2>1 DEF QueueInv, QueueListsTheEntries
<1>6. CASE k \notin DOMAIN entries
  <2> DEFINE n == Len(order)
  <2>1. PICK e \in 0..n : e = Evicted /\ n - e + 1 <= Capacity
    BY RoomIsMade
  <2>2. n \in Nat /\ e \in Nat /\ Capacity \in Nat
    BY OrderShape, CacheAssumption
  <2>3. E = (DOMAIN entries \ ToSet(SubSeq(order, 1, e))) \cup {k}
    BY <1>6, <2>1
  <2>4. order' = Append(SubSeq(order, e + 1, n), k)
    BY <1>1, <1>6, <2>1
  <2> DEFINE S == DOMAIN entries \cup {k}
  <2>5. order \in Seq(S)
    BY OrderShape DEF QueueInv
  <2>6. /\ order' \in Seq(S) /\ Len(order') = n - e + 1 /\ order'[n - e + 1] = k
        /\ \A j \in 1..n - e : order'[j] = order[j + e]
    BY <2>4, <2>5, Shifted
  <2>7. ToSet(SubSeq(order, 1, e)) = {order[j] : j \in 1..e}
    <3>1. SubSeq(order, 1, e) \in Seq(S) /\ Len(SubSeq(order, 1, e)) = e
      BY <2>2, <2>5
    <3>2. \A j \in 1..e : SubSeq(order, 1, e)[j] = order[j]
      BY <2>2, <2>5
    <3>3. DOMAIN SubSeq(order, 1, e) = 1..e
      BY <3>1
    <3> QED
      BY <3>2, <3>3 DEF ToSet
  <2>8. \A m \in 1..n : order[m] \in E <=> m > e
    <3>1. \A m \in 1..n : order[m] \in {order[j] : j \in 1..e} <=> m <= e
      BY <2>2, OrderShape
    <3> QED
      BY <1>6, <2>2, <2>3, <2>7, <3>1, OrderShape
  <2> HIDE DEF E
  <2>9. order' \in Seq(E)
    <3>1. \A j \in 1..n - e : order'[j] \in E
      BY <2>2, <2>6, <2>8
    <3>2. k \in E
      BY <2>3
    <3> QED
      BY <2>2, <2>6, <3>1, <3>2
  <2>10. ASSUME NEW x \in E PROVE \E j \in 1..n - e + 1 : order'[j] = x
    <3>1. CASE x = k
      BY <2>2, <2>6, <3>1
    <3>2. CASE x # k
      <4>1. PICK m \in 1..n : order[m] = x
        BY <2>3, <3>2, OrderShape
      <4>2. m - e \in 1..n - e /\ order'[m - e] = x
        BY <2>2, <2>6, <2>8, <4>1
      <4> QED
        BY <2>2, <4>2
    <3> QED
      BY <3>1, <3>2
  <2>11. ASSUME NEW i \in 1..n - e + 1, NEW j \in 1..n - e + 1, order'[i] = order'[j] PROVE i = j
    <3>1. \A m \in 1..n - e : order'[m] # k
      BY <1>6, <2>2, <2>6, OrderShape
    <3>2. CASE i = n - e + 1 \/ j = n - e + 1
      BY <2>2, <2>6, <2>11, <3>1, <3>2
    <3>3. CASE i # n - e + 1 /\ j # n - e + 1
      <4>1. i \in 1..n - e /\ j \in 1..n - e /\ i + e \in 1..n /\ j + e \in 1..n
        BY <2>2, <3>3
      <4>2. order[i + e] = order[j + e]
        BY <2>6, <2>11, <4>1
      <4>3. i + e = j + e
        BY <4>1, <4>2, OrderShape
      <4> QED
        BY <2>2, <4>3
    <3> QED
      BY <3>2, <3>3
  <2>12. ToSet(order') = E /\ IsInjective(order') /\ Len(order') <= Capacity
    <3>1. /\ \A x \in E : \E j \in 1..Len(order') : order'[j] = x
          /\ \A i, j \in 1..Len(order') : order'[i] = order'[j] => i = j
      BY <2>6, <2>10, <2>11
    <3>2. Len(order') <= Capacity
      BY <2>1, <2>6
    <3> QED
      BY <2>9, <3>1, <3>2, OrderLists
  <2> QED
    BY <1>3, <1>4, <2>9, <2>12 DEF QueueInv, QueueListsTheEntries
<1> QED
  BY <1>5, <1>6

-----------------------------------------------------------------------------
(* BrowserInv is inductive.                                                *)

LEMMA InvParts ==
    BrowserInv <=> CallsInv /\ EntriesInv /\ QueueInv
BY DEF BrowserInv, BrowserTyped, CallsInv, LocalsTyped, QueueInv

(* Only an expiry and a store touch the cache.                             *)
LEMMA CacheStep ==
    ASSUME BrowserInv, Next
    PROVE  EntriesInv' /\ QueueInv'
<1>1. QueueInv /\ EntriesInv /\ \A c \in Calls : CallInv(c)
  BY InvParts DEF CallsInv
<1>2. ASSUME NEW c \in Calls, RemoveExpired(c) PROVE EntriesInv' /\ QueueInv'
  BY <1>1, <1>2, RemoveStep DEF RemoveExpired
<1>3. ASSUME NEW c \in Calls, Set(c) PROVE EntriesInv' /\ QueueInv'
  BY <1>1, <1>3, SetStep
<1>4. ASSUME UNCHANGED <<entries, order>> PROVE EntriesInv' /\ QueueInv'
  BY <1>1, <1>4 DEF EntriesInv, QueueInv, QueueListsTheEntries
<1>5. ASSUME NEW c \in Calls, Browse(c) PROVE UNCHANGED <<entries, order>>
  BY <1>5 DEF Browse
<1>6. ASSUME NEW c \in Calls, Serve(c), ~RemoveExpired(c), ~Set(c)
      PROVE  UNCHANGED <<entries, order>>
  BY <1>6 DEF Serve, ResolveMetadata, Lookup, CheckAge, Join, Fetch, Land, FetchFails, Define,
     AuditSuccess, AuditError, AuditFailure
<1>7. ASSUME PutCredential \/ Tick PROVE UNCHANGED <<entries, order>>
  BY <1>7 DEF PutCredential, Tick
<1> QED
  BY <1>2, <1>3, <1>4, <1>5, <1>6, <1>7 DEF Next

LEMMA CallsStep ==
    ASSUME BrowserInv, Next
    PROVE  CallsInv'
<1>1. CallsInv /\ EntriesInv
  BY InvParts
<1>2. ASSUME NEW c \in Calls, Serve(c) PROVE CallsInv'
  BY <1>1, <1>2, ResolveStep, OwnStep, SharedStep DEF Serve
<1>3. ASSUME UNCHANGED callVars PROVE CallsInv'
  <2>1. LocalsTyped'
    BY <1>1, <1>3 DEF CallsInv, LocalsTyped, callVars
  <2>2. \A d \in Calls : Rests(d)
    BY <1>3 DEF Rests, callVars
  <2> QED
    BY <1>1, <2>1, <2>2, RestKeeps DEF CallsInv
<1>4. ASSUME PutCredential \/ Tick PROVE UNCHANGED callVars
  BY <1>4 DEF PutCredential, Tick
<1> QED
  BY <1>1, <1>2, <1>3, <1>4, BrowseStep DEF Next

LEMMA InitBrowserInv ==
    ASSUME Init
    PROVE  BrowserInv
<1>1. entries = <<>> /\ order = <<>> /\ DOMAIN entries = {}
  BY DEF Init
<1>2. order \in Seq(DOMAIN entries) /\ Len(order) = 0 /\ DOMAIN order = {}
  BY <1>1
<1>3. QueueInv
  BY <1>1, <1>2, CacheAssumption DEF QueueInv, QueueListsTheEntries, ToSet, IsInjective
<1>4. EntriesInv
  BY <1>1 DEF EntriesInv
<1>5. CallsInv
  BY DEF Init, CallsInv, LocalsTyped, CallInv, Reading
<1> QED
  BY <1>3, <1>4, <1>5, InvParts

LEMMA Invariance ==
    Spec => []BrowserInv
<1>1. BrowserInv /\ [Next]_vars => BrowserInv'
  <2>1. ASSUME BrowserInv, Next PROVE BrowserInv'
    <3>1. CallsInv' /\ EntriesInv' /\ QueueInv'
      BY <2>1, CacheStep, CallsStep
    <3> QED
      BY <3>1 DEF BrowserInv, BrowserTyped, CallsInv, LocalsTyped, QueueInv
  <2>2. ASSUME BrowserInv, UNCHANGED vars PROVE BrowserInv'
    <3>1. CallsInv /\ EntriesInv /\ QueueInv
      BY <2>2, InvParts
    <3>2. LocalsTyped'
      BY <2>2, <3>1 DEF CallsInv, LocalsTyped, vars, callVars
    <3>3. \A d \in Calls : CallInv(d)'
      BY <2>2, <3>1, RestKeeps DEF CallsInv, Rests, vars, callVars
    <3>4. EntriesInv' /\ QueueInv'
      BY <2>2, <3>1 DEF EntriesInv, QueueInv, QueueListsTheEntries, vars
    <3> QED
      BY <3>2, <3>3, <3>4 DEF BrowserInv, BrowserTyped, LocalsTyped, QueueInv
  <2> QED
    BY <2>1, <2>2
<1>2. Init => BrowserInv
  BY InitBrowserInv
<1> QED
  BY <1>1, <1>2, PTL DEF Spec

-----------------------------------------------------------------------------
(* The cache's map and its first-in first-out queue always hold the same   *)
(* keys, each once, and never more than the capacity: Set's eviction loop  *)
(* and removeKey's search can neither lose a key nor leave one behind.     *)
THEOREM QueueAndEntriesAgree ==
    Spec => []QueueListsTheEntries
<1>1. BrowserInv => QueueListsTheEntries
  BY DEF BrowserInv
<1> QED
  BY <1>1, Invariance, PTL

(* Whatever the cache, the coalesced read of another caller or the own     *)
(* read returned, it describes the target, credential, database and schema *)
(* of the request it answers.                                              *)
THEOREM AnswersBelongToRequests ==
    Spec => []AnswerDescribesRequest
<1>1. BrowserInv => AnswerDescribesRequest
  <2> DEFINE Fits(c) == LET r == req[c]
                            v == answer[c].of
                        IN  /\ v.scope = r.op /\ v.target = r.target /\ v.item = r.item
                            /\ v.ref = bound[c].ref
                            /\ r.op # "databases" \/ r.target \in PGTargets => v.database = r.database
                            /\ r.target \in PGTargets /\ r.op \in {"objects", "object_details", "relationship_map"} =>
                                 v.schema = IF r.schema # None THEN r.schema ELSE bound[c].schema
  <2>1. SUFFICES ASSUME BrowserInv, NEW c \in Calls, answer[c] # None PROVE Fits(c)
    BY Zenon DEF AnswerDescribesRequest
  <2>2. /\ req[c] \in Requests /\ answer[c].of = Plan(req[c], bound[c])
        /\ Plan(req[c], bound[c]) # None
    BY <2>1 DEF BrowserInv, CallInv
  <2>3. Describes(answer[c].of, req[c], bound[c])
    BY <2>2, PlanDescribes
  <2> QED
    BY <2>3 DEF Describes
<1> QED
  BY <1>1, Invariance, PTL

(* No cached or fetched metadata is returned before the success event of   *)
(* that very request is written.                                           *)
THEOREM NoReadWithoutItsEvent ==
    Spec => []ServedReadsAreAudited
<1>1. BrowserInv => ServedReadsAreAudited
  BY DEF BrowserInv, CallInv, ServedReadsAreAudited
<1> QED
  BY <1>1, Invariance, PTL
=============================================================================
