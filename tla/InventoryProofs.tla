--------------------------- MODULE InventoryProofs ---------------------------
(***************************************************************************)
(* Proofs about Inventory: that the audit trail replays to the inventory,  *)
(* that a confirmation applies what was reviewed, and that a row alone     *)
(* with its CI is stored, for any clients, requests and registered CIs.    *)
(***************************************************************************)
EXTENDS Inventory, TLAPS, FiniteSetTheorems

LEMMA LeastNatural ==
    ASSUME NEW T \in SUBSET Nat, T # {}
    PROVE  \E m \in T : \A n \in T : m <= n
<1>1. PICK m \in T : \A n \in T : ~(<<n, m>> \in OpToRel(<, Nat))
  BY NatLessThanWellFounded, WFMin
<1>2. \A n \in T : ~(n < m)
  BY <1>1 DEF OpToRel
<1> QED
  BY <1>2

-----------------------------------------------------------------------------
(* Tables, and what the audit trail should say of them.                    *)

CIFields == RowFields \cup {"type", "profile", "label", "override", "archived", "updatedAt"}

FunOn(f, S) == f = [x \in S |-> f[x]]

(* A table of CIs, by ID.                                                  *)
IsTable(cis) ==
    /\ Len(cis) \in Nat
    /\ FunOn(cis, 1 .. Len(cis))
    /\ \A i \in 1 .. Len(cis) : FunOn(cis[i], CIFields)

(* One relation at most for two CIs, and between CIs of the table.         *)
IsLinks(rels, n) ==
    /\ \A r \in rels : r.from \in 1 .. n /\ r.to \in 1 .. n
    /\ \A r, s \in rels : r.from = s.from /\ r.to = s.to => r = s

EntryFields == {"facets", "profile", "links", "gap", "mixed"}
Told == Facets \ {"archived"}

IsEntry(e) ==
    /\ FunOn(e, EntryFields)
    /\ FunOn(e.facets, Facets) /\ FunOn(e.profile, ProfileKeys)

(* The entry replays to a CI with these relations.                         *)
Tells(e, ci, links) ==
    /\ IsEntry(e)
    /\ \A f \in Told : e.facets[f] = FacetsOf(ci)[f]
    /\ e.mixed \/ e.profile = ProfileOf(ci)
    /\ e.links = links

Replays(cis, rels, log) ==
    /\ FunOn(log, 1 .. Len(cis))
    /\ \A i \in 1 .. Len(cis) : Tells(log[i], cis[i], LinksAt(rels, i))

Consistent(cis, rels, log) ==
    IsTable(cis) /\ IsLinks(rels, Len(cis)) /\ Replays(cis, rels, log)

LEMMA FacetNames ==
    /\ Told = {"name", "display", "aliases", "externals", "observed", "label", "override"}
    /\ Facets = Told \cup {"archived"}
    /\ Facets \subseteq CIFields
    /\ "updatedAt" \in CIFields /\ "updatedAt" \notin Facets
    /\ "archived" \in CIFields /\ "archived" \notin Told
    /\ "profile" \in CIFields /\ "profile" \notin Facets
    /\ "type" \in CIFields /\ "type" \notin Facets
    /\ "override" \in Told
BY DEF Told, Facets, RowFields, CIFields

LEMMA TableDomain ==
    ASSUME NEW cis, IsTable(cis)
    PROVE  DOMAIN cis = 1 .. Len(cis)
BY DEF IsTable

(* A table whose rows are replaced.                                        *)
LEMMA TableWith ==
    ASSUME NEW cis, IsTable(cis), NEW new,
           FunOn(new, 1 .. Len(cis)),
           \A i \in 1 .. Len(cis) : FunOn(new[i], CIFields)
    PROVE  IsTable(new) /\ Len(new) = Len(cis)
<1> DEFINE n == Len(cis)
<1>1. n \in Nat /\ FunOn(new, 1 .. n)
  BY DEF IsTable
<1> HIDE DEF n
<1>2. Len(new) = n
  BY <1>1 DEF FunOn
<1> QED
  BY <1>1, <1>2 DEF IsTable, n

LEMMA AppendedIs ==
    ASSUME NEW s, NEW n \in Nat, FunOn(s, 1 .. n), NEW e
    PROVE  /\ Append(s, e) = [i \in 1 .. n + 1 |-> IF i <= n THEN s[i] ELSE e]
           /\ Len(Append(s, e)) = n + 1 /\ Len(s) = n
<1> DEFINE S == {s[i] : i \in 1 .. n} \cup {e}
<1>1. \A i \in 1 .. n : s[i] \in S
  OBVIOUS
<1>2. e \in S
  OBVIOUS
<1> HIDE DEF S
<1>3. s \in Seq(S)
  BY <1>1 DEF FunOn
<1>4. Len(s) = n
  BY DEF FunOn
<1>5. Append(s, e) \in Seq(S) /\ Len(Append(s, e)) = n + 1
  BY <1>2, <1>3, <1>4
<1>6. \A i \in 1 .. n + 1 : Append(s, e)[i] = IF i <= n THEN s[i] ELSE e
  BY <1>2, <1>3, <1>4
<1> QED
  BY <1>4, <1>5, <1>6 DEF FunOn

-----------------------------------------------------------------------------
(* An event replayed on the entry of its CI.                               *)

(* The events say of every facet what became of it.                        *)
SayFacets(ci, changes, new) ==
    \A f \in Told : FacetsOf(new)[f] =
        IF f \in DOMAIN changes THEN changes[f].after ELSE FacetsOf(ci)[f]
SayProfile(ci, changes, new) ==
    \A k \in ProfileKeys : ProfileOf(new)[k] =
        IF k \in DOMAIN changes THEN changes[k].after ELSE ProfileOf(ci)[k]

LEMMA ReplayIs ==
    ASSUME NEW e, IsEntry(e), NEW changes, NEW profile, NEW x, x = Replay(e, changes, profile)
    PROVE  /\ IsEntry(x) /\ x.links = e.links /\ x.mixed = e.mixed
           /\ \A f \in Facets : x.facets[f] =
                IF f \in DOMAIN changes THEN changes[f].after ELSE e.facets[f]
           /\ \A k \in ProfileKeys : x.profile[k] =
                IF k \in DOMAIN profile THEN profile[k].after ELSE e.profile[k]
<1> DEFINE a == After(e.facets, changes)  b == After(e.profile, profile)
           g == e.gap \/ ~JoinsUp(e.facets, changes) \/ ~JoinsUp(e.profile, profile)
<1>1. a = [f \in Facets |-> IF f \in DOMAIN changes THEN changes[f].after ELSE e.facets[f]]
  BY DEF After, IsEntry, FunOn
<1>2. b = [k \in ProfileKeys |-> IF k \in DOMAIN profile THEN profile[k].after ELSE e.profile[k]]
  BY DEF After, IsEntry, FunOn
<1>3. x = [[[e EXCEPT !.facets = a] EXCEPT !.profile = b] EXCEPT !.gap = g]
  <2>1. FunOn(e, EntryFields)
    BY DEF IsEntry
  <2> QED
    BY <2>1 DEF Replay, EntryFields, FunOn
<1> HIDE DEF a, b, g
<1>4. /\ FunOn(x, EntryFields) /\ x.facets = a /\ x.profile = b
      /\ x.links = e.links /\ x.mixed = e.mixed
  BY <1>3 DEF IsEntry, FunOn, EntryFields
<1>5. FunOn(a, Facets) /\ FunOn(b, ProfileKeys)
  BY <1>1, <1>2 DEF FunOn
<1> QED
  BY <1>1, <1>2, <1>4, <1>5 DEF IsEntry

LEMMA EventTold ==
    ASSUME NEW e, NEW ci, NEW links, Tells(e, ci, links), NEW changes, NEW profile, NEW new,
           SayFacets(ci, changes, new), e.mixed \/ SayProfile(ci, profile, new)
    PROVE  Tells(Replay(e, changes, profile), new, links)
<1> DEFINE x == Replay(e, changes, profile)
<1>1. /\ IsEntry(x) /\ x.links = e.links /\ x.mixed = e.mixed
      /\ \A f \in Facets : x.facets[f] =
           IF f \in DOMAIN changes THEN changes[f].after ELSE e.facets[f]
      /\ \A k \in ProfileKeys : x.profile[k] =
           IF k \in DOMAIN profile THEN profile[k].after ELSE e.profile[k]
  BY ReplayIs DEF Tells
<1> HIDE DEF x
<1>2. \A f \in Told : x.facets[f] = FacetsOf(new)[f]
  BY <1>1, FacetNames DEF Tells, SayFacets
<1>3. e.mixed \/ x.profile = ProfileOf(new)
  <2> SUFFICES ASSUME ~e.mixed PROVE x.profile = ProfileOf(new)
    OBVIOUS
  <2>1. FunOn(x.profile, ProfileKeys)
    BY <1>1 DEF IsEntry
  <2>2. FunOn(ProfileOf(new), ProfileKeys)
    BY DEF FunOn, ProfileOf
  <2>3. \A k \in ProfileKeys : x.profile[k] = ProfileOf(new)[k]
    BY <1>1 DEF Tells, SayProfile
  <2> DEFINE q == ProfileOf(new)  y == x.profile
  <2> HIDE DEF q, y
  <2>4. y = q
    <3>1. FunOn(y, ProfileKeys) /\ FunOn(q, ProfileKeys) /\ \A k \in ProfileKeys : y[k] = q[k]
      BY <2>1, <2>2, <2>3 DEF q, y
    <3> QED
      BY <3>1 DEF FunOn
  <2> QED
    BY <2>4 DEF q, y
<1>4. Tells(x, new, links)
  BY <1>1, <1>2, <1>3 DEF Tells
<1> QED
  BY <1>4 DEF x

(* An edit of facets other than the override, and the event it writes.     *)
LEMMA EditSays ==
    ASSUME NEW ci, NEW input, DOMAIN input \subseteq Told \ {"override"},
           NEW base, FunOn(base, CIFields),
           \A f \in CIFields \ {"updatedAt"} : base[f] = ci[f]
    PROVE  /\ FunOn(Edited(base, input), CIFields)
           /\ SayFacets(ci, Changes(ci, input), Edited(base, input))
           /\ SayProfile(ci, NoChanges, Edited(base, input))
<1> DEFINE new == Edited(base, input)  ch == Changes(ci, input)
<1>1. DOMAIN base = CIFields
  BY DEF FunOn
<1>2. new = [f \in CIFields |-> IF f \in DOMAIN input THEN input[f] ELSE base[f]]
  BY <1>1 DEF Edited
<1>3. DOMAIN ch = {g \in DOMAIN input : ci[g] # input[g]}
      /\ \A f \in DOMAIN ch : ch[f].before = ci[f] /\ ch[f].after = input[f]
  BY DEF Changes
<1>4. new.override = ci.override /\ new.profile = ci.profile
  BY <1>2, FacetNames
<1>5. FunOn(new, CIFields)
  BY <1>2 DEF FunOn
<1>6. DOMAIN NoChanges = {}
  BY DEF NoChanges
<1> HIDE DEF new, ch
<1>7. ASSUME NEW f \in Told
      PROVE  FacetsOf(new)[f] = IF f \in DOMAIN ch THEN ch[f].after ELSE FacetsOf(ci)[f]
  <2>0. f \in Facets
    BY FacetNames
  <2>1. CASE f = "override"
    <3>1. f \notin DOMAIN ch
      BY <1>3, <2>1
    <3> QED
      BY <1>4, <2>0, <2>1, <3>1 DEF FacetsOf
  <2>2. CASE f # "override"
    <3>1. FacetsOf(ci)[f] = ci[f] /\ FacetsOf(new)[f] = new[f]
      BY <2>0, <2>2 DEF FacetsOf
    <3>2. new[f] = IF f \in DOMAIN input THEN input[f] ELSE ci[f]
      BY <1>2, FacetNames
    <3> QED
      BY <1>3, <3>1, <3>2
  <2> QED
    BY <2>1, <2>2
<1>8. ProfileOf(new) = ProfileOf(ci)
  BY <1>4 DEF ProfileOf
<1> QED
  BY <1>5, <1>6, <1>7, <1>8 DEF SayFacets, SayProfile, new, ch

(* A profile replaced, and the event of what differs.                      *)
LEMMA ProfileSays ==
    ASSUME NEW ci, NEW new, NEW p,
           \A k \in ProfileKeys : OrBlank(Get(new.profile, k)) = OrBlank(Get(p, k))
    PROVE  SayProfile(ci, auditMapChanges(diffMaps(ci.profile, p)), new)
<1> DEFINE old == ci.profile  d == diffMaps(old, p)  ch == auditMapChanges(d)
<1>1. d = [k \in {j \in ProfileKeys : Get(old, j) # Get(p, j)} |->
             [before |-> Get(old, k), after |-> Get(p, k)]]
  BY DEF diffMaps
<1>2. ch = [k \in DOMAIN d |-> [before |-> OrBlank(d[k].before), after |-> OrBlank(d[k].after)]]
  BY DEF auditMapChanges
<1> HIDE DEF d, ch, old
<1>3. /\ DOMAIN ch = {j \in ProfileKeys : Get(old, j) # Get(p, j)}
      /\ \A k \in DOMAIN ch : ch[k].after = OrBlank(Get(p, k))
  BY <1>1, <1>2
<1>4. \A k \in ProfileKeys : ProfileOf(new)[k] = OrBlank(Get(p, k))
  BY DEF ProfileOf
<1>5. \A k \in ProfileKeys : ProfileOf(ci)[k] = OrBlank(Get(old, k))
  BY DEF ProfileOf, old
<1>6. SayProfile(ci, ch, new)
  BY <1>3, <1>4, <1>5 DEF SayProfile
<1> QED
  BY <1>6 DEF old, d, ch

(* Rows replaced together with their entries.                              *)
Replaced(new, newLog, rels, n) ==
    /\ FunOn(new, 1 .. n) /\ FunOn(newLog, 1 .. n)
    /\ \A i \in 1 .. n : FunOn(new[i], CIFields) /\ Tells(newLog[i], new[i], LinksAt(rels, i))

LEMMA ConsistentWith ==
    ASSUME NEW cis, NEW rels, NEW log, Consistent(cis, rels, log), NEW new, NEW newLog,
           Replaced(new, newLog, rels, Len(cis))
    PROVE  Consistent(new, rels, newLog) /\ Len(new) = Len(cis)
<1>1. IsTable(new) /\ Len(new) = Len(cis)
  BY TableWith DEF Consistent, Replaced
<1>2. Replays(new, rels, newLog)
  BY <1>1 DEF Replays, Replaced
<1> QED
  BY <1>1, <1>2 DEF Consistent

(* One row replaced, with an entry that tells it.                          *)
LEMMA ReplaceOne ==
    ASSUME NEW cis, NEW rels, NEW log, Consistent(cis, rels, log), NEW id \in 1 .. Len(cis),
           NEW ci, FunOn(ci, CIFields), NEW e, Tells(e, ci, LinksAt(rels, id))
    PROVE  /\ Consistent([cis EXCEPT ![id] = ci], rels, [log EXCEPT ![id] = e])
           /\ Len([cis EXCEPT ![id] = ci]) = Len(cis)
<1> DEFINE new == [cis EXCEPT ![id] = ci]  newLog == [log EXCEPT ![id] = e]
<1>1. /\ FunOn(cis, 1 .. Len(cis)) /\ FunOn(log, 1 .. Len(cis))
      /\ \A i \in 1 .. Len(cis) : FunOn(cis[i], CIFields) /\ Tells(log[i], cis[i], LinksAt(rels, i))
  BY DEF Consistent, IsTable, Replays
<1>2. /\ FunOn(new, 1 .. Len(cis)) /\ FunOn(newLog, 1 .. Len(cis))
      /\ \A i \in 1 .. Len(cis) : /\ new[i] = IF i = id THEN ci ELSE cis[i]
                                  /\ newLog[i] = IF i = id THEN e ELSE log[i]
  BY <1>1 DEF FunOn
<1> HIDE DEF new, newLog
<1>3. Replaced(new, newLog, rels, Len(cis))
  BY <1>1, <1>2 DEF Replaced
<1>4. Consistent(new, rels, newLog) /\ Len(new) = Len(cis)
  BY <1>3, ConsistentWith
<1> QED
  BY <1>4 DEF new, newLog

(* One row replaced, and an event that says how.                           *)
LEMMA EventOne ==
    ASSUME NEW cis, NEW rels, NEW log, Consistent(cis, rels, log), NEW id \in 1 .. Len(cis),
           NEW new, FunOn(new, CIFields), NEW changes, NEW profile,
           SayFacets(cis[id], changes, new),
           log[id].mixed \/ SayProfile(cis[id], profile, new)
    PROVE  /\ Consistent([cis EXCEPT ![id] = new], rels,
                         [log EXCEPT ![id] = Replay(log[id], changes, profile)])
           /\ Len([cis EXCEPT ![id] = new]) = Len(cis)
<1> DEFINE e == log[id]  ci == cis[id]  links == LinksAt(rels, id)
           x == Replay(e, changes, profile)
<1>1. Tells(e, ci, links)
  BY DEF Consistent, Replays
<1>2. Tells(x, new, links)
  <2> HIDE DEF e, ci, links
  <2> QED
    BY <1>1, EventTold DEF e, ci
<1> HIDE DEF x
<1>3. /\ Consistent([cis EXCEPT ![id] = new], rels, [log EXCEPT ![id] = x])
      /\ Len([cis EXCEPT ![id] = new]) = Len(cis)
  BY <1>2, ReplaceOne
<1> QED
  BY <1>3 DEF x

(* A row of other values under the same facets.                            *)
LEMMA SameFacets ==
    ASSUME NEW cis, NEW rels, NEW log, Consistent(cis, rels, log), NEW id \in 1 .. Len(cis),
           NEW ci, FunOn(ci, CIFields),
           \A f \in Told : ci[f] = cis[id][f], ci.profile = cis[id].profile
    PROVE  /\ Consistent([cis EXCEPT ![id] = ci], rels, log)
           /\ Len([cis EXCEPT ![id] = ci]) = Len(cis)
<1> DEFINE e == log[id]  old == cis[id]
<1>1. FunOn(log, 1 .. Len(cis)) /\ Tells(e, old, LinksAt(rels, id))
  BY DEF Consistent, Replays
<1>2. \A f \in Told : FacetsOf(ci)[f] = FacetsOf(old)[f]
  BY FacetNames DEF FacetsOf
<1>3. ProfileOf(ci) = ProfileOf(old)
  BY DEF ProfileOf
<1>4. Tells(e, ci, LinksAt(rels, id))
  BY <1>1, <1>2, <1>3 DEF Tells
<1>5. [log EXCEPT ![id] = e] = log
  BY <1>1 DEF FunOn
<1> HIDE DEF e, old
<1>6. /\ Consistent([cis EXCEPT ![id] = ci], rels, [log EXCEPT ![id] = e])
      /\ Len([cis EXCEPT ![id] = ci]) = Len(cis)
  BY <1>4, ReplaceOne
<1> QED
  BY <1>5, <1>6

(* A new row, with the entry it starts from.                               *)
LEMMA AppendOne ==
    ASSUME NEW cis, NEW rels, NEW log, Consistent(cis, rels, log),
           NEW ci, FunOn(ci, CIFields), NEW entry, Tells(entry, ci, {})
    PROVE  /\ Consistent(Append(cis, ci), rels, Append(log, entry))
           /\ Len(Append(cis, ci)) = Len(cis) + 1
           /\ \A i \in 1 .. Len(cis) : Append(cis, ci)[i] = cis[i]
           /\ Append(cis, ci)[Len(cis) + 1] = ci
<1> DEFINE n == Len(cis)  new == Append(cis, ci)  newLog == Append(log, entry)
<1>1. /\ n \in Nat /\ FunOn(cis, 1 .. n) /\ FunOn(log, 1 .. n)
      /\ \A i \in 1 .. n : FunOn(cis[i], CIFields) /\ Tells(log[i], cis[i], LinksAt(rels, i))
      /\ \A r \in rels : r.from \in 1 .. n /\ r.to \in 1 .. n
      /\ \A r, s \in rels : r.from = s.from /\ r.to = s.to => r = s
  BY DEF Consistent, IsTable, Replays, IsLinks
<1> HIDE DEF n
<1>3. new = [i \in 1 .. n + 1 |-> IF i <= n THEN cis[i] ELSE ci] /\ Len(new) = n + 1
  BY <1>1, AppendedIs
<1>4. newLog = [i \in 1 .. n + 1 |-> IF i <= n THEN log[i] ELSE entry]
  BY <1>1, AppendedIs
<1> HIDE DEF new, newLog
<1>5. LinksAt(rels, n + 1) = {}
  BY <1>1 DEF LinksAt
<1>6. ASSUME NEW i \in 1 .. n + 1
      PROVE  /\ FunOn(new[i], CIFields)
             /\ Tells(newLog[i], new[i], LinksAt(rels, i))
  <2>1. CASE i <= n
    <3>1. i \in 1 .. n
      BY <1>1, <2>1
    <3>2. new[i] = cis[i] /\ newLog[i] = log[i]
      BY <1>3, <1>4, <2>1
    <3> QED
      BY <1>1, <3>1, <3>2
  <2>2. CASE i = n + 1
    <3>1. new[i] = ci /\ newLog[i] = entry
      BY <1>1, <1>3, <1>4, <2>2
    <3> QED
      BY <1>5, <2>2, <3>1
  <2> QED
    BY <1>1, <2>1, <2>2
<1>7. IsTable(new)
  <2>1. n + 1 \in Nat /\ FunOn(new, 1 .. n + 1)
    BY <1>1, <1>3 DEF FunOn
  <2> QED
    BY <1>3, <1>6, <2>1 DEF IsTable
<1>8. Replays(new, rels, newLog)
  <2>1. FunOn(newLog, 1 .. n + 1)
    BY <1>4 DEF FunOn
  <2> QED
    BY <1>3, <1>6, <2>1 DEF Replays
<1>9. IsLinks(rels, n + 1)
  BY <1>1 DEF IsLinks
<1>10. /\ Consistent(new, rels, newLog) /\ Len(new) = n + 1 /\ new[n + 1] = ci
       /\ \A i \in 1 .. n : new[i] = cis[i]
  BY <1>1, <1>3, <1>7, <1>8, <1>9 DEF Consistent
<1> QED
  BY <1>10 DEF n, new, newLog

LEMMA LinksTold ==
    ASSUME NEW e, NEW ci, NEW links, Tells(e, ci, links), NEW added, NEW removed,
           NEW all, all = (links \ removed) \cup added
    PROVE  Tells(ReplayLinks(e, added, removed), ci, all)
<1> DEFINE x == ReplayLinks(e, added, removed)
<1>1. FunOn(e, EntryFields)
  BY DEF Tells, IsEntry
<1>2. x = [e EXCEPT !.links = (e.links \ removed) \cup added]
  BY DEF ReplayLinks
<1>3. /\ FunOn(x, EntryFields) /\ x.links = (e.links \ removed) \cup added
      /\ x.facets = e.facets /\ x.profile = e.profile /\ x.mixed = e.mixed
  BY <1>1, <1>2 DEF FunOn, EntryFields
<1> HIDE DEF x
<1>4. x.links = all
  BY <1>3 DEF Tells
<1>5. Tells(x, ci, all)
  BY <1>3, <1>4 DEF Tells, IsEntry
<1> QED
  BY <1>5 DEF x

LogAdded(log, from, added) ==
    [i \in DOMAIN log |-> ReplayLinks(log[i], UNION {LinksOf(i, from, t) : t \in added}, {})]
LogRemoved(log, from, removed) ==
    [i \in DOMAIN log |-> ReplayLinks(log[i], {}, UNION {LinksOf(i, from, t) : t \in removed})]

(* Relations from one CI to several others, inserted and audited.          *)
LEMMA AddLinks ==
    ASSUME NEW cis, NEW rels, NEW log, Consistent(cis, rels, log),
           NEW from \in 1 .. Len(cis), NEW added \in SUBSET (1 .. Len(cis)),
           \A t \in added : ~Related(rels, from, t),
           NEW recs, \A r \in recs : r.from = from /\ r.to \in added,
           \A t \in added : \E r \in recs : r.to = t,
           \A r, s \in recs : r.to = s.to => r = s
    PROVE  Consistent(cis, rels \cup recs, LogAdded(log, from, added))
<1> DEFINE new == rels \cup recs  newLog == LogAdded(log, from, added)
<1>1. /\ FunOn(log, 1 .. Len(cis))
      /\ \A i \in 1 .. Len(cis) : Tells(log[i], cis[i], LinksAt(rels, i))
  BY DEF Consistent, Replays
<1>2. IsLinks(new, Len(cis))
  BY DEF Consistent, IsLinks, Related
<1>3. ASSUME NEW i \in 1 .. Len(cis)
      PROVE  LinksAt(new, i) = LinksAt(rels, i) \cup UNION {LinksOf(i, from, t) : t \in added}
  BY DEF LinksAt, LinksOf
<1>4. /\ FunOn(newLog, 1 .. Len(cis))
      /\ \A i \in 1 .. Len(cis) :
           newLog[i] = ReplayLinks(log[i], UNION {LinksOf(i, from, t) : t \in added}, {})
  BY <1>1 DEF LogAdded, FunOn
<1> HIDE DEF new, newLog
<1>5. ASSUME NEW i \in 1 .. Len(cis)
      PROVE  Tells(newLog[i], cis[i], LinksAt(new, i))
  <2> DEFINE u == UNION {LinksOf(i, from, t) : t \in added}
             e == log[i]  ci == cis[i]  links == LinksAt(rels, i)  all == LinksAt(new, i)
  <2>1. Tells(e, ci, links)
    BY <1>1
  <2>2. all = (links \ {}) \cup u
    BY <1>3
  <2> HIDE DEF u, e, ci, links, all
  <2>3. Tells(ReplayLinks(e, u, {}), ci, all)
    BY <2>1, <2>2, LinksTold
  <2> QED
    BY <1>4, <2>3 DEF u, e, ci, all
<1>6. Replays(cis, new, newLog)
  BY <1>4, <1>5 DEF Replays
<1>7. Consistent(cis, new, newLog)
  BY <1>2, <1>6 DEF Consistent
<1> QED
  BY <1>7 DEF new, newLog

(* Relations of one CI removed and audited: none to the same CI is left.   *)
LEMMA RemoveLinks ==
    ASSUME NEW cis, NEW rels, NEW log, Consistent(cis, rels, log), NEW from, NEW removed,
           NEW gone, gone = {r \in rels : r.from = from /\ r.to \in removed},
           \A t \in removed : \E r \in gone : r.to = t
    PROVE  Consistent(cis, rels \ gone, LogRemoved(log, from, removed))
<1> DEFINE new == rels \ gone  newLog == LogRemoved(log, from, removed)
<1>1. /\ FunOn(log, 1 .. Len(cis))
      /\ \A i \in 1 .. Len(cis) : Tells(log[i], cis[i], LinksAt(rels, i))
  BY DEF Consistent, Replays
<1>2. IsLinks(new, Len(cis))
  BY DEF Consistent, IsLinks
<1>3. ASSUME NEW i \in 1 .. Len(cis)
      PROVE  LinksAt(new, i) = LinksAt(rels, i) \ UNION {LinksOf(i, from, t) : t \in removed}
  BY DEF LinksAt, LinksOf
<1>4. /\ FunOn(newLog, 1 .. Len(cis))
      /\ \A i \in 1 .. Len(cis) :
           newLog[i] = ReplayLinks(log[i], {}, UNION {LinksOf(i, from, t) : t \in removed})
  BY <1>1 DEF LogRemoved, FunOn
<1> HIDE DEF new, newLog
<1>5. ASSUME NEW i \in 1 .. Len(cis)
      PROVE  Tells(newLog[i], cis[i], LinksAt(new, i))
  <2> DEFINE u == UNION {LinksOf(i, from, t) : t \in removed}
             e == log[i]  ci == cis[i]  links == LinksAt(rels, i)  all == LinksAt(new, i)
  <2>1. Tells(e, ci, links)
    BY <1>1
  <2>2. all = (links \ u) \cup {}
    BY <1>3
  <2> HIDE DEF u, e, ci, links, all
  <2>3. Tells(ReplayLinks(e, {}, u), ci, all)
    BY <2>1, <2>2, LinksTold
  <2> QED
    BY <1>4, <2>3 DEF u, e, ci, all
<1>6. Replays(cis, new, newLog)
  BY <1>4, <1>5 DEF Replays
<1>7. Consistent(cis, new, newLog)
  BY <1>2, <1>6 DEF Consistent
<1> QED
  BY <1>7 DEF new, newLog

-----------------------------------------------------------------------------
(* One row of a confirmed ingestion inside its transaction.                *)

TxFields == {"resources", "relations", "trail", "ids", "id", "ok"}

(* What a row writes: facets, and the profile if it differs.               *)
LEMMA WrittenNames ==
    ASSUME NEW row, NEW diff, DOMAIN diff.fields \subseteq RowFields,
           NEW w, w = Written(row, diff)
    PROVE  /\ DOMAIN w \subseteq RowFields \cup {"profile"}
           /\ \A f \in RowFields : f \in DOMAIN w <=> f \in DOMAIN diff.fields
           /\ \A f \in DOMAIN diff.fields : w[f] = diff.fields[f].after
           /\ "profile" \in DOMAIN w <=> DOMAIN diff.profile # {}
           /\ "profile" \in DOMAIN w => w.profile = Stored(row.profile)
BY DEF Written, RowFields

(* The row a statement starts from: touched or as it is.                   *)
Stamped(ci) == {ci, [ci EXCEPT !.updatedAt = second]}

LEMMA StampedIs ==
    ASSUME NEW ci, FunOn(ci, CIFields), NEW base \in Stamped(ci)
    PROVE  FunOn(base, CIFields) /\ \A f \in CIFields \ {"updatedAt"} : base[f] = ci[f]
BY DEF Stamped, FunOn, CIFields

FieldsDone(tx, row, p, t) ==
    /\ FunOn(t, TxFields)
    /\ t.relations = tx.relations /\ t.ids = tx.ids
    /\ t.ok <=> UniqueKeysHold(t.resources)
    /\ p.action = "create" =>
         /\ t.id = Len(tx.resources) + 1
         /\ t.resources = Append(tx.resources, Edited(New(row), Written(row, p.diff)))
         /\ t.trail = Append(tx.trail, sourceIngestionAuditChanges(Unregistered, p.diff))
    /\ p.action # "create" =>
         /\ t.id = p.id
         /\ \E base \in Stamped(tx.resources[p.id]) :
              t.resources = [tx.resources EXCEPT ![p.id] = Edited(base, Written(row, p.diff))]
         /\ t.trail = [tx.trail EXCEPT ![p.id] =
                          sourceIngestionAuditChanges(tx.trail[p.id], p.diff)]

LEMMA FieldsEffect ==
    ASSUME NEW tx, FunOn(tx, TxFields), NEW row, NEW p, NEW t, t = ApplyFields(tx, row, p)
    PROVE  FieldsDone(tx, row, p, t)
<1> DEFINE written == Written(row, p.diff)
           touched == DOMAIN written \cap ResourceFields # {}
<1>1. CASE p.action = "create"
  <2> DEFINE res == Append(tx.resources, Edited(New(row), written))
             log == Append(tx.trail, sourceIngestionAuditChanges(Unregistered, p.diff))
             id == Len(tx.resources) + 1
             after == [tx EXCEPT !.resources = res, !.trail = log]
  <2>1. t = [after EXCEPT !.ok = UniqueKeysHold(after.resources), !.id = id]
    BY <1>1 DEF ApplyFields
  <2> HIDE DEF res, log, id
  <2>2. /\ FunOn(t, TxFields) /\ t.relations = tx.relations /\ t.ids = tx.ids
        /\ t.resources = res /\ t.trail = log /\ t.id = id
        /\ (t.ok <=> UniqueKeysHold(res))
    BY <2>1 DEF FunOn, TxFields
  <2> QED
    BY <1>1, <2>2 DEF FieldsDone, res, log, id
<1>2. CASE p.action # "create"
  <2> DEFINE base == IF touched THEN [tx.resources[p.id] EXCEPT !.updatedAt = second]
                     ELSE tx.resources[p.id]
             ci == Edited(base, written)
             entry == sourceIngestionAuditChanges(tx.trail[p.id], p.diff)
             res == [tx.resources EXCEPT ![p.id] = ci]
             log == [tx.trail EXCEPT ![p.id] = entry]
             after == [tx EXCEPT !.resources = res, !.trail = log]
  <2>1. ci = IF touched THEN updateResourceTx(tx.resources[p.id], written)
             ELSE Edited(tx.resources[p.id], written)
    BY DEF updateResourceTx
  <2> HIDE DEF ci, entry
  <2>2. t = [after EXCEPT !.ok = UniqueKeysHold(after.resources), !.id = p.id]
    <3>1. [tx EXCEPT !.resources[p.id] =
                IF touched THEN updateResourceTx(@, written) ELSE Edited(@, written),
                     !.trail[p.id] = sourceIngestionAuditChanges(@, p.diff)] = after
      BY <2>1 DEF entry, FunOn, TxFields
    <3> HIDE DEF after
    <3> QED
      BY <1>2, <3>1 DEF ApplyFields
  <2> HIDE DEF res, log
  <2>3. /\ FunOn(t, TxFields) /\ t.relations = tx.relations /\ t.ids = tx.ids
        /\ t.resources = res /\ t.trail = log /\ t.id = p.id
        /\ (t.ok <=> UniqueKeysHold(res))
    BY <2>2 DEF FunOn, TxFields
  <2>4. base \in Stamped(tx.resources[p.id])
    BY DEF Stamped
  <2> HIDE DEF base
  <2> QED
    BY <1>2, <2>3, <2>4 DEF FieldsDone, res, log, ci, entry
<1> QED
  BY <1>1, <1>2

Gone(tx, removed) == {r \in tx.relations : r.from = tx.id /\ r.to \in removed}

RemoveDone(tx, removed, t) ==
    /\ FunOn(t, TxFields)
    /\ t.resources = tx.resources /\ t.id = tx.id /\ t.ids = tx.ids
    /\ \A u \in removed : \E r \in Gone(tx, removed) : r.to = u
    /\ t.relations = tx.relations \ Gone(tx, removed)
    /\ t.trail = [i \in DOMAIN tx.trail |-> ReplayLinks(tx.trail[i], {},
                     UNION {LinksOf(i, tx.id, u) : u \in removed})]

LEMMA RemoveEffect ==
    ASSUME NEW tx, FunOn(tx, TxFields), NEW removed, NEW t, t = RemoveRelations(tx, removed), t.ok
    PROVE  RemoveDone(tx, removed, t)
<1> DEFINE gone == Gone(tx, removed)
           rels == tx.relations \ gone
           log == [i \in DOMAIN tx.trail |-> ReplayLinks(tx.trail[i], {},
                            UNION {LinksOf(i, tx.id, u) : u \in removed})]
<1>1. t = IF {r.to : r \in gone} # removed THEN [tx EXCEPT !.ok = FALSE]
          ELSE [tx EXCEPT !.relations = rels, !.trail = log]
  BY DEF RemoveRelations, Aborted, Gone, FunOn, TxFields
<1> HIDE DEF rels, log, gone
<1>2. {r.to : r \in gone} = removed
  BY <1>1 DEF FunOn, TxFields
<1>3. t = [tx EXCEPT !.relations = rels, !.trail = log]
  BY <1>1, <1>2
<1>4. /\ FunOn(t, TxFields) /\ t.resources = tx.resources /\ t.id = tx.id /\ t.ids = tx.ids
      /\ t.relations = rels /\ t.trail = log
  BY <1>3 DEF FunOn, TxFields
<1>5. \A u \in removed : \E r \in gone : r.to = u
  BY <1>2
<1> QED
  BY <1>4, <1>5 DEF RemoveDone, rels, log, gone

NewRelations(tx, added) ==
    {[id |-> tx.ids + Cardinality({u \in added : u <= t}), from |-> tx.id, to |-> t] : t \in added}

LEMMA NewRelationsAre ==
    ASSUME NEW tx, NEW added
    PROVE  /\ \A r \in NewRelations(tx, added) : r.from = tx.id /\ r.to \in added
           /\ \A u \in added : \E r \in NewRelations(tx, added) : r.from = tx.id /\ r.to = u
           /\ \A r, s \in NewRelations(tx, added) : r.to = s.to => r = s
<1> DEFINE rec(t) == [id |-> tx.ids + Cardinality({u \in added : u <= t}), from |-> tx.id, to |-> t]
<1>1. NewRelations(tx, added) = {rec(t) : t \in added}
  BY DEF NewRelations
<1>2. \A t : rec(t).from = tx.id /\ rec(t).to = t
  OBVIOUS
<1> HIDE DEF rec
<1> QED
  BY <1>1, <1>2

AddDone(tx, added, t) ==
    /\ FunOn(t, TxFields)
    /\ t.resources = tx.resources /\ t.id = tx.id
    /\ \A u \in added : u \in DOMAIN tx.resources /\ ~Related(tx.relations, tx.id, u)
    /\ t.relations = tx.relations \cup NewRelations(tx, added)
    /\ t.trail = [i \in DOMAIN tx.trail |-> ReplayLinks(tx.trail[i],
                     UNION {LinksOf(i, tx.id, u) : u \in added}, {})]

LEMMA AddEffect ==
    ASSUME NEW tx, FunOn(tx, TxFields), NEW added, NEW t, t = AddRelations(tx, added), t.ok
    PROVE  AddDone(tx, added, t)
<1> DEFINE bad == \E u \in added :
                    \/ u \notin DOMAIN tx.resources
                    \/ tx.resources[tx.id].archived \/ tx.resources[u].archived
                    \/ ~MayRelate(tx.resources, tx.id, u)
                    \/ Related(tx.relations, tx.id, u)
           rels == tx.relations \cup NewRelations(tx, added)
           ids == tx.ids + Cardinality(added)
           log == [i \in DOMAIN tx.trail |-> ReplayLinks(tx.trail[i],
                            UNION {LinksOf(i, tx.id, u) : u \in added}, {})]
<1>1. t = IF bad THEN [tx EXCEPT !.ok = FALSE]
          ELSE [tx EXCEPT !.relations = rels, !.ids = ids, !.trail = log]
  BY DEF AddRelations, Aborted, NewRelations, FunOn, TxFields
<1> HIDE DEF rels, log, ids
<1>2. ~bad
  <2> HIDE DEF bad
  <2> QED
    BY <1>1 DEF FunOn, TxFields
<1>3. t = [tx EXCEPT !.relations = rels, !.ids = ids, !.trail = log]
  <2> HIDE DEF bad
  <2> QED
    BY <1>1, <1>2
<1>4. /\ FunOn(t, TxFields) /\ t.resources = tx.resources /\ t.id = tx.id
      /\ t.relations = rels /\ t.trail = log
  <2> HIDE DEF bad
  <2> QED
    BY <1>3 DEF FunOn, TxFields
<1>5. \A u \in added : u \in DOMAIN tx.resources /\ ~Related(tx.relations, tx.id, u)
  BY <1>2
<1> QED
  BY <1>4, <1>5 DEF AddDone, rels, log

RowDone(tx, row, p, a, m, t) ==
    /\ FunOn(a, TxFields) /\ FieldsDone(tx, row, p, a) /\ a.ok
    /\ FunOn(m, TxFields) /\ RemoveDone(a, p.diff.removed, m)
    /\ FunOn(t, TxFields) /\ AddDone(m, p.diff.added, t)

LEMMA RowSteps ==
    ASSUME NEW tx, FunOn(tx, TxFields), NEW row, NEW p, tx.ok,
           NEW t, t = ApplyRow(tx, row, p), t.ok
    PROVE  \E a, m : RowDone(tx, row, p, a, m, t)
<1> DEFINE removed == p.diff.removed  added == p.diff.added
           a == ApplyFields(tx, row, p)
           m == RemoveRelations(a, removed)
<1>1. t = IF (IF a.ok THEN m ELSE a).ok THEN AddRelations(IF a.ok THEN m ELSE a, added)
          ELSE (IF a.ok THEN m ELSE a)
  BY DEF ApplyRow
<1> HIDE DEF removed, added
<1>2. FieldsDone(tx, row, p, a)
  <2> HIDE DEF a
  <2> QED
    BY FieldsEffect DEF a
<1>3. FunOn(a, TxFields)
  <2> HIDE DEF a
  <2> QED
    BY <1>2 DEF FieldsDone
<1> HIDE DEF a
<1>4. a.ok
  <2> HIDE DEF m
  <2> QED
    BY <1>1
<1>5. m.ok /\ t = AddRelations(m, added)
  <2> HIDE DEF m
  <2> QED
    BY <1>1, <1>4
<1>6. RemoveDone(a, removed, m)
  <2>1. m = RemoveRelations(a, removed)
    OBVIOUS
  <2> HIDE DEF m
  <2> QED
    BY <1>3, <1>5, <2>1, RemoveEffect
<1> HIDE DEF m
<1>7. FunOn(m, TxFields)
  BY <1>6 DEF RemoveDone
<1>8. AddDone(m, added, t)
  BY <1>5, <1>7, AddEffect
<1>9. FunOn(t, TxFields)
  BY <1>8 DEF AddDone
<1>10. RowDone(tx, row, p, a, m, t)
  BY <1>2, <1>3, <1>4, <1>6, <1>7, <1>8, <1>9 DEF RowDone, removed, added
<1> QED
  BY <1>10

(* Only the CI of the row changes, and only as the row says; the keys hold. *)
TableDone(tx, row, p, t) ==
    /\ FunOn(t, TxFields)
    /\ IsTable(t.resources) /\ UniqueKeysHold(t.resources)
    /\ Len(tx.resources) <= Len(t.resources)
    /\ t.id \in 1 .. Len(t.resources)
    /\ t.id = IF p.action = "create" THEN Len(tx.resources) + 1 ELSE p.id
    /\ \A k \in 1 .. Len(tx.resources) : k # t.id => t.resources[k] = tx.resources[k]
    /\ \A f \in DOMAIN p.diff.fields : t.resources[t.id][f] = p.diff.fields[f].after
    /\ \A f \in CIFields \ (DOMAIN p.diff.fields \cup {"updatedAt", "profile"}) :
         t.resources[t.id][f] =
             IF p.action = "create" THEN New(row)[f] ELSE tx.resources[p.id][f]
    /\ t.resources[t.id].profile =
         IF DOMAIN p.diff.profile # {} THEN Stored(row.profile)
         ELSE IF p.action = "create" THEN New(row).profile ELSE tx.resources[p.id].profile

LEMMA RowTable ==
    ASSUME NEW tx, FunOn(tx, TxFields), tx.ok, IsTable(tx.resources), NEW row, NEW p,
           DOMAIN p.diff.fields \subseteq RowFields,
           p.action # "create" => p.id \in 1 .. Len(tx.resources),
           NEW t, t = ApplyRow(tx, row, p), t.ok
    PROVE  TableDone(tx, row, p, t)
<1>1. PICK a, m : RowDone(tx, row, p, a, m, t)
  BY RowSteps
<1>2. FieldsDone(tx, row, p, a) /\ UniqueKeysHold(a.resources)
  BY <1>1 DEF RowDone, FieldsDone
<1>3. m.resources = a.resources /\ m.id = a.id
  BY <1>1 DEF RowDone, RemoveDone
<1>4. FunOn(t, TxFields) /\ t.resources = a.resources /\ t.id = a.id
  BY <1>1, <1>3 DEF RowDone, AddDone
<1> DEFINE w == Written(row, p.diff)  old == tx.resources  n == Len(tx.resources)
           d == p.diff
<1>5. /\ DOMAIN w \subseteq RowFields \cup {"profile"}
      /\ \A f \in RowFields : f \in DOMAIN w <=> f \in DOMAIN d.fields
      /\ \A f \in DOMAIN d.fields : w[f] = d.fields[f].after
      /\ "profile" \in DOMAIN w <=> DOMAIN d.profile # {}
      /\ "profile" \in DOMAIN w => w.profile = Stored(row.profile)
  <2>1. DOMAIN d.fields \subseteq RowFields /\ w = Written(row, d)
    OBVIOUS
  <2> HIDE DEF d, w
  <2> QED
    BY <2>1, WrittenNames
<1>6. /\ DOMAIN w \subseteq CIFields /\ DOMAIN d.fields \subseteq CIFields
      /\ "profile" \in CIFields \ {"updatedAt"}
      /\ "profile" \notin DOMAIN d.fields
      /\ \A f \in DOMAIN w : f = "profile" \/ f \in DOMAIN d.fields
      /\ DOMAIN d.fields \subseteq DOMAIN w
  BY <1>5 DEF CIFields, RowFields
<1>7. n \in Nat /\ FunOn(old, 1 .. n) /\ \A i \in 1 .. n : FunOn(old[i], CIFields)
  BY DEF IsTable
<1> HIDE DEF w, d
<1>8. CASE p.action = "create"
  <2> DEFINE ci == Edited(New(row), w)
  <2>1. a.id = n + 1 /\ a.resources = Append(old, ci)
    BY <1>2, <1>8 DEF FieldsDone, w
  <2>2. DOMAIN New(row) = CIFields
    BY DEF New, CIFields, RowFields
  <2>3. FunOn(ci, CIFields) /\ \A f \in CIFields : ci[f] = IF f \in DOMAIN w THEN w[f] ELSE New(row)[f]
    BY <2>2 DEF Edited, FunOn
  <2> HIDE DEF ci, old, n
  <2>4. /\ Append(old, ci) = [i \in 1 .. n + 1 |-> IF i <= n THEN old[i] ELSE ci]
        /\ Len(Append(old, ci)) = n + 1
    BY <1>7, AppendedIs
  <2> DEFINE new == Append(old, ci)
  <2>5. /\ Len(new) = n + 1 /\ FunOn(new, 1 .. n + 1)
        /\ \A i \in 1 .. n : new[i] = old[i]
        /\ new[n + 1] = ci
    BY <1>7, <2>4 DEF FunOn
  <2> HIDE DEF new
  <2>6. IsTable(new)
    <3>1. ASSUME NEW i \in 1 .. n + 1 PROVE FunOn(new[i], CIFields)
      <4>1. i \in 1 .. n \/ i = n + 1
        BY <1>7
      <4> QED
        BY <1>7, <2>3, <2>5, <4>1
    <3>2. n + 1 \in Nat
      BY <1>7
    <3> QED
      BY <2>5, <3>1, <3>2 DEF IsTable
  <2>7. a.resources = new /\ a.id = n + 1
    BY <2>1 DEF new
  <2>8. n <= n + 1 /\ n + 1 \in 1 .. n + 1
    BY <1>7
  <2>9. \A f \in DOMAIN d.fields : ci[f] = d.fields[f].after
    BY <1>5, <1>6, <2>3
  <2>10. \A f \in CIFields \ (DOMAIN d.fields \cup {"updatedAt", "profile"}) : ci[f] = New(row)[f]
    BY <1>6, <2>3
  <2>11. ci.profile = IF DOMAIN d.profile # {} THEN Stored(row.profile) ELSE New(row).profile
    BY <1>5, <1>6, <2>3
  <2> QED
    BY <1>2, <1>4, <1>8, <2>5, <2>6, <2>7, <2>8, <2>9, <2>10, <2>11 DEF TableDone, old, n, d
<1>9. CASE p.action # "create"
  <2> DEFINE id == p.id
  <2>1. id \in 1 .. n
    BY <1>9
  <2>2. PICK base \in Stamped(old[id]) : a.resources = [old EXCEPT ![id] = Edited(base, w)]
    BY <1>2, <1>9 DEF FieldsDone, w
  <2>3. a.id = id
    BY <1>2, <1>9 DEF FieldsDone
  <2>4. FunOn(base, CIFields) /\ \A f \in CIFields \ {"updatedAt"} : base[f] = old[id][f]
    <3>1. FunOn(old[id], CIFields)
      BY <1>7, <2>1
    <3> HIDE DEF old, id
    <3> QED
      BY <2>2, <3>1, StampedIs
  <2> DEFINE ci == Edited(base, w)  new == [old EXCEPT ![id] = ci]
  <2>5. FunOn(ci, CIFields) /\ \A f \in CIFields : ci[f] = IF f \in DOMAIN w THEN w[f] ELSE base[f]
    BY <2>4 DEF Edited, FunOn
  <2>6. a.resources = new
    BY <2>2
  <2> HIDE DEF ci, id, old, n
  <2>7. FunOn(new, 1 .. n) /\ \A i \in 1 .. n : new[i] = IF i = id THEN ci ELSE old[i]
    BY <1>7, <2>1 DEF FunOn
  <2> HIDE DEF new
  <2>8. IsTable(new) /\ Len(new) = n
    <3>1. ASSUME NEW i \in 1 .. n PROVE FunOn(new[i], CIFields)
      BY <1>7, <2>5, <2>7
    <3>2. IsTable(old) /\ n = Len(old)
      BY DEF old, n
    <3> QED
      BY <2>7, <3>1, <3>2, TableWith
  <2>9. \A f \in DOMAIN d.fields : new[id][f] = d.fields[f].after
    BY <1>5, <1>6, <2>1, <2>5, <2>7
  <2>10. \A f \in CIFields \ (DOMAIN d.fields \cup {"updatedAt", "profile"}) : new[id][f] = old[id][f]
    BY <1>6, <2>1, <2>4, <2>5, <2>7
  <2>11. n <= n
    BY <1>7
  <2>12. new[id].profile = IF DOMAIN d.profile # {} THEN Stored(row.profile) ELSE old[id].profile
    BY <1>5, <1>6, <2>1, <2>4, <2>5, <2>7
  <2> QED
    BY <1>2, <1>4, <1>9, <2>1, <2>3, <2>6, <2>7, <2>8, <2>9, <2>10, <2>11, <2>12
       DEF TableDone, old, n, id, d
<1> QED
  BY <1>8, <1>9

TargetsIn(rels, id) == {r.to : r \in {s \in rels : s.from = id}}

(* The relations of other CIs stay, those of the row's CI become the row's. *)
LinksDone(tx, p, t) ==
    /\ \A k : k # t.id => TargetsIn(t.relations, k) = TargetsIn(tx.relations, k)
    /\ TargetsIn(t.relations, t.id) =
         (TargetsIn(tx.relations, t.id) \ p.diff.removed) \cup p.diff.added

LEMMA RowLinks ==
    ASSUME NEW tx, FunOn(tx, TxFields), tx.ok, NEW row, NEW p,
           NEW t, t = ApplyRow(tx, row, p), t.ok
    PROVE  LinksDone(tx, p, t)
<1>1. PICK a, m : RowDone(tx, row, p, a, m, t)
  BY RowSteps
<1>2. a.relations = tx.relations
  BY <1>1 DEF RowDone, FieldsDone
<1>3. m.id = a.id /\ m.relations = a.relations \ Gone(a, p.diff.removed)
  BY <1>1 DEF RowDone, RemoveDone
<1>4. t.id = m.id /\ t.relations = m.relations \cup NewRelations(m, p.diff.added)
  BY <1>1 DEF RowDone, AddDone
<1> DEFINE add == p.diff.added
<1>5. /\ \A r \in NewRelations(m, add) : r.from = m.id /\ r.to \in add
      /\ \A u \in add : \E r \in NewRelations(m, add) : r.from = m.id /\ r.to = u
  <2> HIDE DEF add
  <2> QED
    BY NewRelationsAre
<1> DEFINE recs == NewRelations(m, p.diff.added)  added == p.diff.added  removed == p.diff.removed
           rels == tx.relations  id == a.id
<1>7. /\ t.relations = (rels \ {r \in rels : r.from = id /\ r.to \in removed}) \cup recs
      /\ \A r \in recs : r.from = id /\ r.to \in added
      /\ \A u \in added : \E r \in recs : r.from = id /\ r.to = u
      /\ t.id = id
  BY <1>2, <1>3, <1>4, <1>5 DEF Gone
<1> HIDE DEF recs, added, removed, rels, id
<1>8. \A k : k # id => TargetsIn(t.relations, k) = TargetsIn(rels, k)
  BY <1>7 DEF TargetsIn
<1>9. TargetsIn(t.relations, id) = (TargetsIn(rels, id) \ removed) \cup added
  BY <1>7 DEF TargetsIn
<1> QED
  BY <1>7, <1>8, <1>9 DEF LinksDone, rels, added, removed

-----------------------------------------------------------------------------
(* The rows of a confirmation, one after the other.                        *)

Start(preview) ==
    [resources |-> resources, relations |-> relations, trail |-> Mixed(trail, preview),
     ids |-> relationIDs, id |-> None, ok |-> TRUE]

(* The states of the transaction that Applied defines by recursion.        *)
Run(rows, preview) ==
    CHOOSE run : run = [i \in 0 .. Len(rows) |->
        IF i = 0 THEN Start(preview) ELSE ApplyRow(run[i - 1], rows[i], preview.rows[i])]

RunsUpTo(run, rows, preview, k) ==
    run = [i \in 0 .. k |->
        IF i = 0 THEN Start(preview) ELSE ApplyRow(run[i - 1], rows[i], preview.rows[i])]

LEMMA AppliedIsRun ==
    ASSUME NEW rows, NEW preview
    PROVE  Applied(rows, preview) = Run(rows, preview)[Len(rows)]
BY DEF Applied, Run, Start

LEMMA RunExists ==
    ASSUME NEW rows, NEW preview, NEW k \in Nat
    PROVE  \E run : RunsUpTo(run, rows, preview, k)
<1> DEFINE T == {n \in Nat : ~\E run : RunsUpTo(run, rows, preview, n)}
<1> SUFFICES ASSUME T # {} PROVE FALSE
  OBVIOUS
<1>1. PICK m \in T : \A n \in T : m <= n
  <2>1. T \in SUBSET Nat
    OBVIOUS
  <2> HIDE DEF T
  <2> QED
    BY <2>1, LeastNatural
<1>2. m \in Nat /\ m # 0
  <2> DEFINE z == [i \in 0 .. 0 |-> Start(preview)]
  <2>1. RunsUpTo(z, rows, preview, 0)
    BY DEF RunsUpTo
  <2> QED
    BY <2>1
<1>3. m - 1 \in Nat /\ m - 1 \notin T
  BY <1>1, <1>2
<1>4. PICK f : RunsUpTo(f, rows, preview, m - 1)
  BY <1>3
<1> DEFINE g == [i \in 0 .. m |-> IF i < m THEN f[i] ELSE ApplyRow(f[i - 1], rows[i], preview.rows[i])]
<1>5. ASSUME NEW i \in 0 .. m
      PROVE  g[i] = IF i = 0 THEN Start(preview) ELSE ApplyRow(g[i - 1], rows[i], preview.rows[i])
  <2>1. CASE i < m
    <3>1. g[i] = f[i] /\ (i # 0 => g[i - 1] = f[i - 1])
      BY <1>2, <2>1
    <3>2. i \in 0 .. m - 1
      BY <1>2, <2>1
    <3>3. f[i] = IF i = 0 THEN Start(preview) ELSE ApplyRow(f[i - 1], rows[i], preview.rows[i])
      BY <1>4, <3>2 DEF RunsUpTo
    <3> QED
      BY <3>1, <3>3
  <2>2. CASE i = m
    <3>1. i # 0 /\ g[i] = ApplyRow(f[i - 1], rows[i], preview.rows[i]) /\ g[i - 1] = f[i - 1]
      BY <1>2, <2>2
    <3> QED
      BY <3>1
  <2> QED
    BY <1>2, <2>1, <2>2
<1>6. RunsUpTo(g, rows, preview, m)
  <2>1. g = [i \in 0 .. m |-> g[i]]
    OBVIOUS
  <2> HIDE DEF g
  <2> QED
    BY <1>5, <2>1 DEF RunsUpTo
<1> HIDE DEF g
<1> QED
  BY <1>1, <1>6

LEMMA RunStep ==
    ASSUME NEW rows, NEW preview, Len(rows) \in Nat, NEW i \in 0 .. Len(rows)
    PROVE  Run(rows, preview)[i] = IF i = 0 THEN Start(preview)
               ELSE ApplyRow(Run(rows, preview)[i - 1], rows[i], preview.rows[i])
<1>1. \E run : RunsUpTo(run, rows, preview, Len(rows))
  BY RunExists
<1>2. RunsUpTo(Run(rows, preview), rows, preview, Len(rows))
  BY <1>1 DEF RunsUpTo, Run
<1> QED
  BY <1>2 DEF RunsUpTo

(* A transaction that stops never goes on.                                 *)
LEMMA RunOk ==
    ASSUME NEW rows, NEW preview, Len(rows) \in Nat, Run(rows, preview)[Len(rows)].ok,
           NEW i \in 0 .. Len(rows)
    PROVE  Run(rows, preview)[i].ok
<1> DEFINE n == Len(rows)  run == Run(rows, preview)
           T == {j \in Nat : i <= j /\ j <= n /\ run[j].ok}
<1>1. \A j \in 0 .. n : run[j] = IF j = 0 THEN Start(preview)
                                 ELSE ApplyRow(run[j - 1], rows[j], preview.rows[j])
  BY RunStep
<1> SUFFICES ASSUME ~run[i].ok PROVE FALSE
  OBVIOUS
<1> HIDE DEF n, run
<1>2. n \in T
  BY DEF n, run
<1>3. PICK m \in T : \A j \in T : m <= j
  <2>1. T \in SUBSET Nat /\ T # {}
    BY <1>2
  <2> HIDE DEF T
  <2> QED
    BY <2>1, LeastNatural
<1>4. m \in Nat /\ i <= m /\ m <= n /\ run[m].ok /\ m # i
  BY <1>3
<1>5. n \in Nat /\ i \in 0 .. n
  BY DEF n
<1>6. m - 1 \in Nat /\ i <= m - 1 /\ m - 1 <= n /\ m \in 0 .. n /\ m # 0
  BY <1>4, <1>5
<1>7. ~run[m - 1].ok
  BY <1>3, <1>6
<1>8. run[m] = run[m - 1]
  BY <1>1, <1>6, <1>7 DEF ApplyRow
<1> QED
  BY <1>4, <1>7, <1>8

-----------------------------------------------------------------------------
(* What a preview says of a row.                                           *)

MatchesCI(row, ci) ==
    \/ row.externals \cap ci.externals # {}
    \/ row.aliases \cap ci.aliases # {}
    \/ <<row.type, row.name>> = <<ci.type, ci.name>>

LEMMA MatchedIs ==
    ASSUME NEW row, NEW ids
    PROVE  Matched(row, ids) = {i \in ids : MatchesCI(row, resources[i])}
<1> DEFINE m == matchSnapshots(row, ids)
<1>1. Matched(row, ids) = m["external"] \cup m["alias"] \cup m["name"]
  BY DEF Matched
<1>2. m["external"] = {i \in ids : row.externals \cap resources[i].externals # {}}
  BY DEF matchSnapshots
<1>3. m["alias"] = {i \in ids : row.aliases \cap resources[i].aliases # {}}
  BY DEF matchSnapshots
<1>4. m["name"] = {i \in ids : <<row.type, row.name>> = <<resources[i].type, resources[i].name>>}
  BY DEF matchSnapshots
<1> HIDE DEF m
<1> QED
  BY <1>1, <1>2, <1>3, <1>4, Zenon DEF MatchesCI

CreateRow(row) == [action |-> "create", id |-> None, diff |-> diffIngestion(row, Zero, {})]
UpdateRow(row, id, before, targets) ==
    [action |-> "update", id |-> id, diff |-> diffIngestion(row, before, targets)]
ConflictRow == [action |-> "conflict", id |-> None, diff |-> NoDiff]

LEMMA PreviewCases ==
    ASSUME NEW row, NEW ids, NEW matched, matched = Matched(row, ids),
           NEW id, id = CHOOSE i \in matched : TRUE
    PROVE  /\ matched = {} => PreviewRow(row, ids) = CreateRow(row)
           /\ matched # {} /\ Cardinality(matched) = 1 /\ resources[id].type = row.type
                => PreviewRow(row, ids) = UpdateRow(row, id, resources[id], Targets(id))
           /\ matched # {} /\ ~(Cardinality(matched) = 1 /\ resources[id].type = row.type)
                => PreviewRow(row, ids) = ConflictRow
<1>1. Cardinality({}) # 1
  BY FS_EmptySet
<1>2. PreviewRow(row, ids) =
        CASE matched = {} -> CreateRow(row)
          [] Cardinality(matched) = 1 /\ resources[id].type = row.type ->
                UpdateRow(row, id, resources[id], Targets(id))
          [] OTHER -> ConflictRow
  BY DEF PreviewRow, CreateRow, UpdateRow, ConflictRow
<1> QED
  BY <1>1, <1>2

(* The preview depends on the matched CIs only.                            *)
LEMMA PreviewByMatched ==
    ASSUME NEW row, NEW ids, NEW others, Matched(row, ids) = Matched(row, others)
    PROVE  PreviewRow(row, ids) = PreviewRow(row, others)
BY DEF PreviewRow

(* The preview of a row from the snapshots the fingerprint holds.          *)
MatchesSnapshot(row, snap) ==
    \/ row.externals \cap snap.fields.externals # {}
    \/ row.aliases \cap snap.fields.aliases # {}
    \/ <<row.type, row.name>> = <<snap.type, snap.fields.name>>

Compared(snap) ==
    [f \in RowFields \cup {"profile"} |-> IF f = "profile" THEN snap.profile ELSE snap.fields[f]]

MatchedRow(row, snaps, matched) ==
    LET id == CHOOSE i \in matched : TRUE
    IN IF matched = {} THEN CreateRow(row)
       ELSE IF Cardinality(matched) = 1 /\ snaps[id].type = row.type
       THEN UpdateRow(row, id, Compared(snaps[id]), snaps[id].targets)
       ELSE ConflictRow

SnapshotRow(row, snaps) ==
    MatchedRow(row, snaps, {i \in DOMAIN snaps : MatchesSnapshot(row, snaps[i])})

LEMMA DescribedNames ==
    ASSUME NEW row
    PROVE  /\ DOMAIN Described(row) \subseteq RowFields
           /\ \A f \in DOMAIN Described(row) : Described(row)[f] = row[f]
           /\ \A f \in RowFields \ {"observed"} : f \in DOMAIN Described(row)
           /\ "observed" \in DOMAIN Described(row) <=> row.observed # None
BY DEF Described, RowFields

(* The facets in which a row differs.                                      *)
FieldDiff(row, before) ==
    [f \in {g \in DOMAIN Described(row) : addDiff(g, before[g], Described(row)[g])} |->
        [before |-> before[f], after |-> Described(row)[f]]]

LEMMA DiffIs ==
    ASSUME NEW row, NEW before, NEW ch, ch = FieldDiff(row, before)
    PROVE  /\ \A f \in DOMAIN ch : f \in DOMAIN Described(row) /\ addDiff(f, before[f], row[f])
           /\ DOMAIN ch \subseteq RowFields
           /\ \A f \in DOMAIN ch : ch[f].before = before[f] /\ ch[f].after = row[f]
           /\ \A f \in DOMAIN Described(row) \ DOMAIN ch : before[f] = row[f]
<1> DEFINE d == Described(row)
<1>1. DOMAIN d \subseteq RowFields /\ \A f \in DOMAIN d : d[f] = row[f]
  BY DescribedNames
<1>2. ch = [f \in {g \in DOMAIN d : addDiff(g, before[g], d[g])} |->
              [before |-> before[f], after |-> d[f]]]
  BY DEF FieldDiff
<1> HIDE DEF d
<1>3. \A f \in DOMAIN d \ DOMAIN ch : before[f] = d[f]
  BY <1>2 DEF addDiff
<1>4. \A f \in DOMAIN ch : f \in DOMAIN d /\ addDiff(f, before[f], row[f])
  BY <1>1, <1>2
<1>5. \A f \in DOMAIN ch : ch[f].before = before[f] /\ ch[f].after = row[f]
  BY <1>1, <1>2
<1>6. DOMAIN ch \subseteq RowFields
  BY <1>1, <1>4
<1> QED
  BY <1>1, <1>3, <1>4, <1>5, <1>6 DEF d

LEMMA SameDiff ==
    ASSUME NEW row, NEW ci, NEW other, NEW targets, \A f \in RowFields : ci[f] = other[f],
           ci.profile = other.profile
    PROVE  diffIngestion(row, ci, targets) = diffIngestion(row, other, targets)
<1>1. FieldDiff(row, ci) = FieldDiff(row, other)
  <2> DEFINE d == Described(row)
  <2>1. DOMAIN d \subseteq RowFields
    BY DescribedNames
  <2>2. /\ FieldDiff(row, ci) = [f \in {g \in DOMAIN d : addDiff(g, ci[g], d[g])} |->
                                   [before |-> ci[f], after |-> d[f]]]
        /\ FieldDiff(row, other) = [f \in {g \in DOMAIN d : addDiff(g, other[g], d[g])} |->
                                      [before |-> other[f], after |-> d[f]]]
    BY DEF FieldDiff
  <2> HIDE DEF d
  <2>3. {g \in DOMAIN d : addDiff(g, ci[g], d[g])} = {g \in DOMAIN d : addDiff(g, other[g], d[g])}
    BY <2>1
  <2> QED
    BY <2>1, <2>2, <2>3
<1> QED
  BY <1>1 DEF diffIngestion, FieldDiff

LEMMA PreviewFromSnapshots ==
    ASSUME NEW row, NEW ids, NEW D, Matched(row, ids) \subseteq D, D \subseteq ids,
           NEW snaps, snaps = [id \in D |-> IngestionSnapshot(id)]
    PROVE  PreviewRow(row, ids) = SnapshotRow(row, snaps)
<1> DEFINE matched == Matched(row, ids)  id == CHOOSE i \in matched : TRUE
<1>1. ASSUME NEW i \in D
      PROVE  /\ MatchesSnapshot(row, snaps[i]) <=> MatchesCI(row, resources[i])
             /\ snaps[i].type = resources[i].type
             /\ snaps[i].targets = Targets(i)
             /\ snaps[i].fields = [f \in RowFields |-> resources[i][f]]
             /\ snaps[i].profile = resources[i].profile
  <2>1. snaps[i] = [type |-> resources[i].type, fields |-> [f \in RowFields |-> resources[i][f]],
                    profile |-> resources[i].profile, targets |-> Targets(i)]
    BY DEF IngestionSnapshot
  <2>2. /\ snaps[i].type = resources[i].type /\ snaps[i].targets = Targets(i)
        /\ snaps[i].fields = [f \in RowFields |-> resources[i][f]]
        /\ snaps[i].profile = resources[i].profile
    BY <2>1
  <2>3. /\ snaps[i].fields.externals = resources[i].externals
        /\ snaps[i].fields.aliases = resources[i].aliases
        /\ snaps[i].fields.name = resources[i].name
    BY <2>2 DEF RowFields
  <2>4. MatchesSnapshot(row, snaps[i]) <=> MatchesCI(row, resources[i])
    BY <2>2, <2>3 DEF MatchesSnapshot, MatchesCI
  <2> QED
    BY <2>2, <2>4
<1>2. DOMAIN snaps = D
  OBVIOUS
<1>3. {i \in DOMAIN snaps : MatchesSnapshot(row, snaps[i])} = matched
  <2>1. matched = {i \in ids : MatchesCI(row, resources[i])}
    BY MatchedIs
  <2>2. matched \subseteq D
    OBVIOUS
  <2> HIDE DEF matched
  <2> QED
    BY <1>1, <1>2, <2>1, <2>2
<1>4. SnapshotRow(row, snaps) =
        IF matched = {} THEN CreateRow(row)
        ELSE IF Cardinality(matched) = 1 /\ snaps[id].type = row.type
        THEN UpdateRow(row, id, Compared(snaps[id]), snaps[id].targets)
        ELSE ConflictRow
  <2>1. SnapshotRow(row, snaps) = MatchedRow(row, snaps, matched)
    BY <1>3 DEF SnapshotRow
  <2> QED
    BY <2>1 DEF MatchedRow
<1>5. /\ matched = {} => PreviewRow(row, ids) = CreateRow(row)
      /\ matched # {} /\ Cardinality(matched) = 1 /\ resources[id].type = row.type
           => PreviewRow(row, ids) = UpdateRow(row, id, resources[id], Targets(id))
      /\ matched # {} /\ ~(Cardinality(matched) = 1 /\ resources[id].type = row.type)
           => PreviewRow(row, ids) = ConflictRow
  <2>1. matched = Matched(row, ids) /\ id = CHOOSE i \in matched : TRUE
    OBVIOUS
  <2> HIDE DEF matched, id
  <2> QED
    BY <2>1, PreviewCases
<1>6. matched # {} => id \in matched /\ id \in D
  OBVIOUS
<1> HIDE DEF matched, id
<1>7. matched # {} => /\ snaps[id].type = resources[id].type
                      /\ UpdateRow(row, id, Compared(snaps[id]), snaps[id].targets)
                           = UpdateRow(row, id, resources[id], Targets(id))
  <2> SUFFICES ASSUME matched # {}
               PROVE  /\ snaps[id].type = resources[id].type
                      /\ UpdateRow(row, id, Compared(snaps[id]), snaps[id].targets)
                           = UpdateRow(row, id, resources[id], Targets(id))
    OBVIOUS
  <2> DEFINE ci == resources[id]  other == Compared(snaps[id])  targets == Targets(id)
  <2>1. /\ snaps[id].type = resources[id].type /\ snaps[id].targets = targets
        /\ snaps[id].fields = [f \in RowFields |-> ci[f]] /\ snaps[id].profile = ci.profile
    BY <1>1, <1>6
  <2>2. ci.profile = other.profile /\ \A f \in RowFields : ci[f] = other[f]
    BY <2>1 DEF Compared, RowFields
  <2>3. diffIngestion(row, ci, targets) = diffIngestion(row, other, targets)
    <3> HIDE DEF ci, other, targets
    <3> QED
      BY <2>2, SameDiff
  <2> QED
    BY <2>1, <2>3 DEF UpdateRow
<1> QED
  BY <1>4, <1>5, <1>7

(* A row of a confirmable preview.                                         *)
Reviewed(p, row, ids) ==
    \/ Matched(row, ids) = {} /\ p = CreateRow(row)
    \/ /\ p.id \in Matched(row, ids) /\ resources[p.id].type = row.type
       /\ p = UpdateRow(row, p.id, resources[p.id], Targets(p.id))

LEMMA ConfirmableRows ==
    ASSUME NEW rows, NEW ids, Confirmable(PreviewIngestion(rows, ids)), NEW i \in DOMAIN rows
    PROVE  Reviewed(PreviewIngestion(rows, ids).rows[i], rows[i], ids)
<1> DEFINE P == PreviewIngestion(rows, ids)  row == rows[i]  p == PreviewRow(row, ids)
           matched == Matched(row, ids)  id == CHOOSE k \in matched : TRUE
<1>1. P.rows = [k \in DOMAIN rows |-> PreviewRow(rows[k], ids)]
  BY DEF PreviewIngestion
<1>2. P.rows[i] = p /\ p.action # "conflict"
  BY <1>1 DEF Confirmable
<1>3. /\ matched = {} => p = CreateRow(row)
      /\ matched # {} /\ Cardinality(matched) = 1 /\ resources[id].type = row.type
           => p = UpdateRow(row, id, resources[id], Targets(id))
      /\ matched # {} /\ ~(Cardinality(matched) = 1 /\ resources[id].type = row.type)
           => p = ConflictRow
  <2>1. matched = Matched(row, ids) /\ id = CHOOSE k \in matched : TRUE
    OBVIOUS
  <2> HIDE DEF row, matched, id
  <2> QED
    BY <2>1, PreviewCases
<1>4. matched # {} => id \in matched
  OBVIOUS
<1> HIDE DEF p, id
<1>5. CASE matched = {}
  BY <1>2, <1>3, <1>5 DEF Reviewed
<1>6. CASE matched # {} /\ Cardinality(matched) = 1 /\ resources[id].type = row.type
  <2>1. p.id = id
    BY <1>3, <1>6 DEF UpdateRow
  <2>2. p = UpdateRow(row, p.id, resources[p.id], Targets(p.id))
    BY <1>3, <1>6, <2>1
  <2> QED
    BY <1>2, <1>4, <1>6, <2>1, <2>2 DEF Reviewed
<1>7. CASE matched # {} /\ ~(Cardinality(matched) = 1 /\ resources[id].type = row.type)
  BY <1>2, <1>3, <1>7 DEF ConflictRow
<1> QED
  BY <1>5, <1>6, <1>7

(* What a reviewed row asks for.                                           *)
LEMMA ReviewedIs ==
    ASSUME NEW p, NEW row, NEW ids, Reviewed(p, row, ids)
    PROVE  /\ DOMAIN p.diff.fields \subseteq RowFields
           /\ p.action = "create" =>
                /\ Matched(row, ids) = {} /\ p.id = None
                /\ p.diff.fields = FieldDiff(row, Zero)
                /\ p.diff.profile = diffMaps(None, row.profile)
                /\ p.diff.added = row.targets /\ p.diff.removed = {}
           /\ p.action # "create" =>
                /\ p.id \in Matched(row, ids) /\ p.id \in ids
                /\ resources[p.id].type = row.type
                /\ p.diff.fields = FieldDiff(row, resources[p.id])
                /\ p.diff.profile = diffMaps(resources[p.id].profile, row.profile)
                /\ p.diff.added = row.targets \ Targets(p.id)
                /\ p.diff.removed = Targets(p.id) \ row.targets
<1>1. ASSUME NEW before, NEW targets, p.diff = diffIngestion(row, before, targets)
      PROVE  /\ DOMAIN p.diff.fields \subseteq RowFields
             /\ p.diff.fields = FieldDiff(row, before)
             /\ p.diff.profile = diffMaps(before.profile, row.profile)
             /\ p.diff.added = row.targets \ targets /\ p.diff.removed = targets \ row.targets
  <2>1. /\ p.diff.fields = FieldDiff(row, before)
        /\ p.diff.profile = diffMaps(before.profile, row.profile)
        /\ p.diff.added = row.targets \ targets /\ p.diff.removed = targets \ row.targets
    BY <1>1 DEF diffIngestion, FieldDiff
  <2>2. DOMAIN FieldDiff(row, before) \subseteq RowFields
    BY DiffIs
  <2> QED
    BY <2>1, <2>2
<1>2. CASE Matched(row, ids) = {} /\ p = CreateRow(row)
  <2>1. p.action = "create" /\ p.id = None /\ p.diff = diffIngestion(row, Zero, {})
    BY <1>2 DEF CreateRow
  <2>2. Zero.profile = None
    BY DEF Zero
  <2>3. /\ DOMAIN p.diff.fields \subseteq RowFields
        /\ p.diff.fields = FieldDiff(row, Zero)
        /\ p.diff.profile = diffMaps(Zero.profile, row.profile)
        /\ p.diff.added = row.targets \ {} /\ p.diff.removed = {} \ row.targets
    BY <1>1, <2>1
  <2> QED
    BY <1>2, <2>1, <2>2, <2>3
<1>3. CASE /\ p.id \in Matched(row, ids) /\ resources[p.id].type = row.type
           /\ p = UpdateRow(row, p.id, resources[p.id], Targets(p.id))
  <2> DEFINE ci == resources[p.id]  targets == Targets(p.id)
  <2>1. p.action = "update" /\ p.diff = diffIngestion(row, ci, targets)
    BY <1>3 DEF UpdateRow
  <2> HIDE DEF ci, targets
  <2>2. /\ DOMAIN p.diff.fields \subseteq RowFields
        /\ p.diff.fields = FieldDiff(row, ci)
        /\ p.diff.profile = diffMaps(ci.profile, row.profile)
        /\ p.diff.added = row.targets \ targets /\ p.diff.removed = targets \ row.targets
    BY <1>1, <2>1
  <2>3. p.id \in ids
    BY <1>3, MatchedIs
  <2> QED
    BY <1>3, <2>1, <2>2, <2>3 DEF ci, targets
<1> QED
  BY <1>2, <1>3 DEF Reviewed

-----------------------------------------------------------------------------
(* The tables inside the transaction, whatever the rows match.             *)

Untouched(P, i, k) == \A j \in 1 .. i : P.rows[j].action = "create" \/ P.rows[j].id # k

TableRun(tx, P, i) ==
    /\ FunOn(tx, TxFields)
    /\ IsTable(tx.resources) /\ UniqueKeysHold(tx.resources)
    /\ Len(resources) <= Len(tx.resources)
    /\ \A k \in 1 .. Len(resources) :
         /\ tx.resources[k].type = resources[k].type
         /\ Untouched(P, i, k) => tx.resources[k] = resources[k]

ReviewedRun(rows, P, ids) ==
    /\ Len(rows) \in Nat /\ DOMAIN rows = 1 .. Len(rows)
    /\ ids \subseteq 1 .. Len(resources)
    /\ \A i \in 1 .. Len(rows) : Reviewed(P.rows[i], rows[i], ids)
    /\ Run(rows, P)[Len(rows)].ok

LEMMA TableRunStep ==
    ASSUME NEW tx, NEW P, NEW i \in Nat \ {0}, TableRun(tx, P, i - 1), tx.ok,
           NEW row, NEW ids \in SUBSET (1 .. Len(resources)),
           Reviewed(P.rows[i], row, ids), Len(resources) \in Nat,
           NEW t, t = ApplyRow(tx, row, P.rows[i]), t.ok
    PROVE  TableRun(t, P, i)
<1> DEFINE p == P.rows[i]  n == Len(tx.resources)  n0 == Len(resources)
<1>1. /\ DOMAIN p.diff.fields \subseteq RowFields
      /\ p.action # "create" => p.id \in ids
  <2>1. Reviewed(p, row, ids)
    OBVIOUS
  <2> HIDE DEF p
  <2> QED
    BY <2>1, ReviewedIs
<1>2. /\ FunOn(tx, TxFields) /\ IsTable(tx.resources) /\ n0 <= n /\ n0 \in Nat /\ n \in Nat
      /\ \A k \in 1 .. n0 :
           /\ tx.resources[k].type = resources[k].type
           /\ Untouched(P, i - 1, k) => tx.resources[k] = resources[k]
  <2>1. IsTable(tx.resources)
    BY DEF TableRun
  <2>2. n \in Nat
    BY <2>1 DEF IsTable
  <2> QED
    BY <2>1, <2>2 DEF TableRun
<1>3. p.action # "create" => p.id \in 1 .. n0 /\ p.id \in 1 .. n
  <2>1. ids \subseteq 1 .. n0 /\ n0 \in Nat /\ n \in Nat /\ n0 <= n
    BY <1>2
  <2> HIDE DEF n, n0, p
  <2>2. \A k \in 1 .. n0 : k \in 1 .. n
    BY <2>1
  <2> QED
    BY <1>1, <2>1, <2>2
<1>4. /\ FunOn(t, TxFields)
      /\ IsTable(t.resources) /\ UniqueKeysHold(t.resources)
      /\ n <= Len(t.resources)
      /\ t.id = IF p.action = "create" THEN n + 1 ELSE p.id
      /\ \A k \in 1 .. n : k # t.id => t.resources[k] = tx.resources[k]
      /\ \A f \in CIFields \ (DOMAIN p.diff.fields \cup {"updatedAt", "profile"}) :
           t.resources[t.id][f] =
               IF p.action = "create" THEN New(row)[f] ELSE tx.resources[p.id][f]
  <2>1. t = ApplyRow(tx, row, p)
    OBVIOUS
  <2>2. DOMAIN p.diff.fields \subseteq RowFields /\ (p.action # "create" => p.id \in 1 .. Len(tx.resources))
    BY <1>1, <1>3
  <2> HIDE DEF p
  <2> QED
    <3>1. TableDone(tx, row, p, t)
      BY <1>2, <2>1, <2>2, RowTable
    <3> QED
      BY <3>1 DEF TableDone
<1>5. "type" \in CIFields \ (DOMAIN p.diff.fields \cup {"updatedAt", "profile"})
  BY <1>1 DEF CIFields, RowFields
<1> DEFINE res == t.resources
<1>6. ASSUME NEW k \in 1 .. n0
      PROVE  res[k].type = resources[k].type /\ (Untouched(P, i, k) => res[k] = resources[k])
  <2>1. k \in 1 .. n
    BY <1>2
  <2>2. Untouched(P, i, k) => Untouched(P, i - 1, k) /\ (p.action = "create" \/ p.id # k)
    BY DEF Untouched
  <2>3. CASE k # t.id
    BY <1>2, <1>4, <2>1, <2>2, <2>3
  <2>4. CASE k = t.id
    <3>1. p.action # "create" /\ k = p.id
      BY <1>2, <1>4, <2>1, <2>4
    <3>2. res[k].type = tx.resources[k].type
      BY <1>4, <1>5, <2>4, <3>1
    <3> QED
      BY <1>2, <2>2, <3>1, <3>2
  <2> QED
    BY <2>3, <2>4
<1>7. n0 <= Len(t.resources)
  BY <1>2, <1>4 DEF IsTable
<1> QED
  BY <1>4, <1>6, <1>7 DEF TableRun

LEMMA TableRunHolds ==
    ASSUME NEW rows, NEW P, NEW ids, ReviewedRun(rows, P, ids),
           IsTable(resources), UniqueKeysHold(resources), NEW i \in 0 .. Len(rows)
    PROVE  TableRun(Run(rows, P)[i], P, i) /\ Run(rows, P)[i].ok
<1> DEFINE n == Len(rows)  run == Run(rows, P)
           T == {j \in Nat : j \in 0 .. n /\ ~TableRun(run[j], P, j)}
<1>1. n \in Nat /\ ids \in SUBSET (1 .. Len(resources)) /\ Len(resources) \in Nat
      /\ \A j \in 1 .. n : Reviewed(P.rows[j], rows[j], ids)
  BY DEF ReviewedRun, IsTable
<1>2. \A j \in 0 .. n : run[j].ok
  BY RunOk DEF ReviewedRun
<1>3. \A j \in 0 .. n : run[j] = IF j = 0 THEN Start(P)
                                 ELSE ApplyRow(run[j - 1], rows[j], P.rows[j])
  BY <1>1, RunStep
<1> HIDE DEF n, run
<1>4. TableRun(run[0], P, 0)
  <2>1. run[0] = Start(P)
    BY <1>1, <1>3
  <2>2. FunOn(Start(P), TxFields) /\ Start(P).resources = resources
    BY DEF Start, FunOn, TxFields
  <2> QED
    BY <1>1, <2>1, <2>2 DEF TableRun
<1>5. SUFFICES ASSUME T # {} PROVE FALSE
  <2>1. T = {} => \A j \in 0 .. n : TableRun(run[j], P, j)
    BY <1>1
  <2> HIDE DEF T
  <2> QED
    BY <1>2, <2>1 DEF n, run
<1>6. PICK m \in T : \A j \in T : m <= j
  <2>1. T \in SUBSET Nat
    OBVIOUS
  <2> HIDE DEF T
  <2> QED
    BY <1>5, <2>1, LeastNatural
<1>7. m \in Nat \ {0} /\ m \in 1 .. n /\ m - 1 \in 0 .. n /\ m \in 0 .. n
  BY <1>1, <1>4, <1>6
<1>8. TableRun(run[m - 1], P, m - 1)
  BY <1>6, <1>7
<1>9. TableRun(run[m], P, m)
  <2> DEFINE tx == run[m - 1]  t == run[m]  row == rows[m]
  <2>1. /\ tx.ok /\ t.ok /\ TableRun(tx, P, m - 1) /\ t = ApplyRow(tx, row, P.rows[m])
        /\ Reviewed(P.rows[m], row, ids)
    BY <1>1, <1>2, <1>3, <1>7, <1>8
  <2> HIDE DEF tx, t, row
  <2>2. TableRun(t, P, m)
    BY <1>1, <1>7, <2>1, TableRunStep
  <2> QED
    BY <2>2 DEF t
<1> QED
  BY <1>6, <1>9

(* What the CI of a row holds after it: the row's values, unless the CI    *)
(* held them before the batch and they were not written.                   *)
HoldsRow(tx, p, row, t) ==
    /\ t.id \in 1 .. Len(t.resources)
    /\ p.action = "create" => t.id = Len(tx.resources) + 1
    /\ p.action # "create" => t.id = p.id
    /\ t.resources[t.id].type = row.type
    /\ \A f \in DOMAIN Described(row) :
         \/ t.resources[t.id][f] = row[f]
         \/ /\ p.action # "create" /\ resources[p.id][f] = row[f]
            /\ t.resources[t.id][f] = tx.resources[p.id][f]

LEMMA RowWritten ==
    ASSUME NEW tx, NEW P, NEW i \in Nat \ {0}, TableRun(tx, P, i - 1), tx.ok,
           NEW row, NEW ids \in SUBSET (1 .. Len(resources)), Len(resources) \in Nat,
           NEW p, p = P.rows[i], Reviewed(p, row, ids),
           NEW t, t = ApplyRow(tx, row, p), t.ok
    PROVE  HoldsRow(tx, p, row, t)
<1> DEFINE n == Len(tx.resources)  n0 == Len(resources)  d == Described(row)
           fields == p.diff.fields  ci == t.resources[t.id]
<1>1. /\ DOMAIN fields \subseteq RowFields
      /\ p.action = "create" => fields = FieldDiff(row, Zero)
      /\ p.action # "create" =>
           /\ p.id \in ids /\ resources[p.id].type = row.type
           /\ fields = FieldDiff(row, resources[p.id])
  BY ReviewedIs
<1>2. /\ FunOn(tx, TxFields) /\ IsTable(tx.resources) /\ n0 <= n
      /\ \A k \in 1 .. n0 : tx.resources[k].type = resources[k].type
  BY DEF TableRun
<1>3. p.action # "create" => p.id \in 1 .. n0 /\ p.id \in 1 .. n
  <2>1. ids \subseteq 1 .. n0 /\ n0 \in Nat /\ n \in Nat /\ n0 <= n
    BY <1>2 DEF IsTable
  <2> HIDE DEF n, n0
  <2>2. \A k \in 1 .. n0 : k \in 1 .. n
    BY <2>1
  <2> QED
    BY <1>1, <2>1, <2>2
<1>4. /\ t.id \in 1 .. Len(t.resources)
      /\ t.id = IF p.action = "create" THEN n + 1 ELSE p.id
      /\ \A f \in DOMAIN fields : ci[f] = fields[f].after
      /\ \A f \in CIFields \ (DOMAIN fields \cup {"updatedAt", "profile"}) :
           ci[f] = IF p.action = "create" THEN New(row)[f] ELSE tx.resources[p.id][f]
  <2>1. TableDone(tx, row, p, t)
    BY <1>1, <1>2, <1>3, RowTable
  <2> QED
    BY <2>1 DEF TableDone
<1>5. DOMAIN d \subseteq RowFields /\ \A f \in DOMAIN d : d[f] = row[f]
  BY DescribedNames
<1>6. "observed" \in DOMAIN d => row.observed # None
  BY DescribedNames
<1>7. ci.type = row.type
  <2>1. "type" \in CIFields \ (DOMAIN fields \cup {"updatedAt", "profile"})
    BY <1>1 DEF CIFields, RowFields
  <2>2. New(row).type = row.type
    BY DEF New
  <2>3. ci.type = IF p.action = "create" THEN New(row).type ELSE tx.resources[p.id].type
    BY <1>4, <2>1
  <2> QED
    BY <1>1, <1>2, <1>3, <2>2, <2>3
<1>9. ASSUME NEW z, fields = FieldDiff(row, z)
      PROVE  /\ \A g \in DOMAIN fields : fields[g].after = row[g]
             /\ \A g \in DOMAIN d \ DOMAIN fields : z[g] = row[g]
  <2> DEFINE ch == fields
  <2>1. ch = FieldDiff(row, z)
    BY <1>9
  <2> HIDE DEF ch
  <2>2. /\ \A g \in DOMAIN ch : ch[g].after = row[g]
        /\ \A g \in DOMAIN Described(row) \ DOMAIN ch : z[g] = row[g]
    BY <2>1, DiffIs
  <2> QED
    BY <2>2 DEF ch
<1>8. ASSUME NEW f \in DOMAIN d
      PROVE  \/ ci[f] = row[f]
             \/ /\ p.action # "create" /\ resources[p.id][f] = row[f]
                /\ ci[f] = tx.resources[p.id][f]
  <2>1. f \in RowFields /\ d[f] = row[f]
    BY <1>5
  <2>2. f \in CIFields \ {"updatedAt", "profile"}
    BY <2>1 DEF RowFields, CIFields
  <2>3. CASE p.action = "create"
    <3> DEFINE z == Zero
    <3>1. /\ \A g \in DOMAIN fields : fields[g].after = row[g]
          /\ \A g \in DOMAIN d \ DOMAIN fields : z[g] = row[g]
      <4>1. fields = FieldDiff(row, z)
        BY <1>1, <2>3
      <4> HIDE DEF fields, z, d
      <4> QED
        BY <1>9, <4>1
    <3>2. f \in DOMAIN fields => ci[f] = row[f]
      BY <1>4, <2>1, <3>1
    <3>3. f \notin DOMAIN fields => Zero[f] = row[f] /\ ci[f] = New(row)[f]
      BY <1>4, <2>1, <2>2, <2>3, <3>1
    <3>4. f = "observed" => f \in DOMAIN fields
      <4>1. Zero.observed = None
        BY DEF Zero
      <4> QED
        BY <1>6, <2>1, <3>1, <4>1
    <3>5. f # "observed" => New(row)[f] = row[f]
      BY <2>1 DEF RowFields, New
    <3> QED
      BY <3>2, <3>3, <3>4, <3>5
  <2>4. CASE p.action # "create"
    <3> DEFINE z == resources[p.id]
    <3>1. /\ \A g \in DOMAIN fields : fields[g].after = row[g]
          /\ \A g \in DOMAIN d \ DOMAIN fields : z[g] = row[g]
      <4>1. fields = FieldDiff(row, z)
        BY <1>1, <2>4
      <4> HIDE DEF fields, z, d
      <4> QED
        BY <1>9, <4>1
    <3>2. f \in DOMAIN fields => ci[f] = row[f]
      BY <1>4, <2>1, <3>1
    <3>3. f \notin DOMAIN fields => resources[p.id][f] = row[f] /\ ci[f] = tx.resources[p.id][f]
      BY <1>4, <2>1, <2>2, <2>4, <3>1
    <3> QED
      BY <2>4, <3>2, <3>3
  <2> QED
    BY <2>3, <2>4
<1> QED
  BY <1>4, <1>7, <1>8 DEF HoldsRow

(* A CI that matches a row is a candidate, or a key would not hold after   *)
(* the row.                                                                *)
LEMMA CandidatesSuffice ==
    ASSUME NEW rows, NEW P, NEW ids, ReviewedRun(rows, P, ids),
           IsTable(resources), UniqueKeysHold(resources), NEW i \in 1 .. Len(rows)
    PROVE  Matched(rows[i], ids) = Matched(rows[i], 1 .. Len(resources))
<1> DEFINE row == rows[i]  n0 == Len(resources)  run == Run(rows, P)
           tx == run[i - 1]  t == run[i]  p == P.rows[i]  id == t.id
<1>1. /\ Matched(row, ids) = {k \in ids : MatchesCI(row, resources[k])}
      /\ Matched(row, 1 .. n0) = {k \in 1 .. n0 : MatchesCI(row, resources[k])}
      /\ ids \subseteq 1 .. n0 /\ n0 \in Nat
  BY MatchedIs DEF ReviewedRun, IsTable
<1>2. SUFFICES ASSUME NEW k \in (1 .. n0) \ ids, MatchesCI(row, resources[k])
               PROVE  FALSE
  <2> HIDE DEF row, n0
  <2> QED
    BY <1>1 DEF row, n0
<1>3. Len(rows) \in Nat /\ \A j \in 1 .. Len(rows) : Reviewed(P.rows[j], rows[j], ids)
  BY DEF ReviewedRun
<1>4. /\ i \in Nat \ {0} /\ i \in 0 .. Len(rows) /\ i - 1 \in 0 .. Len(rows)
  BY <1>3
<1>5. TableRun(tx, P, i - 1) /\ tx.ok /\ TableRun(t, P, i) /\ t.ok
  BY <1>4, TableRunHolds
<1>6. t = ApplyRow(tx, row, p)
  BY <1>3, <1>4, RunStep
<1>7. Untouched(P, i, k)
  <2>1. \A j \in 1 .. i : j \in 1 .. Len(rows)
    BY <1>3
  <2>2. \A j \in 1 .. i : P.rows[j].action # "create" => P.rows[j].id \in ids
    <3> SUFFICES ASSUME NEW j \in 1 .. i PROVE P.rows[j].action # "create" => P.rows[j].id \in ids
      OBVIOUS
    <3> DEFINE q == P.rows[j]  r == rows[j]
    <3>1. Reviewed(q, r, ids)
      BY <1>3, <2>1
    <3> HIDE DEF q, r
    <3>2. q.action # "create" => q.id \in ids
      BY <3>1, ReviewedIs
    <3> QED
      BY <3>2 DEF q
  <2> QED
    BY <1>2, <2>2 DEF Untouched
<1>8. /\ t.resources[k] = resources[k] /\ n0 <= Len(tx.resources)
      /\ n0 <= Len(t.resources) /\ UniqueKeysHold(t.resources) /\ IsTable(t.resources)
      /\ IsTable(tx.resources)
      /\ \A j \in 1 .. n0 : tx.resources[j].type = resources[j].type
  BY <1>5, <1>7 DEF TableRun
<1>9. Reviewed(p, row, ids) /\ p = P.rows[i]
  BY <1>3
<1> HIDE DEF run, tx, t, p, row
<1>10. /\ id \in 1 .. Len(t.resources)
       /\ p.action = "create" => id = Len(tx.resources) + 1
       /\ p.action # "create" => id = p.id
       /\ t.resources[id].type = row.type
       /\ \A f \in DOMAIN Described(row) :
            \/ t.resources[id][f] = row[f]
            \/ p.action # "create" /\ resources[p.id][f] = row[f]
  <2>1. HoldsRow(tx, p, row, t)
    BY <1>1, <1>4, <1>5, <1>6, <1>9, RowWritten
  <2> QED
    BY <2>1 DEF HoldsRow
<1>11. p.action # "create" => p.id \in ids /\ resources[p.id].type = row.type
  BY <1>9, ReviewedIs
<1>12. id # k /\ k \in DOMAIN t.resources /\ id \in DOMAIN t.resources
  <2>1. Len(t.resources) \in Nat /\ Len(tx.resources) \in Nat
    BY <1>8 DEF IsTable
  <2>2. DOMAIN t.resources = 1 .. Len(t.resources)
    BY <1>8 DEF IsTable, FunOn
  <2>3. k \in 1 .. Len(t.resources)
    BY <1>1, <1>8, <2>1
  <2> QED
    BY <1>1, <1>8, <1>10, <1>11, <2>1, <2>2, <2>3
<1> DEFINE ci == t.resources[id]
<1>13. /\ <<ci.type, ci.name>> # <<resources[k].type, resources[k].name>>
       /\ ci.aliases \cap resources[k].aliases = {}
       /\ ci.externals \cap resources[k].externals = {}
  BY <1>8, <1>12 DEF UniqueKeysHold
<1>14. p.action # "create" =>
         LET old == resources[p.id]
         IN /\ <<old.type, old.name>> # <<resources[k].type, resources[k].name>>
            /\ old.aliases \cap resources[k].aliases = {}
            /\ old.externals \cap resources[k].externals = {}
  <2>1. DOMAIN resources = 1 .. n0
    BY DEF IsTable, FunOn
  <2> QED
    BY <1>1, <1>11, <2>1 DEF UniqueKeysHold
<1>15. {"name", "aliases", "externals"} \subseteq DOMAIN Described(row)
  BY DescribedNames DEF RowFields
<1>16. CASE row.externals \cap resources[k].externals # {}
  <2>1. ci.externals = row.externals \/ (p.action # "create" /\ resources[p.id].externals = row.externals)
    BY <1>10, <1>15
  <2> QED
    BY <1>13, <1>14, <1>16, <2>1
<1>17. CASE row.aliases \cap resources[k].aliases # {}
  <2>1. ci.aliases = row.aliases \/ (p.action # "create" /\ resources[p.id].aliases = row.aliases)
    BY <1>10, <1>15
  <2> QED
    BY <1>13, <1>14, <1>17, <2>1
<1>18. CASE <<row.type, row.name>> = <<resources[k].type, resources[k].name>>
  <2>1. ci.name = row.name \/ (p.action # "create" /\ resources[p.id].name = row.name)
    BY <1>10, <1>15
  <2> QED
    BY <1>10, <1>11, <1>13, <1>14, <1>18, <2>1
<1> QED
  BY <1>2, <1>16, <1>17, <1>18 DEF MatchesCI
-----------------------------------------------------------------------------
(* The table of CIs keeps its shape and its keys.                          *)

TableInv == IsTable(resources) /\ UniqueKeysHold(resources)

LEMMA TableFacts ==
    ASSUME IsTable(resources)
    PROVE  /\ IDs = 1 .. Len(resources) /\ Len(resources) \in Nat
           /\ FunOn(resources, 1 .. Len(resources))
           /\ \A i \in IDs : FunOn(resources[i], CIFields)
BY DEF IsTable, FunOn, IDs

(* One row replaced.                                                       *)
LEMMA TableEdited ==
    ASSUME IsTable(resources), NEW id \in IDs, NEW ci, FunOn(ci, CIFields),
           resources' = [resources EXCEPT ![id] = ci]
    PROVE  IsTable(resources)' /\ IDs' = IDs
<1> DEFINE n == Len(resources)  new == resources'
<1>1. IDs = 1 .. n /\ FunOn(resources, 1 .. n) /\ \A i \in 1 .. n : FunOn(resources[i], CIFields)
  BY TableFacts
<1>2. FunOn(new, 1 .. n) /\ \A i \in 1 .. n : new[i] = IF i = id THEN ci ELSE resources[i]
  BY <1>1 DEF FunOn
<1> HIDE DEF new
<1>3. IsTable(new) /\ Len(new) = n
  BY <1>1, <1>2, TableWith
<1>4. DOMAIN new = 1 .. n
  BY <1>2 DEF FunOn
<1> QED
  BY <1>1, <1>3, <1>4 DEF new, IDs

(* The identity of the row is kept.                                        *)
LEMMA KeysKept ==
    ASSUME TableInv, NEW id \in IDs, NEW ci,
           \A f \in {"type", "name", "aliases", "externals"} : ci[f] = resources[id][f],
           resources' = [resources EXCEPT ![id] = ci]
    PROVE  UniqueKeysHold(resources)'
<1> DEFINE new == resources'
<1>1. DOMAIN new = IDs /\ \A i \in IDs : new[i] = IF i = id THEN ci ELSE resources[i]
  BY DEF IDs
<1>2. \A i \in IDs : /\ new[i].type = resources[i].type /\ new[i].name = resources[i].name
                     /\ new[i].aliases = resources[i].aliases
                     /\ new[i].externals = resources[i].externals
  BY <1>1
<1> HIDE DEF new
<1>3. UniqueKeysHold(new)
  BY <1>1, <1>2 DEF TableInv, UniqueKeysHold, IDs
<1> QED
  BY <1>3 DEF new

LEMMA TableAppended ==
    ASSUME IsTable(resources), NEW ci, FunOn(ci, CIFields), resources' = Append(resources, ci)
    PROVE  IsTable(resources)' /\ IDs \subseteq IDs' /\ Len(resources') = Len(resources) + 1
<1> DEFINE n == Len(resources)  new == resources'
<1>1. n \in Nat /\ IDs = 1 .. n /\ FunOn(resources, 1 .. n) /\ \A i \in 1 .. n : FunOn(resources[i], CIFields)
  BY TableFacts
<1> HIDE DEF n
<1>2. new = [i \in 1 .. n + 1 |-> IF i <= n THEN resources[i] ELSE ci] /\ Len(new) = n + 1
  BY <1>1, AppendedIs
<1> HIDE DEF new
<1>3. ASSUME NEW i \in 1 .. n + 1 PROVE FunOn(new[i], CIFields)
  <2>1. CASE i <= n
    <3>1. i \in 1 .. n /\ new[i] = resources[i]
      BY <1>1, <1>2, <2>1
    <3> QED
      BY <1>1, <3>1
  <2>2. CASE ~(i <= n)
    BY <1>2, <2>2
  <2> QED
    BY <2>1, <2>2
<1>4. n + 1 \in Nat /\ FunOn(new, 1 .. n + 1) /\ DOMAIN new = 1 .. n + 1
  BY <1>1, <1>2 DEF FunOn
<1>5. IsTable(new)
  BY <1>2, <1>3, <1>4 DEF IsTable
<1>6. \A i \in 1 .. n : i \in 1 .. n + 1
  BY <1>1
<1> QED
  BY <1>1, <1>2, <1>4, <1>5, <1>6 DEF new, n, IDs

LEMMA NewIsCI ==
    ASSUME NEW r
    PROVE  FunOn(New(r), CIFields)
BY DEF New, FunOn, CIFields, RowFields

LEMMA EditedIs ==
    ASSUME NEW ci, FunOn(ci, CIFields), NEW input
    PROVE  /\ FunOn(Edited(ci, input), CIFields)
           /\ \A f \in CIFields : Edited(ci, input)[f] = IF f \in DOMAIN input THEN input[f] ELSE ci[f]
BY DEF Edited, FunOn

LEMMA TouchedIs ==
    ASSUME NEW ci, FunOn(ci, CIFields)
    PROVE  /\ FunOn([ci EXCEPT !.updatedAt = second], CIFields)
           /\ \A f \in CIFields \ {"updatedAt"} : [ci EXCEPT !.updatedAt = second][f] = ci[f]
BY DEF FunOn, CIFields

LEMMA UpdatedIs ==
    ASSUME NEW ci, FunOn(ci, CIFields), NEW input
    PROVE  FunOn(updateResourceTx(ci, input), CIFields)
<1> DEFINE base == [ci EXCEPT !.updatedAt = second]
<1>1. FunOn(base, CIFields)
  BY TouchedIs
<1> HIDE DEF base
<1>2. FunOn(Edited(base, input), CIFields)
  BY <1>1, EditedIs
<1> QED
  BY <1>2 DEF updateResourceTx, base

-----------------------------------------------------------------------------
(* What a handler carries from its reads to its transaction.               *)

(* A reviewed preview is what its fingerprint says.                        *)
PreviewSound(rows, preview) ==
    preview.rows = [i \in DOMAIN rows |-> SnapshotRow(rows[i], preview.fingerprint[2])]

SnapshotItem(r, snap) ==
    [conflict |-> FALSE, fits |-> TRUE,
     diff |-> Changes(snap, [f \in DOMAIN r.set |-> r.set[f]]),
     label |-> <<snap.label, r.label>>]

BulkSound(r, preview) ==
    preview.items = [id \in r.ids |-> SnapshotItem(r, preview.fingerprint[3][id])]

ReadyAs(at, r, m, ids) ==
    /\ r \in Requests
    /\ at = "write" /\ r.op = "patch" => r.id \in ids /\ DOMAIN m \subseteq ResourceFields
    /\ at = "write" /\ r.op = "profile" => r.id \in ids
    /\ at = "write" /\ r.op = "relate" => r.from \in ids /\ r.to \in ids
    /\ at \in {"review", "confirm"} /\ r.op = "ingest" => PreviewSound(r.rows, m.preview)
    /\ at = "confirm" /\ r.op = "ingest" => m.candidates \subseteq ids
    /\ at = "confirm" /\ r.op = "bulk" => BulkSound(r, m.preview)

HandlersInv ==
    /\ FunOn(pc, Clients) /\ FunOn(req, Clients) /\ FunOn(memo, Clients) /\ FunOn(answer, Clients)
    /\ \A c \in Clients : pc[c] # "idle" =>
         answer[c] = None /\ ReadyAs(pc[c], req[c], memo[c], IDs)

LEMMA ReadyGrows ==
    ASSUME NEW at, NEW r, NEW m, NEW ids, NEW more, ids \subseteq more, ReadyAs(at, r, m, ids)
    PROVE  ReadyAs(at, r, m, more)
BY DEF ReadyAs

(* A request ends; others may find more CIs.                               *)
LEMMA AnswerReady ==
    ASSUME HandlersInv, NEW c \in Clients, NEW outcome, Answer(c, outcome),
           req' = [req EXCEPT ![c] = req'[c]], IDs \subseteq IDs'
    PROVE  HandlersInv'
<1>1. /\ FunOn(pc, Clients) /\ FunOn(req, Clients) /\ FunOn(memo, Clients) /\ FunOn(answer, Clients)
  BY DEF HandlersInv
<1>2. /\ pc' = [pc EXCEPT ![c] = "idle"] /\ memo' = [memo EXCEPT ![c] = None]
      /\ answer' = [answer EXCEPT ![c] = outcome]
  BY DEF Answer
<1>3. FunOn(pc', Clients) /\ FunOn(req', Clients) /\ FunOn(memo', Clients) /\ FunOn(answer', Clients)
  BY <1>1, <1>2 DEF FunOn
<1>4. ASSUME NEW d \in Clients, pc'[d] # "idle"
      PROVE  answer'[d] = None /\ ReadyAs(pc'[d], req'[d], memo'[d], IDs')
  <2>1. d # c
    BY <1>1, <1>2, <1>4 DEF FunOn
  <2>2. pc'[d] = pc[d] /\ req'[d] = req[d] /\ memo'[d] = memo[d] /\ answer'[d] = answer[d]
    BY <1>1, <1>2, <2>1 DEF FunOn
  <2>3. answer[d] = None /\ ReadyAs(pc[d], req[d], memo[d], IDs)
    BY <1>4, <2>2 DEF HandlersInv
  <2> DEFINE at == pc[d]  r == req[d]  m == memo[d]  ids == IDs  more == IDs'
  <2>4. ReadyAs(at, r, m, ids) /\ ids \subseteq more
    BY <2>3
  <2> HIDE DEF at, r, m, ids, more
  <2>5. ReadyAs(at, r, m, more)
    BY <2>4, ReadyGrows
  <2> QED
    BY <2>2, <2>3, <2>5 DEF at, r, m, more
<1> QED
  BY <1>3, <1>4 DEF HandlersInv

(* A request has read and waits.                                           *)
LEMMA ProceedReady ==
    ASSUME HandlersInv, NEW c \in Clients, NEW next, NEW read, Proceed(c, next, read),
           req' = [req EXCEPT ![c] = req'[c]], ReadyAs(next, req'[c], read, IDs)
    PROVE  HandlersInv'
<1>1. /\ FunOn(pc, Clients) /\ FunOn(req, Clients) /\ FunOn(memo, Clients) /\ FunOn(answer, Clients)
  BY DEF HandlersInv
<1>2. /\ pc' = [pc EXCEPT ![c] = next] /\ memo' = [memo EXCEPT ![c] = read]
      /\ answer' = [answer EXCEPT ![c] = None] /\ IDs' = IDs
  BY DEF Proceed, store, IDs
<1>3. FunOn(pc', Clients) /\ FunOn(req', Clients) /\ FunOn(memo', Clients) /\ FunOn(answer', Clients)
  BY <1>1, <1>2 DEF FunOn
<1>4. ASSUME NEW d \in Clients, pc'[d] # "idle"
      PROVE  answer'[d] = None /\ ReadyAs(pc'[d], req'[d], memo'[d], IDs')
  <2>1. CASE d = c
    <3>1. pc'[c] = next /\ memo'[c] = read /\ answer'[c] = None
      BY <1>1, <1>2 DEF FunOn
    <3> QED
      BY <1>2, <2>1, <3>1
  <2>2. CASE d # c
    <3>1. pc'[d] = pc[d] /\ req'[d] = req[d] /\ memo'[d] = memo[d] /\ answer'[d] = answer[d]
      BY <1>1, <1>2, <2>2 DEF FunOn
    <3>2. answer[d] = None /\ ReadyAs(pc[d], req[d], memo[d], IDs)
      BY <1>4, <3>1 DEF HandlersInv
    <3> QED
      BY <1>2, <3>1, <3>2
  <2> QED
    BY <2>1, <2>2
<1> QED
  BY <1>3, <1>4 DEF HandlersInv

LEMMA BeganWith ==
    ASSUME HandlersInv, NEW c \in Clients, NEW r, Begin(c, r)
    PROVE  req'[c] = r /\ req' = [req EXCEPT ![c] = req'[c]]
BY DEF HandlersInv, FunOn, Begin

LEMMA ContinuesWith ==
    ASSUME HandlersInv, NEW c \in Clients, UNCHANGED req
    PROVE  req'[c] = req[c] /\ req' = [req EXCEPT ![c] = req'[c]]
BY DEF HandlersInv, FunOn

LEMMA IngestPreviewSound ==
    ASSUME NEW rows, NEW ids
    PROVE  PreviewSound(rows, PreviewIngestion(rows, ids))
<1> DEFINE P == PreviewIngestion(rows, ids)
           D == UNION {Matched(rows[i], ids) : i \in DOMAIN rows}
           snaps == [id \in D |-> IngestionSnapshot(id)]
<1>1. /\ P.rows = [i \in DOMAIN rows |-> PreviewRow(rows[i], ids)]
      /\ P.fingerprint = <<rows, snaps>>
  BY DEF PreviewIngestion
<1>2. P.fingerprint[2] = snaps
  BY <1>1
<1>3. ASSUME NEW i \in DOMAIN rows
      PROVE  PreviewRow(rows[i], ids) = SnapshotRow(rows[i], snaps)
  <2> DEFINE row == rows[i]
  <2>1. Matched(row, ids) \subseteq D
    OBVIOUS
  <2>2. D \subseteq ids
    BY MatchedIs
  <2>3. snaps = [id \in D |-> IngestionSnapshot(id)]
    OBVIOUS
  <2> HIDE DEF row, D, snaps
  <2>4. PreviewRow(row, ids) = SnapshotRow(row, snaps)
    BY <2>1, <2>2, <2>3, PreviewFromSnapshots
  <2> QED
    BY <2>4 DEF row
<1> HIDE DEF P, snaps
<1>4. PreviewSound(rows, P)
  BY <1>1, <1>2, <1>3 DEF PreviewSound
<1> QED
  BY <1>4 DEF P

LEMMA BulkPreviewSound ==
    ASSUME NEW r, NEW expected, BulkConfirmable(PreviewBulkResourceMutation(r, expected))
    PROVE  BulkSound(r, PreviewBulkResourceMutation(r, expected))
<1> DEFINE P == PreviewBulkResourceMutation(r, expected)
           snaps == [id \in r.ids |-> bulkResourceSnapshot(id)]
<1>1. /\ P.items = [id \in r.ids |-> BulkItem(id, r, expected)]
      /\ P.fingerprint = <<r, expected, snaps>>
  BY DEF PreviewBulkResourceMutation
<1>2. P.fingerprint[3] = snaps
  BY <1>1
<1>3. ASSUME NEW id \in r.ids
      PROVE  BulkItem(id, r, expected) = SnapshotItem(r, snaps[id])
  <2> DEFINE snap == snaps[id]  item == BulkItem(id, r, expected)
             conflict == bulkResourceSnapshot(id).version # expected[id]
             fits == LabelFits(r.label, resources[id].label) /\ ~resources[id].archived
             diff == Changes(snap, [f \in DOMAIN r.set |-> r.set[f]])
             label == <<snap.label, r.label>>
  <2>1. snap = bulkResourceSnapshot(id) /\ snap.label = resources[id].label
    BY DEF bulkResourceSnapshot
  <2>2. item = [conflict |-> conflict, fits |-> fits, diff |-> diff, label |-> label]
    <3>1. item = [conflict |-> bulkResourceSnapshot(id).version # expected[id],
                  fits |-> LabelFits(r.label, resources[id].label) /\ ~resources[id].archived,
                  diff |-> Changes(bulkResourceSnapshot(id), [f \in DOMAIN r.set |-> r.set[f]]),
                  label |-> <<resources[id].label, r.label>>]
      BY DEF BulkItem
    <3> QED
      BY <2>1, <3>1, Zenon
  <2>3. item.fits /\ ~item.conflict
    BY <1>1 DEF BulkConfirmable
  <2> HIDE DEF item, diff, label
  <2>4. item.fits = fits /\ item.conflict = conflict
    BY <2>2
  <2>5. conflict = FALSE /\ fits = TRUE
    BY <2>3, <2>4
  <2>6. item = [conflict |-> FALSE, fits |-> TRUE, diff |-> diff, label |-> label]
    BY <2>2, <2>5
  <2> QED
    BY <2>6 DEF item, diff, label, SnapshotItem
<1> HIDE DEF P, snaps
<1>4. BulkSound(r, P)
  BY <1>1, <1>2, <1>3 DEF BulkSound
<1> QED
  BY <1>4 DEF P

LEMMA ValidatedNames ==
    ASSUME NEW existing, NEW set, DOMAIN set \subseteq ResourceFields \cup {"externalId"}
    PROVE  DOMAIN ValidateResourceUpdate(existing, set) \subseteq ResourceFields
<1>1. "externals" \in ResourceFields
  BY DEF ResourceFields
<1>2. CASE "externalId" \notin DOMAIN set
  BY <1>2 DEF ValidateResourceUpdate
<1>3. CASE "externalId" \in DOMAIN set
  BY <1>1, <1>3 DEF ValidateResourceUpdate
<1> QED
  BY <1>2, <1>3

LEMMA BulkNames ==
    ASSUME NEW r, DOMAIN r.set \subseteq {"name", "display", "externalId"}, NEW id
    PROVE  DOMAIN validatedBulkResourceUpdate(id, r) \subseteq ResourceFields
<1> DEFINE set == [f \in DOMAIN r.set \cup (IF r.label.kind = "none" THEN {} ELSE {"label"}) |->
                    IF f = "label" THEN r.label.value ELSE r.set[f]]
           existing == resources[id]
<1>1. DOMAIN set \subseteq ResourceFields \cup {"externalId"}
  BY DEF ResourceFields
<1>2. validatedBulkResourceUpdate(id, r) = ValidateResourceUpdate(existing, set)
  BY DEF validatedBulkResourceUpdate
<1> HIDE DEF set, existing
<1> QED
  BY <1>1, <1>2, ValidatedNames

-----------------------------------------------------------------------------
(* The invariant that holds whatever the batches are.                      *)

Base == TableInv /\ HandlersInv

LEMMA BaseInit ==
    ASSUME Init
    PROVE  Base
<1>1. \A i \in DOMAIN Seed : FunOn(Seed[i], CIFields)
  <2>1. Seed \in Seq(Resource)
    BY InventoryAssumption
  <2>2. \A ci \in Resource : FunOn(ci, CIFields)
    BY DEF Resource, FunOn, CIFields, RowFields
  <2> QED
    BY <2>1, <2>2
<1>2. IsTable(Seed)
  <2>1. Len(Seed) \in Nat /\ DOMAIN Seed = 1 .. Len(Seed) /\ FunOn(Seed, 1 .. Len(Seed))
    BY InventoryAssumption DEF InventoryAssumption, FunOn
  <2> QED
    BY <1>1, <2>1 DEF IsTable
<1>3. TableInv
  BY <1>2, SeedAssumption DEF Init, TableInv
<1>4. HandlersInv
  BY DEF Init, HandlersInv, FunOn
<1> QED
  BY <1>3, <1>4 DEF Base

LEMMA SameTable ==
    ASSUME TableInv, UNCHANGED resources
    PROVE  TableInv' /\ IDs' = IDs
BY DEF TableInv, IDs, IsTable, FunOn, UniqueKeysHold

LEMMA RefuseBase ==
    ASSUME Base, NEW c \in Clients, NEW outcome, Refuse(c, outcome),
           req' = [req EXCEPT ![c] = req'[c]]
    PROVE  Base'
<1>1. Answer(c, outcome) /\ UNCHANGED resources
  BY DEF Refuse, store
<1>2. TableInv' /\ IDs' = IDs
  BY <1>1, SameTable DEF Base
<1>3. HandlersInv'
  BY <1>1, <1>2, AnswerReady DEF Base
<1> QED
  BY <1>2, <1>3 DEF Base

LEMMA ProceedBase ==
    ASSUME Base, NEW c \in Clients, NEW next, NEW read, Proceed(c, next, read),
           req' = [req EXCEPT ![c] = req'[c]], ReadyAs(next, req'[c], read, IDs)
    PROVE  Base'
<1>1. UNCHANGED resources
  BY DEF Proceed, store
<1>2. TableInv'
  BY <1>1, SameTable DEF Base
<1>3. HandlersInv'
  BY ProceedReady DEF Base
<1> QED
  BY <1>2, <1>3 DEF Base

LEMMA ReadBase ==
    ASSUME Base, NEW c \in Clients, NEW r \in Requests, Begin(c, r), NEW input,
           ReadUnlessArchived(c, r, input),
           r.id \in IDs => ReadyAs("write", r, input, IDs)
    PROVE  Base'
<1>1. req'[c] = r /\ req' = [req EXCEPT ![c] = req'[c]]
  BY BeganWith DEF Base
<1>2. \/ Refuse(c, "not_found") \/ Refuse(c, "archived")
      \/ r.id \in IDs /\ Proceed(c, "write", input)
  BY DEF ReadUnlessArchived
<1>3. CASE Refuse(c, "not_found") \/ Refuse(c, "archived")
  BY <1>1, <1>3, RefuseBase
<1>4. CASE r.id \in IDs /\ Proceed(c, "write", input)
  BY <1>1, <1>4, ProceedBase
<1> QED
  BY <1>2, <1>3, <1>4

LEMMA PatchReadBase ==
    ASSUME Base, NEW c \in Clients, NEW r \in Requests, ValidateUpdate(c, r)
    PROVE  Base'
<1> DEFINE existing == resources[r.id]  set == r.set
           input == ValidateResourceUpdate(existing, set)
<1>1. r.op = "patch" /\ Begin(c, r) /\ ReadUnlessArchived(c, r, input)
  BY DEF ValidateUpdate
<1>2. DOMAIN set \subseteq ResourceFields \cup {"externalId"}
  BY <1>1, RequestsAssumption
<1>3. DOMAIN input \subseteq ResourceFields
  <2> HIDE DEF existing, set
  <2> QED
    BY <1>2, ValidatedNames
<1> HIDE DEF input
<1>4. r.id \in IDs => ReadyAs("write", r, input, IDs)
  BY <1>1, <1>3 DEF ReadyAs
<1> QED
  BY <1>1, <1>4, ReadBase

LEMMA ProfileReadBase ==
    ASSUME Base, NEW c \in Clients, NEW r \in Requests, InventoryProfileTarget(c, r)
    PROVE  Base'
<1> DEFINE input == r.fields
<1>1. /\ r.op = "profile" /\ Begin(c, r)
      /\ Refuse(c, "ok") \/ ReadUnlessArchived(c, r, input)
  BY DEF InventoryProfileTarget
<1> HIDE DEF input
<1>2. req' = [req EXCEPT ![c] = req'[c]]
  BY <1>1, BeganWith DEF Base
<1>3. r.id \in IDs => ReadyAs("write", r, input, IDs)
  BY <1>1 DEF ReadyAs
<1> QED
  BY <1>1, <1>2, <1>3, ReadBase, RefuseBase

LEMMA RelationReadBase ==
    ASSUME Base, NEW c \in Clients, NEW r \in Requests, CheckRelation(c, r) \/ GetRelation(c, r)
    PROVE  Base'
<1>1. Begin(c, r)
  BY DEF CheckRelation, GetRelation
<1>2. req'[c] = r /\ req' = [req EXCEPT ![c] = req'[c]]
  BY <1>1, BeganWith DEF Base
<1>3. CASE CheckRelation(c, r)
  <2>1. \/ Refuse(c, "not_found") \/ Refuse(c, "archived") \/ Refuse(c, "validation")
        \/ r.op = "relate" /\ r.from \in IDs /\ r.to \in IDs /\ Proceed(c, "write", None)
    BY <1>3 DEF CheckRelation
  <2>2. CASE r.op = "relate" /\ r.from \in IDs /\ r.to \in IDs /\ Proceed(c, "write", None)
    <3>1. ReadyAs("write", r, None, IDs)
      BY <2>2 DEF ReadyAs
    <3> QED
      BY <1>2, <2>2, <3>1, ProceedBase
  <2> QED
    BY <1>2, <2>1, <2>2, RefuseBase
<1>4. CASE GetRelation(c, r)
  <2>1. r.op = "unrelate" /\ (Refuse(c, "not_found") \/ \E relation : Proceed(c, "write", relation))
    BY <1>4 DEF GetRelation
  <2>2. ASSUME NEW relation, Proceed(c, "write", relation) PROVE Base'
    <3>1. ReadyAs("write", r, relation, IDs)
      BY <2>1 DEF ReadyAs
    <3> QED
      BY <1>2, <2>2, <3>1, ProceedBase
  <2> QED
    BY <1>2, <2>1, <2>2, RefuseBase
<1> QED
  BY <1>3, <1>4

LEMMA BulkReadBase ==
    ASSUME Base, NEW c \in Clients, NEW r \in Requests, PreviewBulk(c, r)
    PROVE  Base'
<1> DEFINE expected == [id \in r.ids |-> resources[id].updatedAt]
           preview == PreviewBulkResourceMutation(r, expected)
           read == [expected |-> expected, preview |-> preview]
<1>1. /\ r.op = "bulk" /\ Begin(c, r)
      /\ \/ Refuse(c, "conflict")
         \/ BulkConfirmable(preview) /\ Proceed(c, "confirm", read)
  BY DEF PreviewBulk
<1>2. req'[c] = r /\ req' = [req EXCEPT ![c] = req'[c]]
  BY <1>1, BeganWith DEF Base
<1>3. CASE Refuse(c, "conflict")
  BY <1>2, <1>3, RefuseBase
<1>4. CASE BulkConfirmable(preview) /\ Proceed(c, "confirm", read)
  <2>1. BulkSound(r, preview)
    <3> HIDE DEF expected
    <3> QED
      BY <1>4, BulkPreviewSound
  <2>2. read.preview = preview
    OBVIOUS
  <2> HIDE DEF read, preview
  <2>3. ReadyAs("confirm", r, read, IDs)
    BY <1>1, <2>1, <2>2 DEF ReadyAs
  <2> QED
    BY <1>2, <1>4, <2>3, ProceedBase
<1> QED
  BY <1>1, <1>3, <1>4

LEMMA IngestReadBase ==
    ASSUME Base, NEW c \in Clients, NEW r \in Requests, PreviewAndReview(c, r)
    PROVE  Base'
<1> DEFINE rows == r.rows  preview == PreviewIngestion(rows, IDs)  read == [preview |-> preview]
<1>1. /\ r.op = "ingest" /\ Begin(c, r)
      /\ Refuse(c, "conflict") \/ Proceed(c, "review", read)
  BY DEF PreviewAndReview
<1>2. req'[c] = r /\ req' = [req EXCEPT ![c] = req'[c]]
  BY <1>1, BeganWith DEF Base
<1>3. PreviewSound(rows, preview)
  <2> DEFINE ids == IDs
  <2> HIDE DEF rows, ids
  <2>1. PreviewSound(rows, PreviewIngestion(rows, ids))
    BY IngestPreviewSound
  <2> QED
    BY <2>1 DEF ids
<1>4. read.preview = preview
  OBVIOUS
<1> HIDE DEF read, preview
<1>5. ReadyAs("review", r, read, IDs)
  BY <1>1, <1>3, <1>4 DEF ReadyAs
<1> QED
  BY <1>1, <1>2, <1>5, ProceedBase, RefuseBase

LEMMA CandidatesBase ==
    ASSUME Base, NEW c \in Clients, FindIngestionCandidates(c)
    PROVE  Base'
<1> DEFINE r == req[c]
           candidates == UNION {Matched(r.rows[i], IDs) : i \in DOMAIN r.rows}
           read == [preview |-> memo[c].preview, candidates |-> candidates]
<1>1. pc[c] = "review" /\ r.op = "ingest" /\ UNCHANGED req /\ Proceed(c, "confirm", read)
  BY DEF FindIngestionCandidates, Continue
<1>2. req'[c] = r /\ req' = [req EXCEPT ![c] = req'[c]]
  BY <1>1, ContinuesWith DEF Base
<1>3. ReadyAs("review", r, memo[c], IDs)
  BY <1>1 DEF Base, HandlersInv
<1>4. candidates \subseteq IDs
  <2> DEFINE rs == r.rows  ids == IDs
  <2>1. \A i \in DOMAIN rs : Matched(rs[i], ids) \subseteq ids
    <3> HIDE DEF rs, ids
    <3> QED
      BY MatchedIs
  <2> QED
    BY <2>1
<1>5. read.preview = memo[c].preview /\ read.candidates = candidates
  OBVIOUS
<1> HIDE DEF read, candidates
<1>6. ReadyAs("confirm", r, read, IDs)
  BY <1>1, <1>3, <1>4, <1>5 DEF ReadyAs
<1> QED
  BY <1>1, <1>2, <1>6, ProceedBase

LEMMA WriteBase ==
    ASSUME Base, NEW c \in Clients, NEW outcome, Answer(c, outcome),
           req' = [req EXCEPT ![c] = req'[c]], TableInv', IDs \subseteq IDs'
    PROVE  Base'
BY AnswerReady DEF Base

(* One row is replaced, under checked keys or with the keys it had.        *)
LEMMA EditBase ==
    ASSUME Base, NEW c \in Clients, NEW outcome, Answer(c, outcome),
           req' = [req EXCEPT ![c] = req'[c]],
           NEW id \in IDs, NEW ci, FunOn(ci, CIFields), resources' = [resources EXCEPT ![id] = ci],
           \/ UniqueKeysHold(resources')
           \/ \A f \in {"type", "name", "aliases", "externals"} : ci[f] = resources[id][f]
    PROVE  Base'
<1>1. TableInv
  BY DEF Base
<1>2. IsTable(resources)' /\ IDs' = IDs
  BY <1>1, TableEdited DEF TableInv
<1>3. UniqueKeysHold(resources)'
  <2>1. CASE \A f \in {"type", "name", "aliases", "externals"} : ci[f] = resources[id][f]
    BY <1>1, <2>1, KeysKept
  <2> QED
    BY <2>1
<1>4. TableInv'
  BY <1>2, <1>3 DEF TableInv
<1> QED
  BY <1>2, <1>4, WriteBase

LEMMA CIsAre ==
    ASSUME TableInv, NEW id \in IDs
    PROVE  FunOn(resources[id], CIFields)
BY TableFacts DEF TableInv

LEMMA CreateBase ==
    ASSUME Base, NEW c \in Clients, NEW r \in Requests, Create(c, r)
    PROVE  Base'
<1> DEFINE ci == New(r)
<1>1. /\ Begin(c, r)
      /\ \/ Refuse(c, "conflict")
         \/ /\ UniqueKeysHold(Append(resources, ci)) /\ resources' = Append(resources, ci)
            /\ Answer(c, "ok")
  BY DEF Create
<1>2. FunOn(ci, CIFields)
  BY NewIsCI
<1> HIDE DEF ci
<1>3. req' = [req EXCEPT ![c] = req'[c]]
  BY <1>1, BeganWith DEF Base
<1>4. CASE /\ UniqueKeysHold(Append(resources, ci)) /\ resources' = Append(resources, ci)
           /\ Answer(c, "ok")
  <2>1. IsTable(resources)' /\ IDs \subseteq IDs'
    BY <1>2, <1>4, TableAppended DEF Base, TableInv
  <2>2. UniqueKeysHold(resources)'
    <3>1. UniqueKeysHold(resources')
      BY <1>4
    <3> QED
      BY <3>1
  <2>3. TableInv'
    BY <2>1, <2>2 DEF TableInv
  <2> QED
    BY <1>3, <1>4, <2>1, <2>3, WriteBase
<1> QED
  BY <1>1, <1>3, <1>4, RefuseBase

LEMMA UpdateBase ==
    ASSUME Base, NEW c \in Clients, UpdateResourceWithAudit(c)
    PROVE  Base'
<1> DEFINE id == req[c].id  before == resources[id]  ci == updateResourceTx(before, memo[c])
           updated == [resources EXCEPT ![id] = ci]
<1>1. /\ pc[c] = "write" /\ req[c].op = "patch" /\ UNCHANGED req
      /\ \/ Refuse(c, "conflict")
         \/ UniqueKeysHold(updated) /\ resources' = updated /\ Answer(c, "ok")
  BY DEF UpdateResourceWithAudit, Continue
<1>2. req' = [req EXCEPT ![c] = req'[c]]
  BY <1>1, ContinuesWith DEF Base
<1>3. id \in IDs
  BY <1>1 DEF Base, HandlersInv, ReadyAs
<1>4. FunOn(ci, CIFields)
  <2>1. FunOn(before, CIFields)
    BY <1>3, CIsAre DEF Base
  <2> HIDE DEF before
  <2> QED
    BY <2>1, UpdatedIs
<1> HIDE DEF ci, id
<1>5. CASE UniqueKeysHold(updated) /\ resources' = updated /\ Answer(c, "ok")
  <2>1. UniqueKeysHold(resources')
    BY <1>5
  <2> QED
    BY <1>2, <1>3, <1>4, <1>5, <2>1, EditBase
<1> QED
  BY <1>1, <1>2, <1>5, RefuseBase

LEMMA ProfiledIs ==
    ASSUME NEW ci, FunOn(ci, CIFields), NEW profile
    PROVE  /\ FunOn([ci EXCEPT !.profile = profile], CIFields)
           /\ \A f \in CIFields \ {"profile"} : [ci EXCEPT !.profile = profile][f] = ci[f]
           /\ [ci EXCEPT !.profile = profile].profile = profile
BY DEF FunOn, CIFields

LEMMA ProfileBase ==
    ASSUME Base, NEW c \in Clients, MutateProfileWithAudit(c)
    PROVE  Base'
<1> DEFINE id == req[c].id  before == resources[id]  after == ProfileAfter(req[c], before.profile)
           ci == [before EXCEPT !.profile = after]
<1>1. /\ pc[c] = "write" /\ req[c].op = "profile" /\ UNCHANGED req /\ Answer(c, "ok")
      /\ resources' = [resources EXCEPT ![id].profile = after]
  BY DEF MutateProfileWithAudit, Continue
<1>2. req' = [req EXCEPT ![c] = req'[c]]
  BY <1>1, ContinuesWith DEF Base
<1>3. id \in IDs
  BY <1>1 DEF Base, HandlersInv, ReadyAs
<1> HIDE DEF after
<1>4. resources' = [resources EXCEPT ![id] = ci]
  BY <1>1
<1>5. /\ FunOn(ci, CIFields)
      /\ \A f \in {"type", "name", "aliases", "externals"} : ci[f] = before[f]
  <2>1. FunOn(before, CIFields)
    BY <1>3, CIsAre DEF Base
  <2>2. {"type", "name", "aliases", "externals"} \subseteq CIFields \ {"profile"}
    BY DEF CIFields, RowFields
  <2> HIDE DEF before
  <2>3. FunOn(ci, CIFields) /\ \A f \in CIFields \ {"profile"} : ci[f] = before[f]
    BY <2>1, ProfiledIs
  <2> HIDE DEF ci
  <2> QED
    BY <2>2, <2>3
<1> HIDE DEF ci, id
<1> QED
  BY <1>1, <1>2, <1>3, <1>4, <1>5, EditBase

LEMMA ArchivedIs ==
    ASSUME NEW ci, FunOn(ci, CIFields), NEW to
    PROVE  /\ FunOn(ArchiveResource(ci, to), CIFields)
           /\ \A f \in CIFields \ {"archived", "updatedAt"} : ArchiveResource(ci, to)[f] = ci[f]
BY DEF FunOn, CIFields, ArchiveResource

LEMMA ArchiveBase ==
    ASSUME Base, NEW c \in Clients, NEW r \in Requests, Archive(c, r)
    PROVE  Base'
<1> DEFINE id == r.id  before == resources[id]  to == r.to  ci == ArchiveResource(before, to)
<1>1. /\ Begin(c, r)
      /\ \/ Refuse(c, "not_found") \/ Refuse(c, "ok")
         \/ id \in IDs /\ resources' = [resources EXCEPT ![id] = ci] /\ Answer(c, "ok")
  BY DEF Archive
<1>2. req' = [req EXCEPT ![c] = req'[c]]
  BY <1>1, BeganWith DEF Base
<1>3. CASE id \in IDs /\ resources' = [resources EXCEPT ![id] = ci] /\ Answer(c, "ok")
  <2>1. FunOn(before, CIFields)
    BY <1>3, CIsAre DEF Base
  <2>2. {"type", "name", "aliases", "externals"} \subseteq CIFields \ {"archived", "updatedAt"}
    BY DEF CIFields, RowFields
  <2>3. FunOn(ci, CIFields) /\ \A f \in CIFields \ {"archived", "updatedAt"} : ci[f] = before[f]
    <3> HIDE DEF before, to
    <3> QED
      BY <2>1, ArchivedIs
  <2> HIDE DEF ci, id
  <2>4. \A f \in {"type", "name", "aliases", "externals"} : ci[f] = resources[id][f]
    BY <2>2, <2>3
  <2> QED
    BY <1>2, <1>3, <2>3, <2>4, EditBase
<1> QED
  BY <1>1, <1>2, <1>3, RefuseBase

LEMMA OverriddenIs ==
    ASSUME NEW ci, FunOn(ci, CIFields), NEW override
    PROVE  /\ FunOn([ci EXCEPT !.override = override], CIFields)
           /\ \A f \in CIFields \ {"override"} : [ci EXCEPT !.override = override][f] = ci[f]
           /\ [ci EXCEPT !.override = override].override = override
BY DEF FunOn, CIFields

LEMMA OverrideBase ==
    ASSUME Base, NEW c \in Clients, NEW r \in Requests,
           SetManualOverride(c, r) \/ ClearManualOverride(c, r)
    PROVE  Base'
<1> DEFINE id == r.id  before == resources[id]
           change(o) == /\ id \in IDs /\ Answer(c, "ok")
                        /\ resources' = [resources EXCEPT ![id] = [before EXCEPT !.override = o]]
<1>1. /\ Begin(c, r)
      /\ \/ Refuse(c, "not_found") \/ Refuse(c, "conflict") \/ \E o : change(o)
  <2>1. CASE SetManualOverride(c, r)
    <3> DEFINE o == [value |-> r.value, version |-> NextVersion(r.expected)]
    <3>1. /\ Begin(c, r)
          /\ \/ Refuse(c, "not_found") \/ Refuse(c, "conflict")
             \/ /\ id \in IDs /\ Answer(c, "ok")
                /\ resources' = [resources EXCEPT ![id].override = o]
      BY <2>1 DEF SetManualOverride
    <3> HIDE DEF o
    <3>2. id \in IDs => [resources EXCEPT ![id].override = o] = [resources EXCEPT ![id] = [before EXCEPT !.override = o]]
      OBVIOUS
    <3> HIDE DEF before
    <3> QED
      BY <3>1, <3>2
  <2>2. CASE ClearManualOverride(c, r)
    <3>1. /\ Begin(c, r)
          /\ \/ Refuse(c, "not_found") \/ Refuse(c, "conflict")
             \/ /\ id \in IDs /\ Answer(c, "ok")
                /\ resources' = [resources EXCEPT ![id].override = None]
      BY <2>2 DEF ClearManualOverride
    <3>2. id \in IDs => [resources EXCEPT ![id].override = None] = [resources EXCEPT ![id] = [before EXCEPT !.override = None]]
      OBVIOUS
    <3> HIDE DEF before
    <3> QED
      BY <3>1, <3>2
  <2> QED
    BY <2>1, <2>2
<1>2. req' = [req EXCEPT ![c] = req'[c]]
  BY <1>1, BeganWith DEF Base
<1>3. ASSUME NEW o, change(o) PROVE Base'
  <2> DEFINE ci == [before EXCEPT !.override = o]
  <2>1. id \in IDs /\ resources' = [resources EXCEPT ![id] = ci] /\ Answer(c, "ok")
    BY <1>3
  <2>2. FunOn(before, CIFields)
    BY <1>3, CIsAre DEF Base
  <2>3. {"type", "name", "aliases", "externals"} \subseteq CIFields \ {"override"}
    BY DEF CIFields, RowFields
  <2>4. FunOn(ci, CIFields) /\ \A f \in CIFields \ {"override"} : ci[f] = before[f]
    <3> HIDE DEF before
    <3> QED
      BY <2>2, OverriddenIs
  <2> HIDE DEF ci, id
  <2>5. \A f \in {"type", "name", "aliases", "externals"} : ci[f] = resources[id][f]
    BY <2>3, <2>4
  <2> QED
    BY <1>2, <2>1, <2>4, <2>5, EditBase
<1> HIDE DEF change
<1> QED
  BY <1>1, <1>2, <1>3, RefuseBase

LEMMA RelationBase ==
    ASSUME Base, NEW c \in Clients, CreateRelationWithAudit(c) \/ DeleteRelationWithAudit(c)
    PROVE  Base'
<1>1. UNCHANGED req /\ UNCHANGED resources /\ \E outcome : Answer(c, outcome)
  BY DEF CreateRelationWithAudit, DeleteRelationWithAudit, Continue, Refuse, store
<1>2. req' = [req EXCEPT ![c] = req'[c]]
  BY <1>1, ContinuesWith DEF Base
<1>3. TableInv' /\ IDs' = IDs
  BY <1>1, SameTable DEF Base
<1> QED
  BY <1>1, <1>2, <1>3, WriteBase

LEMMA FailBase ==
    ASSUME Base, NEW c \in Clients, Fail(c)
    PROVE  Base'
<1>1. Refuse(c, "error") /\ UNCHANGED req
  BY DEF Fail
<1>2. req' = [req EXCEPT ![c] = req'[c]]
  BY <1>1, ContinuesWith DEF Base
<1> QED
  BY <1>1, <1>2, RefuseBase

LEMMA UnchangedBase ==
    ASSUME Base, UNCHANGED <<resources, pc, req, memo, answer>>
    PROVE  Base'
<1>1. TableInv' /\ IDs' = IDs
  BY SameTable DEF Base
<1>2. HandlersInv'
  BY <1>1 DEF Base, HandlersInv, FunOn
<1> QED
  BY <1>1, <1>2 DEF Base

LEMMA BulkBase ==
    ASSUME Base, NEW c \in Clients, ConfirmBulkResourceMutation(c)
    PROVE  Base'
<1> DEFINE r == req[c]
           row(id) == IF id \notin r.ids THEN resources[id]
                      ELSE updateResourceTx(resources[id], validatedBulkResourceUpdate(id, r))
           updated == [id \in IDs |-> row(id)]
<1>1. /\ pc[c] = "confirm" /\ r.op = "bulk" /\ UNCHANGED req
      /\ \/ Refuse(c, "conflict")
         \/ UniqueKeysHold(updated) /\ resources' = updated /\ Answer(c, "ok")
  BY DEF ConfirmBulkResourceMutation, Continue
<1>2. req' = [req EXCEPT ![c] = req'[c]]
  BY <1>1, ContinuesWith DEF Base
<1>3. CASE UniqueKeysHold(updated) /\ resources' = updated /\ Answer(c, "ok")
  <2>1. ASSUME NEW id \in IDs PROVE FunOn(row(id), CIFields)
    <3> DEFINE ci == resources[id]  input == validatedBulkResourceUpdate(id, r)
    <3>1. FunOn(ci, CIFields)
      BY CIsAre DEF Base
    <3>2. FunOn(updateResourceTx(ci, input), CIFields)
      <4> HIDE DEF ci, input
      <4> QED
        BY <3>1, UpdatedIs
    <3> QED
      BY <3>1, <3>2
  <2> DEFINE n == Len(resources)  new == updated
  <2>2. IDs = 1 .. n /\ IsTable(resources)
    BY TableFacts DEF Base, TableInv
  <2> HIDE DEF row, n
  <2>3. FunOn(new, 1 .. n) /\ DOMAIN new = IDs /\ \A i \in 1 .. n : new[i] = row(i)
    BY <2>2 DEF FunOn
  <2> HIDE DEF updated
  <2>4. IsTable(new)
    BY <2>1, <2>2, <2>3, TableWith DEF n
  <2>5. TableInv' /\ IDs' = IDs
    BY <1>3, <2>3, <2>4 DEF TableInv, IDs, new
  <2> QED
    BY <1>2, <1>3, <2>5, WriteBase
<1> HIDE DEF updated
<1> QED
  BY <1>1, <1>2, <1>3, RefuseBase

(* A confirmation that commits: its rows, preview and last state.          *)
Commits(c, rows, ids, P, tx) ==
    /\ rows = req[c].rows /\ ids = memo[c].candidates
    /\ P = PreviewIngestion(rows, ids)
    /\ P.fingerprint = memo[c].preview.fingerprint
    /\ ReviewedRun(rows, P, ids)
    /\ tx = Run(rows, P)[Len(rows)]
    /\ resources' = tx.resources /\ relations' = tx.relations /\ trail' = tx.trail
    /\ Answer(c, "ok")

LEMMA ConfirmCases ==
    ASSUME Base, NEW c \in Clients, ConfirmIngestion(c)
    PROVE  /\ pc[c] = "confirm" /\ req[c].op = "ingest" /\ UNCHANGED req
           /\ \/ \E o \in {"conflict", "stale", "error"} : Refuse(c, o)
              \/ \E rows, ids, P, tx : Commits(c, rows, ids, P, tx)
<1> DEFINE rows == req[c].rows  ids == memo[c].candidates
           P == PreviewIngestion(rows, ids)  tx == Applied(rows, P)
<1>1. /\ pc[c] = "confirm" /\ req[c].op = "ingest" /\ UNCHANGED req
      /\ \/ \E o \in {"conflict", "stale", "error"} : Refuse(c, o)
         \/ /\ Confirmable(P) /\ P.fingerprint = memo[c].preview.fingerprint /\ tx.ok
            /\ resources' = tx.resources /\ relations' = tx.relations /\ trail' = tx.trail
            /\ Answer(c, "ok")
  BY DEF ConfirmIngestion, Continue
<1>2. CASE /\ Confirmable(P) /\ P.fingerprint = memo[c].preview.fingerprint /\ tx.ok
           /\ resources' = tx.resources /\ relations' = tx.relations /\ trail' = tx.trail
           /\ Answer(c, "ok")
  <2>1. ReadyAs("confirm", req[c], memo[c], IDs)
    BY <1>1 DEF Base, HandlersInv
  <2>2. ids \subseteq 1 .. Len(resources)
    BY <1>1, <2>1, TableFacts DEF ReadyAs, Base, TableInv
  <2>3. ParsedIngestion(rows)
    BY <1>1, <2>1, InventoryAssumption DEF ReadyAs
  <2>4. Len(rows) \in Nat /\ DOMAIN rows = 1 .. Len(rows)
    BY <2>3 DEF ParsedIngestion
  <2> HIDE DEF rows, ids
  <2>5. \A i \in 1 .. Len(rows) : Reviewed(P.rows[i], rows[i], ids)
    BY <1>2, <2>4, ConfirmableRows
  <2> HIDE DEF P
  <2>6. tx = Run(rows, P)[Len(rows)]
    BY AppliedIsRun
  <2>7. ReviewedRun(rows, P, ids)
    BY <1>2, <2>2, <2>4, <2>5, <2>6 DEF ReviewedRun
  <2>8. Commits(c, rows, ids, P, tx)
    BY <1>2, <2>6, <2>7 DEF Commits, rows, ids, P
  <2> QED
    BY <1>1, <2>8
<1> QED
  BY <1>1, <1>2

LEMMA IngestBase ==
    ASSUME Base, NEW c \in Clients, ConfirmIngestion(c)
    PROVE  Base'
<1>1. /\ UNCHANGED req
      /\ \/ \E o \in {"conflict", "stale", "error"} : Refuse(c, o)
         \/ \E rows, ids, P, tx : Commits(c, rows, ids, P, tx)
  BY ConfirmCases
<1>2. req' = [req EXCEPT ![c] = req'[c]]
  BY <1>1, ContinuesWith DEF Base
<1>3. ASSUME NEW rows, NEW ids, NEW P, NEW tx, Commits(c, rows, ids, P, tx) PROVE Base'
  <2>1. ReviewedRun(rows, P, ids) /\ tx = Run(rows, P)[Len(rows)] /\ resources' = tx.resources
        /\ Answer(c, "ok")
    BY <1>3 DEF Commits
  <2>2. Len(rows) \in 0 .. Len(rows)
    BY <2>1 DEF ReviewedRun
  <2>3. TableRun(tx, P, Len(rows))
    BY <2>1, <2>2, TableRunHolds DEF Base, TableInv
  <2>4. TableInv' /\ Len(resources) <= Len(resources')
    BY <2>1, <2>3 DEF TableRun, TableInv
  <2>5. IDs \subseteq IDs'
    <3>1. IDs = 1 .. Len(resources) /\ Len(resources) \in Nat
      BY TableFacts DEF Base, TableInv
    <3>2. IsTable(resources')
      BY <2>4 DEF TableInv
    <3>3. DOMAIN resources' = 1 .. Len(resources') /\ Len(resources') \in Nat
      <4> DEFINE new == resources'
      <4>1. IsTable(new)
        BY <3>2
      <4> HIDE DEF new
      <4>2. DOMAIN new = 1 .. Len(new) /\ Len(new) \in Nat
        BY <4>1 DEF IsTable, FunOn
      <4> QED
        BY <4>2 DEF new
    <3> QED
      BY <2>4, <3>1, <3>3 DEF IDs
  <2> QED
    BY <1>2, <2>1, <2>4, <2>5, WriteBase
<1> QED
  BY <1>1, <1>2, <1>3, RefuseBase

LEMMA BaseStep ==
    ASSUME Base, [Next]_vars
    PROVE  Base'
<1>1. CASE UNCHANGED vars \/ Tick
  BY <1>1, UnchangedBase DEF vars, store, Tick
<1>2. ASSUME NEW c \in Clients, NEW r \in Requests,
             \/ Create(c, r) \/ Archive(c, r)
             \/ ValidateUpdate(c, r) \/ InventoryProfileTarget(c, r)
             \/ CheckRelation(c, r) \/ GetRelation(c, r)
             \/ SetManualOverride(c, r) \/ ClearManualOverride(c, r)
             \/ PreviewBulk(c, r) \/ PreviewAndReview(c, r)
      PROVE  Base'
  BY <1>2, CreateBase, ArchiveBase, PatchReadBase, ProfileReadBase, RelationReadBase,
     OverrideBase, BulkReadBase, IngestReadBase
<1>3. ASSUME NEW c \in Clients,
             \/ UpdateResourceWithAudit(c) \/ MutateProfileWithAudit(c)
             \/ CreateRelationWithAudit(c) \/ DeleteRelationWithAudit(c)
             \/ ConfirmBulkResourceMutation(c)
             \/ FindIngestionCandidates(c) \/ ConfirmIngestion(c)
             \/ Fail(c)
      PROVE  Base'
  BY <1>3, UpdateBase, ProfileBase, RelationBase, BulkBase, CandidatesBase, IngestBase, FailBase
<1> QED
  BY <1>1, <1>2, <1>3 DEF Next

-----------------------------------------------------------------------------
(* What is committed is what was reviewed.                                 *)

(* Who is told ok while it waits for its confirmation has just confirmed.  *)
LEMMA ConfirmsItself ==
    ASSUME Base, [Next]_vars, NEW c \in Clients, pc[c] = "confirm", answer'[c] = "ok"
    PROVE  ConfirmBulkResourceMutation(c) \/ ConfirmIngestion(c)
<1>1. answer[c] = None /\ answer[c] # "ok" /\ FunOn(answer, Clients)
  BY SentinelsAssumption DEF Base, HandlersInv
<1>2. CASE UNCHANGED vars \/ Tick
  BY <1>1, <1>2 DEF vars, Tick
<1>3. ASSUME NEW d \in Clients, NEW r \in Requests,
             \/ Create(d, r) \/ Archive(d, r)
             \/ ValidateUpdate(d, r) \/ InventoryProfileTarget(d, r)
             \/ CheckRelation(d, r) \/ GetRelation(d, r)
             \/ SetManualOverride(d, r) \/ ClearManualOverride(d, r)
             \/ PreviewBulk(d, r) \/ PreviewAndReview(d, r)
      PROVE  FALSE
  <2>1. pc[d] = "idle"
    BY <1>3 DEF Create, Archive, ValidateUpdate, InventoryProfileTarget, CheckRelation, GetRelation,
                SetManualOverride, ClearManualOverride, PreviewBulk, PreviewAndReview, Begin
  <2>2. \E x : answer' = [answer EXCEPT ![d] = x]
    <3>1. \/ \E o : Answer(d, o)
          \/ \E next, read : Proceed(d, next, read)
      <4>1. CASE Create(d, r) \/ Archive(d, r)
        BY <4>1 DEF Create, Archive, Refuse
      <4>2. CASE ValidateUpdate(d, r) \/ InventoryProfileTarget(d, r)
        BY <4>2 DEF ValidateUpdate, InventoryProfileTarget, ReadUnlessArchived, Refuse
      <4>3. CASE CheckRelation(d, r) \/ GetRelation(d, r)
        BY <4>3 DEF CheckRelation, GetRelation, Refuse
      <4>4. CASE SetManualOverride(d, r) \/ ClearManualOverride(d, r)
        BY <4>4 DEF SetManualOverride, ClearManualOverride, Refuse
      <4>5. CASE PreviewBulk(d, r) \/ PreviewAndReview(d, r)
        BY <4>5 DEF PreviewBulk, PreviewAndReview, Refuse
      <4> QED
        BY <1>3, <4>1, <4>2, <4>3, <4>4, <4>5
    <3> QED
      BY <3>1 DEF Answer, Proceed
  <2>3. d # c
    BY <2>1
  <2> QED
    BY <1>1, <2>2, <2>3 DEF FunOn
<1>4. ASSUME NEW d \in Clients,
             \/ UpdateResourceWithAudit(d) \/ MutateProfileWithAudit(d)
             \/ CreateRelationWithAudit(d) \/ DeleteRelationWithAudit(d)
             \/ FindIngestionCandidates(d)
      PROVE  FALSE
  <2>1. pc[d] \in {"write", "review"}
    BY <1>4 DEF UpdateResourceWithAudit, MutateProfileWithAudit, CreateRelationWithAudit,
                DeleteRelationWithAudit, FindIngestionCandidates, Continue
  <2>2. \E x : answer' = [answer EXCEPT ![d] = x]
    BY <1>4 DEF UpdateResourceWithAudit, MutateProfileWithAudit, CreateRelationWithAudit,
                DeleteRelationWithAudit, FindIngestionCandidates, Refuse, Answer, Proceed
  <2>3. d # c
    BY <2>1
  <2> QED
    BY <1>1, <2>2, <2>3 DEF FunOn
<1>5. ASSUME NEW d \in Clients, Fail(d) PROVE FALSE
  BY <1>1, <1>5 DEF Fail, Refuse, Answer, FunOn
<1>6. ASSUME NEW d \in Clients, ConfirmBulkResourceMutation(d) \/ ConfirmIngestion(d)
      PROVE  d = c
  <2>1. \E x : answer' = [answer EXCEPT ![d] = x]
    BY <1>6 DEF ConfirmBulkResourceMutation, ConfirmIngestion, Refuse, Answer
  <2> QED
    BY <1>1, <2>1 DEF FunOn
<1> QED
  BY <1>2, <1>3, <1>4, <1>5, <1>6 DEF Next

LEMMA OkCommits ==
    ASSUME Base, [Next]_vars, NEW c \in Clients, Confirms(c, "ingest")
    PROVE  \E rows, ids, P, tx : Commits(c, rows, ids, P, tx)
<1>1. pc[c] = "confirm" /\ req[c].op = "ingest" /\ answer'[c] = "ok"
  BY DEF Confirms
<1>2. ConfirmIngestion(c)
  <2>1. ConfirmBulkResourceMutation(c) => req[c].op = "bulk"
    BY DEF ConfirmBulkResourceMutation, Continue
  <2> QED
    BY <1>1, <2>1, ConfirmsItself
<1>3. \A o \in {"conflict", "stale", "error"} : ~Refuse(c, o)
  BY <1>1 DEF Refuse, Answer, Base, HandlersInv, FunOn
<1> QED
  BY <1>2, <1>3, ConfirmCases

LEMMA ReviewedIngestion ==
    ASSUME Base, [Next]_vars, NEW c \in Clients, Confirms(c, "ingest")
    PROVE  memo[c].preview.rows = PreviewIngestion(req[c].rows, IDs).rows
<1>1. PICK rows, ids, P, tx : Commits(c, rows, ids, P, tx)
  BY OkCommits
<1> DEFINE reviewed == memo[c].preview  all == IDs
<1>2. /\ rows = req[c].rows /\ ids = memo[c].candidates /\ P = PreviewIngestion(rows, ids)
      /\ P.fingerprint = reviewed.fingerprint /\ ReviewedRun(rows, P, ids)
  BY <1>1 DEF Commits
<1>3. PreviewSound(rows, reviewed)
  BY <1>2 DEF Confirms, Base, HandlersInv, ReadyAs
<1>4. PreviewSound(rows, P)
  BY <1>2, IngestPreviewSound
<1>5. all = 1 .. Len(resources) /\ TableInv /\ DOMAIN rows = 1 .. Len(rows)
  BY <1>2, TableFacts DEF Base, TableInv, ReviewedRun
<1> HIDE DEF reviewed, all
<1>6. reviewed.rows = P.rows
  BY <1>2, <1>3, <1>4 DEF PreviewSound
<1>7. /\ P.rows = [i \in DOMAIN rows |-> PreviewRow(rows[i], ids)]
      /\ PreviewIngestion(rows, all).rows = [i \in DOMAIN rows |-> PreviewRow(rows[i], all)]
  BY <1>2 DEF PreviewIngestion
<1>8. ASSUME NEW i \in DOMAIN rows
      PROVE  PreviewRow(rows[i], ids) = PreviewRow(rows[i], all)
  <2> DEFINE row == rows[i]
  <2>1. Matched(row, ids) = Matched(row, all)
    BY <1>2, <1>5, CandidatesSuffice DEF TableInv
  <2> HIDE DEF row
  <2>2. PreviewRow(row, ids) = PreviewRow(row, all)
    BY <2>1, PreviewByMatched
  <2> QED
    BY <2>2 DEF row
<1>9. reviewed.rows = PreviewIngestion(rows, all).rows
  BY <1>6, <1>7, <1>8
<1> QED
  BY <1>2, <1>9 DEF reviewed, all

LEMMA ReviewedBulk ==
    ASSUME Base, [Next]_vars, NEW c \in Clients, Confirms(c, "bulk")
    PROVE  memo[c].preview.items = PreviewBulkResourceMutation(req[c], memo[c].expected).items
<1> DEFINE r == req[c]  expected == memo[c].expected  reviewed == memo[c].preview
           P == PreviewBulkResourceMutation(r, expected)
<1>1. pc[c] = "confirm" /\ r.op = "bulk" /\ answer'[c] = "ok"
  BY DEF Confirms
<1>2. ConfirmBulkResourceMutation(c)
  <2>1. ConfirmIngestion(c) => r.op = "ingest"
    BY DEF ConfirmIngestion, Continue
  <2> QED
    BY <1>1, <2>1, ConfirmsItself
<1>3. ~Refuse(c, "conflict")
  BY <1>1 DEF Refuse, Answer, Base, HandlersInv, FunOn
<1>4. BulkConfirmable(P) /\ P.fingerprint = reviewed.fingerprint
  BY <1>2, <1>3 DEF ConfirmBulkResourceMutation
<1>5. BulkSound(r, reviewed)
  BY <1>1 DEF Base, HandlersInv, ReadyAs
<1> HIDE DEF r, expected, reviewed
<1>6. BulkSound(r, P)
  BY <1>4, BulkPreviewSound
<1> HIDE DEF P
<1>7. reviewed.items = P.items
  BY <1>4, <1>5, <1>6 DEF BulkSound
<1> QED
  BY <1>7 DEF r, expected, reviewed, P

(* A confirmation of an ingestion or of a bulk mutation commits what its   *)
(* reviewer saw: the preview over the whole inventory at the commit is the *)
(* reviewed one, whatever was written between review, lookup and locks.    *)
THEOREM ConfirmedAsReviewed == Spec => ReviewedIsApplied
<1> DEFINE Same ==
        \A c \in Clients :
            /\ Confirms(c, "ingest") =>
                  memo[c].preview.rows = PreviewIngestion(req[c].rows, IDs).rows
            /\ Confirms(c, "bulk") =>
                  memo[c].preview.items = PreviewBulkResourceMutation(req[c], memo[c].expected).items
<1>1. Init => Base
  BY BaseInit
<1>2. Base /\ [Next]_vars => Base'
  BY BaseStep
<1>3. Base /\ [Next]_vars => Same
  BY ReviewedIngestion, ReviewedBulk
<1> QED
  BY <1>1, <1>2, <1>3, PTL DEF Spec, ReviewedIsApplied
-----------------------------------------------------------------------------
(* The audit events of a row replay to what it wrote.                      *)

(* What is read back of a profile that was stored.                         *)
LEMMA StoredIs ==
    ASSUME NEW q \in Submitted \cup {None}, NEW k \in ProfileKeys
    PROVE  Get(Stored(q), k) = IF q = None THEN None ELSE OrBlank(Get(q, k))
<1>1. CASE q = None
  BY <1>1 DEF Stored, Get
<1>2. CASE q # None
  <2> DEFINE st == [j \in ProfileKeys |-> OrBlank(Get(q, j))]
  <2>1. PICK keys \in SUBSET ProfileKeys : q \in [keys -> Values \cup {Blank}]
    BY <1>2 DEF Submitted
  <2>2. ASSUME NEW j \in ProfileKeys PROVE OrBlank(Get(q, j)) \in Values \cup {Blank}
    BY <1>2, <2>1 DEF OrBlank, Get
  <2>3. st \in Profile
    BY <2>2 DEF Profile
  <2>4. st # None
    BY <2>3, SentinelsAssumption
  <2>5. Stored(q) = st
    BY <1>2 DEF Stored, upsertProfileTx
  <2>6. st[k] = OrBlank(Get(q, k)) /\ k \in DOMAIN st
    OBVIOUS
  <2> HIDE DEF st
  <2>7. Get(st, k) = st[k]
    BY <2>4, <2>6 DEF Get
  <2> QED
    BY <1>2, <2>5, <2>6, <2>7
<1> QED
  BY <1>1, <1>2

LEMMA StoredReads ==
    ASSUME NEW q \in Submitted \cup {None}, NEW k \in ProfileKeys
    PROVE  OrBlank(Get(Stored(q), k)) = OrBlank(Get(q, k))
<1>1. Get(Stored(q), k) = IF q = None THEN None ELSE OrBlank(Get(q, k))
  BY StoredIs
<1>2. q = None => Get(q, k) = None
  BY DEF Get
<1>3. \A x : OrBlank(OrBlank(x)) = OrBlank(x)
  BY DEF OrBlank
<1> QED
  BY <1>1, <1>2, <1>3

(* The CI as it is before its first event.                                 *)
Nothing ==
    [f \in CIFields |-> IF f \in RowFields \cup {"profile"} THEN Zero[f]
                        ELSE IF f = "archived" THEN FALSE ELSE None]

LEMMA NothingTold == Tells(Unregistered, Nothing, {}) /\ Nothing.profile = None
<1> DEFINE e == Unregistered  ci == Nothing
           fs == [f \in Facets |-> IF f \in RowFields THEN Zero[f]
                                   ELSE IF f = "archived" THEN FALSE ELSE None]
           ps == [k \in ProfileKeys |-> Blank]
<1>1. e = [facets |-> fs, profile |-> ps, links |-> {}, gap |-> FALSE, mixed |-> FALSE]
  BY DEF Unregistered, Untold
<1>2. ci.override = None
  BY DEF Nothing, CIFields, RowFields
<1>3. ci.profile = None
  BY DEF Nothing, CIFields, Zero
<1>4. ASSUME NEW f \in Told PROVE fs[f] = FacetsOf(ci)[f]
  <2>1. f \in Facets /\ f \in CIFields /\ f # "profile"
    BY FacetNames
  <2>2. FacetsOf(ci)[f] = ci[f]
    BY <1>2, <2>1 DEF FacetsOf
  <2>3. ci[f] = IF f \in RowFields THEN Zero[f] ELSE IF f = "archived" THEN FALSE ELSE None
    BY <2>1 DEF Nothing
  <2> QED
    BY <2>1, <2>2, <2>3
<1>5. ps = ProfileOf(ci)
  BY <1>3 DEF ProfileOf, Get, OrBlank
<1> HIDE DEF ci
<1>6. FunOn(fs, Facets) /\ FunOn(ps, ProfileKeys)
  BY DEF FunOn
<1> HIDE DEF fs, ps, e
<1>7. /\ FunOn(e, EntryFields) /\ e.facets = fs /\ e.profile = ps /\ e.links = {}
  BY <1>1 DEF FunOn, EntryFields
<1>8. IsEntry(e)
  BY <1>6, <1>7 DEF IsEntry
<1>9. Tells(e, ci, {})
  BY <1>4, <1>5, <1>7, <1>8 DEF Tells
<1> QED
  BY <1>3, <1>9 DEF e, ci

(* The profile of a CI a row wrote, and the event about it.                *)
LEMMA RowSaysProfile ==
    ASSUME NEW row, row.profile \in Submitted \cup {None}, NEW ci, NEW new, NEW d,
           d = diffMaps(ci.profile, row.profile),
           new.profile = IF DOMAIN d # {} THEN Stored(row.profile) ELSE ci.profile
    PROVE  SayProfile(ci, auditMapChanges(d), new)
<1> DEFINE q == row.profile  old == ci.profile
<1>1. DOMAIN d = {j \in ProfileKeys : Get(old, j) # Get(q, j)}
  BY DEF diffMaps
<1>2. ASSUME NEW k \in ProfileKeys PROVE OrBlank(Get(new.profile, k)) = OrBlank(Get(q, k))
  <2>1. CASE DOMAIN d # {}
    BY <2>1, StoredReads
  <2>2. CASE DOMAIN d = {}
    <3>1. Get(old, k) = Get(q, k)
      BY <1>1, <2>2
    <3> QED
      BY <2>2, <3>1
  <2> QED
    BY <2>1, <2>2
<1> HIDE DEF q
<1>3. SayProfile(ci, auditMapChanges(diffMaps(ci.profile, q)), new)
  BY <1>2, ProfileSays
<1> QED
  BY <1>3 DEF q

(* The facets a row wrote over those of a CI, whatever they were before.   *)
LEMMA RowSaysFacets ==
    ASSUME NEW ci, NEW new, NEW ch, DOMAIN ch \subseteq RowFields,
           \A f \in DOMAIN ch : new[f] = ch[f].after,
           \A f \in Told \ DOMAIN ch : new[f] = ci[f]
    PROVE  SayFacets(ci, ch, new)
<1>1. "override" \notin DOMAIN ch /\ "override" \in Told
  BY FacetNames DEF RowFields
<1>2. new.override = ci.override
  BY <1>1
<1>3. ASSUME NEW f \in Told
      PROVE  FacetsOf(new)[f] = IF f \in DOMAIN ch THEN ch[f].after ELSE FacetsOf(ci)[f]
  <2>1. f \in Facets
    BY FacetNames
  <2>2. CASE f = "override"
    BY <1>1, <1>2, <2>1, <2>2 DEF FacetsOf
  <2>3. CASE f # "override"
    <3>1. FacetsOf(new)[f] = new[f] /\ FacetsOf(ci)[f] = ci[f]
      BY <2>1, <2>3 DEF FacetsOf
    <3> QED
      BY <3>1
  <2> QED
    BY <2>2, <2>3
<1> QED
  BY <1>3 DEF SayFacets

(* The first event of an ingested CI gives the CI as it is inserted.       *)
LEMMA CreateEntry ==
    ASSUME NEW row, row.profile \in Submitted \cup {None}, NEW diff,
           diff.fields = FieldDiff(row, Zero), diff.profile = diffMaps(None, row.profile)
    PROVE  /\ FunOn(Edited(New(row), Written(row, diff)), CIFields)
           /\ Tells(sourceIngestionAuditChanges(Unregistered, diff),
                    Edited(New(row), Written(row, diff)), {})
<1> DEFINE ch == diff.fields  pd == diff.profile  w == Written(row, diff)  d == Described(row)
           new == New(row)  ci == Edited(new, w)  z == Zero
<1>1. /\ \A f \in DOMAIN ch : f \in DOMAIN d /\ ch[f].after = row[f]
      /\ DOMAIN ch \subseteq RowFields
      /\ \A f \in DOMAIN d \ DOMAIN ch : z[f] = row[f]
  <2>1. ch = FieldDiff(row, z)
    OBVIOUS
  <2> HIDE DEF ch, z
  <2> QED
    BY <2>1, DiffIs
<1>2. /\ \A f \in RowFields \ {"observed"} : f \in DOMAIN d
      /\ "observed" \in DOMAIN d <=> row.observed # None
  BY DescribedNames
<1>3. /\ DOMAIN w \subseteq RowFields \cup {"profile"}
      /\ \A f \in RowFields : f \in DOMAIN w <=> f \in DOMAIN ch
      /\ \A f \in DOMAIN ch : w[f] = ch[f].after
      /\ "profile" \in DOMAIN w <=> DOMAIN pd # {}
      /\ "profile" \in DOMAIN w => w.profile = Stored(row.profile)
  <2> HIDE DEF w
  <2> QED
    BY <1>1, WrittenNames DEF w
<1>4. FunOn(new, CIFields)
  BY NewIsCI
<1>5. FunOn(ci, CIFields) /\ \A f \in CIFields : ci[f] = IF f \in DOMAIN w THEN w[f] ELSE new[f]
  <2> HIDE DEF new, w
  <2> QED
    BY <1>4, EditedIs
<1>6. /\ \A f \in RowFields \ {"observed"} : new[f] = row[f]
      /\ new.observed = None /\ new.label = None /\ new.override = None
      /\ new.profile = Stored(row.profile)
  BY DEF New, RowFields
<1>7. z.observed = None
  BY DEF Zero
<1>8. /\ \A f \in RowFields : Nothing[f] = z[f]
      /\ Nothing.label = None /\ Nothing.override = None
  BY DEF Nothing, CIFields, RowFields
<1> HIDE DEF ch, pd, w, d, z, new, ci
<1>9. \A f \in DOMAIN ch : ci[f] = ch[f].after
  BY <1>1, <1>3, <1>5 DEF CIFields
<1>10. ASSUME NEW f \in Told \ DOMAIN ch PROVE ci[f] = Nothing[f]
  <2>1. f \in CIFields /\ f # "profile"
    BY FacetNames
  <2>2. CASE f \in RowFields \ {"observed"}
    <3>1. z[f] = row[f] /\ f \notin DOMAIN w
      BY <1>1, <1>2, <1>3, <2>2
    <3> QED
      BY <1>5, <1>6, <1>8, <2>1, <2>2, <3>1
  <2>3. CASE f = "observed"
    <3>1. f \in RowFields /\ f \notin DOMAIN w
      BY <1>3, <2>3 DEF RowFields
    <3> QED
      BY <1>5, <1>6, <1>7, <1>8, <2>1, <2>3, <3>1
  <2>4. CASE f \notin RowFields
    <3>1. f = "label" \/ f = "override"
      BY <2>4, FacetNames DEF RowFields
    <3>2. f \notin DOMAIN w
      BY <1>3, <2>1, <2>4
    <3> QED
      BY <1>5, <1>6, <1>8, <2>1, <3>1, <3>2
  <2> QED
    BY <2>2, <2>3, <2>4
<1>11. SayFacets(Nothing, ch, ci)
  <2> DEFINE none == Nothing
  <2>1. \A f \in Told \ DOMAIN ch : ci[f] = none[f]
    BY <1>10
  <2> HIDE DEF none
  <2>2. SayFacets(none, ch, ci)
    BY <1>1, <1>9, <2>1, RowSaysFacets
  <2> QED
    BY <2>2 DEF none
<1>12. ci.profile = Stored(row.profile)
  BY <1>3, <1>5, <1>6 DEF CIFields
<1>13. SayProfile(Nothing, auditMapChanges(pd), ci)
  <2> DEFINE none == Nothing  q == row.profile
  <2>1. none.profile = None /\ pd = diffMaps(none.profile, q)
    BY NothingTold DEF pd
  <2> HIDE DEF none
  <2>2. \A k \in ProfileKeys : OrBlank(Get(ci.profile, k)) = OrBlank(Get(q, k))
    BY <1>12, StoredReads
  <2> HIDE DEF q
  <2>3. SayProfile(none, auditMapChanges(diffMaps(none.profile, q)), ci)
    BY <2>2, ProfileSays
  <2> QED
    BY <2>1, <2>3 DEF none
<1>14. Tells(Replay(Unregistered, ch, auditMapChanges(pd)), ci, {})
  <2> DEFINE e == Unregistered  none == Nothing  pch == auditMapChanges(pd)
  <2>1. Tells(e, none, {}) /\ SayFacets(none, ch, ci) /\ SayProfile(none, pch, ci)
    BY <1>11, <1>13, NothingTold
  <2> HIDE DEF e, none, pch
  <2>2. Tells(Replay(e, ch, pch), ci, {})
    BY <2>1, EventTold
  <2> QED
    BY <2>2 DEF e, pch
<1> QED
  BY <1>5, <1>14 DEF sourceIngestionAuditChanges, ch, pd, ci, new, w

LEMMA RowConsistent ==
    ASSUME NEW tx, FunOn(tx, TxFields), tx.ok, Consistent(tx.resources, tx.relations, tx.trail),
           NEW row, row.profile \in Submitted \cup {None}, NEW ids, NEW p, Reviewed(p, row, ids),
           p.action # "create" =>
               /\ p.id \in 1 .. Len(tx.resources)
               /\ tx.trail[p.id].mixed \/ tx.resources[p.id].profile = resources[p.id].profile,
           NEW t, t = ApplyRow(tx, row, p), t.ok
    PROVE  Consistent(t.resources, t.relations, t.trail)
<1> DEFINE cis == tx.resources  rels == tx.relations  log == tx.trail  n == Len(cis)
           diff == p.diff  w == Written(row, diff)
<1>1. PICK a, m : RowDone(tx, row, p, a, m, t)
  BY RowSteps
<1>2. FieldsDone(tx, row, p, a) /\ RemoveDone(a, p.diff.removed, m) /\ AddDone(m, p.diff.added, t)
  BY <1>1 DEF RowDone
<1>3. n \in Nat /\ Consistent(cis, rels, log)
  BY DEF Consistent, IsTable
<1>4. /\ DOMAIN diff.fields \subseteq RowFields
      /\ p.action = "create" => /\ diff.fields = FieldDiff(row, Zero)
                                /\ diff.profile = diffMaps(None, row.profile)
      /\ p.action # "create" => diff.profile = diffMaps(resources[p.id].profile, row.profile)
  BY ReviewedIs
<1>5. Consistent(a.resources, rels, a.trail) /\ a.id \in 1 .. Len(a.resources) /\ a.relations = rels
  <2>1. CASE p.action = "create"
    <3> DEFINE ci == Edited(New(row), w)
               entry == sourceIngestionAuditChanges(Unregistered, diff)
    <3>1. /\ a.id = n + 1 /\ a.resources = Append(cis, ci) /\ a.trail = Append(log, entry)
          /\ a.relations = rels
      BY <1>2, <2>1 DEF FieldsDone
    <3>2. FunOn(ci, CIFields) /\ Tells(entry, ci, {})
      BY <1>4, <2>1, CreateEntry
    <3> HIDE DEF ci, entry, cis, rels, log, n
    <3>4. Consistent(Append(cis, ci), rels, Append(log, entry)) /\ Len(Append(cis, ci)) = Len(cis) + 1
      BY <1>3, <3>2, AppendOne
    <3>5. n = Len(cis) /\ n + 1 \in 1 .. n + 1
      BY <1>3 DEF n
    <3> QED
      BY <3>1, <3>4, <3>5
  <2>2. CASE p.action # "create"
    <3> DEFINE id == p.id  ci == cis[id]  ch == diff.fields  pd == diff.profile
               pch == auditMapChanges(pd)
    <3>1. /\ id \in 1 .. n
          /\ log[id].mixed \/ ci.profile = resources[id].profile
      BY <2>2
    <3>2. /\ a.id = id /\ a.relations = rels
          /\ \E base \in Stamped(ci) : a.resources = [cis EXCEPT ![id] = Edited(base, w)]
          /\ a.trail = [log EXCEPT ![id] = Replay(log[id], ch, pch)]
      BY <1>2, <2>2 DEF FieldsDone, sourceIngestionAuditChanges
    <3>3. PICK base \in Stamped(ci) : a.resources = [cis EXCEPT ![id] = Edited(base, w)]
      BY <3>2
    <3>4. FunOn(ci, CIFields)
      BY <1>3, <3>1 DEF Consistent, IsTable
    <3>5. FunOn(base, CIFields) /\ \A f \in CIFields \ {"updatedAt"} : base[f] = ci[f]
      <4> HIDE DEF ci
      <4> QED
        BY <3>3, <3>4, StampedIs
    <3> DEFINE new == Edited(base, w)
    <3>6. FunOn(new, CIFields) /\ \A f \in CIFields : new[f] = IF f \in DOMAIN w THEN w[f] ELSE base[f]
      <4> HIDE DEF w
      <4> QED
        BY <3>5, EditedIs
    <3>7. /\ DOMAIN w \subseteq RowFields \cup {"profile"}
          /\ \A f \in RowFields : f \in DOMAIN w <=> f \in DOMAIN ch
          /\ \A f \in DOMAIN ch : w[f] = ch[f].after
          /\ "profile" \in DOMAIN w <=> DOMAIN pd # {}
          /\ "profile" \in DOMAIN w => w.profile = Stored(row.profile)
      <4> HIDE DEF w
      <4> QED
        BY <1>4, WrittenNames DEF w
    <3>8. pd = diffMaps(resources[id].profile, row.profile)
      BY <1>4, <2>2
    <3> HIDE DEF id, cis, rels, log, w, n, ci, ch, pd, pch, new, diff
    <3>9. SayFacets(ci, ch, new)
      <4>1. DOMAIN ch \subseteq RowFields
        BY <1>4 DEF ch
      <4>2. \A f \in DOMAIN ch : new[f] = ch[f].after
        BY <3>6, <3>7, <4>1 DEF CIFields
      <4>3. \A f \in Told \ DOMAIN ch : new[f] = ci[f]
        BY <3>5, <3>6, <3>7, FacetNames
      <4> QED
        BY <4>1, <4>2, <4>3, RowSaysFacets
    <3>10. new.profile = IF DOMAIN pd # {} THEN Stored(row.profile) ELSE ci.profile
      BY <3>5, <3>6, <3>7, FacetNames
    <3>11. log[id].mixed \/ SayProfile(ci, pch, new)
      <4>1. CASE ci.profile = resources[id].profile
        <5>1. pd = diffMaps(ci.profile, row.profile)
          BY <3>8, <4>1
        <5>2. SayProfile(ci, auditMapChanges(pd), new)
          BY <3>10, <5>1, RowSaysProfile
        <5> QED
          BY <5>2 DEF pch
      <4> QED
        BY <3>1, <4>1
    <3> DEFINE res == [cis EXCEPT ![id] = new]
               rep == [log EXCEPT ![id] = Replay(log[id], ch, pch)]
    <3>12. Consistent(res, rels, rep) /\ Len(res) = n
      <4>1. SayFacets(cis[id], ch, new) /\ (log[id].mixed \/ SayProfile(cis[id], pch, new))
        BY <3>9, <3>11 DEF ci
      <4>2. id \in 1 .. Len(cis)
        BY <3>1 DEF n
      <4> QED
        BY <1>3, <3>6, <4>1, <4>2, EventOne DEF n
    <3>13. a.resources = res /\ a.trail = rep
      BY <3>2, <3>3 DEF new
    <3> HIDE DEF res, rep
    <3> QED
      BY <3>1, <3>2, <3>12, <3>13
  <2> QED
    BY <2>1, <2>2
<1> HIDE DEF cis, rels, log, n, w, diff
<1>6. Consistent(m.resources, m.relations, m.trail) /\ m.resources = a.resources /\ m.id = a.id
  <2> DEFINE removed == p.diff.removed  gone == Gone(a, removed)
             rest == a.relations \ gone
             rep == [i \in DOMAIN a.trail |-> ReplayLinks(a.trail[i], {},
                            UNION {LinksOf(i, a.id, u) : u \in removed})]
  <2>1. /\ m.resources = a.resources /\ m.id = a.id /\ m.relations = rest /\ m.trail = rep
        /\ \A u \in removed : \E r \in gone : r.to = u
    BY <1>2 DEF RemoveDone
  <2>2. gone = {r \in a.relations : r.from = a.id /\ r.to \in removed}
    BY DEF Gone
  <2> DEFINE ac == a.resources  ar == a.relations  al == a.trail  from == a.id
  <2>3. Consistent(ac, ar, al) /\ gone = {r \in ar : r.from = from /\ r.to \in removed}
    BY <1>5, <2>2
  <2> HIDE DEF removed, gone, ac, ar, al, from
  <2>4. Consistent(ac, ar \ gone, LogRemoved(al, from, removed))
    BY <2>1, <2>3, RemoveLinks
  <2> QED
    BY <2>1, <2>4 DEF ac, ar, al, from, LogRemoved
<1>7. Consistent(t.resources, t.relations, t.trail)
  <2> DEFINE added == p.diff.added  recs == NewRelations(m, added)
             mc == m.resources  mr == m.relations  ml == m.trail  from == m.id
             rep == [i \in DOMAIN ml |-> ReplayLinks(ml[i], UNION {LinksOf(i, from, u) : u \in added}, {})]
  <2>1. /\ t.resources = mc /\ t.relations = mr \cup recs /\ t.trail = rep
        /\ \A u \in added : u \in DOMAIN mc /\ ~Related(mr, from, u)
    BY <1>2 DEF AddDone
  <2>2. /\ Consistent(mc, mr, ml) /\ from \in 1 .. Len(mc)
    BY <1>5, <1>6
  <2>3. DOMAIN mc = 1 .. Len(mc)
    BY <2>2 DEF Consistent, IsTable, FunOn
  <2> HIDE DEF added
  <2>4. /\ \A r \in recs : r.from = from /\ r.to \in added
        /\ \A u \in added : \E r \in recs : r.to = u
        /\ \A r, s \in recs : r.to = s.to => r = s
    BY NewRelationsAre
  <2>5. added \in SUBSET (1 .. Len(mc))
    BY <2>1, <2>3
  <2> HIDE DEF recs, mc, mr, ml, from
  <2>6. Consistent(mc, mr \cup recs, LogAdded(ml, from, added))
    BY <2>1, <2>2, <2>4, <2>5, AddLinks
  <2> QED
    BY <2>1, <2>6 DEF LogAdded
<1> QED
  BY <1>7

(* What a row leaves of the mark that two rows describe a CI.              *)
LEMMA MixedStays ==
    ASSUME NEW tx, FunOn(tx, TxFields), tx.ok, Consistent(tx.resources, tx.relations, tx.trail),
           NEW row, NEW p, p.action # "create" => p.id \in 1 .. Len(tx.resources),
           NEW t, t = ApplyRow(tx, row, p), t.ok, NEW k \in 1 .. Len(tx.resources), tx.trail[k].mixed
    PROVE  t.trail[k].mixed
<1> DEFINE n == Len(tx.resources)  log == tx.trail
<1>1. PICK a, m : RowDone(tx, row, p, a, m, t)
  BY RowSteps
<1>2. FieldsDone(tx, row, p, a) /\ RemoveDone(a, p.diff.removed, m) /\ AddDone(m, p.diff.added, t)
  BY <1>1 DEF RowDone
<1>3. /\ n \in Nat /\ FunOn(log, 1 .. n)
      /\ \A i \in 1 .. n : IsEntry(log[i])
  BY DEF Consistent, IsTable, Replays, Tells
<1>4. /\ k \in DOMAIN a.trail /\ IsEntry(a.trail[k]) /\ a.trail[k].mixed
  <2>1. CASE p.action = "create"
    <3> DEFINE e == sourceIngestionAuditChanges(Unregistered, p.diff)
    <3>1. a.trail = Append(log, e)
      BY <1>2, <2>1 DEF FieldsDone
    <3> HIDE DEF n, log, e
    <3>2. Append(log, e) = [i \in 1 .. n + 1 |-> IF i <= n THEN log[i] ELSE e]
      BY <1>3, AppendedIs
    <3>3. k \in 1 .. n /\ k \in 1 .. n + 1 /\ k <= n /\ log[k].mixed
      BY <1>3 DEF n, log
    <3> QED
      BY <1>3, <3>1, <3>2, <3>3
  <2>2. CASE p.action # "create"
    <3> DEFINE id == p.id  ch == p.diff.fields  pch == auditMapChanges(p.diff.profile)
               old == log[id]  e == Replay(old, ch, pch)
    <3>1. a.trail = [log EXCEPT ![id] = e] /\ id \in 1 .. n
      BY <1>2, <2>2 DEF FieldsDone, sourceIngestionAuditChanges
    <3>2. IsEntry(old)
      BY <1>3, <3>1
    <3>3. IsEntry(e) /\ e.mixed = old.mixed
      <4> HIDE DEF old, ch, pch
      <4> QED
        BY <3>2, ReplayIs
    <3>4. DOMAIN log = 1 .. n
      BY <1>3 DEF FunOn
    <3> HIDE DEF e, id
    <3> QED
      BY <1>3, <3>1, <3>3, <3>4
  <2> QED
    BY <2>1, <2>2
<1>5. ASSUME NEW e, IsEntry(e), e.mixed, NEW added, NEW removed
      PROVE  IsEntry(ReplayLinks(e, added, removed)) /\ ReplayLinks(e, added, removed).mixed
  <2> DEFINE x == ReplayLinks(e, added, removed)
  <2>1. FunOn(e, EntryFields)
    BY <1>5 DEF IsEntry
  <2>2. x = [e EXCEPT !.links = (e.links \ removed) \cup added]
    BY DEF ReplayLinks
  <2>3. /\ FunOn(x, EntryFields) /\ x.facets = e.facets /\ x.profile = e.profile
        /\ x.mixed = e.mixed
    BY <2>1, <2>2 DEF FunOn, EntryFields
  <2> HIDE DEF x
  <2>4. IsEntry(x) /\ x.mixed
    BY <1>5, <2>3 DEF IsEntry
  <2> QED
    BY <2>4 DEF x
<1>6. k \in DOMAIN m.trail /\ IsEntry(m.trail[k]) /\ m.trail[k].mixed
  <2> DEFINE out(i) == UNION {LinksOf(i, a.id, u) : u \in p.diff.removed}
  <2>1. m.trail = [i \in DOMAIN a.trail |-> ReplayLinks(a.trail[i], {}, out(i))]
    BY <1>2 DEF RemoveDone
  <2> HIDE DEF out
  <2>2. k \in DOMAIN m.trail /\ m.trail[k] = ReplayLinks(a.trail[k], {}, out(k))
    BY <1>4, <2>1
  <2> QED
    BY <1>4, <1>5, <2>2
<1>7. t.trail[k].mixed
  <2> DEFINE in(i) == UNION {LinksOf(i, m.id, u) : u \in p.diff.added}
  <2>1. t.trail = [i \in DOMAIN m.trail |-> ReplayLinks(m.trail[i], in(i), {})]
    BY <1>2 DEF AddDone
  <2> HIDE DEF in
  <2>2. t.trail[k] = ReplayLinks(m.trail[k], in(k), {})
    BY <1>6, <2>1
  <2> QED
    BY <1>5, <1>6, <2>2
<1> QED
  BY <1>7

-----------------------------------------------------------------------------
(* A batch, row by row.                                                    *)

(* The tables hold a row as the CI id.                                     *)
ProfileSettled(profile, submitted) ==
    \A k \in ProfileKeys : Get(profile, k) # Get(submitted, k) =>
        Get(submitted, k) = None /\ Get(profile, k) = Blank

Settled(row, p, id, cis, rels) ==
    /\ id \in 1 .. Len(cis)
    /\ p.action = "create" => id > Len(resources)
    /\ p.action # "create" => id = p.id
    /\ cis[id].type = row.type
    /\ \A f \in DOMAIN Described(row) : cis[id][f] = row[f]
    /\ ProfileSettled(cis[id].profile, row.profile)
    /\ TargetsIn(rels, id) = row.targets

FullRun(tx, P, i) ==
    /\ Consistent(tx.resources, tx.relations, tx.trail)
    /\ \A k \in 1 .. Len(resources) : Untouched(P, i, k) => TargetsIn(tx.relations, k) = Targets(k)
    /\ \A k \in 1 .. Len(resources) : Start(P).trail[k].mixed => tx.trail[k].mixed

LEMMA SettledStays ==
    ASSUME NEW tx, NEW row, NEW p, NEW t, TableDone(tx, row, p, t), LinksDone(tx, p, t),
           IsTable(tx.resources), IsTable(t.resources),
           NEW other, NEW q, NEW id, Settled(other, q, id, tx.resources, tx.relations), id # t.id
    PROVE  Settled(other, q, id, t.resources, t.relations)
<1> DEFINE n == Len(tx.resources)  m == Len(t.resources)
<1>1. n \in Nat /\ m \in Nat /\ n <= m
  BY DEF IsTable, TableDone
<1>2. id \in 1 .. n
  BY DEF Settled
<1> HIDE DEF n, m
<1>3. id \in 1 .. m
  BY <1>1, <1>2
<1>4. t.resources[id] = tx.resources[id]
  BY <1>2 DEF TableDone, n
<1>5. TargetsIn(t.relations, id) = TargetsIn(tx.relations, id)
  BY DEF LinksDone
<1> QED
  BY <1>3, <1>4, <1>5 DEF Settled, m

LEMMA NoLinksYet ==
    ASSUME NEW cis, NEW rels, NEW log, Consistent(cis, rels, log)
    PROVE  TargetsIn(rels, Len(cis) + 1) = {}
<1> DEFINE n == Len(cis)
<1>1. n \in Nat /\ \A r \in rels : r.from \in 1 .. n
  BY DEF Consistent, IsTable, IsLinks
<1> HIDE DEF n
<1>2. \A r \in rels : r.from # n + 1
  BY <1>1
<1>3. TargetsIn(rels, n + 1) = {}
  BY <1>2 DEF TargetsIn
<1> QED
  BY <1>3 DEF n

LEMMA FullRunStep ==
    ASSUME NEW tx, NEW P, NEW i \in Nat \ {0}, TableRun(tx, P, i - 1), FullRun(tx, P, i - 1), tx.ok,
           NEW row, NEW ids \in SUBSET (1 .. Len(resources)), Len(resources) \in Nat,
           NEW p, p = P.rows[i], Reviewed(p, row, ids),
           row.profile \in Submitted \cup {None},
           p.action # "create" => Start(P).trail[p.id].mixed \/ Untouched(P, i - 1, p.id),
           NEW t, t = ApplyRow(tx, row, p), t.ok
    PROVE  /\ FullRun(t, P, i)
           /\ p.action = "create" \/ Untouched(P, i - 1, p.id)
                => Settled(row, p, t.id, t.resources, t.relations)
           /\ TableDone(tx, row, p, t) /\ LinksDone(tx, p, t)
<1> DEFINE n == Len(tx.resources)  n0 == Len(resources)  d == Described(row)
           targets == row.targets
<1>1. /\ DOMAIN p.diff.fields \subseteq RowFields
      /\ p.action = "create" =>
           /\ p.diff.profile = diffMaps(None, row.profile)
           /\ p.diff.added = targets /\ p.diff.removed = {}
      /\ p.action # "create" =>
           /\ p.id \in ids
           /\ p.diff.profile = diffMaps(resources[p.id].profile, row.profile)
           /\ p.diff.added = targets \ Targets(p.id)
           /\ p.diff.removed = Targets(p.id) \ targets
  BY ReviewedIs
<1>2. /\ FunOn(tx, TxFields) /\ IsTable(tx.resources) /\ n0 <= n /\ n0 \in Nat
      /\ \A k \in 1 .. n0 : Untouched(P, i - 1, k) => tx.resources[k] = resources[k]
      /\ \A k \in 1 .. n0 : Untouched(P, i - 1, k) => TargetsIn(tx.relations, k) = Targets(k)
      /\ \A k \in 1 .. n0 : Start(P).trail[k].mixed => tx.trail[k].mixed
      /\ Consistent(tx.resources, tx.relations, tx.trail)
  BY DEF TableRun, FullRun
<1>3. n \in Nat
  BY <1>2 DEF IsTable
<1>4. p.action # "create" => p.id \in 1 .. n0 /\ p.id \in 1 .. n
  <2>1. ids \subseteq 1 .. n0
    OBVIOUS
  <2> HIDE DEF n, n0
  <2>2. \A k \in 1 .. n0 : k \in 1 .. n
    BY <1>2, <1>3
  <2> QED
    BY <1>1, <2>1, <2>2
<1>5. p.action # "create" /\ Untouched(P, i - 1, p.id) =>
         /\ tx.resources[p.id] = resources[p.id]
         /\ TargetsIn(tx.relations, p.id) = Targets(p.id)
  BY <1>2, <1>4
<1>6. TableDone(tx, row, p, t)
  BY <1>1, <1>2, <1>4, RowTable
<1>7. LinksDone(tx, p, t)
  BY <1>2, RowLinks
<1>8. HoldsRow(tx, p, row, t)
  BY RowWritten
<1>9. Consistent(t.resources, t.relations, t.trail)
  <2>1. p.action # "create" =>
           /\ p.id \in 1 .. Len(tx.resources)
           /\ tx.trail[p.id].mixed \/ tx.resources[p.id].profile = resources[p.id].profile
    BY <1>2, <1>4, <1>5
  <2> QED
    BY <1>2, <2>1, RowConsistent
<1>10. /\ t.id \in 1 .. Len(t.resources)
       /\ p.action = "create" => t.id = n + 1
       /\ p.action # "create" => t.id = p.id
       /\ t.resources[t.id].type = row.type
       /\ \A f \in DOMAIN d :
            \/ t.resources[t.id][f] = row[f]
            \/ /\ p.action # "create" /\ resources[p.id][f] = row[f]
               /\ t.resources[t.id][f] = tx.resources[p.id][f]
  BY <1>8 DEF HoldsRow
<1>11. ASSUME p.action = "create" \/ Untouched(P, i - 1, p.id)
       PROVE  /\ \A f \in DOMAIN d : t.resources[t.id][f] = row[f]
              /\ ProfileSettled(t.resources[t.id].profile, row.profile)
              /\ TargetsIn(t.relations, t.id) = targets
  <2>1. \A f \in DOMAIN d : t.resources[t.id][f] = row[f]
    BY <1>5, <1>10, <1>11
  <2>2. ProfileSettled(t.resources[t.id].profile, row.profile)
    <3> DEFINE q == row.profile  pd == p.diff.profile  held == t.resources[t.id].profile
               old == IF p.action = "create" THEN None ELSE resources[p.id].profile
    <3>1. pd = diffMaps(old, q)
      BY <1>1
    <3>2. held = IF DOMAIN pd # {} THEN Stored(q)
                 ELSE IF p.action = "create" THEN New(row).profile ELSE tx.resources[p.id].profile
      BY <1>6 DEF TableDone
    <3>3. New(row).profile = Stored(q)
      BY DEF New
    <3>4. held = Stored(q) \/ (held = old /\ DOMAIN pd = {})
      BY <1>5, <1>11, <3>2, <3>3
    <3>5. q \in Submitted \cup {None}
      OBVIOUS
    <3> HIDE DEF q, pd, held, old
    <3>6. CASE held = Stored(q)
      <4>1. ASSUME NEW k \in ProfileKeys, Get(held, k) # Get(q, k)
            PROVE  Get(q, k) = None /\ Get(held, k) = Blank
        <5>1. Get(held, k) = IF q = None THEN None ELSE OrBlank(Get(q, k))
          BY <3>5, <3>6, StoredIs
        <5>2. q = None => Get(q, k) = None
          BY DEF Get
        <5> QED
          BY <4>1, <5>1, <5>2 DEF OrBlank
      <4> QED
        BY <4>1 DEF ProfileSettled, q, held
    <3>7. CASE held = old /\ DOMAIN pd = {}
      <4>1. \A k \in ProfileKeys : Get(old, k) = Get(q, k)
        BY <3>1, <3>7 DEF diffMaps
      <4> QED
        BY <3>7, <4>1 DEF ProfileSettled, q, held
    <3> QED
      BY <3>4, <3>6, <3>7
  <2>3. TargetsIn(t.relations, t.id) = targets
    <3>1. TargetsIn(t.relations, t.id) = (TargetsIn(tx.relations, t.id) \ p.diff.removed) \cup p.diff.added
      BY <1>7 DEF LinksDone
    <3>2. CASE p.action = "create"
      <4>1. TargetsIn(tx.relations, t.id) = {}
        BY <1>2, <1>10, <3>2, NoLinksYet
      <4> QED
        BY <1>1, <3>1, <3>2, <4>1
    <3>3. CASE p.action # "create"
      <4>1. t.id = p.id /\ TargetsIn(tx.relations, t.id) = Targets(p.id)
        BY <1>5, <1>10, <1>11, <3>3
      <4> QED
        BY <1>1, <3>1, <3>3, <4>1
    <3> QED
      BY <3>2, <3>3
  <2> QED
    BY <2>1, <2>2, <2>3
<1>13. p.action = "create" => t.id > n0
  BY <1>2, <1>3, <1>10
<1>14. p.action = "create" \/ Untouched(P, i - 1, p.id)
         => Settled(row, p, t.id, t.resources, t.relations)
  BY <1>10, <1>11, <1>13 DEF Settled
<1>15. ASSUME NEW k \in 1 .. n0, Untouched(P, i, k)
       PROVE  TargetsIn(t.relations, k) = Targets(k)
  <2>1. Untouched(P, i - 1, k) /\ (p.action = "create" \/ p.id # k)
    BY <1>15 DEF Untouched
  <2>2. k # t.id
    BY <1>2, <1>10, <1>13, <2>1
  <2>3. TargetsIn(t.relations, k) = TargetsIn(tx.relations, k)
    BY <1>7, <2>2 DEF LinksDone
  <2> QED
    BY <1>2, <2>1, <2>3
<1>16. \A k \in 1 .. n0 : Start(P).trail[k].mixed => t.trail[k].mixed
  <2> SUFFICES ASSUME NEW k \in 1 .. n0, Start(P).trail[k].mixed PROVE t.trail[k].mixed
    OBVIOUS
  <2>1. k \in 1 .. n /\ tx.trail[k].mixed
    <3> HIDE DEF n, n0
    <3> QED
      BY <1>2, <1>3
  <2> QED
    BY <1>2, <1>4, <2>1, MixedStays
<1> QED
  BY <1>6, <1>7, <1>9, <1>14, <1>15, <1>16 DEF FullRun

(* Marking the CIs that two rows describe changes nothing they are told.   *)
LEMMA MixedConsistent ==
    ASSUME NEW P, Consistent(resources, relations, trail)
    PROVE  Consistent(resources, relations, Mixed(trail, P))
<1> DEFINE n == Len(resources)  log == Mixed(trail, P)
           twice(id) == \E i \in DOMAIN P.rows : P.rows[i].id = id /\ ~Lone(P, i)
<1>1. /\ FunOn(trail, 1 .. n)
      /\ \A i \in 1 .. n : Tells(trail[i], resources[i], LinksAt(relations, i))
  BY DEF Consistent, Replays
<1>2. log = [id \in 1 .. n |-> [trail[id] EXCEPT !.mixed = @ \/ twice(id)]]
  BY <1>1 DEF Mixed, FunOn
<1> HIDE DEF twice, log
<1>3. ASSUME NEW id \in 1 .. n PROVE Tells(log[id], resources[id], LinksAt(relations, id))
  <2> DEFINE e == trail[id]  x == log[id]  ci == resources[id]  links == LinksAt(relations, id)
             mark == e.mixed \/ twice(id)
  <2>1. Tells(e, ci, links) /\ x = [e EXCEPT !.mixed = mark] /\ (e.mixed => mark)
    BY <1>1, <1>2
  <2> HIDE DEF e, x, ci, links, mark
  <2>2. /\ FunOn(x, EntryFields) /\ x.facets = e.facets /\ x.profile = e.profile
        /\ x.links = e.links /\ x.mixed = mark
    BY <2>1 DEF Tells, IsEntry, FunOn, EntryFields
  <2>3. Tells(x, ci, links)
    BY <2>1, <2>2 DEF Tells, IsEntry
  <2> QED
    BY <2>3 DEF x, ci, links
<1>4. FunOn(log, 1 .. n)
  BY <1>2 DEF FunOn
<1>5. Replays(resources, relations, log)
  BY <1>3, <1>4 DEF Replays
<1> QED
  BY <1>5 DEF Consistent, log

AllSettled(run, rows, P, i) ==
    \A j \in 1 .. i : Lone(P, j) =>
        Settled(rows[j], P.rows[j], run[j].id, run[i].resources, run[i].relations)

(* The CI of a later row is not the CI of an earlier one.                  *)
LEMMA OtherCI ==
    ASSUME NEW tx, NEW row, NEW p, NEW t, TableDone(tx, row, p, t), Len(tx.resources) \in Nat,
           Len(resources) \in Nat,
           NEW other, NEW q, NEW id, Settled(other, q, id, tx.resources, tx.relations),
           p.action # "create" => p.id \in 1 .. Len(resources),
           p.action # "create" /\ q.action # "create" => p.id # q.id
    PROVE  id # t.id
<1> DEFINE n == Len(tx.resources)  n0 == Len(resources)
<1>1. t.id = IF p.action = "create" THEN n + 1 ELSE p.id
  BY DEF TableDone
<1>2. /\ id \in 1 .. n
      /\ q.action = "create" => id > n0
      /\ q.action # "create" => id = q.id
  BY DEF Settled
<1> HIDE DEF n, n0
<1>3. n \in Nat /\ n0 \in Nat
  BY DEF n, n0
<1>4. CASE p.action = "create"
  BY <1>1, <1>2, <1>3, <1>4
<1>5. CASE p.action # "create" /\ q.action = "create"
  <2>1. p.id \in 1 .. n0 /\ t.id = p.id /\ id > n0 /\ id \in 1 .. n
    BY <1>1, <1>2, <1>5 DEF n0
  <2> QED
    BY <1>3, <2>1
<1>6. CASE p.action # "create" /\ q.action # "create"
  BY <1>1, <1>2, <1>6
<1> QED
  BY <1>4, <1>5, <1>6

LEMMA FullRunHolds ==
    ASSUME NEW rows, NEW P, NEW ids, ReviewedRun(rows, P, ids), DOMAIN P.rows = DOMAIN rows,
           \A j \in DOMAIN rows : rows[j].profile \in Submitted \cup {None},
           UniqueKeysHold(resources), Consistent(resources, relations, trail),
           NEW i \in 0 .. Len(rows)
    PROVE  FullRun(Run(rows, P)[i], P, i) /\ AllSettled(Run(rows, P), rows, P, i)
<1> DEFINE n == Len(rows)  run == Run(rows, P)  n0 == Len(resources)
           good(j) == FullRun(run[j], P, j) /\ AllSettled(run, rows, P, j)
           T == {j \in Nat : j \in 0 .. n /\ ~good(j)}
<1>1. n \in Nat /\ ids \in SUBSET (1 .. n0) /\ n0 \in Nat /\ IsTable(resources)
      /\ \A j \in 1 .. n : Reviewed(P.rows[j], rows[j], ids)
  BY DEF ReviewedRun, Consistent, IsTable
<1>2. \A j \in 0 .. n : TableRun(run[j], P, j) /\ run[j].ok
  BY <1>1, TableRunHolds
<1>3. \A j \in 0 .. n : run[j] = IF j = 0 THEN Start(P)
                                 ELSE ApplyRow(run[j - 1], rows[j], P.rows[j])
  BY <1>1, RunStep
<1> HIDE DEF n, run, n0
<1>4. good(0)
  <2>1. run[0] = Start(P)
    <3>1. 0 \in 0 .. n
      BY <1>1
    <3> QED
      BY <1>3, <3>1
  <2>2. /\ Start(P).resources = resources /\ Start(P).relations = relations
        /\ Start(P).trail = Mixed(trail, P)
    BY DEF Start
  <2>3. \A k : TargetsIn(relations, k) = Targets(k)
    BY DEF TargetsIn, Targets
  <2>4. FullRun(run[0], P, 0)
    BY <2>1, <2>2, <2>3, MixedConsistent DEF FullRun
  <2>5. AllSettled(run, rows, P, 0)
    BY DEF AllSettled
  <2> QED
    BY <2>4, <2>5
<1> HIDE DEF good
<1>5. SUFFICES ASSUME T # {} PROVE FALSE
  <2>1. T = {} => \A j \in 0 .. n : good(j)
    BY <1>1
  <2>2. i \in 0 .. n
    BY DEF n
  <2> HIDE DEF T
  <2> QED
    BY <2>1, <2>2 DEF good, run
<1>6. PICK m \in T : \A j \in T : m <= j
  <2>1. T \in SUBSET Nat
    OBVIOUS
  <2> HIDE DEF T
  <2> QED
    BY <1>5, <2>1, LeastNatural
<1>7. m \in Nat \ {0} /\ m \in 1 .. n /\ m - 1 \in 0 .. n /\ m \in 0 .. n
  BY <1>1, <1>4, <1>6
<1>8. good(m - 1)
  BY <1>6, <1>7
<1>9. good(m)
  <2> DEFINE tx == run[m - 1]  t == run[m]  row == rows[m]  p == P.rows[m]
  <2>1. /\ tx.ok /\ t.ok /\ TableRun(tx, P, m - 1) /\ t = ApplyRow(tx, row, p)
        /\ Reviewed(p, row, ids) /\ FullRun(tx, P, m - 1)
    BY <1>1, <1>2, <1>3, <1>7, <1>8 DEF good
  <2>2. /\ \A j \in 1 .. m - 1 : j \in DOMAIN P.rows /\ j # m
        /\ m \in DOMAIN P.rows /\ DOMAIN P.rows = 1 .. n
    <3>1. \A j \in 1 .. m - 1 : j \in 1 .. n /\ j # m
      BY <1>1, <1>7
    <3>2. DOMAIN P.rows = 1 .. n
      BY DEF ReviewedRun, n
    <3> QED
      BY <1>7, <3>1, <3>2
  <2>3. /\ Lone(P, m) => p.action = "create" \/ Untouched(P, m - 1, p.id)
        /\ row.profile \in Submitted \cup {None}
    <3>1. row.profile \in Submitted \cup {None}
      BY <2>2
    <3> QED
      BY <2>2, <3>1 DEF Untouched, Lone
  <2>4. p.action # "create" => p.id \in 1 .. Len(resources)
    <3>1. Reviewed(p, row, ids)
      BY <2>1
    <3> HIDE DEF p, row
    <3>2. p.action # "create" => p.id \in ids
      BY <3>1, ReviewedIs
    <3> QED
      BY <1>1, <3>2 DEF n0
  <2>5. \A j \in 1 .. m - 1 : Lone(P, j) => Settled(rows[j], P.rows[j], run[j].id, tx.resources, tx.relations)
    BY <1>8 DEF good, AllSettled
  <2>6. /\ p = P.rows[m]
        /\ p.action # "create" => Start(P).trail[p.id].mixed \/ Untouched(P, m - 1, p.id)
    <3> SUFFICES ASSUME p.action # "create", ~Lone(P, m) PROVE Start(P).trail[p.id].mixed
      BY <2>3
    <3> DEFINE k == p.id  old == trail[k]
    <3>1. k \in 1 .. Len(resources)
      BY <2>4
    <3>2. FunOn(trail, 1 .. Len(resources)) /\ FunOn(old, EntryFields)
      BY <3>1 DEF Consistent, Replays, Tells, IsEntry
    <3>3. \E j \in DOMAIN P.rows : P.rows[j].id = k /\ ~Lone(P, j)
      BY <2>2
    <3>4. Start(P).trail[k] = [old EXCEPT !.mixed =
              @ \/ \E j \in DOMAIN P.rows : P.rows[j].id = k /\ ~Lone(P, j)]
      BY <3>1, <3>2 DEF Start, Mixed, FunOn
    <3> HIDE DEF old, k
    <3>5. [old EXCEPT !.mixed =
              @ \/ \E j \in DOMAIN P.rows : P.rows[j].id = k /\ ~Lone(P, j)].mixed
      BY <3>2, <3>3 DEF FunOn, EntryFields
    <3> QED
      BY <3>4, <3>5 DEF k
  <2> HIDE DEF tx, t, row, p
  <2>7. /\ FullRun(t, P, m)
        /\ Lone(P, m) => Settled(row, p, t.id, t.resources, t.relations)
        /\ TableDone(tx, row, p, t) /\ LinksDone(tx, p, t)
    <3>1. ids \in SUBSET (1 .. Len(resources)) /\ Len(resources) \in Nat
      BY <1>1 DEF n0
    <3> QED
      BY <1>7, <2>1, <2>3, <2>6, <3>1, FullRunStep
  <2>8. IsTable(tx.resources) /\ IsTable(t.resources) /\ Len(tx.resources) \in Nat /\ Len(resources) \in Nat
    <3>1. IsTable(tx.resources) /\ IsTable(t.resources)
      BY <2>1, <2>7 DEF TableRun, TableDone
    <3> QED
      BY <1>1, <3>1 DEF IsTable, n0
  <2>9. ASSUME NEW j \in 1 .. m - 1, Lone(P, j)
        PROVE  Settled(rows[j], P.rows[j], run[j].id, t.resources, t.relations)
    <3> DEFINE other == rows[j]  q == P.rows[j]  id == run[j].id
    <3>1. /\ Settled(other, q, id, tx.resources, tx.relations)
          /\ p.action # "create" /\ q.action # "create" => p.id # q.id
      BY <2>2, <2>5, <2>6, <2>9 DEF Lone
    <3> HIDE DEF other, q, id
    <3>2. id # t.id
      BY <2>4, <2>7, <2>8, <3>1, OtherCI
    <3>3. Settled(other, q, id, t.resources, t.relations)
      BY <2>7, <2>8, <3>1, <3>2, SettledStays
    <3> QED
      BY <3>3 DEF other, q, id
  <2>10. AllSettled(run, rows, P, m)
    <3>1. \A j \in 1 .. m : j \in 1 .. m - 1 \/ j = m
      BY <1>7
    <3> QED
      BY <2>7, <2>9, <3>1 DEF AllSettled, tx, t, row, p
  <2> QED
    BY <2>7, <2>10 DEF good, t
<1> QED
  BY <1>6, <1>9

-----------------------------------------------------------------------------
(* The trail and the tables, action by action.                             *)

TrailInv == Consistent(resources, relations, trail)

LEMMA TrailFacts ==
    ASSUME TrailInv
    PROVE  /\ IDs = 1 .. Len(resources) /\ Len(resources) \in Nat
           /\ FunOn(trail, 1 .. Len(resources))
           /\ \A i \in IDs : /\ FunOn(resources[i], CIFields)
                             /\ Tells(trail[i], resources[i], LinksAt(relations, i))
<1>1. IsTable(resources)
  BY DEF TrailInv, Consistent
<1>2. /\ IDs = 1 .. Len(resources) /\ Len(resources) \in Nat
      /\ \A i \in IDs : FunOn(resources[i], CIFields)
  BY <1>1, TableFacts
<1> QED
  BY <1>2 DEF TrailInv, Consistent, Replays

(* The entry a registered CI starts with.                                  *)
LEMMA RegisteredTold ==
    ASSUME NEW cis, NEW rels, NEW id
    PROVE  Tells(Registered(cis, rels, id), cis[id], LinksAt(rels, id))
<1> DEFINE ci == cis[id]  fs == FacetsOf(ci)  ps == ProfileOf(ci)  links == LinksAt(rels, id)
           e == Registered(cis, rels, id)
<1>1. e = [facets |-> fs, profile |-> ps, links |-> links, gap |-> FALSE, mixed |-> FALSE]
  BY DEF Registered, Untold
<1>2. FunOn(fs, Facets) /\ FunOn(ps, ProfileKeys)
  BY DEF FunOn, FacetsOf, ProfileOf
<1> HIDE DEF ci, fs, ps, links, e
<1>3. FunOn(e, EntryFields) /\ e.facets = fs /\ e.profile = ps /\ e.links = links
  BY <1>1 DEF FunOn, EntryFields
<1>4. IsEntry(e)
  BY <1>2, <1>3 DEF IsEntry
<1>5. Tells(e, ci, links)
  BY <1>3, <1>4 DEF Tells, fs, ps
<1> QED
  BY <1>5 DEF e, ci, links

LEMMA TrailInit ==
    ASSUME Init
    PROVE  TrailInv
<1>1. IsTable(resources)
  BY BaseInit DEF Base, TableInv
<1>2. DOMAIN Seed = 1 .. Len(resources) /\ relations = {}
  BY <1>1, TableDomain DEF Init
<1>3. trail = [id \in DOMAIN Seed |-> Registered(resources, relations, id)]
  BY DEF Init
<1>4. \A id : Tells(Registered(resources, relations, id), resources[id], LinksAt(relations, id))
  BY RegisteredTold
<1>5. Replays(resources, relations, trail)
  <2> DEFINE n == Len(resources)  entry(id) == Registered(resources, relations, id)
  <2>1. trail = [id \in 1 .. n |-> entry(id)]
    BY <1>2, <1>3
  <2> HIDE DEF entry, n
  <2>2. FunOn(trail, 1 .. n) /\ \A id \in 1 .. n : trail[id] = entry(id)
    BY <2>1 DEF FunOn
  <2> QED
    BY <1>4, <2>2 DEF Replays, entry, n
<1>6. IsLinks(relations, Len(resources))
  BY <1>2 DEF IsLinks
<1> QED
  BY <1>1, <1>5, <1>6 DEF TrailInv, Consistent

LEMMA SameTrail ==
    ASSUME TrailInv, UNCHANGED <<resources, relations, trail>>
    PROVE  TrailInv'
<1>1. Consistent(resources', relations', trail')
  BY DEF TrailInv
<1> QED
  BY <1>1 DEF TrailInv

LEMMA CreateTrail ==
    ASSUME TrailInv, NEW c \in Clients, NEW r \in Requests, Create(c, r)
    PROVE  TrailInv'
<1> DEFINE ci == New(r)  n == Len(resources)  cis == Append(resources, ci)
           entry == Registered(cis, relations, n + 1)
<1>1. \/ UNCHANGED store
      \/ /\ resources' = cis /\ UNCHANGED relations
         /\ trail' = Append(trail, Registered(resources', relations', Len(resources')))
  BY DEF Create, Refuse
<1>2. FunOn(ci, CIFields)
  BY NewIsCI
<1> HIDE DEF ci
<1>3. n \in Nat /\ FunOn(resources, 1 .. n)
  BY DEF TrailInv, Consistent, IsTable
<1>4. Len(cis) = n + 1 /\ cis[n + 1] = ci
  <2> HIDE DEF n
  <2>1. cis = [i \in 1 .. n + 1 |-> IF i <= n THEN resources[i] ELSE ci] /\ Len(cis) = n + 1
    BY <1>3, AppendedIs
  <2> HIDE DEF cis
  <2> QED
    BY <1>3, <2>1
<1>5. LinksAt(relations, n + 1) = {}
  <2>1. n \in Nat /\ \A x \in relations : x.from \in 1 .. n /\ x.to \in 1 .. n
    BY DEF TrailInv, Consistent, IsTable, IsLinks
  <2> HIDE DEF n
  <2>2. \A x \in relations : x.from # n + 1 /\ x.to # n + 1
    BY <2>1
  <2> QED
    BY <2>2 DEF LinksAt
<1>6. Tells(entry, ci, {})
  <2> HIDE DEF n, cis
  <2>1. Tells(entry, cis[n + 1], LinksAt(relations, n + 1))
    BY RegisteredTold
  <2> QED
    BY <1>4, <1>5, <2>1
<1> HIDE DEF entry
<1>7. Consistent(cis, relations, Append(trail, entry))
  BY <1>2, <1>6, AppendOne DEF TrailInv
<1>8. CASE /\ resources' = cis /\ UNCHANGED relations
           /\ trail' = Append(trail, Registered(resources', relations', Len(resources')))
  <2>1. trail' = Append(trail, entry)
    BY <1>4, <1>8 DEF entry
  <2>2. Consistent(resources', relations', trail')
    BY <1>7, <1>8, <2>1
  <2> QED
    BY <2>2 DEF TrailInv
<1> QED
  BY <1>1, <1>8, SameTrail DEF store

(* One row replaced, and an event that says how.                           *)
LEMMA EventTrail ==
    ASSUME TrailInv, NEW id \in IDs, NEW new, FunOn(new, CIFields), UNCHANGED relations,
           NEW changes, NEW profile,
           SayFacets(resources[id], changes, new), SayProfile(resources[id], profile, new),
           resources' = [resources EXCEPT ![id] = new],
           trail' = [trail EXCEPT ![id] = Replay(trail[id], changes, profile)]
    PROVE  TrailInv'
<1>1. id \in 1 .. Len(resources)
  BY TrailFacts
<1>2. Consistent([resources EXCEPT ![id] = new], relations,
                 [trail EXCEPT ![id] = Replay(trail[id], changes, profile)])
  BY <1>1, EventOne DEF TrailInv
<1>3. Consistent(resources', relations', trail')
  BY <1>2
<1> QED
  BY <1>3 DEF TrailInv

LEMMA UpdateSays ==
    ASSUME NEW ci, FunOn(ci, CIFields), NEW input, DOMAIN input \subseteq ResourceFields,
           NEW new, new = updateResourceTx(ci, input)
    PROVE  /\ FunOn(new, CIFields)
           /\ SayFacets(ci, resourceAuditChanges(ci, input), new)
           /\ SayProfile(ci, NoChanges, new)
<1> DEFINE base == [ci EXCEPT !.updatedAt = second]
<1>1. FunOn(base, CIFields) /\ \A f \in CIFields \ {"updatedAt"} : base[f] = ci[f]
  BY TouchedIs
<1>2. DOMAIN input \subseteq Told \ {"override"}
  BY FacetNames DEF ResourceFields
<1>3. new = Edited(base, input) /\ resourceAuditChanges(ci, input) = Changes(ci, input)
  BY DEF updateResourceTx, resourceAuditChanges
<1> HIDE DEF base
<1> QED
  BY <1>1, <1>2, <1>3, EditSays

LEMMA UpdateTrail ==
    ASSUME Base, TrailInv, NEW c \in Clients, UpdateResourceWithAudit(c)
    PROVE  TrailInv'
<1> DEFINE id == req[c].id  ci == resources[id]  input == memo[c]
           new == updateResourceTx(ci, input)  ch == resourceAuditChanges(ci, input)
<1>1. /\ pc[c] = "write" /\ req[c].op = "patch"
      /\ \/ UNCHANGED store
         \/ /\ resources' = [resources EXCEPT ![id] = new]
            /\ trail' = [trail EXCEPT ![id] = Replay(trail[id], ch, NoChanges)]
            /\ UNCHANGED relations
  BY DEF UpdateResourceWithAudit, Continue, Refuse
<1>2. id \in IDs /\ DOMAIN input \subseteq ResourceFields
  BY <1>1 DEF Base, HandlersInv, ReadyAs
<1>3. FunOn(ci, CIFields)
  BY <1>2, TrailFacts
<1>4. FunOn(new, CIFields) /\ SayFacets(ci, ch, new) /\ SayProfile(ci, NoChanges, new)
  <2> HIDE DEF ci, input
  <2> QED
    BY <1>2, <1>3, UpdateSays
<1>5. SayFacets(resources[id], ch, new) /\ SayProfile(resources[id], NoChanges, new)
  BY <1>4
<1> HIDE DEF id, input, new, ch, ci
<1> QED
  BY <1>1, <1>2, <1>4, <1>5, EventTrail, SameTrail DEF store

LEMMA ProfileTrail ==
    ASSUME Base, TrailInv, NEW c \in Clients, MutateProfileWithAudit(c)
    PROVE  TrailInv'
<1> DEFINE id == req[c].id  ci == resources[id]  before == ci.profile
           after == ProfileAfter(req[c], before)  new == [ci EXCEPT !.profile = after]
           pch == auditMapChanges(diffMaps(before, after))
<1>1. /\ pc[c] = "write" /\ req[c].op = "profile"
      /\ resources' = [resources EXCEPT ![id].profile = after]
      /\ trail' = [trail EXCEPT ![id] = Replay(trail[id], NoChanges, pch)]
      /\ UNCHANGED relations
  BY DEF MutateProfileWithAudit, Continue
<1>2. id \in IDs
  BY <1>1 DEF Base, HandlersInv, ReadyAs
<1>3. FunOn(ci, CIFields)
  BY <1>2, TrailFacts
<1>4. [resources EXCEPT ![id].profile = after] = [resources EXCEPT ![id] = new]
  BY <1>2
<1>5. /\ FunOn(new, CIFields) /\ new.profile = after
      /\ \A f \in CIFields \ {"profile"} : new[f] = ci[f]
  <2> HIDE DEF ci, after
  <2> QED
    BY <1>3, ProfiledIs
<1>6. before = ci.profile
  OBVIOUS
<1> HIDE DEF after, new
<1>7. SayFacets(ci, NoChanges, new)
  <2>1. DOMAIN NoChanges = {}
    BY DEF NoChanges
  <2>2. \A f \in Told \ DOMAIN NoChanges : new[f] = ci[f]
    BY <1>5, FacetNames
  <2> HIDE DEF ci
  <2> QED
    BY <2>1, <2>2, RowSaysFacets
<1>8. SayProfile(ci, pch, new)
  <2>1. \A k \in ProfileKeys : OrBlank(Get(new.profile, k)) = OrBlank(Get(after, k))
    BY <1>5
  <2>2. SayProfile(ci, auditMapChanges(diffMaps(ci.profile, after)), new)
    <3> HIDE DEF ci
    <3> QED
      BY <2>1, ProfileSays
  <2> QED
    BY <2>2
<1>9. SayFacets(resources[id], NoChanges, new) /\ SayProfile(resources[id], pch, new)
  BY <1>7, <1>8
<1> HIDE DEF id, ci, pch
<1> QED
  BY <1>1, <1>2, <1>4, <1>5, <1>9, EventTrail

LEMMA ArchiveTrail ==
    ASSUME TrailInv, NEW c \in Clients, NEW r \in Requests, Archive(c, r)
    PROVE  TrailInv'
<1> DEFINE id == r.id  before == resources[id]  to == r.to  ci == ArchiveResource(before, to)
<1>1. \/ UNCHANGED store
      \/ /\ id \in IDs /\ resources' = [resources EXCEPT ![id] = ci]
         /\ UNCHANGED <<relations, trail>>
  BY DEF Archive, Refuse
<1>2. CASE /\ id \in IDs /\ resources' = [resources EXCEPT ![id] = ci]
           /\ UNCHANGED <<relations, trail>>
  <2>1. FunOn(before, CIFields) /\ id \in 1 .. Len(resources)
    BY <1>2, TrailFacts
  <2>2. FunOn(ci, CIFields) /\ \A f \in CIFields \ {"archived", "updatedAt"} : ci[f] = before[f]
    <3> HIDE DEF before, to
    <3> QED
      BY <2>1, ArchivedIs
  <2>3. (\A f \in Told : ci[f] = resources[id][f]) /\ ci.profile = resources[id].profile
    BY <2>2, FacetNames
  <2> HIDE DEF ci, id
  <2>4. Consistent([resources EXCEPT ![id] = ci], relations, trail)
    BY <2>1, <2>2, <2>3, SameFacets DEF TrailInv
  <2>5. Consistent(resources', relations', trail')
    BY <1>2, <2>4
  <2> QED
    BY <2>5 DEF TrailInv
<1> QED
  BY <1>1, <1>2, SameTrail DEF store

(* The override's value as the audit event shows it.                       *)
OverrideValue(o) == IF o # None THEN o.value ELSE o

LEMMA OverrideTrail ==
    ASSUME TrailInv, NEW id \in IDs, NEW o, UNCHANGED relations,
           resources' = [resources EXCEPT ![id] = [resources[id] EXCEPT !.override = o]],
           NEW value, value = OverrideValue(o),
           trail' = [trail EXCEPT ![id] = Replay(trail[id], OverrideChange(id, value), NoChanges)]
    PROVE  TrailInv'
<1> DEFINE ci == resources[id]  new == [ci EXCEPT !.override = o]  ch == OverrideChange(id, value)
<1>1. FunOn(ci, CIFields)
  BY TrailFacts
<1>2. /\ FunOn(new, CIFields) /\ new.override = o
      /\ \A f \in CIFields \ {"override"} : new[f] = ci[f]
  <2> HIDE DEF ci
  <2> QED
    BY <1>1, OverriddenIs
<1>3. DOMAIN ch = {"override"} /\ ch.override.after = value /\ DOMAIN NoChanges = {}
  BY DEF OverrideChange, NoChanges
<1> HIDE DEF ch, new
<1>4. ASSUME NEW f \in Told
      PROVE  FacetsOf(new)[f] = IF f \in DOMAIN ch THEN ch[f].after ELSE FacetsOf(ci)[f]
  <2>1. f \in Facets /\ f \in CIFields
    BY FacetNames
  <2>2. CASE f = "override"
    <3>1. FacetsOf(new)[f] = OverrideValue(o)
      BY <1>2, <2>1, <2>2 DEF FacetsOf, OverrideValue
    <3> QED
      BY <1>3, <2>2, <3>1
  <2>3. CASE f # "override"
    <3>1. FacetsOf(ci)[f] = ci[f] /\ FacetsOf(new)[f] = new[f]
      BY <2>1, <2>3 DEF FacetsOf
    <3>2. f \notin DOMAIN ch /\ new[f] = ci[f]
      BY <1>2, <1>3, <2>1, <2>3
    <3> QED
      BY <3>1, <3>2
  <2> QED
    BY <2>2, <2>3
<1>5. SayFacets(resources[id], ch, new)
  BY <1>4 DEF SayFacets
<1>6. SayProfile(resources[id], NoChanges, new)
  <2>1. new.profile = ci.profile
    BY <1>2, FacetNames
  <2> QED
    BY <1>3, <2>1 DEF SayProfile, ProfileOf
<1>7. /\ resources' = [resources EXCEPT ![id] = new]
      /\ trail' = [trail EXCEPT ![id] = Replay(trail[id], ch, NoChanges)]
  BY DEF new, ch
<1> QED
  BY <1>2, <1>5, <1>6, <1>7, EventTrail

LEMMA SetOverrideTrail ==
    ASSUME TrailInv, NEW c \in Clients, NEW r \in Requests, SetManualOverride(c, r)
    PROVE  TrailInv'
<1> DEFINE id == r.id  value == r.value  o == [value |-> value, version |-> NextVersion(r.expected)]
<1>1. /\ r.op = "override" /\ value # None
      /\ \/ UNCHANGED store
         \/ /\ id \in IDs /\ UNCHANGED relations
            /\ resources' = [resources EXCEPT ![id].override = o]
            /\ trail' = [trail EXCEPT ![id] = Replay(trail[id], OverrideChange(id, value), NoChanges)]
  BY DEF SetManualOverride, Refuse
<1>2. value \in Values /\ r.expected \in Nat
  BY <1>1, RequestsAssumption
<1>3. o \in Override
  BY <1>2 DEF Override, NextVersion
<1>4. OverrideValue(o) = value
  BY <1>3, SentinelsAssumption DEF OverrideValue
<1> HIDE DEF id, value, o
<1>5. id \in IDs => [resources EXCEPT ![id].override = o]
                      = [resources EXCEPT ![id] = [resources[id] EXCEPT !.override = o]]
  OBVIOUS
<1> QED
  BY <1>1, <1>4, <1>5, OverrideTrail, SameTrail DEF store

LEMMA ClearOverrideTrail ==
    ASSUME TrailInv, NEW c \in Clients, NEW r \in Requests, ClearManualOverride(c, r)
    PROVE  TrailInv'
<1> DEFINE id == r.id
<1>1. \/ UNCHANGED store
      \/ /\ id \in IDs /\ UNCHANGED relations
         /\ resources' = [resources EXCEPT ![id].override = None]
         /\ trail' = [trail EXCEPT ![id] = Replay(trail[id], OverrideChange(id, None), NoChanges)]
  BY DEF ClearManualOverride, Refuse
<1>2. OverrideValue(None) = None
  BY DEF OverrideValue
<1> HIDE DEF id
<1>3. id \in IDs => [resources EXCEPT ![id].override = None]
                      = [resources EXCEPT ![id] = [resources[id] EXCEPT !.override = None]]
  OBVIOUS
<1> QED
  BY <1>1, <1>2, <1>3, OverrideTrail, SameTrail DEF store

LEMMA RelateTrail ==
    ASSUME Base, TrailInv, NEW c \in Clients, CreateRelationWithAudit(c)
    PROVE  TrailInv'
<1> DEFINE from == req[c].from  to == req[c].to
           rec == [id |-> relationIDs + 1, from |-> from, to |-> to]
           added == {to}  recs == {rec}
<1>1. /\ pc[c] = "write" /\ req[c].op = "relate"
      /\ \/ UNCHANGED store
         \/ /\ ~Related(relations, from, to) /\ relations' = relations \cup recs
            /\ trail' = RelationAdded(trail, from, to) /\ UNCHANGED resources
  BY DEF CreateRelationWithAudit, Continue, Refuse
<1>2. from \in 1 .. Len(resources) /\ added \in SUBSET (1 .. Len(resources))
  BY <1>1, TrailFacts DEF Base, HandlersInv, ReadyAs
<1>3. CASE /\ ~Related(relations, from, to) /\ relations' = relations \cup recs
           /\ trail' = RelationAdded(trail, from, to) /\ UNCHANGED resources
  <2>1. /\ \A t \in added : ~Related(relations, from, t)
        /\ \A r \in recs : r.from = from /\ r.to \in added
        /\ \A t \in added : \E r \in recs : r.to = t
        /\ \A r, s \in recs : r.to = s.to => r = s
    BY <1>3
  <2>2. RelationAdded(trail, from, to) = LogAdded(trail, from, added)
    BY DEF RelationAdded, LogAdded
  <2> HIDE DEF from, added, recs
  <2>3. Consistent(resources, relations \cup recs, LogAdded(trail, from, added))
    BY <1>2, <2>1, AddLinks DEF TrailInv
  <2>4. Consistent(resources', relations', trail')
    BY <1>3, <2>2, <2>3
  <2> QED
    BY <2>4 DEF TrailInv
<1> QED
  BY <1>1, <1>3, SameTrail DEF store

LEMMA UnrelateTrail ==
    ASSUME TrailInv, NEW c \in Clients, DeleteRelationWithAudit(c)
    PROVE  TrailInv'
<1> DEFINE rel == memo[c]  from == rel.from  removed == {rel.to}  gone == {rel}
<1>1. \/ UNCHANGED store
      \/ /\ rel \in relations /\ relations' = relations \ gone
         /\ trail' = RelationRemoved(trail, from, rel.to) /\ UNCHANGED resources
  BY DEF DeleteRelationWithAudit, Refuse
<1>2. CASE /\ rel \in relations /\ relations' = relations \ gone
           /\ trail' = RelationRemoved(trail, from, rel.to) /\ UNCHANGED resources
  <2>1. \A r, s \in relations : r.from = s.from /\ r.to = s.to => r = s
    BY DEF TrailInv, Consistent, IsLinks
  <2>2. gone = {r \in relations : r.from = from /\ r.to \in removed}
    BY <1>2, <2>1
  <2>3. \A t \in removed : \E r \in gone : r.to = t
    OBVIOUS
  <2>4. RelationRemoved(trail, from, rel.to) = LogRemoved(trail, from, removed)
    BY DEF RelationRemoved, LogRemoved
  <2> HIDE DEF from, removed, gone
  <2>5. Consistent(resources, relations \ gone, LogRemoved(trail, from, removed))
    BY <2>2, <2>3, RemoveLinks DEF TrailInv
  <2>6. Consistent(resources', relations', trail')
    BY <1>2, <2>4, <2>5
  <2> QED
    BY <2>6 DEF TrailInv
<1> QED
  BY <1>1, <1>2, SameTrail DEF store

LEMMA BulkTrail ==
    ASSUME Base, TrailInv, NEW c \in Clients, ConfirmBulkResourceMutation(c)
    PROVE  TrailInv'
<1> DEFINE r == req[c]  n == Len(resources)
           input(id) == validatedBulkResourceUpdate(id, r)
           row(id) == IF id \notin r.ids THEN resources[id]
                      ELSE updateResourceTx(resources[id], input(id))
           event(id) == IF id \notin r.ids THEN trail[id]
                        ELSE Replay(trail[id], resourceAuditChanges(resources[id], input(id)),
                                    NoChanges)
           cis == [id \in IDs |-> row(id)]
           log == [id \in IDs |-> event(id)]
<1>1. /\ pc[c] = "confirm" /\ r.op = "bulk"
      /\ \/ UNCHANGED store
         \/ resources' = cis /\ trail' = log /\ UNCHANGED relations
  BY DEF ConfirmBulkResourceMutation, Continue, Refuse
<1>2. DOMAIN r.set \subseteq {"name", "display", "externalId"}
  BY <1>1, RequestsAssumption DEF Base, HandlersInv, ReadyAs
<1>3. /\ IDs = 1 .. n
      /\ \A i \in IDs : /\ FunOn(resources[i], CIFields)
                        /\ Tells(trail[i], resources[i], LinksAt(relations, i))
  BY TrailFacts
<1>4. ASSUME NEW id \in IDs
      PROVE  FunOn(row(id), CIFields) /\ Tells(event(id), row(id), LinksAt(relations, id))
  <2> DEFINE ci == resources[id]  in == input(id)  new == updateResourceTx(ci, in)
             ch == resourceAuditChanges(ci, in)  e == trail[id]  links == LinksAt(relations, id)
  <2>1. FunOn(ci, CIFields) /\ Tells(e, ci, links)
    BY <1>3
  <2>2. DOMAIN in \subseteq ResourceFields
    <3> HIDE DEF r
    <3> QED
      BY <1>2, BulkNames
  <2> HIDE DEF in, ci, e, links
  <2>3. FunOn(new, CIFields) /\ SayFacets(ci, ch, new) /\ SayProfile(ci, NoChanges, new)
    BY <2>1, <2>2, UpdateSays
  <2> HIDE DEF new, ch
  <2>4. Tells(Replay(e, ch, NoChanges), new, links)
    BY <2>1, <2>3, EventTold
  <2>5. CASE id \notin r.ids
    BY <2>1, <2>5 DEF ci, e, links
  <2>6. CASE id \in r.ids
    <3>1. row(id) = new /\ event(id) = Replay(e, ch, NoChanges)
      BY <2>6 DEF new, ch, e, ci, in
    <3> HIDE DEF row, event
    <3> QED
      BY <2>3, <2>4, <3>1 DEF links
  <2> QED
    BY <2>5, <2>6
<1>5. CASE resources' = cis /\ trail' = log /\ UNCHANGED relations
  <2> HIDE DEF row, event, n
  <2>1. /\ FunOn(cis, 1 .. n) /\ FunOn(log, 1 .. n)
        /\ \A i \in 1 .. n : cis[i] = row(i) /\ log[i] = event(i)
    BY <1>3 DEF FunOn
  <2> HIDE DEF cis, log
  <2>2. \A i \in 1 .. n : FunOn(cis[i], CIFields) /\ Tells(log[i], cis[i], LinksAt(relations, i))
    BY <1>3, <1>4, <2>1
  <2>3. Consistent(cis, relations, log)
    <3>1. Replaced(cis, log, relations, n)
      BY <2>1, <2>2 DEF Replaced
    <3> QED
      BY <3>1, ConsistentWith DEF TrailInv, n
  <2>4. Consistent(resources', relations', trail')
    BY <1>5, <2>3
  <2> QED
    BY <2>4 DEF TrailInv
<1> HIDE DEF cis, log
<1> QED
  BY <1>1, <1>5, SameTrail DEF store

(* A commit, and what it leaves behind.                                    *)
LEMMA CommitRun ==
    ASSUME Base, TrailInv, NEW c \in Clients, NEW rows, NEW ids, NEW P, NEW tx,
           pc[c] = "confirm", req[c].op = "ingest", Commits(c, rows, ids, P, tx)
    PROVE  /\ Consistent(resources', relations', trail')
           /\ \A i \in 1 .. Len(rows) : Lone(P, i) =>
                Settled(rows[i], P.rows[i], Run(rows, P)[i].id, resources', relations')
<1> DEFINE n == Len(rows)  run == Run(rows, P)
<1>1. /\ ReviewedRun(rows, P, ids) /\ tx = run[n] /\ P = PreviewIngestion(rows, ids)
      /\ resources' = tx.resources /\ relations' = tx.relations /\ trail' = tx.trail
  BY DEF Commits
<1>2. DOMAIN P.rows = DOMAIN rows
  BY <1>1 DEF PreviewIngestion
<1>3. n \in 0 .. n
  BY <1>1 DEF ReviewedRun
<1>4. \A j \in DOMAIN rows : rows[j].profile \in Submitted \cup {None}
  <2>1. req[c] \in Requests /\ rows = req[c].rows
    BY DEF Base, HandlersInv, ReadyAs, Commits
  <2>2. ParsedIngestion(rows)
    BY <2>1, InventoryAssumption
  <2>3. rows \in Seq(Row)
    BY <2>2 DEF ParsedIngestion
  <2>4. \A j \in DOMAIN rows : rows[j] \in Row
    BY <2>3
  <2> QED
    BY <2>4 DEF Row
<1>5. FullRun(run[n], P, n) /\ AllSettled(run, rows, P, n)
  BY <1>1, <1>2, <1>3, <1>4, FullRunHolds DEF Base, TableInv, TrailInv
<1> HIDE DEF n, run
<1>6. Consistent(tx.resources, tx.relations, tx.trail)
  BY <1>1, <1>5 DEF FullRun
<1>7. \A i \in 1 .. n : Lone(P, i) => Settled(rows[i], P.rows[i], run[i].id, tx.resources, tx.relations)
  BY <1>1, <1>5 DEF AllSettled
<1> QED
  BY <1>1, <1>6, <1>7 DEF n, run

LEMMA IngestTrail ==
    ASSUME Base, TrailInv, NEW c \in Clients, ConfirmIngestion(c)
    PROVE  TrailInv'
<1>1. /\ pc[c] = "confirm" /\ req[c].op = "ingest"
      /\ \/ \E o \in {"conflict", "stale", "error"} : Refuse(c, o)
         \/ \E rows, ids, P, tx : Commits(c, rows, ids, P, tx)
  BY ConfirmCases
<1>2. ASSUME NEW rows, NEW ids, NEW P, NEW tx, Commits(c, rows, ids, P, tx) PROVE TrailInv'
  <2>1. Consistent(resources', relations', trail')
    BY <1>1, <1>2, CommitRun
  <2> QED
    BY <2>1 DEF TrailInv
<1>3. ASSUME NEW o, Refuse(c, o) PROVE TrailInv'
  BY <1>3, SameTrail DEF Refuse, store
<1> QED
  BY <1>1, <1>2, <1>3

LEMMA ReadTrail ==
    ASSUME TrailInv, NEW c \in Clients, NEW r \in Requests,
           \/ ValidateUpdate(c, r) \/ InventoryProfileTarget(c, r)
           \/ CheckRelation(c, r) \/ GetRelation(c, r)
           \/ PreviewBulk(c, r) \/ PreviewAndReview(c, r)
    PROVE  TrailInv'
<1>1. CASE ValidateUpdate(c, r) \/ InventoryProfileTarget(c, r)
  BY <1>1, SameTrail DEF ValidateUpdate, InventoryProfileTarget, ReadUnlessArchived, Refuse, Proceed, store
<1>2. CASE CheckRelation(c, r) \/ GetRelation(c, r)
  BY <1>2, SameTrail DEF CheckRelation, GetRelation, Refuse, Proceed, store
<1>3. CASE PreviewBulk(c, r) \/ PreviewAndReview(c, r)
  BY <1>3, SameTrail DEF PreviewBulk, PreviewAndReview, Refuse, Proceed, store
<1> QED
  BY <1>1, <1>2, <1>3

LEMMA TrailStep ==
    ASSUME Base, TrailInv, [Next]_vars
    PROVE  TrailInv'
<1>1. CASE UNCHANGED vars
  BY <1>1, SameTrail DEF vars, store
<1>2. CASE Tick
  BY <1>2, SameTrail DEF Tick, store
<1>3. ASSUME NEW c \in Clients, NEW r \in Requests,
             \/ Create(c, r) \/ Archive(c, r)
             \/ ValidateUpdate(c, r) \/ InventoryProfileTarget(c, r)
             \/ CheckRelation(c, r) \/ GetRelation(c, r)
             \/ SetManualOverride(c, r) \/ ClearManualOverride(c, r)
             \/ PreviewBulk(c, r) \/ PreviewAndReview(c, r)
      PROVE  TrailInv'
  BY <1>3, CreateTrail, ArchiveTrail, SetOverrideTrail, ClearOverrideTrail, ReadTrail
<1>4. ASSUME NEW c \in Clients,
             \/ UpdateResourceWithAudit(c) \/ MutateProfileWithAudit(c)
             \/ CreateRelationWithAudit(c) \/ DeleteRelationWithAudit(c)
             \/ ConfirmBulkResourceMutation(c)
             \/ FindIngestionCandidates(c) \/ Fail(c)
      PROVE  TrailInv'
  <2>1. CASE FindIngestionCandidates(c) \/ Fail(c)
    BY <2>1, SameTrail DEF FindIngestionCandidates, Fail, Refuse, Proceed, store
  <2> QED
    BY <1>4, <2>1, UpdateTrail, ProfileTrail, RelateTrail, UnrelateTrail, BulkTrail
<1>5. ASSUME NEW c \in Clients, ConfirmIngestion(c) PROVE TrailInv'
  BY <1>5, IngestTrail
<1> QED
  BY <1>1, <1>2, <1>3, <1>4, <1>5 DEF Next

(* Replaying the audit events of a CI from its registration gives the CI   *)
(* (all but whether it is archived, and but for the profile of one that    *)
(* two rows of an ingestion described) and its relations at both ends, at  *)
(* every moment of every behaviour and whatever the batches hold.          *)
THEOREM TrailReplays == Spec => []AuditTrailReplays
<1>1. Init => Base /\ TrailInv
  BY BaseInit, TrailInit
<1>2. Base /\ TrailInv /\ [Next]_vars => (Base /\ TrailInv)'
  BY BaseStep, TrailStep
<1>3. TrailInv => AuditTrailReplays
  BY TrailFacts DEF AuditTrailReplays, Tells, Told
<1> QED
  BY <1>1, <1>2, <1>3, PTL DEF Spec

-----------------------------------------------------------------------------
(* A confirmed row, previewed again.                                       *)

(* The CI k is what the row describes.                                     *)
IsAsDescribed(row, k) ==
    /\ resources[k].type = row.type
    /\ \A f \in DOMAIN Described(row) : resources[k][f] = row[f]
    /\ ProfileSettled(resources[k].profile, row.profile)
    /\ Targets(k) = row.targets

StoredAs(row) ==
    LET previewed == PreviewRow(row, IDs)
    IN previewed.action = "update" /\ OnlyConversionsDiffer(row, previewed.diff)

(* A row that a CI already is matches it alone, and little differs.        *)
LEMMA DescribedIsStored ==
    ASSUME TableInv, NEW row, NEW k \in IDs, IsAsDescribed(row, k)
    PROVE  StoredAs(row)
<1> DEFINE d == Described(row)  ids == IDs  matched == Matched(row, ids)
           id == CHOOSE x \in matched : TRUE  ci == resources[k]
           diff == diffIngestion(row, ci, Targets(k))
<1>1. /\ \A f \in DOMAIN d : d[f] = row[f]
      /\ {"name", "aliases", "externals"} \subseteq DOMAIN d
  BY DescribedNames DEF RowFields
<1>2. /\ ci.type = row.type /\ ci.name = row.name
      /\ ci.aliases = row.aliases /\ ci.externals = row.externals
      /\ \A f \in DOMAIN d : ci[f] = d[f]
  BY <1>1 DEF IsAsDescribed
<1>3. matched = {i \in ids : MatchesCI(row, resources[i])}
  <2> HIDE DEF ids
  <2> QED
    BY MatchedIs
<1>4. MatchesCI(row, ci)
  BY <1>2 DEF MatchesCI
<1>5. ASSUME NEW i \in IDs, i # k PROVE ~MatchesCI(row, resources[i])
  <2>1. /\ <<resources[i].type, resources[i].name>> # <<ci.type, ci.name>>
        /\ resources[i].aliases \cap ci.aliases = {}
        /\ resources[i].externals \cap ci.externals = {}
    BY <1>5 DEF TableInv, UniqueKeysHold, IDs
  <2> QED
    BY <1>2, <2>1 DEF MatchesCI
<1>6. matched = {k}
  BY <1>3, <1>4, <1>5
<1>7. Cardinality(matched) = 1 /\ id = k /\ matched # {}
  BY <1>6, FS_Singleton
<1>8. PreviewRow(row, ids) = UpdateRow(row, k, ci, Targets(k))
  <2>1. resources[id].type = row.type /\ matched = Matched(row, ids) /\ id = CHOOSE x \in matched : TRUE
    BY <1>2, <1>7
  <2> HIDE DEF matched, ids, id
  <2> QED
    BY <1>7, <2>1, PreviewCases
<1>9. /\ diff.fields = FieldDiff(row, ci) /\ diff.profile = diffMaps(ci.profile, row.profile)
      /\ diff.added = row.targets \ Targets(k) /\ diff.removed = Targets(k) \ row.targets
  BY DEF diffIngestion, FieldDiff
<1>10. OnlyConversionsDiffer(row, diff)
  <2> DEFINE ch == diff.fields  pd == diff.profile
  <2>1. \A f \in DOMAIN ch : f = "observed" /\ row.observed \in Numbers
    <3>1. \A f \in DOMAIN ch : f \in DOMAIN d /\ addDiff(f, ci[f], row[f])
      <4>1. ch = FieldDiff(row, ci)
        BY <1>9
      <4> HIDE DEF ch, ci, d
      <4> QED
        BY <4>1, DiffIs DEF d
    <3> HIDE DEF ch
    <3> QED
      BY <1>1, <1>2, <3>1 DEF addDiff
  <2>2. \A x \in DOMAIN pd : Get(row.profile, x) = None /\ pd[x].before = Blank
    <3>1. pd = diffMaps(ci.profile, row.profile) /\ ProfileSettled(ci.profile, row.profile)
      BY <1>9 DEF IsAsDescribed
    <3> HIDE DEF pd, ci
    <3> QED
      BY <3>1 DEF diffMaps, ProfileSettled
  <2>3. diff.added = {} /\ diff.removed = {}
    BY <1>9 DEF IsAsDescribed
  <2> HIDE DEF diff
  <2> QED
    BY <2>1, <2>2, <2>3 DEF OnlyConversionsDiffer
<1>11. PreviewRow(row, ids).action = "update" /\ PreviewRow(row, ids).diff = diff
  BY <1>8 DEF UpdateRow
<1> HIDE DEF diff, ids
<1> QED
  BY <1>10, <1>11 DEF StoredAs, ids

HeldIsStored ==
    \A c \in Clients : TableInv => \A i \in DOMAIN req[c].rows :
        (\E k \in IDs : IsAsDescribed(req[c].rows[i], k)) => StoredAs(req[c].rows[i])

LEMMA HeldRows == HeldIsStored
<1> SUFFICES ASSUME NEW c \in Clients, TableInv, NEW i \in DOMAIN req[c].rows,
                    NEW k \in IDs, IsAsDescribed(req[c].rows[i], k)
             PROVE  StoredAs(req[c].rows[i])
  BY DEF HeldIsStored
<1> DEFINE row == req[c].rows[i]
<1>1. IsAsDescribed(row, k)
  OBVIOUS
<1> HIDE DEF row
<1>2. StoredAs(row)
  BY <1>1, DescribedIsStored
<1> QED
  BY <1>2 DEF row

LEMMA CommitHolds ==
    ASSUME Base, TrailInv, [Next]_vars, NEW c \in Clients, Confirms(c, "ingest"),
           NEW i \in DOMAIN req[c].rows, Lone(memo[c].preview, i)
    PROVE  req' = req /\ (\E k \in IDs : IsAsDescribed(req[c].rows[i], k))'
<1>1. PICK rows, ids, P, tx : Commits(c, rows, ids, P, tx)
  BY OkCommits
<1> DEFINE cis == resources'  rels == relations'  run == Run(rows, P)
<1>2. /\ Consistent(cis, rels, trail')
      /\ \A j \in 1 .. Len(rows) : Lone(P, j) => Settled(rows[j], P.rows[j], run[j].id, cis, rels)
  BY <1>1, CommitRun DEF Confirms
<1>3. req' = req
  <2>1. ConfirmIngestion(c)
    <3>1. ConfirmBulkResourceMutation(c) => req[c].op = "bulk"
      BY DEF ConfirmBulkResourceMutation, Continue
    <3> QED
      BY <3>1, ConfirmsItself DEF Confirms
  <2> QED
    BY <2>1 DEF ConfirmIngestion, Continue
<1>4. rows = req[c].rows /\ DOMAIN rows = 1 .. Len(rows)
  BY <1>1 DEF Commits, ReviewedRun
<1>5. DOMAIN cis = 1 .. Len(cis)
  <2>1. IsTable(cis)
    BY <1>2 DEF Consistent
  <2> HIDE DEF cis
  <2> QED
    BY <2>1, TableDomain
<1>6. Lone(P, i)
  <2> DEFINE Q == memo[c].preview
  <2>1. /\ P = PreviewIngestion(rows, ids) /\ P.fingerprint = Q.fingerprint
        /\ rows = req[c].rows
    BY <1>1 DEF Commits
  <2>2. PreviewSound(rows, P)
    BY <2>1, IngestPreviewSound
  <2>3. PreviewSound(rows, Q)
    BY <2>1 DEF Base, HandlersInv, ReadyAs, Confirms
  <2>4. P.rows = Q.rows
    BY <2>1, <2>2, <2>3 DEF PreviewSound
  <2>5. Lone(Q, i)
    OBVIOUS
  <2> HIDE DEF Q
  <2> QED
    BY <2>4, <2>5 DEF Lone
<1> DEFINE id == run[i].id  row == rows[i]
<1>7. Settled(row, P.rows[i], id, cis, rels)
  BY <1>2, <1>4, <1>6
<1>8. /\ id \in DOMAIN cis /\ cis[id].type = row.type
      /\ \A f \in DOMAIN Described(row) : cis[id][f] = row[f]
      /\ ProfileSettled(cis[id].profile, row.profile)
      /\ TargetsIn(rels, id) = row.targets
  BY <1>5, <1>7 DEF Settled
<1>9. \E k \in DOMAIN cis :
         /\ cis[k].type = row.type
         /\ \A f \in DOMAIN Described(row) : cis[k][f] = row[f]
         /\ ProfileSettled(cis[k].profile, row.profile)
         /\ TargetsIn(rels, k) = row.targets
  BY <1>8
<1>10. \A k : TargetsIn(rels, k) = Targets(k)'
  BY DEF TargetsIn, Targets
<1> QED
  BY <1>3, <1>4, <1>9, <1>10 DEF IsAsDescribed, IDs

(* Once an ingestion has committed, each row that was alone with its CI    *)
(* matches exactly that CI and finds its own values stored, up to whole     *)
(* numbers and blank keys, whatever the rows beside it and the handlers in *)
(* between have done.                                                      *)
THEOREM LoneRowsAreStoredHolds == Spec => LoneRowsAreStored
<1> DEFINE Same == \A c \in Clients : Confirms(c, "ingest") =>
                     \A i \in DOMAIN req[c].rows : Lone(memo[c].preview, i) =>
                         (LET previewed == PreviewRow(req[c].rows[i], IDs)
                          IN /\ previewed.action = "update"
                             /\ OnlyConversionsDiffer(req[c].rows[i], previewed.diff))'
<1>1. Init => Base /\ TrailInv
  BY BaseInit, TrailInit
<1>2. Base /\ TrailInv /\ [Next]_vars => (Base /\ TrailInv)'
  BY BaseStep, TrailStep
<1>3. HeldIsStored
  BY HeldRows
<1>4. Base /\ TrailInv /\ [Next]_vars /\ HeldIsStored' => [Same]_vars
  <2> SUFFICES ASSUME Base, TrailInv, [Next]_vars, HeldIsStored', NEW c \in Clients,
                      Confirms(c, "ingest"), NEW i \in DOMAIN req[c].rows,
                      Lone(memo[c].preview, i)
               PROVE  StoredAs(req[c].rows[i])'
    BY DEF StoredAs
  <2>1. req' = req /\ (\E k \in IDs : IsAsDescribed(req[c].rows[i], k))'
    BY CommitHolds
  <2>2. TableInv'
    BY BaseStep DEF Base
  <2> QED
    BY <2>1, <2>2 DEF HeldIsStored
<1> QED
  BY <1>1, <1>2, <1>3, <1>4, PTL DEF Spec, LoneRowsAreStored
=============================================================================
