---------------------------- MODULE PagingProofs ----------------------------
(***************************************************************************)
(* Proofs about the two readers that walk through pages while the data     *)
(* changes: ExecutionHistory, whose keyset pages go over a growing union   *)
(* of rows and claims, for every page size, every number of pages and      *)
(* every way attempts commit between two pages; and MySQLQuery, what a     *)
(* served statement discloses and how the pages of a walk fit together,    *)
(* for every table, every request, every limit and every change of         *)
(* policies and columns between two steps.                                 *)
(***************************************************************************)
EXTENDS ExecutionHistory, MySQLQuery, TLAPS, FiniteSetTheorems, WellFoundedInduction

LEMMA LeastNatural ==
    ASSUME NEW T \in SUBSET Nat, T # {}
    PROVE  \E m \in T : \A n \in T : m <= n
<1>1. PICK m \in T : \A n \in T : ~(<<n, m>> \in OpToRel(<, Nat))
  BY NatLessThanWellFounded, WFMin
<1>2. \A n \in T : ~(n < m)
  BY <1>1 DEF OpToRel
<1> QED
  BY <1>2

-----------------------------------------------------------------------------
(* PART ONE: ExecutionHistory.                                             *)
-----------------------------------------------------------------------------
(* The list order.                                                         *)

Sortable(x) == x.at \in Nat /\ x.kind \in {0, 1} /\ x.ref \in Nat

(* A finite set whose members the order tells apart.                       *)
Linear(U) ==
    /\ IsFiniteSet(U)
    /\ \A x \in U : Sortable(x)
    /\ \A x, y \in U : x = y \/ Precedes(x, y) \/ Precedes(y, x)

LEMMA OrderIsStrict ==
    ASSUME NEW x, NEW y, Sortable(x), Sortable(y), Precedes(x, y)
    PROVE  ~Precedes(y, x) /\ x # y
BY DEF Sortable, Precedes

LEMMA OrderIsTransitive ==
    ASSUME NEW x, NEW y, NEW z, Sortable(x), Sortable(y), Sortable(z),
           Precedes(x, y), Precedes(y, z)
    PROVE  Precedes(x, z)
BY DEF Sortable, Precedes

(* The WHERE clause of a cursor is the list order.                         *)
LEMMA CursorIsOrder ==
    ASSUME NEW c, NEW x, Sortable(c), Sortable(x), c # NoCursor
    PROVE  AfterCursor(c, x) <=> Precedes(c, x)
BY DEF Sortable, Precedes, AfterCursor

LEMMA LinearSubset ==
    ASSUME NEW U, Linear(U), NEW V \in SUBSET U
    PROVE  Linear(V)
BY FS_Subset DEF Linear

Before(U, x) == {y \in U : Precedes(y, x)}
Behind(U, x) == {y \in U : Precedes(x, y)}

(* Whoever comes earlier has fewer before it and more behind it.           *)
LEMMA RanksGrow ==
    ASSUME NEW U, Linear(U), NEW x \in U, NEW y \in U, Precedes(x, y)
    PROVE  /\ Cardinality(Before(U, x)) \in Nat /\ Cardinality(Before(U, y)) \in Nat
           /\ Cardinality(Behind(U, x)) \in Nat /\ Cardinality(Behind(U, y)) \in Nat
           /\ Cardinality(Before(U, x)) < Cardinality(Before(U, y))
           /\ Cardinality(Behind(U, y)) < Cardinality(Behind(U, x))
<1>1. \A z \in U : Sortable(z)
  BY DEF Linear
<1>2. IsFiniteSet(Before(U, x)) /\ IsFiniteSet(Before(U, y)) /\ IsFiniteSet(Behind(U, x)) /\ IsFiniteSet(Behind(U, y))
  BY FS_Subset DEF Linear, Before, Behind
<1>3. Before(U, x) \subseteq Before(U, y) /\ x \in Before(U, y) /\ x \notin Before(U, x)
  BY <1>1, OrderIsStrict, OrderIsTransitive DEF Before
<1>4. Behind(U, y) \subseteq Behind(U, x) /\ y \in Behind(U, x) /\ y \notin Behind(U, y)
  BY <1>1, OrderIsStrict, OrderIsTransitive DEF Behind
<1>5. /\ Cardinality(Before(U, x)) \in Nat /\ Cardinality(Before(U, y)) \in Nat
      /\ Cardinality(Behind(U, x)) \in Nat /\ Cardinality(Behind(U, y)) \in Nat
  BY <1>2, FS_CardinalityType
<1>6. /\ Cardinality(Before(U, x)) <= Cardinality(Before(U, y))
      /\ Cardinality(Before(U, x)) # Cardinality(Before(U, y))
  BY <1>2, <1>3, FS_Subset
<1>7. /\ Cardinality(Behind(U, y)) <= Cardinality(Behind(U, x))
      /\ Cardinality(Behind(U, y)) # Cardinality(Behind(U, x))
  BY <1>2, <1>4, FS_Subset
<1> QED
  BY <1>5, <1>6, <1>7

LEMMA RanksAreNaturals ==
    ASSUME NEW U, Linear(U), NEW x \in U
    PROVE  Cardinality(Before(U, x)) \in Nat /\ Cardinality(Behind(U, x)) \in Nat
<1>1. IsFiniteSet(Before(U, x)) /\ IsFiniteSet(Behind(U, x))
  BY FS_Subset DEF Linear, Before, Behind
<1> QED
  BY <1>1, FS_CardinalityType

(* A list that is not empty has a first and a last entry.                  *)
LEMMA FirstExists ==
    ASSUME NEW U, Linear(U), U # {}
    PROVE  \E x \in U : \A y \in U \ {x} : Precedes(x, y)
<1> DEFINE R == {Cardinality(Before(U, x)) : x \in U}
<1>1. R \subseteq Nat /\ R # {}
  BY RanksAreNaturals
<1>2. PICK m \in R : \A n \in R : m <= n
  BY <1>1, LeastNatural
<1>3. PICK x \in U : m = Cardinality(Before(U, x))
  BY <1>2
<1>4. \A y \in U : ~Precedes(y, x)
  BY <1>1, <1>2, <1>3, RanksGrow
<1> QED
  BY <1>4 DEF Linear

LEMMA LastExists ==
    ASSUME NEW U, Linear(U), U # {}
    PROVE  \E x \in U : \A y \in U \ {x} : Precedes(y, x)
<1> DEFINE R == {Cardinality(Behind(U, x)) : x \in U}
<1>1. R \subseteq Nat /\ R # {}
  BY RanksAreNaturals
<1>2. PICK m \in R : \A n \in R : m <= n
  BY <1>1, LeastNatural
<1>3. PICK x \in U : m = Cardinality(Behind(U, x))
  BY <1>2
<1>4. \A y \in U : ~Precedes(x, y)
  BY <1>1, <1>2, <1>3, RanksGrow
<1> QED
  BY <1>4 DEF Linear

LEMMA LastOfIsLast ==
    ASSUME NEW U, Linear(U), U # {}
    PROVE  LastOf(U) \in U /\ \A y \in U : y = LastOf(U) \/ Precedes(y, LastOf(U))
BY LastExists DEF LastOf

-----------------------------------------------------------------------------
(* The pages: FirstOf is a prefix of the list order.                       *)

LEMMA FirstOfByRank ==
    ASSUME NEW U, NEW n
    PROVE  FirstOf(n, U) = {x \in U : Cardinality(Before(U, x)) < n}
BY DEF FirstOf, Before

LEMMA FirstOfIsPrefix ==
    ASSUME NEW U, Linear(U), NEW n \in Nat, NEW x \in FirstOf(n, U), NEW y \in U, Precedes(y, x)
    PROVE  y \in FirstOf(n, U)
BY FirstOfByRank, RanksGrow

LEMMA FirstOfSize ==
    ASSUME NEW U, Linear(U), NEW n \in Nat
    PROVE  Cardinality(FirstOf(n, U)) \in Nat /\ Cardinality(FirstOf(n, U)) <= n
<1> DEFINE F == FirstOf(n, U)
<1>1. F \subseteq U /\ Linear(F)
  BY LinearSubset DEF FirstOf
<1>2. CASE F = {}
  BY <1>2, FS_EmptySet
<1>3. CASE F # {}
  <2>1. PICK w \in F : \A y \in F \ {w} : Precedes(y, w)
    BY <1>1, <1>3, LastExists
  <2>2. Cardinality(Before(U, w)) \in Nat /\ Cardinality(Before(U, w)) < n
    BY <1>1, <2>1, FirstOfByRank, RanksAreNaturals
  <2>3. IsFiniteSet(Before(U, w))
    BY FS_Subset DEF Linear, Before
  <2> DEFINE B == Before(U, w) \cup {w}
  <2>4. IsFiniteSet(B) /\ Cardinality(B) \in Nat /\ Cardinality(B) <= Cardinality(Before(U, w)) + 1
    BY <2>2, <2>3, FS_AddElement
  <2>5. F \subseteq B
    BY <1>1, <2>1 DEF Before
  <2>6. Cardinality(F) <= Cardinality(B) /\ Cardinality(F) \in Nat
    BY <2>4, <2>5, FS_Subset, FS_CardinalityType
  <2> QED
    BY <2>2, <2>4, <2>6
<1> QED
  BY <1>2, <1>3

(* Trimming the extra entry gives the first PageSize of the whole list.    *)
LEMMA TrimmedIsPrefix ==
    ASSUME NEW U, Linear(U)
    PROVE  Trimmed(FirstOf(PageSize + 1, U)) = FirstOf(PageSize, U)
<1> DEFINE F == FirstOf(PageSize + 1, U)
<1>1. PageSize \in Nat /\ PageSize + 1 \in Nat
  BY HistoryAssumption
<1>2. F \subseteq U
  BY DEF FirstOf
<1>3. ASSUME NEW x \in F PROVE Before(F, x) = Before(U, x)
  BY <1>1, <1>2, FirstOfIsPrefix DEF Before
<1>4. FirstOf(PageSize, U) \subseteq F
  BY <1>1, FirstOfByRank, RanksAreNaturals
<1> HIDE DEF F
<1>5. FirstOf(PageSize, F) = {x \in F : Cardinality(Before(U, x)) < PageSize}
  BY <1>3, FirstOfByRank
<1> QED
  BY <1>2, <1>4, <1>5, FirstOfByRank DEF Trimmed, F

(* An entry that does not fit on the page shows up in the extra one.       *)
LEMMA MoreIsSeen ==
    ASSUME NEW U, Linear(U), NEW i \in U, i \notin FirstOf(PageSize, U)
    PROVE  Cardinality(FirstOf(PageSize + 1, U)) > PageSize
<1> DEFINE F == FirstOf(PageSize + 1, U)
           rank(x) == Cardinality(Before(U, x))
           Late == {x \in U : rank(x) >= PageSize}
           R == {rank(x) : x \in Late}
<1>1. PageSize \in Nat
  BY HistoryAssumption
<1>2. \A x \in U : rank(x) \in Nat
  BY RanksAreNaturals
<1>3. i \in Late
  BY <1>1, <1>2, FirstOfByRank
<1>4. PICK m \in R : \A n \in R : m <= n
  BY <1>2, <1>3, LeastNatural
<1>5. PICK z \in Late : m = rank(z)
  BY <1>4
<1>6. Before(U, z) \subseteq FirstOf(PageSize, U)
  <2>1. SUFFICES ASSUME NEW y \in U, Precedes(y, z) PROVE rank(y) < PageSize
    BY FirstOfByRank DEF Before
  <2>2. rank(y) < rank(z)
    BY <2>1, RanksGrow
  <2>3. y \notin Late
    BY <1>2, <1>4, <1>5, <2>2
  <2> QED
    BY <1>1, <1>2, <2>3
<1>7. IsFiniteSet(F) /\ IsFiniteSet(FirstOf(PageSize, U)) /\ IsFiniteSet(Before(U, z))
  BY FS_Subset DEF Linear, FirstOf, Before
<1>8. rank(z) = PageSize
  <2>1. Cardinality(FirstOf(PageSize, U)) <= PageSize /\ Cardinality(FirstOf(PageSize, U)) \in Nat
    BY <1>1, FirstOfSize
  <2>2. rank(z) <= Cardinality(FirstOf(PageSize, U))
    BY <1>6, <1>7, FS_Subset
  <2> QED
    BY <1>1, <1>2, <2>1, <2>2
<1>9. z \in F /\ Before(U, z) \subseteq F
  <2>1. z \in F
    BY <1>1, <1>8, FirstOfByRank
  <2>2. ASSUME NEW y \in Before(U, z) PROVE y \in F
    BY <1>1, <2>1, FirstOfIsPrefix DEF Before
  <2> QED
    BY <2>1, <2>2
<1>10. z \notin Before(U, z)
  BY OrderIsStrict DEF Before, Linear
<1> DEFINE B == Before(U, z) \cup {z}
<1>11. IsFiniteSet(B) /\ Cardinality(B) = PageSize + 1
  BY <1>7, <1>8, <1>10, FS_AddElement
<1>12. B \subseteq F
  BY <1>9
<1>13. Cardinality(B) <= Cardinality(F) /\ Cardinality(F) \in Nat
  BY <1>7, <1>12, FS_Subset, FS_CardinalityType
<1> QED
  BY <1>1, <1>11, <1>13

(* The page, its last entry, and what is left for the pages after it.      *)
LEMMA PageFacts ==
    ASSUME NEW U, Linear(U)
    PROVE  LET F == FirstOf(PageSize + 1, U)
               I == Trimmed(F)
               w == LastOf(I)
           IN  /\ I \subseteq U
               /\ Cardinality(F) > PageSize =>
                    /\ w \in I /\ \A y \in I : y = w \/ Precedes(y, w)
                    /\ \A i \in U \ I : Precedes(w, i)
               /\ ~(Cardinality(F) > PageSize) => I = U
<1> DEFINE F == FirstOf(PageSize + 1, U)
           I == FirstOf(PageSize, U)
           w == LastOf(I)
<1>1. Trimmed(F) = I
  BY TrimmedIsPrefix
<1>2. PageSize \in Nat \ {0}
  BY HistoryAssumption
<1>3. I \subseteq U /\ F \subseteq U /\ Linear(I)
  BY LinearSubset DEF FirstOf
<1>4. ASSUME Cardinality(F) > PageSize
      PROVE  /\ w \in I /\ \A y \in I : y = w \/ Precedes(y, w)
             /\ \A i \in U \ I : Precedes(w, i)
  <2>1. F # {}
    BY <1>2, <1>4, FS_EmptySet
  <2>2. PICK x \in U : \A y \in U \ {x} : Precedes(x, y)
    BY <1>3, <2>1, FirstExists
  <2>3. Before(U, x) = {}
    BY <2>2, OrderIsStrict DEF Linear, Before
  <2>4. x \in I
    BY <1>2, <2>3, FS_EmptySet, FirstOfByRank
  <2>5. w \in I /\ \A y \in I : y = w \/ Precedes(y, w)
    BY <1>3, <2>4, LastOfIsLast
  <2> HIDE DEF w
  <2>6. ASSUME NEW i \in U \ I PROVE Precedes(w, i)
    BY <1>2, <1>3, <2>5, FirstOfIsPrefix DEF Linear
  <2> QED
    BY <2>5, <2>6
<1>5. ASSUME ~(Cardinality(F) > PageSize) PROVE I = U
  BY <1>3, <1>5, MoreIsSeen
<1> QED
  BY <1>1, <1>3, <1>4, <1>5

-----------------------------------------------------------------------------
(* The union query.                                                        *)

(* A link is valid as soon as there is one.                                *)
LEMMA LinkIsValid ==
    ASSUME StoreInv, LinkInv, NEW s \in Slots, claims[s] # NoClaim
    PROVE  ValidLink(s) <=> claims[s].execution # 0
BY DEF StoreInv, LinkInv, ValidLink

InRowArm(f, r) ==
    /\ r.target = f.target /\ InScope(f, r.actor) /\ f.status \in {"any", r.status}

InClaimArm(f, s) ==
    /\ f.status = "any" /\ claims[s] # NoClaim /\ claims[s].execution = 0
    /\ s[1] = f.target /\ InScope(f, claims[s].actor)

LEMMA UnionMembers ==
    ASSUME StoreInv, LinkInv, NEW f, NEW x
    PROVE  x \in Union(f) <=>
             \/ \E r \in rows : InRowArm(f, r) /\ x = RowItem(r)
             \/ \E s \in Slots : InClaimArm(f, s) /\ x = ClaimItem(s)
<1>1. x \in ExecArm(f) <=> \E r \in rows : InRowArm(f, r) /\ x = RowItem(r)
  BY DEF ExecArm, InRowArm, RowItem
<1>2. x \in ClaimArm(f) <=> \E s \in Slots : InClaimArm(f, s) /\ x = ClaimItem(s)
  <2> DEFINE C == {s \in Slots : /\ claims[s] # NoClaim /\ s[1] = f.target
                                 /\ InScope(f, claims[s].actor) /\ ~ValidLink(s)}
  <2>1. CASE f.status = "any"
    <3>1. ClaimArm(f) = {ClaimItem(s) : s \in C}
      BY <2>1 DEF ClaimArm
    <3>2. \A s \in Slots : s \in C <=> InClaimArm(f, s)
      BY <2>1, LinkIsValid DEF InClaimArm
    <3> HIDE DEF C
    <3>3. C \subseteq Slots
      BY DEF C
    <3> QED
      BY <3>1, <3>2, <3>3
  <2>2. CASE f.status # "any"
    BY <2>2 DEF ClaimArm, InClaimArm
  <2> QED
    BY <2>1, <2>2
<1> QED
  BY <1>1, <1>2 DEF Union

LEMMA RowItemFields ==
    ASSUME StoreInv, NEW r \in rows
    PROVE  /\ RowItem(r).at = r.createdAt /\ RowItem(r).kind = 0 /\ RowItem(r).ref = r.id
           /\ RowItem(r).key = r.key /\ RowItem(r).status = r.status
           /\ Sortable(RowItem(r))
<1>1. r.id \in Nat /\ r.createdAt \in Nat
  BY HistoryAssumption DEF StoreInv, StoredRow
<1> QED
  BY <1>1 DEF RowItem, Sortable

LEMMA ClaimItemFields ==
    ASSUME StoreInv, NEW s \in Slots, claims[s] # NoClaim
    PROVE  /\ ClaimItem(s).at = claims[s].claimedAt /\ ClaimItem(s).kind = 1
           /\ ClaimItem(s).ref = s[2] /\ ClaimItem(s).key = s[2]
           /\ ClaimItem(s).status = deriveClaimViewStatus(claims[s].claimedAt)
           /\ Sortable(ClaimItem(s))
<1>1. claims[s] \in StoredClaim
  BY DEF StoreInv
<1>2. claims[s].claimedAt \in 0..MaxNow /\ s[2] \in Keys
  BY <1>1 DEF StoredClaim, Slots
<1>3. MaxNow \in Nat /\ Keys \subseteq Nat
  BY HistoryAssumption
<1>4. claims[s].claimedAt \in Nat
  BY <1>2, <1>3
<1>5. s[2] \in Nat
  BY <1>2, <1>3, Zenon
<1> QED
  BY <1>4, <1>5 DEF ClaimItem, Sortable

(* The kind of an entry tells its arm.                                     *)
LEMMA UnionKinds ==
    ASSUME StoreInv, LinkInv, NEW f, NEW x \in Union(f)
    PROVE  \/ x.kind = 0 /\ \E r \in rows : InRowArm(f, r) /\ x = RowItem(r)
           \/ x.kind = 1 /\ \E s \in Slots : InClaimArm(f, s) /\ x = ClaimItem(s)
<1>1. CASE \E r \in rows : InRowArm(f, r) /\ x = RowItem(r)
  BY <1>1, RowItemFields
<1>2. CASE \E s \in Slots : InClaimArm(f, s) /\ x = ClaimItem(s)
  BY <1>2, ClaimItemFields DEF InClaimArm
<1> QED
  BY <1>1, <1>2, UnionMembers

(* The sort keys tell the entries of a query apart.                        *)
LEMMA UnionIsLinear ==
    ASSUME StoreInv, LinkInv, NEW f
    PROVE  Linear(Union(f))
<1>1. IsFiniteSet(Union(f))
  <2> DEFINE R == {r \in rows : InRowArm(f, r)}
             C == {s \in Slots : InClaimArm(f, s)}
             XR == {RowItem(r) : r \in R}
             XC == {ClaimItem(s) : s \in C}
             g == [r \in R |-> RowItem(r)]
             h == [s \in C |-> ClaimItem(s)]
  <2>1. IsFiniteSet(R)
    BY FS_Subset DEF StoreInv
  <2>2. IsFiniteSet(C)
    <3>1. C \subseteq {s \in Slots : claims[s] # NoClaim}
      BY DEF InClaimArm
    <3> QED
      BY <3>1, FS_Subset DEF StoreInv
  <2>3. g \in Surjection(R, XR) /\ h \in Surjection(C, XC)
    BY DEF Surjection
  <2>4. IsFiniteSet(XR) /\ IsFiniteSet(XC)
    BY <2>1, <2>2, <2>3, FS_Surjection
  <2>5. Union(f) = XR \cup XC
    BY UnionMembers
  <2> QED
    BY <2>4, <2>5, FS_Union
<1>2. \A x \in Union(f) : Sortable(x)
  BY UnionMembers, RowItemFields, ClaimItemFields DEF InClaimArm
<1>3. ASSUME NEW x \in Union(f), NEW y \in Union(f)
      PROVE  x = y \/ Precedes(x, y) \/ Precedes(y, x)
  <2>1. SUFFICES ASSUME x.at = y.at, x.kind = y.kind, x.ref = y.ref PROVE x = y
    BY <1>2 DEF Sortable, Precedes
  <2>2. CASE x.kind = 0
    <3>1. PICK r \in rows : x = RowItem(r)
      BY <2>2, UnionKinds
    <3>2. y.kind = 0
      BY <2>1, <2>2
    <3>3. PICK q \in rows : y = RowItem(q)
      BY <3>2, UnionKinds
    <3>4. r = q
      BY <2>1, <3>1, <3>3, RowItemFields DEF StoreInv
    <3> QED
      BY <3>1, <3>3, <3>4
  <2>3. CASE x.kind # 0
    <3>1. PICK s \in Slots : InClaimArm(f, s) /\ x = ClaimItem(s)
      BY <2>3, UnionKinds
    <3>2. PICK t \in Slots : InClaimArm(f, t) /\ y = ClaimItem(t)
      BY <2>1, <2>3, UnionKinds
    <3>3. s[1] = t[1]
      BY <3>1, <3>2 DEF InClaimArm
    <3>4. s[2] = t[2]
      BY <2>1, <3>1, <3>2, ClaimItemFields DEF InClaimArm
    <3>5. s = <<s[1], s[2]>> /\ t = <<t[1], t[2]>>
      BY DEF Slots
    <3>6. s = t
      BY <3>3, <3>4, <3>5
    <3> QED
      BY <3>1, <3>2, <3>6
  <2> QED
    BY <2>2, <2>3
<1> QED
  BY <1>1, <1>2, <1>3 DEF Linear

-----------------------------------------------------------------------------
(* The commits.                                                            *)

(* What a commit leaves of what a reader has seen.                         *)
Grows ==
    /\ rows \subseteq rows' /\ \A r \in rows' \ rows : r.id = nextId
    /\ nextId' \in Nat /\ nextId <= nextId' /\ now' \in Nat /\ now <= now'
    /\ \A s \in Slots : claims[s] # NoClaim =>
         /\ claims'[s] # NoClaim
         /\ claims'[s].claimedAt = claims[s].claimedAt /\ claims'[s].actor = claims[s].actor
         /\ claims'[s].execution = 0 => claims[s].execution = 0

LEMMA InsertClaimStep ==
    ASSUME StoreInv, LinkInv, NEW s \in Slots, NEW actor \in Actor, NEW t \in 0..MaxNow,
           InsertClaim(s, actor, t)
    PROVE  StoreInv' /\ LinkInv' /\ Grows
<1> DEFINE c == [actor |-> actor, claimedAt |-> t, execution |-> 0]
           Taken == {x \in Slots : claims[x] # NoClaim}
<1>1. /\ claims[s] = NoClaim /\ claims' = [claims EXCEPT ![s] = c]
      /\ rows' = rows /\ nextId' = nextId /\ now' = now
  BY DEF InsertClaim
<1>2. c \in StoredClaim /\ c # NoClaim
  BY HistoryAssumption DEF StoredClaim
<1> HIDE DEF c
<1>3. claims' \in [Slots -> {NoClaim} \cup StoredClaim]
  BY <1>1, <1>2 DEF StoreInv
<1>4. claims'[s] = c /\ \A x \in Slots \ {s} : claims'[x] = claims[x]
  BY <1>1 DEF StoreInv
<1>5. {x \in Slots : claims'[x] # NoClaim} = Taken \cup {s}
  BY <1>2, <1>4
<1>6. IsFiniteSet(Taken \cup {s})
  BY FS_AddElement DEF StoreInv
<1>7. StoreInv'
  BY <1>1, <1>3, <1>5, <1>6 DEF StoreInv
<1>8. c.execution = 0
  BY DEF c
<1>9. LinkInv'
  <2>1. ASSUME NEW x \in Slots, claims'[x] # NoClaim, claims'[x].execution # 0
        PROVE  ValidLink(x)'
    <3>1. x # s /\ claims'[x] = claims[x]
      BY <1>4, <1>8, <2>1
    <3> QED
      BY <1>1, <2>1, <3>1 DEF LinkInv, ValidLink
  <2>2. ASSUME NEW r \in rows, r.key # NoKey
        PROVE  LET x == <<r.target, r.key>>
               IN  /\ claims'[x] # NoClaim /\ claims'[x].execution = r.id
                   /\ claims'[x].claimedAt <= r.createdAt
    <3>1. <<r.target, r.key>> \in Slots
      BY <2>2 DEF StoreInv, StoredRow, Slots
    <3>2. claims[<<r.target, r.key>>] # NoClaim
      BY <2>2 DEF LinkInv
    <3> QED
      BY <1>1, <1>4, <2>2, <3>1, <3>2 DEF LinkInv
  <2> QED
    BY <1>1, <2>1, <2>2 DEF LinkInv
<1>10. Grows
  BY <1>1, <1>4 DEF Grows, StoreInv
<1> QED
  BY <1>7, <1>9, <1>10

(* A row is added under the next id.                                       *)
LEMMA InsertRowStep ==
    ASSUME StoreInv, NEW target \in Targets, NEW key \in Keys \cup {NoKey}, NEW actor \in Actor,
           NEW status \in Statuses, NEW t \in 0..MaxNow, InsertRow(target, key, actor, status, t)
    PROVE  LET new == [id |-> nextId, target |-> target, key |-> key, actor |-> actor,
                       status |-> status, createdAt |-> t]
           IN  /\ rows' = rows \cup {new} /\ new \in StoredRow
               /\ nextId' = nextId + 1 /\ nextId' \in Nat \ {0}
               /\ rows' \subseteq StoredRow /\ IsFiniteSet(rows')
               /\ \A r \in rows' : r.id \in 1..nextId' - 1
               /\ \A r, q \in rows' : r.id = q.id => r = q
<1> DEFINE new == [id |-> nextId, target |-> target, key |-> key, actor |-> actor,
                   status |-> status, createdAt |-> t]
<1>1. rows' = rows \cup {new} /\ nextId' = nextId + 1
  BY DEF InsertRow
<1>2. new \in StoredRow /\ new.id = nextId /\ nextId \in Nat \ {0}
  BY DEF StoredRow, StoreInv
<1> HIDE DEF new
<1>3. rows' \subseteq StoredRow /\ IsFiniteSet(rows')
  BY <1>1, <1>2, FS_AddElement DEF StoreInv
<1>4. \A r \in rows : r.id \in 1..nextId - 1
  BY DEF StoreInv
<1>5. \A r \in rows' : r.id \in 1..nextId' - 1
  BY <1>1, <1>2, <1>4
<1>6. \A r, q \in rows' : r.id = q.id => r = q
  BY <1>1, <1>2, <1>4 DEF StoreInv
<1> QED
  BY <1>1, <1>2, <1>3, <1>5, <1>6 DEF new

LEMMA InsertKeylessStep ==
    ASSUME StoreInv, LinkInv, NEW target \in Targets, NEW actor \in Actor,
           NEW status \in Statuses, NEW t \in 0..MaxNow, InsertKeyless(target, actor, status, t)
    PROVE  StoreInv' /\ LinkInv' /\ Grows
<1> DEFINE new == [id |-> nextId, target |-> target, key |-> NoKey, actor |-> actor,
                   status |-> status, createdAt |-> t]
<1>1. /\ InsertRow(target, NoKey, actor, status, t) /\ claims' = claims /\ now' = now
      /\ new.key = NoKey /\ new.id = nextId /\ NoKey \in Keys \cup {NoKey}
  BY DEF InsertKeyless
<1>2. /\ rows' = rows \cup {new} /\ nextId' = nextId + 1 /\ nextId' \in Nat \ {0}
      /\ rows' \subseteq StoredRow /\ IsFiniteSet(rows')
      /\ \A r \in rows' : r.id \in 1..nextId' - 1
      /\ \A r, q \in rows' : r.id = q.id => r = q
  <2> DEFINE Added(n) == /\ rows' = rows \cup {n} /\ n \in StoredRow
                         /\ nextId' = nextId + 1 /\ nextId' \in Nat \ {0}
                         /\ rows' \subseteq StoredRow /\ IsFiniteSet(rows')
                         /\ \A r \in rows' : r.id \in 1..nextId' - 1
                         /\ \A r, q \in rows' : r.id = q.id => r = q
  <2>1. Added(new)
    BY <1>1, InsertRowStep, Zenon
  <2> QED
    BY <2>1
<1> HIDE DEF new
<1>3. StoreInv'
  BY <1>1, <1>2 DEF StoreInv
<1>4. LinkInv'
  <2>1. ASSUME NEW x \in Slots, claims'[x] # NoClaim, claims'[x].execution # 0
        PROVE  ValidLink(x)'
    BY <1>1, <1>2, <2>1 DEF LinkInv, ValidLink
  <2>2. ASSUME NEW r \in rows', r.key # NoKey PROVE r \in rows
    BY <1>1, <1>2, <2>2
  <2> QED
    BY <1>1, <2>1, <2>2 DEF LinkInv
<1>5. Grows
  BY <1>1, <1>2 DEF Grows, StoreInv
<1> QED
  BY <1>3, <1>4, <1>5

LEMMA FinalizeStep ==
    ASSUME StoreInv, LinkInv, NEW s \in Slots, NEW status \in Statuses, NEW t \in 0..MaxNow,
           FinalizeClaim(s, status, t)
    PROVE  StoreInv' /\ LinkInv' /\ Grows
<1> DEFINE old == claims[s]
           new == [id |-> nextId, target |-> s[1], key |-> s[2], actor |-> old.actor,
                   status |-> status, createdAt |-> t]
<1>1. /\ old # NoClaim /\ old.execution = 0 /\ old.claimedAt <= t /\ now' = now
      /\ InsertRow(s[1], s[2], old.actor, status, t)
      /\ claims' = [claims EXCEPT ![s] = [old EXCEPT !.execution = nextId]]
  BY DEF FinalizeClaim
<1>2. /\ s[1] \in Targets /\ s[2] \in Keys /\ s[2] # NoKey /\ s = <<s[1], s[2]>>
      /\ old \in StoredClaim /\ nextId \in Nat \ {0}
  <2>1. s[1] \in Targets /\ s[2] \in Keys /\ s = <<s[1], s[2]>>
    BY DEF Slots
  <2>2. NoKey \notin Keys
    BY HistoryAssumption
  <2> QED
    BY <1>1, <2>1, <2>2 DEF StoreInv
<1>3. /\ rows' = rows \cup {new} /\ nextId' = nextId + 1 /\ nextId' \in Nat \ {0}
      /\ rows' \subseteq StoredRow /\ IsFiniteSet(rows')
      /\ \A r \in rows' : r.id \in 1..nextId' - 1
      /\ \A r, q \in rows' : r.id = q.id => r = q
  <2>1. old.actor \in Actor
    BY <1>2 DEF StoredClaim
  <2> QED
    BY <1>1, <1>2, <2>1, InsertRowStep
<1> DEFINE c == [old EXCEPT !.execution = nextId]
<1>4. /\ c \in StoredClaim /\ c.execution = nextId /\ c.actor = old.actor
      /\ c.claimedAt = old.claimedAt
  BY <1>2 DEF StoredClaim
<1>5. c # NoClaim
  BY <1>4, HistoryAssumption
<1>6. /\ new.id = nextId /\ new.target = s[1] /\ new.key = s[2] /\ new.actor = old.actor
      /\ new.createdAt = t
  OBVIOUS
<1> HIDE DEF new, c
<1>7. claims' = [claims EXCEPT ![s] = c]
  BY <1>1 DEF c
<1>8. /\ claims' \in [Slots -> {NoClaim} \cup StoredClaim]
      /\ claims'[s] = c /\ \A x \in Slots \ {s} : claims'[x] = claims[x]
  BY <1>4, <1>7 DEF StoreInv
<1>9. {x \in Slots : claims'[x] # NoClaim} = {x \in Slots : claims[x] # NoClaim}
  BY <1>1, <1>5, <1>8
<1>10. StoreInv'
  BY <1>1, <1>3, <1>8, <1>9 DEF StoreInv
<1>11. LinkInv'
  <2>1. ASSUME NEW x \in Slots, claims'[x] # NoClaim, claims'[x].execution # 0
        PROVE  ValidLink(x)'
    <3>1. CASE x = s
      BY <1>2, <1>3, <1>4, <1>6, <1>8, <3>1 DEF ValidLink
    <3>2. CASE x # s
      <4>1. claims'[x] = claims[x]
        BY <1>8, <3>2
      <4> QED
        BY <1>3, <2>1, <4>1 DEF LinkInv, ValidLink
    <3> QED
      BY <3>1, <3>2
  <2>2. ASSUME NEW r \in rows', r.key # NoKey
        PROVE  LET x == <<r.target, r.key>>
               IN  /\ claims'[x] # NoClaim /\ claims'[x].execution = r.id
                   /\ claims'[x].claimedAt <= r.createdAt
    <3>1. CASE r = new
      <4>1. <<r.target, r.key>> = s
        BY <1>2, <1>6, <3>1
      <4> QED
        BY <1>1, <1>4, <1>5, <1>6, <1>8, <3>1, <4>1
    <3>2. CASE r \in rows
      <4> DEFINE x == <<r.target, r.key>>
      <4>1. x \in Slots
        BY <2>2, <3>2 DEF StoreInv, StoredRow, Slots
      <4>2. claims[x] # NoClaim /\ claims[x].execution = r.id /\ claims[x].claimedAt <= r.createdAt
        BY <2>2, <3>2 DEF LinkInv
      <4>3. r.id # 0
        BY <1>2, <3>2 DEF StoreInv
      <4>4. x # s
        BY <1>1, <4>2, <4>3
      <4> QED
        BY <1>8, <4>1, <4>2, <4>4
    <3> QED
      BY <1>3, <2>2, <3>1, <3>2
  <2> QED
    BY <2>1, <2>2 DEF LinkInv
<1>12. Grows
  <2>1. \A r \in rows' \ rows : r.id = nextId
    BY <1>3, <1>6
  <2>2. \A x \in Slots : claims[x] # NoClaim =>
          /\ claims'[x] # NoClaim
          /\ claims'[x].claimedAt = claims[x].claimedAt /\ claims'[x].actor = claims[x].actor
          /\ claims'[x].execution = 0 => claims[x].execution = 0
    BY <1>1, <1>4, <1>5, <1>8
  <2>3. now' \in Nat /\ now <= now' /\ nextId' \in Nat /\ nextId <= nextId' /\ rows \subseteq rows'
    BY <1>1, <1>2, <1>3 DEF StoreInv
  <2> QED
    BY <2>1, <2>2, <2>3 DEF Grows
<1> QED
  BY <1>10, <1>11, <1>12

LEMMA StoreStep ==
    ASSUME StoreInv, LinkInv, StoreNext
    PROVE  StoreInv' /\ LinkInv' /\ Grows
<1>1. ASSUME ClockTick PROVE StoreInv' /\ LinkInv' /\ Grows
  <2>1. /\ claims' = claims /\ rows' = rows /\ nextId' = nextId /\ now' = now + 1
        /\ now \in Nat /\ nextId \in Nat
    BY <1>1 DEF ClockTick, StoreInv
  <2>2. StoreInv' /\ LinkInv'
    BY <2>1 DEF StoreInv, LinkInv, ValidLink
  <2>3. Grows
    BY <2>1 DEF Grows
  <2> QED
    BY <2>2, <2>3
<1> QED
  BY <1>1, InsertClaimStep, InsertKeylessStep, FinalizeStep DEF StoreNext

-----------------------------------------------------------------------------
(* Which entries are the same execution.                                   *)

LEMMA StandingIsSortable ==
    ASSUME StoreInv, NEW f, NEW x, Stands(f, x)
    PROVE  Sortable(x)
<1>1. ASSUME x.kind = 0, RowStands(f, x) PROVE Sortable(x)
  <2>1. PICK r \in rows : r.id = x.ref /\ r.createdAt = x.at
    BY <1>1 DEF RowStands
  <2>2. r.id \in Nat /\ r.createdAt \in Nat
    BY HistoryAssumption DEF StoreInv, StoredRow
  <2> QED
    BY <1>1, <2>1, <2>2 DEF Sortable
<1>2. ASSUME x.kind = 1, ClaimStands(f, x) PROVE Sortable(x)
  <2> DEFINE s == <<f.target, x.key>>
  <2>1. s \in Slots /\ claims[s] # NoClaim /\ x.ref = s[2] /\ x.at = claims[s].claimedAt
    BY <1>2 DEF ClaimStands
  <2>2. claims[s].claimedAt \in 0..MaxNow /\ s[2] \in Keys
    BY <2>1 DEF StoreInv, StoredClaim, Slots
  <2>3. MaxNow \in Nat /\ Keys \subseteq Nat
    BY HistoryAssumption
  <2>4. x.at \in Nat
    BY <2>1, <2>2, <2>3
  <2>5. x.ref \in Nat
    BY <2>1, <2>2, <2>3, Zenon
  <2> QED
    BY <1>2, <2>4, <2>5 DEF Sortable
<1> QED
  BY <1>1, <1>2 DEF Stands

LEMMA UnionStands ==
    ASSUME StoreInv, LinkInv, NEW f, NEW x \in Union(f)
    PROVE  Stands(f, x)
<1>1. ASSUME NEW r \in rows, InRowArm(f, r), x = RowItem(r) PROVE Stands(f, x)
  BY <1>1, RowItemFields DEF Stands, RowStands, InRowArm
<1>2. ASSUME NEW s \in Slots, InClaimArm(f, s), x = ClaimItem(s) PROVE Stands(f, x)
  <2>1. s = <<s[1], s[2]>>
    BY DEF Slots
  <2>2. claims[s] # NoClaim /\ s[1] = f.target
    BY <1>2 DEF InClaimArm
  <2>3. x.kind = 1 /\ x.key = s[2] /\ x.ref = s[2] /\ x.at = claims[s].claimedAt
    BY <1>2, <2>2, ClaimItemFields
  <2>4. <<f.target, x.key>> = s
    BY <2>1, <2>2, <2>3
  <2> QED
    BY <2>2, <2>3, <2>4 DEF Stands, ClaimStands
<1> QED
  BY <1>1, <1>2, UnionMembers

LEMMA KeyedSlot ==
    ASSUME StoreInv, LinkInv, NEW r \in rows, r.key # NoKey
    PROVE  /\ <<r.target, r.key>> \in Slots
           /\ claims[<<r.target, r.key>>].execution = r.id /\ r.id # 0
           /\ claims[<<r.target, r.key>>].claimedAt <= r.createdAt
BY DEF StoreInv, LinkInv, StoredRow, Slots

(* Two standing entries of one execution are the same entry, or a claim    *)
(* and the later row that settled it.                                      *)
LEMMA SameExecution ==
    ASSUME StoreInv, LinkInv, NEW f, NEW x, NEW y, Stands(f, x), Stands(f, y),
           Identity(x) = Identity(y)
    PROVE  /\ x.kind = y.kind => x.at = y.at /\ x.ref = y.ref
           /\ x.kind = 1 /\ y.kind = 0 =>
                x.at <= y.at /\ claims[<<f.target, x.key>>].execution # 0
<1>1. /\ x.key = NoKey <=> y.key = NoKey
      /\ x.key = y.key
      /\ x.key = NoKey => x.ref = y.ref
  BY DEF Identity
<1>2. ASSUME x.kind = 0, y.kind = 0 PROVE x.at = y.at /\ x.ref = y.ref
  <2>1. PICK r \in rows : r.id = x.ref /\ r.createdAt = x.at /\ r.key = x.key /\ r.target = f.target
    BY <1>2 DEF Stands, RowStands
  <2>2. PICK q \in rows : q.id = y.ref /\ q.createdAt = y.at /\ q.key = y.key /\ q.target = f.target
    BY <1>2 DEF Stands, RowStands
  <2>3. r.id = q.id
    <3>1. CASE x.key = NoKey
      BY <1>1, <2>1, <2>2, <3>1
    <3>2. CASE x.key # NoKey
      BY <1>1, <2>1, <2>2, <3>2, KeyedSlot
    <3> QED
      BY <3>1, <3>2
  <2>4. r = q
    BY <2>3 DEF StoreInv
  <2> QED
    BY <2>1, <2>2, <2>4
<1>3. ASSUME x.kind = 1 PROVE ClaimStands(f, x) /\ x.key # NoKey
  <2>1. ClaimStands(f, x)
    BY <1>3 DEF Stands
  <2>2. x.key \in Keys
    BY <2>1 DEF ClaimStands, Slots
  <2> QED
    BY <2>1, <2>2, HistoryAssumption
<1>4. ASSUME x.kind = 1, y.kind = 1 PROVE x.at = y.at /\ x.ref = y.ref
  BY <1>1, <1>3, <1>4 DEF Stands, ClaimStands
<1>5. ASSUME x.kind = 1, y.kind = 0
      PROVE  x.at <= y.at /\ claims[<<f.target, x.key>>].execution # 0
  <2>1. PICK q \in rows : q.id = y.ref /\ q.createdAt = y.at /\ q.key = y.key /\ q.target = f.target
    BY <1>5 DEF Stands, RowStands
  <2>2. q.key = x.key /\ q.key # NoKey
    BY <1>1, <1>3, <1>5, <2>1
  <2>3. claims[<<f.target, x.key>>].claimedAt = x.at
    BY <1>3, <1>5 DEF ClaimStands
  <2>4. /\ claims[<<f.target, x.key>>].execution = q.id /\ q.id # 0
        /\ claims[<<f.target, x.key>>].claimedAt <= q.createdAt
    BY <2>1, <2>2, KeyedSlot
  <2> QED
    BY <2>1, <2>3, <2>4
<1>6. x.kind \in {0, 1}
  BY DEF Stands
<1> QED
  BY <1>2, <1>4, <1>5, <1>6

(* No two entries of one page are the same execution ...                   *)
LEMMA OnePageDiffers ==
    ASSUME StoreInv, LinkInv, NEW f, NEW x \in Union(f), NEW y \in Union(f),
           Identity(x) = Identity(y)
    PROVE  x = y
<1>1. Stands(f, x) /\ Stands(f, y)
  BY UnionStands
<1>2. ASSUME NEW u \in Union(f), u.kind = 1
      PROVE  claims[<<f.target, u.key>>].execution = 0
  <2>1. PICK s \in Slots : InClaimArm(f, s) /\ u = ClaimItem(s)
    BY <1>2, UnionKinds
  <2>2. s = <<s[1], s[2]>> /\ s[1] = f.target /\ u.key = s[2] /\ claims[s].execution = 0
    BY <2>1, ClaimItemFields DEF InClaimArm, Slots
  <2> QED
    BY <2>2
<1>3. x.kind = y.kind
  <2>1. ~(x.kind = 1 /\ y.kind = 0)
    BY <1>1, <1>2, SameExecution
  <2>2. ~(y.kind = 1 /\ x.kind = 0)
    BY <1>1, <1>2, SameExecution
  <2> QED
    BY <1>1, <2>1, <2>2 DEF Stands
<1>4. x.at = y.at /\ x.ref = y.ref
  BY <1>1, <1>3, SameExecution
<1>5. ~Precedes(x, y) /\ ~Precedes(y, x)
  BY <1>1, <1>3, <1>4, StandingIsSortable DEF Sortable, Precedes
<1> QED
  BY <1>5, UnionIsLinear DEF Linear

(* ... and none beyond the cursor is one that was listed before it.        *)
LEMMA LaterPagesDiffer ==
    ASSUME StoreInv, LinkInv, NEW f, NEW c, Sortable(c), c # NoCursor,
           NEW x, Stands(f, x), ~AfterCursor(c, x),
           NEW y \in Union(f), AfterCursor(c, y)
    PROVE  Identity(x) # Identity(y)
<1>1. SUFFICES ASSUME Identity(x) = Identity(y) PROVE FALSE
  OBVIOUS
<1>2. Stands(f, y) /\ Sortable(x) /\ Sortable(y)
  BY UnionStands, StandingIsSortable
<1>3. ~Precedes(c, x) /\ Precedes(c, y)
  BY <1>2, CursorIsOrder
<1>4. CASE x.kind = y.kind
  <2>1. x.at = y.at /\ x.ref = y.ref
    BY <1>1, <1>2, <1>4, SameExecution
  <2> QED
    BY <1>3, <1>4, <2>1 DEF Precedes
<1>5. CASE x.kind = 1 /\ y.kind = 0
  <2>1. x.at <= y.at
    BY <1>1, <1>2, <1>5, SameExecution
  <2>2. Precedes(y, x)
    BY <1>2, <1>5, <2>1 DEF Precedes, Sortable
  <2> QED
    BY <1>2, <1>3, <2>2, OrderIsTransitive
<1>6. CASE x.kind = 0 /\ y.kind = 1
  <2>1. claims[<<f.target, y.key>>].execution # 0
    BY <1>1, <1>2, <1>6, SameExecution
  <2>2. PICK s \in Slots : InClaimArm(f, s) /\ y = ClaimItem(s)
    BY <1>6, UnionKinds
  <2>3. s = <<s[1], s[2]>> /\ s[1] = f.target /\ y.key = s[2] /\ claims[s].execution = 0
    BY <2>2, ClaimItemFields DEF InClaimArm, Slots
  <2> QED
    BY <2>1, <2>3
<1> QED
  BY <1>2, <1>4, <1>5, <1>6 DEF Sortable

-----------------------------------------------------------------------------
(* Reading one page.                                                       *)

(* What a page delivers, what its cursor leaves behind, what it leaves     *)
(* ahead.                                                                  *)
PageRead(f, c, I) ==
    /\ I \subseteq {x \in Union(f) : AfterCursor(c, x)}
    /\ cursor' # NoCursor =>
         /\ cursor' \in Cursor /\ cursor'.query = f
         /\ \A x \in I : ~AfterCursor(cursor', x)
         /\ c # NoCursor => Precedes(c, cursor')
    /\ \A i \in Union(f) : AfterCursor(c, i) =>
         i \in I \/ (cursor' # NoCursor /\ AfterCursor(cursor', i))

LEMMA CursorIsSortable ==
    ASSUME NEW c \in Cursor
    PROVE  Sortable(c) /\ c # NoCursor
BY QueriesAssumption DEF Cursor, Sortable

LEMMA DeliverReads ==
    ASSUME StoreInv, LinkInv, NEW f \in Query, NEW c, c = NoCursor \/ c \in Cursor,
           Deliver(f, c)
    PROVE  PageRead(f, c, Trimmed(Fetched(f, c)))
<1> DEFINE U == {x \in Union(f) : AfterCursor(c, x)}
           F == FirstOf(PageSize + 1, U)
           I == Trimmed(F)
           w == LastOf(I)
<1>1. Fetched(f, c) = F
  BY DEF Fetched
<1>2. cursor' = IF Cardinality(F) > PageSize THEN EncodeCursor(w, f) ELSE NoCursor
  BY <1>1 DEF Deliver
<1>3. Linear(U)
  BY UnionIsLinear, LinearSubset
<1>4. /\ I \subseteq U
      /\ Cardinality(F) > PageSize =>
           /\ w \in I /\ \A y \in I : y = w \/ Precedes(y, w)
           /\ \A i \in U \ I : Precedes(w, i)
      /\ ~(Cardinality(F) > PageSize) => I = U
  BY <1>3, PageFacts
<1>5. \A x \in U : Sortable(x)
  BY <1>3 DEF Linear
<1> HIDE DEF w, I, F
<1>6. CASE ~(Cardinality(F) > PageSize)
  BY <1>1, <1>2, <1>4, <1>6 DEF PageRead, I
<1>7. CASE Cardinality(F) > PageSize
  <2> DEFINE d == EncodeCursor(w, f)
  <2>1. cursor' = d /\ w \in U /\ Sortable(w)
    BY <1>2, <1>4, <1>5, <1>7
  <2>2. d \in Cursor /\ d.query = f /\ d.at = w.at /\ d.kind = w.kind /\ d.ref = w.ref
    BY <2>1 DEF EncodeCursor, Cursor, Sortable
  <2> HIDE DEF d
  <2>3. Sortable(d) /\ d # NoCursor
    BY <2>2, CursorIsSortable
  <2>4. ASSUME NEW x \in U PROVE AfterCursor(d, x) <=> Precedes(w, x)
    <3>1. AfterCursor(d, x) <=> Precedes(d, x)
      BY <1>5, <2>3, CursorIsOrder
    <3>2. Precedes(d, x) <=> Precedes(w, x)
      BY <2>2 DEF Precedes
    <3> QED
      BY <3>1, <3>2
  <2>5. \A x \in I : ~AfterCursor(d, x)
    BY <1>4, <1>5, <1>7, <2>1, <2>4, OrderIsStrict
  <2>6. ASSUME c # NoCursor PROVE Precedes(c, d)
    <3>1. Precedes(c, w)
      BY <2>1, <2>6, CursorIsSortable, CursorIsOrder
    <3> QED
      BY <2>2, <3>1 DEF Precedes
  <2>7. \A i \in U : i \in I \/ AfterCursor(d, i)
    BY <1>4, <1>7, <2>4
  <2> QED
    BY <1>1, <1>4, <2>1, <2>2, <2>3, <2>5, <2>6, <2>7 DEF PageRead, I
<1> QED
  BY <1>6, <1>7

(* The entries that a walk owes are entries of its query.                  *)
LEMMA OwedAreListed ==
    ASSUME StoreInv, LinkInv, NEW f
    PROVE  /\ \A r \in rows : InRowArm(f, r) => RowItem(r) \in Union(f)
           /\ \A s \in Slots : InClaimArm(f, s) => ClaimItem(s) \in Union(f)
BY UnionMembers

LEMMA FirstPageStep ==
    ASSUME StoreInv, LinkInv, NEW f \in Queries, FirstPage(f)
    PROVE  WalkInv' /\ NoExecutionListedTwice' /\ CoverInv'
<1> DEFINE I == Trimmed(Fetched(f, NoCursor))
           ids == {r.id : r \in rows}
           open == {s \in Slots : claims[s] # NoClaim /\ claims[s].execution = 0}
<1>1. /\ page' = 1 /\ listed' = {[page |-> 1, item |-> x] : x \in I}
      /\ base' = [ids |-> ids, open |-> open] /\ filter' = f
      /\ claims' = claims /\ rows' = rows /\ nextId' = nextId /\ now' = now
  BY DEF FirstPage, Deliver, evidenceVars
<1>2. f \in Query
  BY QueriesAssumption
<1>3. PageRead(f, NoCursor, I)
  BY <1>2, DeliverReads DEF FirstPage
<1> HIDE DEF I
<1>4. /\ I \subseteq Union(f)
      /\ cursor' # NoCursor => /\ cursor' \in Cursor /\ cursor'.query = f
                               /\ \A x \in I : ~AfterCursor(cursor', x)
      /\ \A i \in Union(f) : i \in I \/ (cursor' # NoCursor /\ AfterCursor(cursor', i))
  BY <1>3 DEF PageRead, AfterCursor
<1>5. \A x \in listed' : x.page = 1 /\ x.item \in I /\ x = [page |-> 1, item |-> x.item]
  BY <1>1
<1>6. \A i \in I : [page |-> 1, item |-> i] \in listed' /\ [page |-> 1, item |-> i].item = i
  BY <1>1
<1>7. WalkInv'
  <2>1. ASSUME NEW x \in listed' PROVE Stands(filter, x.item)'
    <3>1. Stands(f, x.item)
      BY <1>4, <1>5, UnionStands
    <3> QED
      BY <1>1, <3>1 DEF Stands, RowStands, ClaimStands
  <2>2. \A x \in listed' : cursor' # NoCursor => ~AfterCursor(cursor', x.item)
    BY <1>4, <1>5
  <2>3. page' \in Nat /\ page' # 0 /\ \A x \in listed' : x.page \in 1..page'
    BY <1>1, <1>5
  <2> QED
    BY <1>1, <1>2, <1>4, <2>1, <2>2, <2>3 DEF WalkInv
<1>8. NoExecutionListedTwice'
  <2>1. SUFFICES ASSUME NEW x \in listed', NEW y \in listed', Identity(x.item) = Identity(y.item)
                 PROVE  x = y
    BY DEF NoExecutionListedTwice, Identity
  <2>2. x.item = y.item
    BY <1>4, <1>5, <2>1, OnePageDiffers
  <2> QED
    BY <1>5, <2>2
<1>9. CoverInv'
  <2>1. base'.ids = ids /\ base'.open = open
    BY <1>1
  <2>2. base'.ids \subseteq 1..nextId' - 1
    BY <1>1, <2>1 DEF StoreInv
  <2>3. base'.open \subseteq {s \in Slots : claims'[s] # NoClaim}
    BY <1>1, <2>1
  <2>4. ASSUME NEW r \in rows', OwedRow(r)'
        PROVE  Ahead(RowItem(r))' \/ \E x \in listed' : x.item.kind = 0 /\ x.item.ref = r.id
    <3>1. r \in rows /\ InRowArm(f, r)
      BY <1>1, <2>4 DEF OwedRow, InRowArm, InScope
    <3>2. RowItem(r) \in Union(f) /\ RowItem(r).kind = 0 /\ RowItem(r).ref = r.id
      BY <3>1, OwedAreListed, RowItemFields
    <3>3. CASE RowItem(r) \in I
      BY <1>6, <3>2, <3>3
    <3>4. CASE cursor' # NoCursor /\ AfterCursor(cursor', RowItem(r))
      BY <3>4 DEF Ahead, RowItem, AfterCursor
    <3> QED
      BY <1>4, <3>2, <3>3, <3>4
  <2>5. ASSUME NEW s \in base'.open, OwedClaim(s)'
        PROVE  Ahead(ClaimItem(s))' \/ \E x \in listed' : x.item.kind = 1 /\ x.item.ref = s[2]
    <3>1. s \in Slots /\ InClaimArm(f, s) /\ claims[s] # NoClaim
      BY <1>1, <2>1, <2>5 DEF OwedClaim, InClaimArm, InScope
    <3>2. ClaimItem(s) \in Union(f) /\ ClaimItem(s).kind = 1 /\ ClaimItem(s).ref = s[2]
      BY <3>1, OwedAreListed, ClaimItemFields
    <3>3. CASE ClaimItem(s) \in I
      BY <1>6, <3>2, <3>3
    <3>4. CASE cursor' # NoCursor /\ AfterCursor(cursor', ClaimItem(s))
      <4>1. ClaimItem(s)' = ClaimItem(s)
        BY <1>1 DEF ClaimItem, deriveClaimViewStatus
      <4> QED
        BY <3>4, <4>1 DEF Ahead, AfterCursor
    <3> QED
      BY <1>4, <3>2, <3>3, <3>4
  <2>6. /\ \A r \in rows' : OwedRow(r)' =>
             Ahead(RowItem(r))' \/ \E x \in listed' : x.item.kind = 0 /\ x.item.ref = r.id
        /\ \A s \in base'.open : OwedClaim(s)' =>
             Ahead(ClaimItem(s))' \/ \E x \in listed' : x.item.kind = 1 /\ x.item.ref = s[2]
    BY <2>4, <2>5
  <2> QED
    BY <2>2, <2>3, <2>6, Zenon DEF CoverInv
<1> QED
  BY <1>7, <1>8, <1>9

LEMMA NextPageStep ==
    ASSUME StoreInv, LinkInv, WalkInv, NoExecutionListedTwice, CoverInv,
           NEW f \in Queries, NextPage(f)
    PROVE  WalkInv' /\ NoExecutionListedTwice' /\ CoverInv'
<1> DEFINE I == Trimmed(Fetched(f, cursor))
           new == {[page |-> page + 1, item |-> x] : x \in I}
<1>1. /\ page' = page + 1 /\ listed' = listed \cup new /\ base' = base /\ filter' = f
      /\ claims' = claims /\ rows' = rows /\ nextId' = nextId /\ now' = now
  BY DEF NextPage, Deliver, evidenceVars
<1>2. /\ cursor # NoCursor /\ cursor.query = f /\ cursor \in Cursor /\ filter = f
      /\ page \in Nat /\ page > 0 /\ f \in Query
  BY HistoryAssumption DEF NextPage, ValidateCursor, WalkInv
<1>3. Sortable(cursor) /\ \A x \in listed : Stands(f, x.item) /\ Sortable(x.item)
  BY <1>2, CursorIsSortable, StandingIsSortable DEF WalkInv
<1>4. PageRead(f, cursor, I)
  BY <1>2, DeliverReads DEF NextPage
<1> HIDE DEF I
<1>5. /\ I \subseteq Union(f) /\ \A x \in I : AfterCursor(cursor, x)
      /\ cursor' # NoCursor => /\ cursor' \in Cursor /\ cursor'.query = f
                               /\ \A x \in I : ~AfterCursor(cursor', x)
                               /\ Precedes(cursor, cursor')
      /\ \A i \in Union(f) : AfterCursor(cursor, i) =>
           i \in I \/ (cursor' # NoCursor /\ AfterCursor(cursor', i))
  BY <1>2, <1>4 DEF PageRead
<1>6. \A x \in new : x.page = page + 1 /\ x.item \in I /\ x = [page |-> page + 1, item |-> x.item]
  OBVIOUS
<1>7. \A i \in I : [page |-> page + 1, item |-> i] \in listed' /\ [page |-> page + 1, item |-> i].item = i
  BY <1>1
<1> HIDE DEF new
<1>8. WalkInv'
  <2>1. ASSUME NEW x \in listed' PROVE Stands(filter, x.item)'
    <3>1. Stands(f, x.item)
      BY <1>1, <1>3, <1>5, <1>6, UnionStands
    <3> QED
      BY <1>1, <3>1 DEF Stands, RowStands, ClaimStands
  <2>2. ASSUME NEW x \in listed', cursor' # NoCursor PROVE ~AfterCursor(cursor', x.item)
    <3>1. CASE x \in listed
      <4>1. ~Precedes(cursor, x.item)
        BY <1>2, <1>3, <3>1, CursorIsOrder DEF WalkInv
      <4>2. Sortable(cursor')
        BY <1>5, <2>2, CursorIsSortable
      <4>3. ~Precedes(cursor', x.item)
        BY <1>3, <1>5, <2>2, <3>1, <4>1, <4>2, OrderIsTransitive
      <4> QED
        BY <1>3, <2>2, <3>1, <4>2, <4>3, CursorIsOrder
    <3>2. CASE x \in new
      BY <1>5, <1>6, <2>2, <3>2
    <3> QED
      BY <1>1, <3>1, <3>2
  <2>3. page' \in Nat /\ page' # 0 /\ \A x \in listed' : x.page \in 1..page'
    <3>1. \A x \in listed : x.page \in 1..page
      BY DEF WalkInv
    <3> QED
      BY <1>1, <1>2, <1>6, <3>1
  <2> QED
    BY <1>1, <1>2, <1>5, <2>1, <2>2, <2>3 DEF WalkInv
<1>9. NoExecutionListedTwice'
  <2>1. SUFFICES ASSUME NEW x \in listed', NEW y \in listed', Identity(x.item) = Identity(y.item)
                 PROVE  x = y
    BY DEF NoExecutionListedTwice, Identity
  <2>2. ASSUME NEW u \in listed, NEW v \in new PROVE Identity(u.item) # Identity(v.item)
    <3>1. ~AfterCursor(cursor, u.item) /\ Stands(f, u.item)
      BY <1>2, <1>3 DEF WalkInv
    <3>2. v.item \in Union(f) /\ AfterCursor(cursor, v.item)
      BY <1>5, <1>6
    <3> QED
      BY <1>2, <1>3, <3>1, <3>2, LaterPagesDiffer
  <2>3. CASE x \in new /\ y \in new
    <3>1. x.item = y.item
      BY <1>5, <1>6, <2>1, <2>3, OnePageDiffers
    <3> QED
      BY <1>6, <2>3, <3>1
  <2>4. CASE x \in listed /\ y \in listed
    BY <2>1, <2>4 DEF NoExecutionListedTwice
  <2> QED
    BY <1>1, <2>1, <2>2, <2>3, <2>4
<1>10. CoverInv'
  <2>1. ASSUME NEW r \in rows', OwedRow(r)'
        PROVE  Ahead(RowItem(r))' \/ \E x \in listed' : x.item.kind = 0 /\ x.item.ref = r.id
    <3>1. r \in rows /\ OwedRow(r) /\ InRowArm(f, r)
      BY <1>1, <1>2, <2>1 DEF OwedRow, InRowArm, InScope
    <3>2. Ahead(RowItem(r)) \/ \E x \in listed : x.item.kind = 0 /\ x.item.ref = r.id
      BY <1>2, <3>1 DEF CoverInv
    <3>3. RowItem(r) \in Union(f) /\ RowItem(r).kind = 0 /\ RowItem(r).ref = r.id
      BY <3>1, OwedAreListed, RowItemFields
    <3>4. CASE RowItem(r) \in I
      BY <1>7, <3>3, <3>4
    <3>5. CASE cursor' # NoCursor /\ AfterCursor(cursor', RowItem(r))
      BY <3>5 DEF Ahead, RowItem, AfterCursor
    <3>6. CASE \E x \in listed : x.item.kind = 0 /\ x.item.ref = r.id
      BY <1>1, <3>6
    <3> QED
      BY <1>5, <3>2, <3>3, <3>4, <3>5, <3>6 DEF Ahead
  <2>2. ASSUME NEW s \in base'.open, OwedClaim(s)'
        PROVE  Ahead(ClaimItem(s))' \/ \E x \in listed' : x.item.kind = 1 /\ x.item.ref = s[2]
    <3>1. s \in base.open /\ s \in Slots /\ OwedClaim(s) /\ InClaimArm(f, s) /\ claims[s] # NoClaim
      BY <1>1, <1>2, <2>2 DEF OwedClaim, InClaimArm, InScope, CoverInv
    <3>2. Ahead(ClaimItem(s)) \/ \E x \in listed : x.item.kind = 1 /\ x.item.ref = s[2]
      BY <1>2, <3>1 DEF CoverInv
    <3>3. ClaimItem(s) \in Union(f) /\ ClaimItem(s).kind = 1 /\ ClaimItem(s).ref = s[2]
      BY <3>1, OwedAreListed, ClaimItemFields
    <3>4. CASE ClaimItem(s) \in I
      BY <1>7, <3>3, <3>4
    <3>5. CASE cursor' # NoCursor /\ AfterCursor(cursor', ClaimItem(s))
      <4>1. ClaimItem(s)' = ClaimItem(s)
        BY <1>1 DEF ClaimItem, deriveClaimViewStatus
      <4> QED
        BY <3>5, <4>1 DEF Ahead, AfterCursor
    <3>6. CASE \E x \in listed : x.item.kind = 1 /\ x.item.ref = s[2]
      BY <1>1, <3>6
    <3> QED
      BY <1>5, <3>2, <3>3, <3>4, <3>5, <3>6 DEF Ahead
  <2>3. base'.ids \subseteq 1..nextId' - 1 /\ base'.open \subseteq {s \in Slots : claims'[s] # NoClaim}
    BY <1>1 DEF CoverInv
  <2>4. /\ \A r \in rows' : OwedRow(r)' =>
             Ahead(RowItem(r))' \/ \E x \in listed' : x.item.kind = 0 /\ x.item.ref = r.id
        /\ \A s \in base'.open : OwedClaim(s)' =>
             Ahead(ClaimItem(s))' \/ \E x \in listed' : x.item.kind = 1 /\ x.item.ref = s[2]
    BY <2>1, <2>2
  <2> QED
    BY <2>3, <2>4, Zenon DEF CoverInv
<1> QED
  BY <1>8, <1>9, <1>10

-----------------------------------------------------------------------------
(* A commit between two pages takes nothing back.                          *)

LEMMA CommitStep ==
    ASSUME StoreInv, Grows, UNCHANGED readerVars, WalkInv, NoExecutionListedTwice, CoverInv, ShownInv
    PROVE  WalkInv' /\ NoExecutionListedTwice' /\ CoverInv' /\ ShownInv'
<1>1. /\ filter' = filter /\ cursor' = cursor /\ page' = page /\ listed' = listed
      /\ base' = base /\ shown' = shown
  BY DEF readerVars
<1>2. WalkInv'
  <2>1. ASSUME NEW x \in listed PROVE Stands(filter, x.item)'
    <3>1. Stands(filter, x.item)
      BY DEF WalkInv
    <3>2. RowStands(filter, x.item) => RowStands(filter, x.item)'
      BY <1>1 DEF RowStands, Grows
    <3>3. ClaimStands(filter, x.item) => ClaimStands(filter, x.item)'
      BY <1>1 DEF ClaimStands, Grows
    <3> QED
      BY <3>1, <3>2, <3>3 DEF Stands
  <2>2. \A x \in listed' : cursor' # NoCursor => ~AfterCursor(cursor', x.item)
    BY <1>1 DEF WalkInv
  <2>3. \A x \in listed' : x.page \in 1..page'
    BY <1>1 DEF WalkInv
  <2>4. /\ page' \in Nat /\ filter' \in Query
        /\ cursor' # NoCursor => cursor' \in Cursor /\ cursor'.query = filter'
        /\ page' = 0 => listed' = {} /\ cursor' = NoCursor
    BY <1>1 DEF WalkInv
  <2> QED
    BY <1>1, <2>1, <2>2, <2>3, <2>4 DEF WalkInv
<1>3. NoExecutionListedTwice'
  BY <1>1 DEF NoExecutionListedTwice, Identity
<1>4. CoverInv'
  <2>1. ASSUME NEW r \in rows', OwedRow(r)', page > 0
        PROVE  Ahead(RowItem(r))' \/ \E x \in listed' : x.item.kind = 0 /\ x.item.ref = r.id
    <3>1. OwedRow(r) /\ r.id \in base.ids
      BY <1>1, <2>1 DEF OwedRow, InScope
    <3>2. r \in rows
      BY <3>1 DEF CoverInv, Grows, StoreInv
    <3>3. Ahead(RowItem(r)) \/ \E x \in listed : x.item.kind = 0 /\ x.item.ref = r.id
      BY <2>1, <3>1, <3>2 DEF CoverInv
    <3>4. Ahead(RowItem(r)) => Ahead(RowItem(r))'
      BY <1>1 DEF Ahead, RowItem, AfterCursor
    <3> QED
      BY <1>1, <3>3, <3>4
  <2>2. ASSUME NEW s \in base'.open, OwedClaim(s)', page > 0
        PROVE  Ahead(ClaimItem(s))' \/ \E x \in listed' : x.item.kind = 1 /\ x.item.ref = s[2]
    <3>1. s \in base.open /\ s \in Slots /\ claims[s] # NoClaim
      BY <1>1 DEF CoverInv
    <3>2. OwedClaim(s) /\ claims'[s].claimedAt = claims[s].claimedAt
      BY <1>1, <2>2, <3>1 DEF OwedClaim, InScope, Grows
    <3>3. Ahead(ClaimItem(s)) \/ \E x \in listed : x.item.kind = 1 /\ x.item.ref = s[2]
      BY <2>2, <3>1, <3>2 DEF CoverInv
    <3>4. Ahead(ClaimItem(s)) => Ahead(ClaimItem(s))'
      BY <1>1, <3>2 DEF Ahead, ClaimItem, AfterCursor
    <3> QED
      BY <1>1, <3>3, <3>4
  <2>3. base'.ids \subseteq 1..nextId' - 1
    BY <1>1 DEF CoverInv, Grows, StoreInv
  <2>4. base'.open \subseteq {s \in Slots : claims'[s] # NoClaim}
    BY <1>1 DEF CoverInv, Grows
  <2>5. page' > 0 =>
          /\ \A r \in rows' : OwedRow(r)' =>
               Ahead(RowItem(r))' \/ \E x \in listed' : x.item.kind = 0 /\ x.item.ref = r.id
          /\ \A s \in base'.open : OwedClaim(s)' =>
               Ahead(ClaimItem(s))' \/ \E x \in listed' : x.item.kind = 1 /\ x.item.ref = s[2]
    BY <1>1, <2>1, <2>2
  <2> QED
    BY <2>3, <2>4, <2>5, Zenon DEF CoverInv
<1>5. ShownInv'
  <2>1. SUFFICES ASSUME NEW s \in Slots
                 PROVE  \/ shown'[s] \in {"none", "running"}
                        \/ /\ shown'[s] = "unknown" /\ claims'[s] # NoClaim
                           /\ now' >= claims'[s].claimedAt + Expiry
                        \/ \E r \in rows' : <<r.target, r.key>> = s /\ r.status = shown'[s]
    BY DEF ShownInv
  <2>2. CASE shown[s] = "unknown" /\ claims[s] # NoClaim /\ now >= claims[s].claimedAt + Expiry
    <3>1. claims'[s] # NoClaim /\ claims'[s].claimedAt = claims[s].claimedAt /\ now' \in Nat /\ now <= now'
      BY <2>2 DEF Grows
    <3>2. claims[s].claimedAt \in Nat /\ Expiry \in Nat /\ now \in Nat
      BY <2>2, HistoryAssumption DEF StoreInv, StoredClaim
    <3> QED
      BY <1>1, <2>2, <3>1, <3>2
  <2>3. CASE \E r \in rows : <<r.target, r.key>> = s /\ r.status = shown[s]
    BY <1>1, <2>3 DEF Grows
  <2> QED
    BY <1>1, <2>2, <2>3 DEF ShownInv
<1> QED
  BY <1>2, <1>3, <1>4, <1>5

-----------------------------------------------------------------------------
(* What a page shows of a slot.                                            *)

ShownMoves(s) ==
    \/ shown'[s] = shown[s]
    \/ shown[s] \in {"none", "running"} /\ shown'[s] # "none"
    \/ shown[s] = "unknown" /\ shown'[s] \in Statuses

ShownWell(s) ==
    /\ shown'[s] \in {"none", "running", "unknown"} \cup Statuses
    /\ \/ shown'[s] \in {"none", "running"}
       \/ shown'[s] = "unknown" /\ claims[s] # NoClaim /\ now >= claims[s].claimedAt + Expiry
       \/ \E r \in rows : <<r.target, r.key>> = s /\ r.status = shown'[s]

LEMMA DeliverShows ==
    ASSUME StoreInv, LinkInv, ShownInv, shown \in [Slots -> {"none", "running", "unknown"} \cup Statuses],
           NEW f, NEW c, Deliver(f, c), NEW s \in Slots
    PROVE  ShownMoves(s) /\ ShownWell(s)
<1> DEFINE I == Trimmed(Fetched(f, c))
           found == {x \in I : s = <<f.target, x.key>>}
<1>1. shown'[s] = IF found = {} THEN shown[s] ELSE (CHOOSE x \in found : TRUE).status
  BY DEF Deliver
<1>2. I \subseteq Union(f)
  BY DEF Trimmed, Fetched, FirstOf
<1> HIDE DEF I
<1>3. CASE found = {}
  BY <1>1, <1>3 DEF ShownMoves, ShownWell, ShownInv
<1>4. CASE found # {}
  <2>1. PICK x \in Union(f) : s = <<f.target, x.key>> /\ shown'[s] = x.status
    BY <1>1, <1>2, <1>4
  <2>2. s[2] = x.key /\ s[1] = f.target /\ x.key # NoKey
    <3>1. s[2] = x.key /\ s[1] = f.target /\ x.key \in Keys
      BY <2>1 DEF Slots
    <3> QED
      BY <3>1, HistoryAssumption
  <2>3. \A r, q \in rows : <<r.target, r.key>> = s /\ <<q.target, q.key>> = s => r = q
    <3>1. ASSUME NEW r \in rows, <<r.target, r.key>> = s PROVE claims[s].execution = r.id
      BY <2>1, <2>2, <3>1, KeyedSlot
    <3> QED
      BY <3>1 DEF StoreInv
  <2>4. CASE \E r \in rows : InRowArm(f, r) /\ x = RowItem(r)
    <3>1. PICK r \in rows : InRowArm(f, r) /\ x = RowItem(r)
      BY <2>4
    <3>2. r.key = x.key /\ r.status = x.status /\ r.target = f.target /\ r.status \in Statuses
      BY <3>1, RowItemFields DEF InRowArm, StoreInv, StoredRow
    <3>3. <<r.target, r.key>> = s /\ shown'[s] = r.status
      BY <2>1, <3>2
    <3>4. ShownWell(s)
      BY <3>2, <3>3 DEF ShownWell
    <3>5. shown'[s] # "none"
      BY <3>2, <3>3, HistoryAssumption
    <3>6. ShownMoves(s)
      BY <2>3, <3>2, <3>3, <3>5 DEF ShownMoves, ShownInv
    <3> QED
      BY <3>4, <3>6
  <2>5. CASE \E t \in Slots : InClaimArm(f, t) /\ x = ClaimItem(t)
    <3>1. PICK t \in Slots : InClaimArm(f, t) /\ x = ClaimItem(t)
      BY <2>5
    <3>2. claims[t] # NoClaim /\ claims[t].execution = 0 /\ t[1] = f.target
      BY <3>1 DEF InClaimArm
    <3>3. x.key = t[2] /\ x.status = deriveClaimViewStatus(claims[t].claimedAt)
      BY <3>1, <3>2, ClaimItemFields
    <3>4. t = s
      <4>1. t = <<t[1], t[2]>>
        BY DEF Slots
      <4> QED
        BY <2>1, <3>2, <3>3, <4>1
    <3>5. shown'[s] = IF now >= claims[s].claimedAt + Expiry THEN "unknown" ELSE "running"
      BY <2>1, <3>3, <3>4 DEF deriveClaimViewStatus
    <3>6. ~ \E r \in rows : <<r.target, r.key>> = s
      <4>1. SUFFICES ASSUME NEW r \in rows, <<r.target, r.key>> = s PROVE FALSE
        OBVIOUS
      <4>2. r.key # NoKey
        BY <2>1, <2>2, <4>1
      <4> QED
        BY <3>2, <3>4, <4>1, <4>2, KeyedSlot
    <3>7. ShownWell(s)
      BY <3>2, <3>4, <3>5 DEF ShownWell
    <3>8. ShownMoves(s)
      BY <3>5, <3>6 DEF ShownMoves, ShownInv
    <3> QED
      BY <3>7, <3>8
  <2> QED
    BY <2>4, <2>5, UnionMembers
<1> QED
  BY <1>3, <1>4

-----------------------------------------------------------------------------
(* HistoryInv is inductive.                                                *)

ShownType == shown \in [Slots -> {"none", "running", "unknown"} \cup Statuses]

LEMMA ReadStep ==
    ASSUME HistoryInv, NEW f \in Queries, FirstPage(f) \/ NextPage(f)
    PROVE  HistoryInv' /\ \A s \in Slots : ShownMoves(s)
<1>1. /\ StoreInv /\ LinkInv /\ WalkInv /\ NoExecutionListedTwice /\ CoverInv /\ ShownInv
      /\ ShownType
  BY DEF HistoryInv, ShownType
<1>2. claims' = claims /\ rows' = rows /\ nextId' = nextId /\ now' = now
  BY DEF FirstPage, NextPage, evidenceVars
<1>3. StoreInv' /\ LinkInv'
  BY <1>1, <1>2 DEF StoreInv, LinkInv, ValidLink
<1>4. WalkInv' /\ NoExecutionListedTwice' /\ CoverInv'
  BY <1>1, FirstPageStep, NextPageStep
<1>5. PICK c : Deliver(f, c)
  BY DEF FirstPage, NextPage
<1>6. \A s \in Slots : ShownMoves(s) /\ ShownWell(s)
  BY <1>1, <1>5, DeliverShows DEF ShownType
<1>7. ShownType'
  <2>1. shown' = [s \in Slots |-> shown'[s]]
    BY <1>5 DEF Deliver
  <2> QED
    BY <1>6, <2>1 DEF ShownType, ShownWell
<1>8. ShownInv'
  BY <1>2, <1>6 DEF ShownInv, ShownWell
<1> QED
  BY <1>3, <1>4, <1>6, <1>7, <1>8 DEF HistoryInv, ShownType

LEMMA NextHistoryInv ==
    ASSUME HistoryInv, [HistoryNext]_historyVars
    PROVE  HistoryInv' /\ ((\A s \in Slots : ShownMoves(s)) \/ shown' = shown)
<1>1. /\ StoreInv /\ LinkInv /\ WalkInv /\ NoExecutionListedTwice /\ CoverInv /\ ShownInv
      /\ ShownType
  BY DEF HistoryInv, ShownType
<1>2. ASSUME UNCHANGED historyVars PROVE StoreInv' /\ LinkInv' /\ Grows /\ UNCHANGED readerVars
  <2>1. claims' = claims /\ rows' = rows /\ nextId' = nextId /\ now' = now /\ UNCHANGED readerVars
    BY <1>2 DEF historyVars, evidenceVars
  <2>2. StoreInv' /\ LinkInv'
    BY <1>1, <2>1 DEF StoreInv, LinkInv, ValidLink
  <2>3. Grows
    BY <1>1, <2>1 DEF Grows, StoreInv
  <2> QED
    BY <2>1, <2>2, <2>3
<1>3. ASSUME Commit PROVE StoreInv' /\ LinkInv' /\ Grows /\ UNCHANGED readerVars
  BY <1>1, <1>3, StoreStep DEF Commit
<1>4. ASSUME StoreInv', LinkInv', Grows, UNCHANGED readerVars PROVE HistoryInv' /\ shown' = shown
  <2>1. WalkInv' /\ NoExecutionListedTwice' /\ CoverInv' /\ ShownInv'
    BY <1>1, <1>4, CommitStep
  <2>2. shown' = shown
    BY <1>4 DEF readerVars
  <2> QED
    BY <1>1, <1>4, <2>1, <2>2 DEF HistoryInv, ShownType
<1> QED
  BY <1>2, <1>3, <1>4, ReadStep DEF HistoryNext

LEMMA InitHistoryInv ==
    HistoryInit => HistoryInv
<1> SUFFICES ASSUME HistoryInit PROVE HistoryInv
  OBVIOUS
<1>1. /\ claims = [s \in Slots |-> NoClaim] /\ rows = {} /\ nextId = 1 /\ now = 0
      /\ cursor = NoCursor /\ page = 0 /\ listed = {} /\ base = [ids |-> {}, open |-> {}]
      /\ shown = [s \in Slots |-> "none"] /\ filter \in Query
  BY QueriesAssumption DEF HistoryInit, StoreInit
<1>2. {s \in Slots : claims[s] # NoClaim} = {}
  BY <1>1
<1>3. StoreInv
  BY <1>1, <1>2, FS_EmptySet DEF StoreInv
<1>4. LinkInv /\ WalkInv /\ NoExecutionListedTwice /\ ShownInv
  BY <1>1 DEF LinkInv, WalkInv, NoExecutionListedTwice, ShownInv
<1>5. CoverInv
  BY <1>1 DEF CoverInv
<1>6. ShownType
  BY <1>1 DEF ShownType
<1> QED
  BY <1>3, <1>4, <1>5, <1>6 DEF HistoryInv, ShownType

LEMMA Invariance ==
    HistorySpec => []HistoryInv
<1>1. HistoryInv /\ [HistoryNext]_historyVars => HistoryInv'
  BY NextHistoryInv
<1> QED
  BY <1>1, InitHistoryInv, PTL DEF HistorySpec

-----------------------------------------------------------------------------
(* However attempts commit between two pages, a walk with any page size    *)
(* delivers no execution twice: not on two pages, and not as a claim first *)
(* and as its row later.                                                   *)
THEOREM WalksDoNotRepeat ==
    HistorySpec => []NoExecutionListedTwice
<1>1. HistoryInv => NoExecutionListedTwice
  BY DEF HistoryInv
<1> QED
  BY <1>1, Invariance, PTL

(* A walk that reached its last page has delivered every row of its query  *)
(* that existed when it began and every claim that was open then and still *)
(* is.                                                                     *)
THEOREM WalksAreComplete ==
    HistorySpec => []FinishedWalkIsComplete
<1>1. HistoryInv => FinishedWalkIsComplete
  <2> SUFFICES ASSUME HistoryInv, Finished PROVE FinishedWalkIsComplete
    BY DEF FinishedWalkIsComplete
  <2>1. page > 0 /\ cursor = NoCursor /\ CoverInv
    BY DEF HistoryInv, Finished
  <2>2. \A r \in rows : OwedRow(r) => \E x \in listed : x.item.kind = 0 /\ x.item.ref = r.id
    BY <2>1 DEF CoverInv, Ahead
  <2>3. \A s \in base.open : OwedClaim(s) => \E x \in listed : x.item.kind = 1 /\ x.item.ref = s[2]
    BY <2>1 DEF CoverInv, Ahead
  <2> QED
    BY <2>2, <2>3 DEF FinishedWalkIsComplete, OwedRow, OwedClaim
<1> QED
  BY <1>1, Invariance, PTL

(* What any page shows of an execution only moves on: "running" may become *)
(* "unknown", both may become the one terminal status, nothing returns.    *)
THEOREM StatusNeverReverts ==
    HistorySpec => ShownStatusNeverReverts
<1> DEFINE Moves == \A s \in Slots :
                      \/ shown'[s] = shown[s]
                      \/ shown[s] \in {"none", "running"} /\ shown'[s] # "none"
                      \/ shown[s] = "unknown" /\ shown'[s] \in Statuses
<1>1. HistoryInv /\ [HistoryNext]_historyVars => [Moves]_historyVars
  <2> SUFFICES ASSUME HistoryInv, [HistoryNext]_historyVars PROVE Moves
    OBVIOUS
  <2>1. (\A s \in Slots : ShownMoves(s)) \/ shown' = shown
    BY NextHistoryInv
  <2> QED
    BY <2>1 DEF ShownMoves
<1> QED
  BY <1>1, Invariance, PTL DEF HistorySpec, ShownStatusNeverReverts

-----------------------------------------------------------------------------
(* PART TWO: MySQLQuery.                                                   *)
-----------------------------------------------------------------------------
(* Concatenating the expansions of a statement's expressions.              *)

(* The function FlattenSeq defines by recursion on how many it has joined. *)
Joined(seqs) ==
    CHOOSE f : f = [i \in 1 .. Len(seqs) |->
                      IF i = 1 THEN seqs[i] ELSE f[i - 1] \o seqs[i]]

LEMMA FlattenIsJoined ==
    ASSUME NEW seqs, Len(seqs) # 0
    PROVE  FlattenSeq(seqs) = Joined(seqs)[Len(seqs)]
BY DEF FlattenSeq, Joined

JoinsUpTo(f, seqs, k) ==
    f = [i \in 1 .. k |-> IF i = 1 THEN seqs[i] ELSE f[i - 1] \o seqs[i]]

(* There is such a function: any one for k sequences extends to k + 1.     *)
LEMMA JoinedExists ==
    ASSUME NEW S, NEW seqs \in Seq(Seq(S)), NEW k \in Nat
    PROVE  \E f : JoinsUpTo(f, seqs, k)
<1> DEFINE T == {n \in Nat : ~\E f : JoinsUpTo(f, seqs, n)}
<1> SUFFICES ASSUME T # {} PROVE FALSE
  OBVIOUS
<1>1. PICK m \in T : \A n \in T : m <= n
  BY LeastNatural
<1>2. m \in Nat /\ m # 0
  <2>1. JoinsUpTo(<<>>, seqs, 0)
    BY DEF JoinsUpTo
  <2> QED
    BY <2>1
<1>3. m - 1 \in Nat /\ m - 1 \notin T
  BY <1>1, <1>2
<1>4. PICK f : JoinsUpTo(f, seqs, m - 1)
  BY <1>3
<1> DEFINE g == [i \in 1 .. m |-> IF i < m THEN f[i]
                                  ELSE IF i = 1 THEN seqs[i] ELSE f[i - 1] \o seqs[i]]
<1>5. ASSUME NEW i \in 1 .. m
      PROVE  g[i] = IF i = 1 THEN seqs[i] ELSE g[i - 1] \o seqs[i]
  <2>1. CASE i < m
    <3>1. g[i] = f[i] /\ (i # 1 => g[i - 1] = f[i - 1])
      BY <1>2, <2>1
    <3>2. i \in 1 .. m - 1
      BY <1>2, <2>1
    <3>3. f[i] = IF i = 1 THEN seqs[i] ELSE f[i - 1] \o seqs[i]
      BY <1>4, <3>2 DEF JoinsUpTo
    <3> QED
      BY <3>1, <3>3
  <2>2. CASE i = m
    <3>1. g[i] = IF i = 1 THEN seqs[i] ELSE f[i - 1] \o seqs[i]
      BY <1>2, <2>2
    <3>2. i # 1 => g[i - 1] = f[i - 1]
      BY <1>2, <2>2
    <3> QED
      BY <3>1, <3>2
  <2> QED
    BY <1>2, <2>1, <2>2
<1>6. JoinsUpTo(g, seqs, m)
  <2>1. g = [i \in 1 .. m |-> g[i]]
    OBVIOUS
  <2> HIDE DEF g
  <2> QED
    BY <1>5, <2>1 DEF JoinsUpTo
<1> HIDE DEF g
<1> QED
  BY <1>1, <1>6

LEMMA JoinedStep ==
    ASSUME NEW S, NEW seqs \in Seq(Seq(S)), NEW i \in 1 .. Len(seqs)
    PROVE  Joined(seqs)[i] = IF i = 1 THEN seqs[i] ELSE Joined(seqs)[i - 1] \o seqs[i]
<1>1. \E f : JoinsUpTo(f, seqs, Len(seqs))
  BY JoinedExists
<1>2. JoinsUpTo(Joined(seqs), seqs, Len(seqs))
  BY <1>1 DEF JoinsUpTo, Joined
<1> QED
  BY <1>2 DEF JoinsUpTo

LEMMA JoinedType ==
    ASSUME NEW S, NEW seqs \in Seq(Seq(S)), NEW i \in 1 .. Len(seqs)
    PROVE  Joined(seqs)[i] \in Seq(S)
<1> DEFINE T == {n \in 1 .. Len(seqs) : Joined(seqs)[n] \notin Seq(S)}
<1> SUFFICES ASSUME T # {} PROVE FALSE
  OBVIOUS
<1>0. T \in SUBSET Nat
  OBVIOUS
<1>1. PICK m \in T : \A n \in T : m <= n
  <2> HIDE DEF T
  <2> QED
    BY <1>0, LeastNatural
<1>2. m \in 1 .. Len(seqs) /\ seqs[m] \in Seq(S)
  BY <1>1
<1>3. Joined(seqs)[m] = IF m = 1 THEN seqs[m] ELSE Joined(seqs)[m - 1] \o seqs[m]
  BY <1>2, JoinedStep
<1>4. m # 1 => Joined(seqs)[m - 1] \in Seq(S)
  BY <1>1, <1>2
<1>5. Joined(seqs)[m] \in Seq(S)
  BY <1>2, <1>3, <1>4
<1> QED
  BY <1>1, <1>5

LEMMA FlattenType ==
    ASSUME NEW S, NEW seqs \in Seq(Seq(S))
    PROVE  FlattenSeq(seqs) \in Seq(S)
<1>1. CASE Len(seqs) = 0
  BY <1>1 DEF FlattenSeq
<1>2. CASE Len(seqs) # 0
  BY <1>2, JoinedType, FlattenIsJoined
<1> QED
  BY <1>1, <1>2

LEMMA NamesOfType ==
    ASSUME NEW S, NEW a \in Seq(S)
    PROVE  /\ DOMAIN NamesOf(a) = 1 .. Len(a)
           /\ \A i \in 1 .. Len(a) : NamesOf(a)[i] = a[i].name
           /\ Len(NamesOf(a)) = Len(a)
BY DEF NamesOf

LEMMA SameNamesJoin ==
    ASSUME NEW S, NEW a \in Seq(S), NEW b \in Seq(S), NEW c \in Seq(S), NEW d \in Seq(S),
           NamesOf(a) = NamesOf(c), NamesOf(b) = NamesOf(d)
    PROVE  NamesOf(a \o b) = NamesOf(c \o d)
<1>1. /\ Len(a) = Len(c) /\ \A i \in 1 .. Len(a) : a[i].name = c[i].name
      /\ Len(b) = Len(d) /\ \A i \in 1 .. Len(b) : b[i].name = d[i].name
  <2>1. Len(a) = Len(c) /\ Len(b) = Len(d)
    BY NamesOfType
  <2>2. ASSUME NEW i \in 1 .. Len(a) PROVE a[i].name = c[i].name
    BY <2>1, NamesOfType
  <2>3. ASSUME NEW i \in 1 .. Len(b) PROVE b[i].name = d[i].name
    BY <2>1, NamesOfType
  <2> QED
    BY <2>1, <2>2, <2>3
<1> DEFINE x == a \o b  y == c \o d
<1>2. x \in Seq(S) /\ y \in Seq(S) /\ Len(x) = Len(a) + Len(b) /\ Len(y) = Len(x)
  <2>1. x \in Seq(S) /\ y \in Seq(S) /\ Len(x) = Len(a) + Len(b) /\ Len(y) = Len(c) + Len(d)
    OBVIOUS
  <2> QED
    BY <1>1, <2>1
<1>3. ASSUME NEW i \in 1 .. Len(x) PROVE x[i].name = y[i].name
  <2>1. CASE i <= Len(a)
    <3>1. x[i] = a[i] /\ y[i] = c[i]
      BY <1>1, <1>2, <2>1
    <3> QED
      BY <1>1, <1>2, <2>1, <3>1
  <2>2. CASE i > Len(a)
    <3>1. x[i] = b[i - Len(a)] /\ y[i] = d[i - Len(c)]
      BY <1>1, <1>2, <2>2
    <3>2. i - Len(a) \in 1 .. Len(b)
      BY <1>2, <2>2
    <3> QED
      BY <1>1, <3>1, <3>2
  <2> QED
    BY <1>2, <2>1, <2>2
<1>4. DOMAIN x = 1 .. Len(x) /\ DOMAIN y = 1 .. Len(x)
  BY <1>2
<1> HIDE DEF x, y
<1>5. NamesOf(x) = NamesOf(y)
  BY <1>3, <1>4 DEF NamesOf
<1> QED
  BY <1>5 DEF x, y

LEMMA SameNamesFlatten ==
    ASSUME NEW S, NEW f \in Seq(Seq(S)), NEW g \in Seq(Seq(S)), Len(f) = Len(g),
           \A i \in 1 .. Len(f) : NamesOf(f[i]) = NamesOf(g[i])
    PROVE  NamesOf(FlattenSeq(f)) = NamesOf(FlattenSeq(g))
<1>1. CASE Len(f) = 0
  <2>1. FlattenSeq(f) = f /\ FlattenSeq(g) = g
    BY <1>1 DEF FlattenSeq
  <2>2. DOMAIN f = 1 .. Len(f) /\ DOMAIN g = 1 .. Len(g)
    OBVIOUS
  <2>3. 1 .. Len(f) = {} /\ 1 .. Len(g) = {}
    BY <1>1
  <2> QED
    BY <2>1, <2>2, <2>3 DEF NamesOf
<1>2. CASE Len(f) # 0
  <2> DEFINE T == {n \in 1 .. Len(f) : NamesOf(Joined(f)[n]) # NamesOf(Joined(g)[n])}
  <2>1. ASSUME T # {} PROVE FALSE
    <3>0. T \in SUBSET Nat
      OBVIOUS
    <3>1. PICK m \in T : \A n \in T : m <= n
      <4> HIDE DEF T
      <4> QED
        BY <2>1, <3>0, LeastNatural
    <3>2. m \in 1 .. Len(f) /\ NamesOf(Joined(f)[m]) # NamesOf(Joined(g)[m])
      BY <3>1
    <3>3. f[m] \in Seq(S) /\ g[m] \in Seq(S) /\ NamesOf(f[m]) = NamesOf(g[m])
      BY <3>2
    <3>4. /\ Joined(f)[m] = IF m = 1 THEN f[m] ELSE Joined(f)[m - 1] \o f[m]
          /\ Joined(g)[m] = IF m = 1 THEN g[m] ELSE Joined(g)[m - 1] \o g[m]
      BY <3>2, JoinedStep
    <3>5. m # 1
      BY <3>2, <3>3, <3>4
    <3>6. m - 1 \in 1 .. Len(f) /\ m - 1 \notin T
      BY <3>1, <3>2, <3>5
    <3>7. NamesOf(Joined(f)[m - 1]) = NamesOf(Joined(g)[m - 1])
      BY <3>6
    <3>8. Joined(f)[m - 1] \in Seq(S) /\ Joined(g)[m - 1] \in Seq(S)
      BY <3>6, JoinedType
    <3>9. NamesOf(Joined(f)[m - 1] \o f[m]) = NamesOf(Joined(g)[m - 1] \o g[m])
      BY <3>3, <3>7, <3>8, SameNamesJoin
    <3> QED
      BY <3>2, <3>4, <3>5, <3>9
  <2>2. NamesOf(Joined(f)[Len(f)]) = NamesOf(Joined(g)[Len(g)])
    <3>1. \A n \in 1 .. Len(f) : NamesOf(Joined(f)[n]) = NamesOf(Joined(g)[n])
      BY <2>1
    <3>2. Len(f) \in 1 .. Len(f)
      BY <1>2
    <3> QED
      BY <3>1, <3>2, Zenon
  <2>3. FlattenSeq(f) = Joined(f)[Len(f)]
    BY <1>2, FlattenIsJoined
  <2>4. FlattenSeq(g) = Joined(g)[Len(g)]
    BY <1>2, FlattenIsJoined
  <2> QED
    BY <2>2, <2>3, <2>4
<1> QED
  BY <1>1, <1>2

-----------------------------------------------------------------------------
(* What a statement projects.                                              *)

GoodRequest(r) == r \in Request /\ (r.page # 0 => r.pageSize # 0)

LiteralColumn == [name |-> Literal, field |-> None]

LEMMA TableType ==
    ASSUME NEW t \in Tables
    PROVE  /\ t \in Seq(Columns)
           /\ Range(t) \subseteq Columns
           /\ NamesOf(t) \in Seq(Names)
<1>1. t \in Seq(Columns) /\ \A c \in Columns : c.name \in Names
  BY TablesAssumption
<1>2. Range(t) \subseteq Columns
  BY <1>1 DEF Range
<1>3. NamesOf(t) \in Seq(Names)
  BY <1>1 DEF NamesOf
<1> QED
  BY <1>1, <1>2, <1>3

(* An expression the table knows stands for columns of the table.          *)
LEMMA ExpandType ==
    ASSUME NEW t \in Tables, NEW e,
           e = STAR \/ \E c \in Range(t) : c.name = e
    PROVE  /\ Expand(e, t) \in Seq(Columns)
           /\ e # STAR => Len(Expand(e, t)) = 1 /\ Expand(e, t)[1].name = e
<1>1. CASE e = STAR
  BY <1>1, TableType DEF Expand
<1>2. CASE e # STAR
  <2> DEFINE c == CHOOSE c \in Range(t) : c.name = e
  <2>1. c \in Range(t) /\ c.name = e
    BY <1>2
  <2>2. c \in Columns
    BY <2>1, TableType
  <2>3. Expand(e, t) = <<c>>
    BY <1>2 DEF Expand
  <2> HIDE DEF c
  <2> QED
    BY <1>2, <2>1, <2>2, <2>3
<1> QED
  BY <1>1, <1>2

(* The same expression has the same names in two tables, unless it is a    *)
(* star and the tables list different names.                               *)
LEMMA ExpandSameNames ==
    ASSUME NEW t \in Tables, NEW u \in Tables, NEW e,
           e = STAR \/ \E c \in Range(t) : c.name = e,
           e = STAR \/ \E c \in Range(u) : c.name = e,
           e = STAR => NamesOf(t) = NamesOf(u)
    PROVE  NamesOf(Expand(e, t)) = NamesOf(Expand(e, u))
<1>1. CASE e = STAR
  BY <1>1 DEF Expand
<1>2. CASE e # STAR
  <2> DEFINE a == Expand(e, t)  b == Expand(e, u)
  <2>1. /\ a \in Seq(Columns) /\ Len(a) = 1 /\ a[1].name = e
        /\ b \in Seq(Columns) /\ Len(b) = 1 /\ b[1].name = e
    BY <1>2, ExpandType
  <2> HIDE DEF a, b
  <2>2. NamesOf(a) = NamesOf(b)
    BY <2>1 DEF NamesOf
  <2> QED
    BY <2>2 DEF a, b
<1> QED
  BY <1>1, <1>2

Expansions(exprs, t) == [i \in DOMAIN exprs |-> Expand(exprs[i], t)]

LEMMA ExpansionsType ==
    ASSUME NEW t \in Tables, NEW V, NEW exprs \in Seq(V), Known(exprs, t)
    PROVE  /\ Expansions(exprs, t) \in Seq(Seq(Columns))
           /\ Len(Expansions(exprs, t)) = Len(exprs)
           /\ \A i \in 1 .. Len(exprs) : Expansions(exprs, t)[i] = Expand(exprs[i], t)
<1>1. ASSUME NEW i \in 1 .. Len(exprs) PROVE Expand(exprs[i], t) \in Seq(Columns)
  <2>1. exprs[i] = STAR \/ \E c \in Range(t) : c.name = exprs[i]
    BY DEF Known
  <2> QED
    BY <2>1, ExpandType
<1>2. DOMAIN exprs = 1 .. Len(exprs) /\ Len(exprs) \in Nat
  OBVIOUS
<1> QED
  BY <1>1, <1>2 DEF Expansions

LEMMA ProjectType ==
    ASSUME NEW t \in Tables, NEW V, NEW exprs \in Seq(V), Known(exprs, t)
    PROVE  Project(exprs, t) \in Seq(Columns)
<1>1. Project(exprs, t) = FlattenSeq(Expansions(exprs, t))
  BY DEF Project, Expansions
<1> QED
  BY <1>1, ExpansionsType, FlattenType

LEMMA ProjectSameNames ==
    ASSUME NEW t \in Tables, NEW u \in Tables, NEW V, NEW exprs \in Seq(V),
           Known(exprs, t), Known(exprs, u),
           STAR \in Range(exprs) => NamesOf(t) = NamesOf(u)
    PROVE  NamesOf(Project(exprs, t)) = NamesOf(Project(exprs, u))
<1> DEFINE f == Expansions(exprs, t)  g == Expansions(exprs, u)
<1>1. /\ f \in Seq(Seq(Columns)) /\ g \in Seq(Seq(Columns))
      /\ Len(f) = Len(exprs) /\ Len(g) = Len(exprs)
  BY ExpansionsType
<1>2. ASSUME NEW i \in 1 .. Len(exprs)
      PROVE  NamesOf(f[i]) = NamesOf(g[i])
  <2>1. f[i] = Expand(exprs[i], t) /\ g[i] = Expand(exprs[i], u)
    BY ExpansionsType
  <2>2. /\ exprs[i] = STAR \/ \E c \in Range(t) : c.name = exprs[i]
        /\ exprs[i] = STAR \/ \E c \in Range(u) : c.name = exprs[i]
    BY DEF Known
  <2>3. exprs[i] = STAR => NamesOf(t) = NamesOf(u)
    BY DEF Range
  <2>4. NamesOf(Expand(exprs[i], t)) = NamesOf(Expand(exprs[i], u))
    BY <2>2, <2>3, ExpandSameNames
  <2> QED
    BY <2>1, <2>4
<1>3. Project(exprs, t) = FlattenSeq(f) /\ Project(exprs, u) = FlattenSeq(g)
  BY DEF Project, Expansions
<1> HIDE DEF f, g
<1> QED
  BY <1>1, <1>2, <1>3, SameNamesFlatten

Listing(r) == r.kind \in {"select", "literal", "related"}

LEMMA ProjectionType ==
    ASSUME NEW r, GoodRequest(r), Listing(r), NEW t \in Tables, ~projectionUnsupported(r, t)
    PROVE  /\ resolveProjection(r, t) \in Seq(Columns \cup {LiteralColumn})
           /\ NamesOf(resolveProjection(r, t)) \in Seq(Names \cup {Literal})
<1> DEFINE V == Names \cup {STAR, Literal, Expression}
           p == resolveProjection(r, t)
<1>1. r.exprs \in Seq(V)
  BY DEF GoodRequest, Request
<1>2. p \in Seq(Columns \cup {LiteralColumn})
  <2>1. CASE r.kind = "literal"
    <3>1. p = literalColumns(r.exprs)
      BY <2>1 DEF resolveProjection
    <3>2. literalColumns(r.exprs) = [i \in 1 .. Len(r.exprs) |-> LiteralColumn]
      BY <1>1 DEF literalColumns, LiteralColumn
    <3>3. Len(r.exprs) \in Nat
      BY <1>1
    <3> QED
      BY <3>1, <3>2, <3>3
  <2>2. CASE r.kind # "literal"
    <3>1. p = Project(r.exprs, t) /\ Known(r.exprs, t)
      BY <2>2 DEF Listing, resolveProjection, projectionUnsupported
    <3>2. p \in Seq(Columns)
      BY <1>1, <3>1, ProjectType
    <3> QED
      BY <3>2
  <2> QED
    BY <2>1, <2>2
<1>3. \A c \in Columns \cup {LiteralColumn} : c.name \in Names \cup {Literal}
  BY TablesAssumption DEF LiteralColumn
<1> HIDE DEF p
<1>4. NamesOf(p) \in Seq(Names \cup {Literal})
  BY <1>2, <1>3 DEF NamesOf
<1> QED
  BY <1>2, <1>4 DEF p

(* Two tables give a statement columns of the same names unless its star   *)
(* meets different lists.                                                  *)
LEMMA ProjectionSameNames ==
    ASSUME NEW r, GoodRequest(r), Listing(r), NEW t \in Tables, NEW u \in Tables,
           ~projectionUnsupported(r, t), ~projectionUnsupported(r, u),
           STAR \in Range(r.exprs) => NamesOf(t) = NamesOf(u)
    PROVE  NamesOf(resolveProjection(r, t)) = NamesOf(resolveProjection(r, u))
<1> DEFINE V == Names \cup {STAR, Literal, Expression}
<1>1. r.exprs \in Seq(V)
  BY DEF GoodRequest, Request
<1>2. CASE r.kind = "literal"
  BY <1>2 DEF resolveProjection
<1>3. CASE r.kind # "literal"
  <2>1. /\ resolveProjection(r, t) = Project(r.exprs, t) /\ Known(r.exprs, t)
        /\ resolveProjection(r, u) = Project(r.exprs, u) /\ Known(r.exprs, u)
    BY <1>3 DEF Listing, resolveProjection, projectionUnsupported
  <2> QED
    BY <1>1, <2>1, ProjectSameNames
<1> QED
  BY <1>2, <1>3

-----------------------------------------------------------------------------
(* The invariant both results rest on: what is served, and what its        *)
(* passing the guard and the inspection has excluded.                      *)

Base ==
    /\ table \in Tables /\ sizes \in Seq(Nat)
    /\ policies \in [Names -> Modes \cup {None}]
    /\ seen \in [Names -> SUBSET (Modes \cup {None})]
    /\ pc \in {"idle", "guard", "inspect", "policies", "apply", "finalize"}
    /\ pc # "idle" => GoodRequest(req) /\ answer = noAnswer
    /\ answer.kind = "rows" => GoodRequest(req) /\ (answer.hasNext => Paged(req))
    /\ pc \notin {"idle", "guard"} => ~guardRefuses(req)
    /\ pc \in {"policies", "apply", "finalize"} => Listing(req)

(* The kinds of steps.                                                     *)
Refused == \E kind \in {"refused", "failed", "upgrade"} : Refuse(kind)

Administered == \E n \in Names, mode \in Modes \cup {None} : SetPolicy(n, mode)

Passed ==
    /\ pc = "guard" /\ ~guardRefuses(req) /\ pc' = "inspect"
    /\ UNCHANGED <<table, sizes, policies, req, plan, result, answer, walk, seen>>

Inspected ==
    /\ pc = "inspect" /\ pc' = "policies"
    /\ ~projectionUnsupported(req, table) /\ resolveProjection(req, table) # <<>>
    /\ plan' = [listed |-> NamesOf(table),
                projection |-> NamesOf(resolveProjection(req, table)), modes |-> <<>>]
    /\ UNCHANGED <<table, sizes, policies, req, result, answer, walk, seen>>

PolicyRead ==
    /\ pc = "policies" /\ Len(plan.modes) < Len(plan.projection)
    /\ ColumnMode(NextColumn) # None
    /\ plan' = [plan EXCEPT !.modes = Append(@, ColumnMode(NextColumn))]
    /\ UNCHANGED <<table, sizes, policies, req, pc, result, answer, walk, seen>>

Ran ==
    /\ pc = "policies" /\ pc' = "apply"
    /\ ~projectionUnsupported(req, table)
    /\ ~pageTooLarge(ServerRows(req), Len(ServerColumns(req)), ScanLimit(req))
    /\ result' = Scanned(ServerColumns(req), ServerRows(req), ScanLimit(req))
    /\ UNCHANGED <<table, sizes, policies, req, plan, answer, walk, seen>>

Applied ==
    /\ pc = "apply" /\ pc' = "finalize" /\ planFits
    /\ result' = [result EXCEPT !.cells = MaskedCells]
    /\ UNCHANGED <<table, sizes, policies, req, plan, answer, walk, seen>>

Delivered ==
    /\ pc = "finalize" /\ pc' = "idle" /\ answer' = Page
    /\ walk' = [walk EXCEPT !.rows = @ \o result.rows]
    /\ UNCHANGED <<table, sizes, policies, req, plan, result, seen>>

LEMMA Steps ==
    ASSUME Next
    PROVE  \/ \E r \in Requests : Submit(r)
           \/ FollowingPage
           \/ Refused \/ Passed \/ Inspected \/ PolicyRead \/ Ran \/ Applied \/ Delivered
           \/ AlterTable \/ Administered
<1>1. CASE Guard
  BY <1>1 DEF Guard, Refused, Passed
<1>2. CASE Inspect
  BY <1>2 DEF Inspect, Refused, Inspected
<1>3. CASE ReadPolicy
  BY <1>3 DEF ReadPolicy, Refused, PolicyRead
<1>4. CASE Execute
  BY <1>4 DEF Execute, ServerRefuses, Refused, Ran
<1>5. CASE Apply
  BY <1>5 DEF Apply, Refused, Applied
<1>6. CASE Finalize
  BY <1>6 DEF Finalize, Refused, Delivered
<1>7. CASE \E n \in Names : \/ \E mode \in Modes : CreatePolicy(n, mode) \/ UpdatePolicy(n, mode)
                            \/ DeletePolicy(n)
  BY <1>7 DEF CreatePolicy, UpdatePolicy, DeletePolicy, Administered
<1> QED
  BY <1>1, <1>2, <1>3, <1>4, <1>5, <1>6, <1>7 DEF Next

LEMMA RequestsAreGood ==
    ASSUME NEW r \in Requests
    PROVE  GoodRequest(r)
BY RequestsAssumption DEF GoodRequest

LEMMA FollowingPageIsGood ==
    ASSUME GoodRequest(req), Paged(req)
    PROVE  /\ GoodRequest([req EXCEPT !.page = @ + 1])
           /\ Paged([req EXCEPT !.page = @ + 1])
BY DEF GoodRequest, Request, Paged

LEMMA InitBase == Init => Base
BY ContentsAssumption DEF Init, Base, noAnswer

LEMMA ServeBase ==
    ASSUME Base, NEW r, NEW kept, GoodRequest(r), Serve(r, kept)
    PROVE  Base'
BY DEF Base, Serve, noAnswer

LEMMA NextBase ==
    ASSUME Base, [Next]_vars
    PROVE  Base'
<1>1. CASE \E r \in Requests : Submit(r)
  BY <1>1, RequestsAreGood, ServeBase DEF Submit
<1>2. CASE FollowingPage
  <2>1. GoodRequest(req) /\ Paged(req)
    BY <1>2 DEF FollowingPage, Base
  <2>2. GoodRequest([req EXCEPT !.page = @ + 1])
    BY <2>1, FollowingPageIsGood
  <2> QED
    BY <1>2, <2>2, ServeBase DEF FollowingPage
<1>3. CASE Refused
  BY <1>3 DEF Refused, Refuse, Base
<1>4. CASE Passed
  BY <1>4 DEF Passed, Base, guardRefuses, Paged, paginationInvalid
<1>5. CASE Inspected
  <2>1. Listing(req)
    BY <1>5 DEF Inspected, Base, GoodRequest, Request, Listing, guardRefuses, resolveProjection
  <2> QED
    BY <1>5, <2>1 DEF Inspected, Base
<1>6. CASE PolicyRead \/ Ran \/ Applied
  BY <1>6 DEF PolicyRead, Ran, Applied, Base
<1>7. CASE Delivered
  <2>1. answer'.kind = "rows" /\ (answer'.hasNext => Paged(req))
    BY <1>7 DEF Delivered, Page, HasNextPage
  <2> QED
    BY <1>7, <2>1 DEF Delivered, Base, Paged
<1>8. CASE AlterTable
  BY <1>8 DEF AlterTable, Base
<1>9. CASE Administered
  BY <1>9 DEF Administered, SetPolicy, Base
<1>10. CASE UNCHANGED vars
  BY <1>10 DEF vars, Base
<1> QED
  BY <1>1, <1>2, <1>3, <1>4, <1>5, <1>6, <1>7, <1>8, <1>9, <1>10, Steps

-----------------------------------------------------------------------------
(* The window of the server and what the scan keeps of it.                 *)

LEMMA RowLimits ==
    ASSUME NEW r, GoodRequest(r)
    PROVE  effectiveMaxRows(r) \in Nat \ {0} /\ relatedRows(r) \in Nat \ {0}
<1>1. r.maxRows \in Nat /\ r.production \in BOOLEAN
  BY DEF GoodRequest, Request
<1>2. clampProductionMaxRows(r) \in Nat
  BY <1>1, LimitsAssumption DEF clampProductionMaxRows
<1>3. effectiveMaxRows(r) \in Nat \ {0}
  BY <1>2, LimitsAssumption DEF effectiveMaxRows
<1>4. relatedRows(r) \in Nat \ {0}
  BY <1>1, LimitsAssumption DEF relatedRows
<1> QED
  BY <1>3, <1>4

LEMMA OffsetType ==
    ASSUME NEW r, GoodRequest(r)
    PROVE  /\ Offset(r) \in Nat
           /\ Paged(r) => r.pageSize \in Nat \ {0} /\ Offset(r) + r.pageSize = r.page * r.pageSize
<1>1. r.page \in Nat /\ r.pageSize \in Nat /\ (r.page # 0 => r.pageSize # 0)
  BY DEF GoodRequest, Request
<1>2. CASE Paged(r)
  <2>1. r.page # 0 /\ r.page - 1 \in Nat
    BY <1>1, <1>2 DEF Paged
  <2>2. Offset(r) = (r.page - 1) * r.pageSize
    BY <1>2 DEF Offset
  <2> DEFINE x == r.page - 1  y == r.pageSize
  <2>3. x \in Nat /\ y \in Nat /\ r.page = x + 1
    BY <1>1, <2>1
  <2>4. x * y \in Nat /\ (x + 1) * y = x * y + y
    <3> HIDE DEF x, y
    <3> QED
      BY <2>3
  <2> QED
    BY <1>1, <2>1, <2>2, <2>3, <2>4
<1>3. CASE ~Paged(r)
  BY <1>3 DEF Offset
<1> QED
  BY <1>2, <1>3

(* Past the guard a page has room for at least one row.                    *)
LEMMA ScanLimitType ==
    ASSUME NEW r, GoodRequest(r), Listing(r), ~guardRefuses(r)
    PROVE  /\ ScanLimit(r) \in Nat \ {0}
           /\ Paged(r) => /\ ScanLimit(r) = PageRows(r)
                          /\ PageRows(r) <= r.pageSize
                          /\ Offset(r) + PageRows(r) <= effectiveMaxRows(r)
                          /\ Offset(r) + PageRows(r) < effectiveMaxRows(r) => PageRows(r) = r.pageSize
           /\ r.kind # "related" /\ ~Paged(r) => ScanLimit(r) = effectiveMaxRows(r)
<1>1. effectiveMaxRows(r) \in Nat \ {0} /\ relatedRows(r) \in Nat \ {0} /\ Offset(r) \in Nat
  BY RowLimits, OffsetType
<1>2. CASE Paged(r)
  <2>1. r.pageSize \in Nat \ {0} /\ Remaining(r) > 0 /\ r.kind \in {"select", "literal"}
    BY <1>2, <1>1, OffsetType DEF guardRefuses, paginationInvalid, Paged, Remaining
  <2>2. ScanLimit(r) = PageRows(r)
    BY <1>2, <2>1 DEF ScanLimit
  <2> QED
    BY <1>1, <1>2, <2>1, <2>2 DEF PageRows, Remaining, Paged
<1>3. CASE ~Paged(r)
  BY <1>1, <1>3 DEF ScanLimit, Listing
<1> QED
  BY <1>2, <1>3

(* The rows the target has for a statement.                                *)
Rows(r) == IF r.kind = "literal" THEN 1 ELSE Len(sizes)

LEMMA ServerWindow ==
    ASSUME sizes \in Seq(Nat), NEW r, GoodRequest(r), Listing(r), ~guardRefuses(r)
    PROVE  /\ Rows(r) \in Nat
           /\ ServerRows(r) \in Seq(Nat)
           /\ \A i \in 1 .. Len(ServerRows(r)) : ServerRows(r)[i] = Offset(r) + i
           /\ Len(ServerRows(r)) = IF Rows(r) <= Offset(r) THEN 0
                                   ELSE IF Rows(r) - Offset(r) > LimitClause(r) THEN LimitClause(r)
                                   ELSE Rows(r) - Offset(r)
           /\ LimitClause(r) = IF r.kind = "related" THEN ScanLimit(r) ELSE ScanLimit(r) + 1
<1>1. Rows(r) \in Nat /\ Offset(r) \in Nat /\ ScanLimit(r) \in Nat \ {0}
  BY OffsetType, ScanLimitType DEF Rows
<1>2. LimitClause(r) = IF r.kind = "related" THEN ScanLimit(r) ELSE ScanLimit(r) + 1
  BY DEF LimitClause
<1>3. LimitClause(r) \in Nat
  BY <1>1, <1>2
<1> DEFINE o == Offset(r)  l == LimitClause(r)  n == Rows(r)
           m == (IF o + l < n THEN o + l ELSE n) - o
           k == IF n <= o THEN 0 ELSE IF n - o > l THEN l ELSE n - o
<1>4. ServerRows(r) = [i \in 1 .. m |-> o + i]
  BY DEF ServerRows, Rows
<1>5. o \in Nat /\ l \in Nat /\ n \in Nat
  BY <1>1, <1>3
<1> HIDE DEF o, l, n
<1>6. k \in Nat /\ 1 .. m = 1 .. k
  BY <1>5
<1>7. ServerRows(r) = [i \in 1 .. k |-> o + i]
  BY <1>4, <1>6
<1> HIDE DEF k
<1>8. /\ ServerRows(r) \in Seq(Nat) /\ Len(ServerRows(r)) = k
      /\ \A i \in 1 .. k : ServerRows(r)[i] = o + i
  BY <1>5, <1>6, <1>7
<1> QED
  BY <1>1, <1>2, <1>8 DEF k, o, l, n

(* The scan keeps a prefix, up to the limit unless the budget is short.    *)
LEMMA KeptPrefix ==
    ASSUME NEW sent \in Seq(Nat), NEW width, NEW limit \in Nat \ {0}
    PROVE  /\ keptRows(sent, width, limit) \in Seq(Nat)
           /\ Len(keptRows(sent, width, limit)) <= Len(sent)
           /\ Len(keptRows(sent, width, limit)) <= limit
           /\ \A i \in 1 .. Len(keptRows(sent, width, limit)) :
                keptRows(sent, width, limit)[i] = sent[i]
           /\ overBudget(sent, width, limit) = {} =>
                \/ Len(keptRows(sent, width, limit)) = Len(sent)
                \/ Len(keptRows(sent, width, limit)) = limit
<1> DEFINE over == overBudget(sent, width, limit)
           fits == IF limit = 0 \/ Len(sent) < limit THEN Len(sent) ELSE limit
           m == IF over = {} THEN fits ELSE Min(over) - 1
<1>1. keptRows(sent, width, limit) = SubSeq(sent, 1, m)
  BY DEF keptRows
<1>2. Len(sent) \in Nat
  OBVIOUS
<1>3. over # {} => Min(over) \in 1 .. Len(sent) /\ Min(over) <= limit
  <2>1. over \in SUBSET (1 .. Len(sent)) /\ \A k \in over : k <= limit
    BY DEF overBudget
  <2> HIDE DEF over
  <2>2. over \in SUBSET Nat
    BY <1>2, <2>1
  <2>3. over # {} => \E k \in over : \A n \in over : k <= n
    BY <2>2, LeastNatural
  <2>4. over # {} => Min(over) \in over
    BY <2>3 DEF Min
  <2> QED
    BY <2>1, <2>4
<1>4. m \in 0 .. Len(sent) /\ m <= limit /\ (over = {} => m = Len(sent) \/ m = limit)
  <2> HIDE DEF over
  <2> QED
    BY <1>2, <1>3
<1> HIDE DEF m
<1>5. /\ SubSeq(sent, 1, m) \in Seq(Nat) /\ Len(SubSeq(sent, 1, m)) = m
      /\ \A i \in 1 .. m : SubSeq(sent, 1, m)[i] = sent[i]
  BY <1>2, <1>4
<1> HIDE DEF over
<1> QED
  BY <1>1, <1>2, <1>4, <1>5 DEF over

-----------------------------------------------------------------------------
(* Disclosure.                                                             *)

(* The names a statement resolves to in table t, and all the names of t.   *)
Resolved(t, all, names) ==
    /\ ~projectionUnsupported(req, t)
    /\ all = NamesOf(t) /\ names = NamesOf(resolveProjection(req, t))

(* Every mode read so far was that of the policy at the time.              *)
Planned ==
    /\ plan \in [listed : Seq(Names), projection : Seq(Names \cup {Literal}),
                 modes : Seq(Modes)]
    /\ Len(plan.modes) <= Len(plan.projection)
    /\ \A i \in 1 .. Len(plan.modes) :
         plan.projection[i] = Literal \/ plan.modes[i] \in seen[plan.projection[i]]
    /\ \E t \in Tables : Resolved(t, plan.listed, plan.projection)

Executed ==
    /\ result.columns \in Seq(Columns \cup {LiteralColumn})
    /\ {"columns", "listed", "rows", "cells", "cellTruncated", "truncated"} = DOMAIN result
    /\ \E t \in Tables : Resolved(t, result.listed, NamesOf(result.columns))

CellValues ==
    [field : {c.field : c \in Columns} \cup {None}, row : Nat, cut : BOOLEAN]

RawCells ==
    \A r \in DOMAIN result.rows : \A c \in DOMAIN result.columns :
        result.cells[r][c] \in CellValues \cup {None}

(* A cell that is not NULL is masked exactly where the plan says so.       *)
CellsFollowPlan ==
    /\ Len(plan.modes) = Len(result.columns)
    /\ DOMAIN result.cells = DOMAIN result.rows
    /\ \A r \in DOMAIN result.rows : \A c \in DOMAIN result.columns :
         \/ result.cells[r][c] = None
         \/ (result.cells[r][c] = Masked) <=> (plan.modes[c] = "masked")

DisclosureInv ==
    /\ pc # "idle" => \A n \in Names : policies[n] \in seen[n]
    /\ pc \in {"policies", "apply", "finalize"} => Planned
    /\ pc \in {"apply", "finalize"} => Executed
    /\ pc = "apply" => RawCells
    /\ pc = "finalize" => CellsFollowPlan
    /\ ShownAsThePolicySaid

LEMMA PlannedStays ==
    ASSUME Planned, plan' = plan, req' = req,
           \A n \in Names : seen[n] \subseteq seen'[n]
    PROVE  Planned'
<1>1. ASSUME NEW i \in 1 .. Len(plan.modes)
      PROVE  plan.projection[i] = Literal \/ plan.modes[i] \in seen'[plan.projection[i]]
  <2>1. plan.projection[i] \in Names \cup {Literal}
    BY DEF Planned
  <2> QED
    BY <2>1 DEF Planned
<1>2. \E t \in Tables : Resolved(t, plan.listed, plan.projection)'
  BY DEF Planned, Resolved
<1> QED
  BY <1>1, <1>2 DEF Planned

LEMMA ShownLater ==
    ASSUME answer.kind # "rows"
    PROVE  ShownAsThePolicySaid
BY DEF ShownAsThePolicySaid

LEMMA InitDisclosure == Init => DisclosureInv
<1> SUFFICES ASSUME Init PROVE DisclosureInv
  OBVIOUS
<1>1. answer.kind # "rows" /\ pc = "idle"
  BY DEF Init, noAnswer
<1> QED
  BY <1>1, ShownLater DEF DisclosureInv

(* The preflight's list and its projection are those of the table it read. *)
LEMMA InspectedPlans ==
    ASSUME Base, Inspected
    PROVE  Planned'
<1>1. table \in Tables /\ GoodRequest(req) /\ Listing(req)
  BY NextBase DEF Base, Inspected, GoodRequest, Request, Listing, guardRefuses, resolveProjection
<1> DEFINE p == resolveProjection(req, table)
<1>2. NamesOf(p) \in Seq(Names \cup {Literal}) /\ NamesOf(table) \in Seq(Names)
  BY <1>1, ProjectionType, TableType DEF Inspected
<1>3. plan' = [listed |-> NamesOf(table), projection |-> NamesOf(p), modes |-> <<>>]
  BY DEF Inspected
<1>4. Resolved(table, plan.listed, plan.projection)'
  BY <1>3 DEF Resolved, Inspected
<1>5. \E t \in Tables : Resolved(t, plan.listed, plan.projection)'
  BY <1>1, <1>4 DEF Inspected
<1> HIDE DEF p
<1>6. /\ plan' \in [listed : Seq(Names), projection : Seq(Names \cup {Literal}), modes : Seq(Modes)]
      /\ Len(plan'.modes) = 0 /\ Len(plan'.projection) \in Nat
  BY <1>2, <1>3
<1> QED
  BY <1>5, <1>6 DEF Planned

(* The mode that is read is the policy's, which seen has recorded.         *)
LEMMA PolicyReadPlans ==
    ASSUME Base, DisclosureInv, PolicyRead
    PROVE  Planned'
<1> DEFINE n == NextColumn  mode == ColumnMode(n)  k == Len(plan.modes) + 1
<1>1. Planned /\ policies \in [Names -> Modes \cup {None}] /\ \A m \in Names : policies[m] \in seen[m]
  BY DEF PolicyRead, DisclosureInv, Base
<1>2. k \in 1 .. Len(plan.projection) /\ n = plan.projection[k]
  BY <1>1 DEF PolicyRead, Planned, NextColumn
<1>3. n \in Names \cup {Literal}
  BY <1>1, <1>2 DEF Planned
<1>4. mode \in Modes /\ (n = Literal \/ mode \in seen[n])
  BY <1>1, <1>3 DEF PolicyRead, ColumnMode, Modes
<1>5. plan' = [plan EXCEPT !.modes = Append(plan.modes, mode)]
  BY DEF PolicyRead
<1> HIDE DEF n, mode
<1>6. /\ plan' \in [listed : Seq(Names), projection : Seq(Names \cup {Literal}), modes : Seq(Modes)]
      /\ plan'.listed = plan.listed /\ plan'.projection = plan.projection
      /\ plan'.modes = Append(plan.modes, mode)
  <2>1. plan \in [listed : Seq(Names), projection : Seq(Names \cup {Literal}), modes : Seq(Modes)]
    BY <1>1 DEF Planned
  <2>2. Append(plan.modes, mode) \in Seq(Modes)
    BY <1>4, <2>1
  <2> QED
    BY <1>5, <2>1, <2>2
<1>7. Len(plan'.modes) = k /\ plan'.modes[k] = mode
      /\ \A i \in 1 .. Len(plan.modes) : plan'.modes[i] = plan.modes[i]
  BY <1>1, <1>4, <1>6 DEF Planned
<1>8. ASSUME NEW i \in 1 .. k
      PROVE  plan'.projection[i] = Literal \/ plan'.modes[i] \in seen[plan'.projection[i]]
  <2>1. CASE i = k
    BY <1>2, <1>4, <1>6, <1>7, <2>1
  <2>2. CASE i \in 1 .. Len(plan.modes)
    BY <1>1, <1>6, <1>7, <2>2 DEF Planned
  <2> QED
    BY <1>1, <2>1, <2>2 DEF Planned
<1>9. \E t \in Tables : Resolved(t, plan.listed, plan.projection)'
  BY <1>1, <1>6 DEF PolicyRead, Planned, Resolved
<1>10. k <= Len(plan'.projection) /\ seen' = seen
  BY <1>1, <1>2, <1>6 DEF PolicyRead, Planned
<1> HIDE DEF k
<1> QED
  BY <1>6, <1>7, <1>8, <1>9, <1>10 DEF Planned

LEMMA RanExecutes ==
    ASSUME Base, DisclosureInv, Ran
    PROVE  Executed' /\ RawCells'
<1> DEFINE columns == ServerColumns(req)  sent == ServerRows(req)
           kept == keptRows(sent, Len(columns), ScanLimit(req))
<1>1. table \in Tables /\ sizes \in Seq(Nat) /\ GoodRequest(req) /\ Listing(req) /\ ~guardRefuses(req)
  BY DEF Base, Ran
<1>2. columns \in Seq(Columns \cup {LiteralColumn}) /\ columns = resolveProjection(req, table)
  BY <1>1, ProjectionType DEF Ran, ServerColumns
<1>3. sent \in Seq(Nat) /\ ScanLimit(req) \in Nat \ {0}
  BY <1>1, ServerWindow, ScanLimitType
<1>4. kept \in Seq(Nat)
  <2> HIDE DEF columns, sent
  <2> QED
    BY <1>3, KeptPrefix
<1>5. result' = Scanned(columns, sent, ScanLimit(req))
  BY DEF Ran
<1> HIDE DEF sent, columns
<1>6. result' = [columns |-> columns, listed |-> NamesOf(table), rows |-> kept,
         cells |-> [r \in DOMAIN kept |->
                      [c \in DOMAIN columns |-> Cell(columns[c], kept[r])]],
         cellTruncated |-> [r \in DOMAIN kept |->
                      [c \in DOMAIN columns |-> CellTruncated(kept[r])]],
         truncated |-> Len(kept) < Len(sent)]
  BY <1>5 DEF Scanned
<1> HIDE DEF kept
<1>7. /\ result'.columns = columns /\ result'.listed = NamesOf(table) /\ result'.rows = kept
      /\ \A r \in DOMAIN kept : \A c \in DOMAIN columns :
           result'.cells[r][c] = Cell(columns[c], kept[r])
      /\ DOMAIN result' = {"columns", "listed", "rows", "cells", "cellTruncated", "truncated"}
  BY <1>6
<1>8. Resolved(table, result.listed, NamesOf(result.columns))'
  BY <1>2, <1>7 DEF Resolved, Ran
<1>9. Executed'
  <2>1. \E t \in Tables : Resolved(t, result.listed, NamesOf(result.columns))'
    BY <1>1, <1>8 DEF Ran
  <2> QED
    BY <1>2, <1>7, <2>1 DEF Executed
<1>10. ASSUME NEW r \in DOMAIN kept, NEW c \in DOMAIN columns
       PROVE  Cell(columns[c], kept[r]) \in CellValues \cup {None}
  <2>1. kept[r] \in Nat
    BY <1>4
  <2>2. columns[c] \in Columns \cup {LiteralColumn}
    BY <1>2
  <2>3. columns[c].field \in {d.field : d \in Columns} \cup {None}
    BY <2>2 DEF LiteralColumn
  <2>4. CellTruncated(kept[r]) \in BOOLEAN
    BY DEF CellTruncated
  <2> HIDE DEF kept
  <2> QED
    BY <2>1, <2>3, <2>4 DEF Cell, CellValues
<1>11. RawCells'
  BY <1>7, <1>10 DEF RawCells
<1> QED
  BY <1>9, <1>11

LEMMA AppliedFollowsPlan ==
    ASSUME Base, DisclosureInv, Applied
    PROVE  CellsFollowPlan' /\ Executed'
<1>1. Executed /\ RawCells /\ Planned /\ planFits
  BY DEF Applied, DisclosureInv
<1>2. /\ result'.columns = result.columns /\ result'.listed = result.listed
      /\ result'.rows = result.rows /\ result'.cells = MaskedCells
      /\ DOMAIN result' = DOMAIN result
  BY <1>1 DEF Applied, Executed
<1>3. Executed'
  <2>1. \E t \in Tables : Resolved(t, result.listed, NamesOf(result.columns))'
    BY <1>1, <1>2 DEF Executed, Resolved, Applied
  <2> QED
    BY <1>1, <1>2, <2>1 DEF Executed
<1>4. ASSUME NEW r \in DOMAIN result.rows, NEW c \in DOMAIN result.columns
      PROVE  \/ MaskedCells[r][c] = None
             \/ (MaskedCells[r][c] = Masked) <=> (plan.modes[c] = "masked")
  <2>1. MaskedCells[r][c] = applyDisclosureMask(result.cells[r][c], plan.modes[c])
    BY DEF MaskedCells
  <2>2. result.cells[r][c] \in CellValues \cup {None}
    BY <1>1 DEF RawCells
  <2>3. Masked \notin CellValues
    BY SentinelsAssumption DEF CellValues
  <2> QED
    BY <2>1, <2>2, <2>3 DEF applyDisclosureMask
<1>5. DOMAIN MaskedCells = DOMAIN result.rows
  BY DEF MaskedCells
<1>6. plan' = plan /\ Len(plan.modes) = Len(result.columns)
  BY <1>1 DEF Applied, planFits
<1> QED
  BY <1>2, <1>3, <1>4, <1>5, <1>6 DEF CellsFollowPlan

(* Where the columns did not drift, the plan's names are the result's.     *)
LEMMA PlanNamesResult ==
    ASSUME Base, Listing(req), GoodRequest(req), Planned, Executed, ~Drifted
    PROVE  NamesOf(result.columns) = plan.projection
<1>1. PICK t \in Tables : Resolved(t, plan.listed, plan.projection)
  BY DEF Planned
<1>2. PICK u \in Tables : Resolved(u, result.listed, NamesOf(result.columns))
  BY DEF Executed
<1>3. STAR \in Range(req.exprs) => NamesOf(t) = NamesOf(u)
  BY <1>1, <1>2 DEF Drifted, Resolved
<1>4. ~projectionUnsupported(req, t) /\ ~projectionUnsupported(req, u)
  BY <1>1, <1>2 DEF Resolved
<1>5. NamesOf(resolveProjection(req, t)) = NamesOf(resolveProjection(req, u))
  BY <1>3, <1>4, ProjectionSameNames
<1> QED
  BY <1>1, <1>2, <1>5 DEF Resolved

LEMMA DeliveredAsSaid ==
    ASSUME Base, DisclosureInv, Delivered
    PROVE  ShownAsThePolicySaid'
<1>1. Planned /\ Executed /\ CellsFollowPlan /\ GoodRequest(req) /\ Listing(req)
  BY DEF Base, DisclosureInv, Delivered
<1>2. req' = req /\ plan' = plan /\ result' = result /\ seen' = seen
  BY DEF Delivered
<1>3. answer'.columns = NamesOf(result.columns) /\ answer'.cells = result.cells
  BY DEF Delivered, Page
<1> SUFFICES ASSUME ~Drifted PROVE EveryCellInForce'
  BY <1>2 DEF ShownAsThePolicySaid, Drifted
<1>4. NamesOf(result.columns) = plan.projection
  BY <1>1, PlanNamesResult
<1>5. DOMAIN NamesOf(result.columns) = DOMAIN result.columns
  BY DEF NamesOf
<1>6. ASSUME NEW r \in DOMAIN result.rows, NEW c \in DOMAIN result.columns
      PROVE  InForce(plan.projection[c], result.cells[r][c])
  <2>1. c \in 1 .. Len(plan.modes) /\ plan.modes[c] \in Modes
    BY <1>1 DEF CellsFollowPlan, Executed, Planned
  <2>2. plan.projection[c] = Literal \/ plan.modes[c] \in seen[plan.projection[c]]
    BY <1>1, <2>1 DEF Planned
  <2>3. \/ result.cells[r][c] = None
        \/ (result.cells[r][c] = Masked) <=> (plan.modes[c] = "masked")
    BY <1>1 DEF CellsFollowPlan
  <2> QED
    BY <2>1, <2>2, <2>3 DEF InForce, Modes
<1>7. DOMAIN result.cells = DOMAIN result.rows
  BY <1>1 DEF CellsFollowPlan
<1>8. ASSUME NEW r \in DOMAIN answer'.cells, NEW c \in DOMAIN answer'.columns
      PROVE  InForce(answer.columns[c], answer.cells[r][c])'
  <2>1. r \in DOMAIN result.rows /\ c \in DOMAIN result.columns
    BY <1>3, <1>5, <1>7
  <2>2. InForce(plan.projection[c], result.cells[r][c])
    BY <1>6, <2>1
  <2> QED
    BY <1>2, <1>3, <1>4, <2>2 DEF InForce
<1> QED
  BY <1>8 DEF EveryCellInForce

(* An administrator's step adds to what was in force and changes no plan.  *)
LEMMA AdministeredDisclosure ==
    ASSUME Base, DisclosureInv, Administered
    PROVE  DisclosureInv'
<1>1. PICK n \in Names, mode \in Modes \cup {None} : SetPolicy(n, mode)
  BY DEF Administered
<1>2. /\ table' = table /\ sizes' = sizes /\ req' = req /\ pc' = pc /\ plan' = plan
      /\ result' = result /\ answer' = answer
  BY <1>1 DEF SetPolicy
<1>3. /\ \A m \in Names : seen[m] \subseteq seen'[m]
      /\ pc = "idle" => seen' = seen
      /\ pc # "idle" => \A m \in Names : policies'[m] \in seen'[m]
  BY <1>1 DEF SetPolicy, Base, DisclosureInv
<1>4. pc \in {"policies", "apply", "finalize"} => Planned'
  BY <1>2, <1>3, PlannedStays DEF DisclosureInv
<1>5. pc \in {"apply", "finalize"} => Executed'
  BY <1>2 DEF DisclosureInv, Executed, Resolved
<1>6. (pc = "apply" => RawCells') /\ (pc = "finalize" => CellsFollowPlan')
  BY <1>2 DEF DisclosureInv, RawCells, CellsFollowPlan
<1>7. ShownAsThePolicySaid'
  <2>1. CASE pc = "idle"
    BY <1>2, <1>3, <2>1 DEF DisclosureInv, ShownAsThePolicySaid, Drifted, EveryCellInForce, InForce
  <2>2. CASE pc # "idle"
    BY <1>2, <2>2 DEF Base, noAnswer, ShownAsThePolicySaid
  <2> QED
    BY <2>1, <2>2
<1> QED
  BY <1>2, <1>3, <1>4, <1>5, <1>6, <1>7 DEF DisclosureInv

(* Nothing the invariant speaks of changes but the table.                  *)
LEMMA SameDisclosure ==
    ASSUME DisclosureInv, policies' = policies, req' = req, pc' = pc, plan' = plan,
           result' = result, answer' = answer, seen' = seen
    PROVE  DisclosureInv'
<1>1. pc \in {"policies", "apply", "finalize"} => Planned'
  BY PlannedStays DEF DisclosureInv
<1>2. pc \in {"apply", "finalize"} => Executed'
  BY DEF DisclosureInv, Executed, Resolved
<1>3. (pc = "apply" => RawCells') /\ (pc = "finalize" => CellsFollowPlan')
  BY DEF DisclosureInv, RawCells, CellsFollowPlan
<1>4. ShownAsThePolicySaid'
  BY DEF DisclosureInv, ShownAsThePolicySaid, Drifted, EveryCellInForce, InForce
<1> QED
  BY <1>1, <1>2, <1>3, <1>4 DEF DisclosureInv

LEMMA ServeDisclosure ==
    ASSUME NEW r, NEW kept, Serve(r, kept)
    PROVE  DisclosureInv'
<1>1. answer'.kind # "rows" /\ pc' = "guard"
  BY DEF Serve, noAnswer
<1>2. \A n \in Names : policies'[n] \in seen'[n]
  BY DEF Serve
<1> QED
  BY <1>1, <1>2 DEF DisclosureInv, ShownAsThePolicySaid

LEMMA NextDisclosure ==
    ASSUME Base, DisclosureInv, [Next]_vars
    PROVE  DisclosureInv'
<1>1. CASE (\E r \in Requests : Submit(r)) \/ FollowingPage
  BY <1>1, ServeDisclosure DEF Submit, FollowingPage
<1>2. CASE Refused
  BY <1>2 DEF Refused, Refuse, DisclosureInv, ShownAsThePolicySaid
<1>3. CASE Passed
  <2>1. answer'.kind # "rows"
    BY <1>3 DEF Passed, Base, noAnswer
  <2> QED
    BY <1>3, <2>1 DEF Passed, DisclosureInv, ShownAsThePolicySaid
<1>4. CASE Inspected
  <2>1. answer'.kind # "rows"
    BY <1>4 DEF Inspected, Base, noAnswer
  <2> QED
    BY <1>4, <2>1, InspectedPlans DEF Inspected, DisclosureInv, ShownAsThePolicySaid
<1>5. CASE PolicyRead
  <2>1. answer'.kind # "rows"
    BY <1>5 DEF PolicyRead, Base, noAnswer
  <2> QED
    BY <1>5, <2>1, PolicyReadPlans DEF PolicyRead, DisclosureInv, ShownAsThePolicySaid
<1>6. CASE Ran
  <2>1. answer'.kind # "rows"
    BY <1>6 DEF Ran, Base, noAnswer
  <2>2. Planned'
    BY <1>6, PlannedStays DEF Ran, DisclosureInv
  <2> QED
    BY <1>6, <2>1, <2>2, RanExecutes DEF Ran, DisclosureInv, ShownAsThePolicySaid
<1>7. CASE Applied
  <2>1. answer'.kind # "rows"
    BY <1>7 DEF Applied, Base, noAnswer
  <2>2. Planned'
    BY <1>7, PlannedStays DEF Applied, DisclosureInv
  <2> QED
    BY <1>7, <2>1, <2>2, AppliedFollowsPlan DEF Applied, DisclosureInv, ShownAsThePolicySaid
<1>8. CASE Delivered
  <2>1. pc' = "idle"
    BY <1>8 DEF Delivered
  <2> QED
    BY <1>8, <2>1, DeliveredAsSaid DEF DisclosureInv
<1>9. CASE AlterTable
  BY <1>9, SameDisclosure DEF AlterTable
<1>10. CASE Administered
  BY <1>10, AdministeredDisclosure
<1>11. CASE UNCHANGED vars
  BY <1>11, SameDisclosure DEF vars
<1> QED
  BY <1>1, <1>2, <1>3, <1>4, <1>5, <1>6, <1>7, <1>8, <1>9, <1>10, <1>11, Steps

(* Every delivered value is raw or masked as some policy in force while    *)
(* the request was served said of the column the server took it from:      *)
(* whatever administrators and other sessions changed between the reads of *)
(* Preflight, the execution and Apply, for every table, statement and      *)
(* number of columns, unless the columns of a star drifted meanwhile.      *)
THEOREM ShownAsThePolicySaidHolds == Spec => []ShownAsThePolicySaid
<1>1. Init => Base /\ DisclosureInv
  BY InitBase, InitDisclosure
<1>2. Base /\ DisclosureInv /\ [Next]_vars => (Base /\ DisclosureInv)'
  BY NextBase, NextDisclosure
<1>3. DisclosureInv => ShownAsThePolicySaid
  BY DEF DisclosureInv
<1> QED
  BY <1>1, <1>2, <1>3, PTL DEF Spec

-----------------------------------------------------------------------------
(* Pages.                                                                  *)

End == walk.from + Len(walk.rows)

(* The scan kept the first rows of the window, and all that the limit      *)
(* allows when it is a page.                                               *)
ScannedWindow ==
    LET sent == Len(ServerRows(req))
        kept == Len(result.rows)
    IN  /\ {"columns", "listed", "rows", "cells", "cellTruncated", "truncated"} = DOMAIN result
        /\ result.rows \in Seq(Nat)
        /\ \A i \in 1 .. kept : result.rows[i] = Offset(req) + i
        /\ kept <= sent /\ kept <= ScanLimit(req)
        /\ Paged(req) => kept = sent \/ kept = ScanLimit(req)
        /\ result.truncated <=> kept < sent

PagesInv ==
    /\ walk \in [from : Nat, rows : Seq(Nat)]
    /\ \A i \in 1 .. Len(walk.rows) : walk.rows[i] = walk.from + i
    /\ pc # "idle" => End = Offset(req)
    /\ pc \in {"apply", "finalize"} => ScannedWindow
    /\ answer.kind = "rows" /\ answer.hasNext =>
         Paged(req) /\ End = req.page * req.pageSize
    /\ PagesAreOneSequence

LEMMA OneSequenceLater ==
    ASSUME answer.kind # "rows"
    PROVE  PagesAreOneSequence
BY DEF PagesAreOneSequence

LEMMA InitPages == Init => PagesInv
<1> SUFFICES ASSUME Init PROVE PagesInv
  OBVIOUS
<1>1. answer.kind # "rows" /\ pc = "idle" /\ walk = [from |-> 0, rows |-> <<>>]
  BY DEF Init, noAnswer, newWalk
<1> QED
  BY <1>1, OneSequenceLater DEF PagesInv

LEMMA SubmitPages ==
    ASSUME NEW r \in Requests, Submit(r)
    PROVE  PagesInv'
<1>1. /\ answer'.kind # "rows" /\ pc' = "guard" /\ req' = r
      /\ walk' = [from |-> Offset(r), rows |-> <<>>]
  BY DEF Submit, Serve, noAnswer, newWalk
<1>2. Offset(r) \in Nat
  BY RequestsAreGood, OffsetType
<1>3. /\ walk' \in [from : Nat, rows : Seq(Nat)] /\ Len(walk'.rows) = 0
      /\ walk'.from = Offset(req')
  BY <1>1, <1>2
<1>4. End' = Offset(req')
  BY <1>1, <1>2, <1>3 DEF End
<1> QED
  BY <1>1, <1>3, <1>4 DEF PagesInv, PagesAreOneSequence

(* The next page starts where the walk has ended.                          *)
LEMMA FollowingPagePages ==
    ASSUME Base, PagesInv, FollowingPage
    PROVE  PagesInv'
<1> DEFINE r == [req EXCEPT !.page = @ + 1]
<1>1. /\ answer'.kind # "rows" /\ pc' = "guard" /\ req' = r /\ walk' = walk
  BY DEF FollowingPage, Serve, noAnswer
<1>2. Paged(req) /\ GoodRequest(req) /\ End = req.page * req.pageSize
  BY DEF FollowingPage, PagesInv, Base
<1>3. Offset(r) = req.page * req.pageSize
  <2>1. Paged(r)
    BY <1>2, FollowingPageIsGood
  <2>2. r.page - 1 = req.page /\ r.pageSize = req.pageSize
    BY <1>2 DEF GoodRequest, Request
  <2> QED
    BY <2>1, <2>2 DEF Offset
<1>4. End' = Offset(req')
  BY <1>1, <1>2, <1>3 DEF End
<1> QED
  BY <1>1, <1>4 DEF PagesInv, PagesAreOneSequence

LEMMA RefusedPages ==
    ASSUME Refused
    PROVE  PagesInv'
<1>1. answer'.kind # "rows" /\ pc' = "idle" /\ walk' = [from |-> 0, rows |-> <<>>]
  BY DEF Refused, Refuse, newWalk
<1> QED
  BY <1>1 DEF PagesInv, PagesAreOneSequence

LEMMA RanScans ==
    ASSUME Base, Ran
    PROVE  ScannedWindow'
<1> DEFINE columns == ServerColumns(req)  sent == ServerRows(req)  limit == ScanLimit(req)
           kept == keptRows(sent, Len(columns), limit)
<1>1. sizes \in Seq(Nat) /\ GoodRequest(req) /\ Listing(req) /\ ~guardRefuses(req)
  BY DEF Base, Ran
<1>2. /\ sent \in Seq(Nat) /\ \A i \in 1 .. Len(sent) : sent[i] = Offset(req) + i
      /\ limit \in Nat \ {0}
  BY <1>1, ServerWindow, ScanLimitType
<1>3. Paged(req) => overBudget(sent, Len(columns), limit) = {}
  BY DEF Ran, pageTooLarge
<1>4. req' = req /\ sizes' = sizes /\ result' = Scanned(columns, sent, limit)
  BY DEF Ran
<1>5. ServerRows(req)' = sent /\ ScanLimit(req)' = limit /\ Offset(req)' = Offset(req)
      /\ Paged(req)' = Paged(req)
  BY <1>4 DEF ServerRows
<1> HIDE DEF sent, columns, limit
<1>6. /\ kept \in Seq(Nat) /\ Len(kept) <= Len(sent) /\ Len(kept) <= limit
      /\ \A i \in 1 .. Len(kept) : kept[i] = sent[i]
      /\ Paged(req) => Len(kept) = Len(sent) \/ Len(kept) = limit
  BY <1>2, <1>3, KeptPrefix
<1>7. result' = [columns |-> columns, listed |-> NamesOf(table), rows |-> kept,
         cells |-> [r \in DOMAIN kept |->
                      [c \in DOMAIN columns |-> Cell(columns[c], kept[r])]],
         cellTruncated |-> [r \in DOMAIN kept |->
                      [c \in DOMAIN columns |-> CellTruncated(kept[r])]],
         truncated |-> Len(kept) < Len(sent)]
  BY <1>4 DEF Scanned
<1> HIDE DEF kept
<1>8. /\ result'.rows = kept /\ (result'.truncated <=> Len(kept) < Len(sent))
      /\ DOMAIN result' = {"columns", "listed", "rows", "cells", "cellTruncated", "truncated"}
  BY <1>7
<1>9. \A i \in 1 .. Len(kept) : kept[i] = Offset(req) + i
  BY <1>2, <1>6
<1> QED
  BY <1>5, <1>6, <1>8, <1>9 DEF ScannedWindow

LEMMA WindowStays ==
    ASSUME ScannedWindow, req' = req, sizes' = sizes, result'.rows = result.rows,
           result'.truncated = result.truncated, DOMAIN result' = DOMAIN result
    PROVE  ScannedWindow'
<1>1. ServerRows(req)' = ServerRows(req)
  BY DEF ServerRows
<1> QED
  BY <1>1 DEF ScannedWindow

(* A page is full when there is another, so the next one continues it.     *)
LEMMA DeliveredPages ==
    ASSUME Base, PagesInv, Delivered
    PROVE  PagesInv'
<1> DEFINE o == Offset(req)  s == ScanLimit(req)  e == effectiveMaxRows(req)
           n == Rows(req)  L == Len(ServerRows(req))  K == Len(result.rows)
<1>1. sizes \in Seq(Nat) /\ GoodRequest(req) /\ Listing(req) /\ ~guardRefuses(req)
  BY DEF Base, Delivered
<1>2. /\ walk \in [from : Nat, rows : Seq(Nat)] /\ walk.from + Len(walk.rows) = o
      /\ \A i \in 1 .. Len(walk.rows) : walk.rows[i] = walk.from + i
      /\ ScannedWindow
  BY DEF PagesInv, Delivered, End
<1>3. req' = req /\ sizes' = sizes /\ answer' = Page /\ pc' = "idle"
  BY DEF Delivered
<1>4. /\ result.rows \in Seq(Nat) /\ \A i \in 1 .. K : result.rows[i] = o + i
      /\ K <= L /\ K <= s /\ (Paged(req) => K = L \/ K = s)
      /\ result.truncated <=> K < L
  BY <1>2 DEF ScannedWindow
<1>5. o \in Nat /\ s \in Nat \ {0} /\ e \in Nat \ {0} /\ n \in Nat /\ K \in Nat /\ L \in Nat
  BY <1>1, <1>4, OffsetType, ScanLimitType, RowLimits, ServerWindow
<1>6. L = IF n <= o THEN 0 ELSE IF n - o > LimitClause(req) THEN LimitClause(req) ELSE n - o
  BY <1>1, ServerWindow
<1>7. LimitClause(req) = IF req.kind = "related" THEN s ELSE s + 1
  BY <1>1, ServerWindow
<1>8. Paged(req) => /\ s = PageRows(req) /\ o + s <= e
                    /\ (o + s < e => s = req.pageSize)
                    /\ o + req.pageSize = req.page * req.pageSize
                    /\ req.kind # "related"
  BY <1>1, ScanLimitType, OffsetType DEF Paged
<1>9. ~Paged(req) => o = 0
  BY DEF Offset
<1>10. /\ walk' \in [from : Nat, rows : Seq(Nat)] /\ walk'.from = walk.from
       /\ Len(walk'.rows) = Len(walk.rows) + K
       /\ \A i \in 1 .. Len(walk'.rows) : walk'.rows[i] = walk.from + i
  <2> DEFINE a == walk.rows  b == result.rows  w == a \o b
  <2>1. a \in Seq(Nat) /\ b \in Seq(Nat) /\ walk.from \in Nat
    BY <1>2, <1>4
  <2>2. walk' = [walk EXCEPT !.rows = w]
    BY DEF Delivered
  <2>3. walk'.rows = w /\ walk'.from = walk.from
    BY <1>2, <2>2
  <2>4. w \in Seq(Nat) /\ Len(w) = Len(a) + Len(b)
    BY <2>1
  <2>5. ASSUME NEW i \in 1 .. Len(a) + Len(b)
        PROVE  w[i] = IF i <= Len(a) THEN a[i] ELSE b[i - Len(a)]
    BY <2>1
  <2> HIDE DEF w
  <2>6. ASSUME NEW i \in 1 .. Len(w) PROVE w[i] = walk.from + i
    <3>1. CASE i <= Len(a)
      BY <1>2, <2>1, <2>4, <2>5, <3>1
    <3>2. CASE i > Len(a)
      <4> DEFINE j == i - Len(a)
      <4>1. w[i] = b[j] /\ j \in 1 .. Len(b)
        <5>1. Len(a) \in Nat /\ Len(b) \in Nat
          BY <2>1
        <5>2. i \in 1 .. Len(a) + Len(b)
          BY <2>4
        <5>3. w[i] = IF i <= Len(a) THEN a[i] ELSE b[j]
          BY <2>5, <5>2
        <5> HIDE DEF a, b
        <5> QED
          BY <3>2, <5>1, <5>2, <5>3
      <4>2. \A k \in 1 .. Len(b) : b[k] = o + k
        BY <1>4
      <4> HIDE DEF j, b
      <4>3. b[j] = o + j
        BY <4>1, <4>2
      <4> QED
        BY <1>2, <2>1, <2>4, <4>1, <4>3 DEF j
    <3> QED
      BY <2>1, <2>4, <3>1, <3>2
  <2> QED
    BY <1>2, <2>2, <2>3, <2>4, <2>6
<1>11. End' = o + K
  BY <1>2, <1>4, <1>10 DEF End
<1>12. /\ answer'.kind = "rows" /\ (answer'.truncated <=> K < L)
       /\ answer'.hasNext <=> Paged(req) /\ K < L /\ o + s < e
  <2>1. answer'.kind = "rows" /\ answer'.truncated = result.truncated /\ answer'.hasNext = HasNextPage
    BY <1>3 DEF Page
  <2>2. HasNextPage <=> Paged(req) /\ K < L /\ o + s < e
    BY <1>4, <1>8 DEF HasNextPage
  <2> QED
    BY <1>4, <2>1, <2>2
<1> HIDE DEF o, s, e, n, L, K
<1>13. Paged(req) => (answer'.hasNext <=> o + K < IF n < e THEN n ELSE e)
  BY <1>4, <1>5, <1>6, <1>7, <1>8, <1>12
<1>14. req.kind # "related" => (answer'.truncated <=> o + K < n)
  BY <1>4, <1>5, <1>6, <1>7, <1>12
<1>15. answer'.hasNext => Paged(req) /\ o + K = req.page * req.pageSize
  BY <1>4, <1>5, <1>8, <1>12
<1>16. DOMAIN walk'.rows = 1 .. Len(walk'.rows)
  BY <1>10
<1>17. walk'.rows = [i \in DOMAIN walk'.rows |-> walk'.from + i]
  BY <1>10, <1>16
<1>18. PagesAreOneSequence'
  BY <1>3, <1>11, <1>13, <1>14, <1>17 DEF PagesAreOneSequence, End, n, e, Rows
<1> QED
  BY <1>3, <1>10, <1>11, <1>15, <1>18 DEF PagesInv

(* Nothing the invariant speaks of changes.                                *)
LEMMA SamePages ==
    ASSUME PagesInv, sizes' = sizes, req' = req, pc' = pc, result' = result,
           answer' = answer, walk' = walk
    PROVE  PagesInv'
<1>1. pc \in {"apply", "finalize"} => ScannedWindow'
  BY WindowStays DEF PagesInv
<1>2. PagesAreOneSequence'
  BY DEF PagesInv, PagesAreOneSequence
<1> QED
  BY <1>1, <1>2 DEF PagesInv, End

LEMMA NextPages ==
    ASSUME Base, PagesInv, [Next]_vars
    PROVE  PagesInv'
<1>1. CASE \E r \in Requests : Submit(r)
  BY <1>1, SubmitPages
<1>2. CASE FollowingPage
  BY <1>2, FollowingPagePages
<1>3. CASE Refused
  BY <1>3, RefusedPages
<1>4. CASE Passed \/ Inspected
  <2>1. /\ answer'.kind # "rows" /\ pc # "idle" /\ pc' \notin {"apply", "finalize"}
        /\ walk' = walk /\ req' = req
    BY <1>4 DEF Passed, Inspected, Base, noAnswer
  <2> QED
    BY <2>1 DEF PagesInv, PagesAreOneSequence, End
<1>5. CASE PolicyRead
  BY <1>5, SamePages DEF PolicyRead
<1>6. CASE Ran
  <2>1. answer'.kind # "rows" /\ pc # "idle" /\ walk' = walk /\ req' = req
    BY <1>6 DEF Ran, Base, noAnswer
  <2> QED
    BY <1>6, <2>1, RanScans DEF PagesInv, PagesAreOneSequence, End
<1>7. CASE Applied
  <2>1. answer'.kind # "rows" /\ pc # "idle" /\ walk' = walk /\ req' = req
    BY <1>7 DEF Applied, Base, noAnswer
  <2>2. ScannedWindow
    BY <1>7 DEF Applied, PagesInv
  <2>3. /\ result'.rows = result.rows /\ result'.truncated = result.truncated
        /\ DOMAIN result' = DOMAIN result /\ sizes' = sizes
    BY <1>7, <2>2 DEF Applied, ScannedWindow
  <2>4. ScannedWindow'
    BY <2>1, <2>2, <2>3, WindowStays
  <2> QED
    BY <2>1, <2>4 DEF PagesInv, PagesAreOneSequence, End
<1>8. CASE Delivered
  BY <1>8, DeliveredPages
<1>9. CASE AlterTable \/ Administered
  BY <1>9, SamePages DEF AlterTable, Administered, SetPolicy
<1>10. CASE UNCHANGED vars
  BY <1>10, SamePages DEF vars
<1> QED
  BY <1>1, <1>2, <1>3, <1>4, <1>5, <1>6, <1>7, <1>8, <1>9, <1>10, Steps

(* The pages a client reads one after the other are one gapless sequence   *)
(* of rows without duplicates; there is a next page exactly while rows the *)
(* release cap allows remain, and an answer is marked truncated exactly    *)
(* when it lacks rows: for every page size, cap, byte budget and content.  *)
THEOREM PagesAreOneSequenceHolds == Spec => []PagesAreOneSequence
<1>1. Init => Base /\ PagesInv
  BY InitBase, InitPages
<1>2. Base /\ PagesInv /\ [Next]_vars => (Base /\ PagesInv)'
  BY NextBase, NextPages
<1>3. PagesInv => PagesAreOneSequence
  BY DEF PagesInv
<1> QED
  BY <1>1, <1>2, <1>3, PTL DEF Spec
=============================================================================
