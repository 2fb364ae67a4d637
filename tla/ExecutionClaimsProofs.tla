----------------------- MODULE ExecutionClaimsProofs -----------------------
(***************************************************************************)
(* Proofs about ExecutionClaims, for any set of attempts, targets, keys,   *)
(* actors and requests.                                                    *)
(***************************************************************************)
EXTENDS ExecutionClaims, TLAPS, FiniteSetTheorems

(* What a request of a served attempt is made of.                          *)
LEMMA RequestFields ==
    ASSUME NEW r \in Requests
    PROVE  /\ r.target \in Targets
           /\ r.key \in Keys \cup {NoKey}
           /\ r.actor \in Actor
           /\ r.entry \in Entries
           /\ r.scope \in Scopes \cup {NoScope}
           /\ Digest(r) \in Digests
           /\ r # NoRequest
           /\ r.key # NoKey => <<r.target, r.key>> \in Slots
<1>1. r \in Request
  BY RequestsAssumption
<1>2. r \in [target : Targets, key : Keys \cup {NoKey}, actor : Actor,
             entry : Entries, scope : Scopes \cup {NoScope}, body : Bodies]
  BY <1>1 DEF Request
<1>3. r # NoRequest
  BY <1>1, SentinelsAssumption
<1> QED
  BY <1>2, <1>3 DEF Digest, Digests, Slots

(* Initially everything has its type. *)
LEMMA InitTypeOK == Init => TypeOK
<1> SUFFICES ASSUME Init PROVE TypeOK
  OBVIOUS
<1>1. 0 \in 0..MaxNow
  BY ConstantsAssumption
<1> QED
  BY <1>1 DEF Init, TypeOK, PCs, Answers, NoKey

(* Building the terminal record: where the attempt goes and what it holds. *)
LEMMA TerminateType ==
    ASSUME TypeOK, NEW a \in Attempts, NEW status \in Statuses,
           NEW answer \in {"recorded", "admissionFailed", "rows"},
           Terminate(a, status, answer)
    PROVE  /\ pc' = [pc EXCEPT ![a] = "persist"]
           /\ pc' \in [Attempts -> PCs]
           /\ rec' \in [Attempts -> Record \cup {NoRecord}]
           /\ rec'[a] \in Record
           /\ rec'[a].status = status
           /\ rec'[a].answer = answer
           /\ \A b \in Attempts \ {a} : rec'[b] = rec[b]
BY DEF TypeOK, Terminate, Goto, PCs, Waiting, Record

(* An admitted attempt goes on to the guard, the preflight or the chain. *)
LEMMA AfterAdmissionPlaces ==
    ASSUME NEW a \in Attempts
    PROVE  AfterAdmission(a) \in {"pgchain", "preflight", "guard"}
BY DEF AfterAdmission

(* The gate of the PostgreSQL chain ends in a terminal record. *)
LEMMA RunPGTerminates ==
    ASSUME TypeOK, NEW a \in Attempts, RunPG(a)
    PROVE  \E status \in Statuses, answer \in {"recorded", "rows"} :
              Terminate(a, status, answer)
<1>1. PICK o \in PGOutcome :
        Terminate(a, PGTerminalStatus(o),
                  IF ~ContractFault(o) /\ ~o.error THEN "rows" ELSE "recorded")
  BY DEF RunPG
<1>2. PGTerminalStatus(o) \in Statuses
  BY DEF PGTerminalStatus, PGOutcome, Statuses
<1> QED
  BY <1>1, <1>2

(* Every step of an attempt that writes neither a claim nor a pair keeps   *)
(* the types.                                                              *)
LEMMA ServeLocalType ==
    ASSUME TypeOK, NEW a \in Attempts,
           \/ Submit(a) \/ ResolveAccess(a) \/ Prepare(a) \/ AdmitKeyless(a)
           \/ ClassifyDuplicate(a) \/ ClaimStoreFails(a) \/ Guard(a) \/ Preflight(a)
           \/ RunMySQL(a) \/ Apply(a) \/ PGChain(a) \/ RunPG(a) \/ PersistFails(a)
           \/ DeliveryGate(a)
    PROVE  TypeOK'
<1> USE DEF TypeOK, storeVars, Goto, Answer
<1>1. CASE Submit(a)
  BY <1>1 DEF Submit, PCs, Waiting, Answers
<1>2. CASE ResolveAccess(a)
  BY <1>2, TerminateType DEF ResolveAccess, ResolveMySQLAccess, ResolvePGAccess,
     Admit, PCs, Waiting, Answers, Statuses
<1>3. CASE Prepare(a)
  BY <1>3, TerminateType DEF Prepare, PrepareSaved, PrepareNavigation,
     PreparePGSaved, PreparePGNavigation, PrepareWith, Admit, PCs, Waiting, Answers, Statuses
<1>4. CASE AdmitKeyless(a)
  BY <1>4 DEF AdmitKeyless, AfterAdmission, PCs, Waiting
<1>5. CASE ClassifyDuplicate(a)
  BY <1>5 DEF ClassifyDuplicate, PCs, Answers
<1>6. CASE ClaimStoreFails(a)
  BY <1>6, TerminateType DEF ClaimStoreFails, Statuses
<1>7. CASE Guard(a)
  BY <1>7, TerminateType DEF Guard, PCs, Waiting, Statuses
<1>8. CASE Preflight(a)
  BY <1>8, TerminateType DEF Preflight, PCs, Waiting, Statuses
<1>9. CASE RunMySQL(a)
  BY <1>9, TerminateType DEF RunMySQL, PCs, Waiting, Statuses
<1>10. CASE Apply(a)
  BY <1>10, TerminateType DEF Apply, Statuses
<1>11. CASE PGChain(a)
  BY <1>11, TerminateType DEF PGChain, PCs, Waiting
<1>12. CASE RunPG(a)
  BY <1>12, RunPGTerminates, TerminateType DEF RunPG
<1>13. CASE PersistFails(a)
  BY <1>13 DEF PersistFails, PCs, Answers
<1>14. CASE DeliveryGate(a)
  BY <1>14 DEF DeliveryGate, PCs, Answers
<1> QED
  BY <1>1, <1>2, <1>3, <1>4, <1>5, <1>6, <1>7, <1>8, <1>9, <1>10, <1>11, <1>12,
     <1>13, <1>14

(* The pair an attempt inserts is a row and an audit event. *)
LEMMA InsertPairType ==
    ASSUME TypeOK, NEW a \in Attempts, req[a] \in Requests, rec[a] \in Record,
           InsertPair(a)
    PROVE  /\ rows' \subseteq Row
           /\ audits' \subseteq Audit
           /\ nextId' \in Nat \ {0}
<1>1. PairRow(a) \in Row
  BY RequestFields DEF PairRow, Row, Record, TypeOK
<1>2. PairAudit(a) \in Audit
  BY RequestFields DEF PairAudit, Audit, Record, TypeOK, evidenceEventType,
     auditResultFor, Statuses
<1> QED
  BY <1>1, <1>2 DEF InsertPair, TypeOK

(* Linking changes one field of one claim. *)
LEMMA LinkClaimType ==
    ASSUME TypeOK, NEW a \in Attempts, req[a] \in Requests, Keyed(a),
           claims[SlotOf(a)] # NoClaim, LinkClaim(a)
    PROVE  /\ claims' \in [Slots -> Claim \cup {NoClaim}]
           /\ claims' = [claims EXCEPT ![SlotOf(a)] =
                            [claims[SlotOf(a)] EXCEPT !.execution = nextId]]
<1>1. SlotOf(a) \in Slots
  BY RequestFields DEF SlotOf, Keyed
<1>2. claims[SlotOf(a)] \in Claim
  BY <1>1 DEF TypeOK
<1>3. [claims[SlotOf(a)] EXCEPT !.execution = nextId] \in Claim
  BY <1>2 DEF Claim, TypeOK
<1> QED
  BY <1>1, <1>3 DEF LinkClaim, TypeOK

(* The claim an attempt inserts is a claim. *)
LEMMA NewClaimType ==
    ASSUME TypeOK, NEW a \in Attempts, req[a] \in Requests
    PROVE  /\ NewClaim(a) \in Claim
           /\ NewClaim(a) # NoClaim
<1>1. NewClaim(a) \in Claim
  BY RequestFields DEF NewClaim, Claim, TypeOK
<1> QED
  BY <1>1, SentinelsAssumption

(* The steps that write the store keep the types, given that an attempt   *)
(* persists only what it has built and links only a claim that exists.     *)
LEMMA ServeStoreType ==
    ASSUME TypeOK, AttemptInv, OwnerInv, NEW a \in Attempts,
           \/ TryClaim(a) \/ PersistKeyless(a) \/ PersistKeyed(a)
           \/ LateClaim(a) \/ LatePair(a) \/ LateAbort(a)
    PROVE  TypeOK'
<1>1. CASE TryClaim(a)
  <2>1. req[a] \in Requests /\ Keyed(a)
    BY <1>1 DEF TryClaim, AttemptInv
  <2>2. SlotOf(a) \in Slots /\ NewClaim(a) \in Claim
    BY <2>1, RequestFields, NewClaimType DEF SlotOf, Keyed
  <2>3. pc' \in [Attempts -> PCs]
    BY <1>1 DEF TryClaim, TypeOK, Goto, AfterAdmission, PCs, Waiting
  <2>4. /\ claims' \in [Slots -> Claim \cup {NoClaim}]
        /\ owned' \in [Attempts -> BOOLEAN]
    BY <1>1, <2>2 DEF TryClaim, TypeOK
  <2> QED
    BY <1>1, <2>3, <2>4 DEF TryClaim, TypeOK
<1>2. CASE PersistKeyless(a)
  <2>1. req[a] \in Requests /\ rec[a] \in Record /\ InsertPair(a)
    BY <1>2 DEF PersistKeyless, AttemptInv
  <2>2. /\ pc' \in [Attempts -> PCs]
        /\ resp' \in [Attempts -> Answers]
    BY <1>2, <2>1 DEF PersistKeyless, Acknowledged, Goto, Answer, TypeOK, PCs, Waiting,
       Answers, Record
  <2> QED
    BY <1>2, <2>1, <2>2, InsertPairType DEF PersistKeyless, TypeOK
<1>3. CASE PersistKeyed(a)
  <2>1. /\ req[a] \in Requests /\ rec[a] \in Record
        /\ Keyed(a) /\ claims[SlotOf(a)] # NoClaim
    BY <1>3 DEF PersistKeyed, AttemptInv, OwnerInv
  <2>2. /\ pc' \in [Attempts -> PCs]
        /\ resp' \in [Attempts -> Answers]
    BY <1>3, <2>1 DEF PersistKeyed, Acknowledged, Goto, Answer, TypeOK, PCs, Waiting,
       Answers, Record
  <2>3. CASE LinkClaim(a)
    BY <1>3, <2>1, <2>2, <2>3, InsertPairType, LinkClaimType
       DEF PersistKeyed, TypeOK, LinkClaim
  <2>4. CASE UNCHANGED storeVars
    BY <1>3, <2>2, <2>4 DEF PersistKeyed, TypeOK, storeVars
  <2> QED
    BY <1>3, <2>3, <2>4 DEF PersistKeyed
<1>4. CASE LateClaim(a)
  <2>1. req[a] \in Requests /\ Keyed(a)
    BY <1>4 DEF LateClaim, AttemptInv, Over
  <2>2. SlotOf(a) \in Slots /\ NewClaim(a) \in Claim
    BY <2>1, RequestFields, NewClaimType DEF SlotOf, Keyed
  <2> QED
    BY <1>4, <2>2 DEF LateClaim, TypeOK
<1>5. CASE LatePair(a)
  <2>1. req[a] \in Requests /\ rec[a] \in Record
    BY <1>5 DEF LatePair, AttemptInv, Over
  <2>2. InsertPair(a)
    BY <1>5 DEF LatePair, LinkClaim
  <2>3. claims' \in [Slots -> Claim \cup {NoClaim}]
    <3>1. CASE owned[a]
      BY <1>5, <2>1, <3>1, LinkClaimType DEF LatePair, OwnerInv
    <3>2. CASE ~owned[a]
      BY <1>5, <3>2 DEF LatePair, TypeOK
    <3> QED
      BY <3>1, <3>2
  <2> QED
    BY <1>5, <2>1, <2>2, <2>3, InsertPairType DEF LatePair, TypeOK
<1>6. CASE LateAbort(a)
  BY <1>6 DEF LateAbort, TypeOK, storeVars
<1> QED
  BY <1>1, <1>2, <1>3, <1>4, <1>5, <1>6

(* A step of one attempt keeps what AttemptInv says of each attempt. *)
LEMMA AttemptInvStep ==
    ASSUME TypeOK, TypeOK', AttemptInv, NEW a \in Attempts,
           \/ Submit(a) \/ Serve(a) \/ LateClaim(a) \/ LatePair(a) \/ LateAbort(a)
    PROVE  AttemptInv'
<1> SUFFICES ASSUME NEW b \in Attempts
             PROVE  (/\ pc[b] # "idle" => req[b] \in Requests
                     /\ pc[b] \in BeforeClaim =>
                          ~owned[b] /\ ~sent[b] /\ limbo[b] = {}
                     /\ pc[b] = "classify" => Keyed(b)
                     /\ pc[b] = "persist" => rec[b] \in Record
                     /\ "claim" \in limbo[b] =>
                          /\ ~owned[b]
                          /\ Keyed(b)
                          /\ pc[b] \in {"persist"} \cup Over
                          /\ pc[b] = "persist" => rec[b].answer = "admissionFailed"
                     /\ "pair" \in limbo[b] => pc[b] \in Over /\ rec[b] \in Record)'
  BY DEF AttemptInv
<1> USE DEF TypeOK, AttemptInv, BeforeClaim, Over, Keyed, Goto, Answer
<1>1. CASE Submit(a)
  BY <1>1 DEF Submit
<1>2. CASE ResolveAccess(a)
  BY <1>2, TerminateType DEF ResolveAccess, ResolveMySQLAccess, ResolvePGAccess,
     Admit, Statuses
<1>3. CASE Prepare(a)
  BY <1>3, TerminateType DEF Prepare, PrepareSaved, PrepareNavigation,
     PreparePGSaved, PreparePGNavigation, PrepareWith, Admit, Statuses
<1>4. CASE AdmitKeyless(a)
  BY <1>4 DEF AdmitKeyless, AfterAdmission
<1>5. CASE ClassifyDuplicate(a)
  BY <1>5 DEF ClassifyDuplicate
<1>6. CASE ClaimStoreFails(a)
  BY <1>6, TerminateType DEF ClaimStoreFails, Statuses
<1>7. CASE Guard(a)
  BY <1>7, TerminateType DEF Guard, Statuses
<1>8. CASE Preflight(a)
  BY <1>8, TerminateType DEF Preflight, Statuses
<1>9. CASE RunMySQL(a)
  BY <1>9, TerminateType DEF RunMySQL, Statuses
<1>10. CASE Apply(a)
  BY <1>10, TerminateType DEF Apply, Statuses
<1>11. CASE PGChain(a)
  BY <1>11, TerminateType DEF PGChain, Statuses
<1>12. CASE RunPG(a)
  BY <1>12, RunPGTerminates, TerminateType DEF RunPG
<1>13. CASE PersistFails(a)
  BY <1>13 DEF PersistFails
<1>14. CASE DeliveryGate(a)
  BY <1>14 DEF DeliveryGate
<1>15. CASE TryClaim(a)
  <2>1. /\ pc' \in [Attempts -> PCs]
        /\ pc'[a] \in {"pgchain", "preflight", "guard", "classify"}
        /\ pc'[a] = "classify" => ~owned'[a]
        /\ \A c \in Attempts \ {a} : pc'[c] = pc[c] /\ owned'[c] = owned[c]
    BY <1>15, AfterAdmissionPlaces DEF TryClaim
  <2>2. limbo[a] = {} /\ req[a] \in Requests /\ Keyed(a)
    BY <1>15 DEF TryClaim
  <2> QED
    BY <1>15, <2>1, <2>2 DEF TryClaim
<1>16. CASE PersistKeyless(a)
  BY <1>16 DEF PersistKeyless, Acknowledged
<1>17. CASE PersistKeyed(a)
  BY <1>17 DEF PersistKeyed, Acknowledged
<1>18. CASE LateClaim(a)
  BY <1>18 DEF LateClaim
<1>19. CASE LatePair(a)
  BY <1>19 DEF LatePair
<1>20. CASE LateAbort(a)
  BY <1>20 DEF LateAbort
<1> QED
  BY <1>1, <1>2, <1>3, <1>4, <1>5, <1>6, <1>7, <1>8, <1>9, <1>10, <1>11, <1>12, <1>13, <1>14, <1>15, <1>16, <1>17, <1>18, <1>19, <1>20 DEF Serve

(* Linking a claim of one owner leaves it in place, and those of the      *)
(* others alone.                                                           *)
LEMMA OwnerKeepsSlot ==
    ASSUME TypeOK, AttemptInv, OwnerInv, NEW a \in Attempts, NEW b \in Attempts,
           owned[b], (LinkClaim(a) /\ owned[a]) \/ UNCHANGED claims
    PROVE  /\ claims'[SlotOf(b)] # NoClaim
           /\ claims'[SlotOf(b)].owner = b
           /\ b # a => claims'[SlotOf(b)] = claims[SlotOf(b)]
<1>1. CASE UNCHANGED claims
  BY <1>1 DEF OwnerInv
<1>2. CASE LinkClaim(a) /\ owned[a]
  <2>1. /\ req[a] \in Requests /\ Keyed(a) /\ claims[SlotOf(a)] # NoClaim
        /\ claims[SlotOf(a)].owner = a
    BY <1>2 DEF AttemptInv, OwnerInv, BeforeClaim
  <2>2. /\ req[b] \in Requests /\ Keyed(b) /\ claims[SlotOf(b)] # NoClaim
        /\ claims[SlotOf(b)].owner = b
    BY DEF AttemptInv, OwnerInv, BeforeClaim
  <2>3. /\ claims' = [claims EXCEPT ![SlotOf(a)] =
                        [claims[SlotOf(a)] EXCEPT !.execution = nextId]]
    BY <1>2, <2>1, LinkClaimType
  <2>4. SlotOf(a) \in Slots /\ SlotOf(b) \in Slots
    BY <2>1, <2>2, RequestFields DEF SlotOf, Keyed
  <2>5. claims[SlotOf(a)] \in Claim
    BY <2>1, <2>4 DEF TypeOK
  <2>6. LET c == [claims[SlotOf(a)] EXCEPT !.execution = nextId]
        IN  c \in Claim /\ c.owner = a
    BY <2>1, <2>5 DEF Claim, TypeOK
  <2> QED
    BY <2>1, <2>2, <2>3, <2>4, <2>6, SentinelsAssumption DEF TypeOK
<1> QED
  BY <1>1, <1>2

(* A step of one attempt leaves every owner in possession of its slot. *)
LEMMA OwnerInvStep ==
    ASSUME TypeOK, TypeOK', AttemptInv, OwnerInv, NEW a \in Attempts,
           \/ Submit(a) \/ Serve(a) \/ LateClaim(a) \/ LatePair(a) \/ LateAbort(a)
    PROVE  OwnerInv'
<1> SUFFICES ASSUME NEW b \in Attempts
             PROVE  (/\ owned[b] =>
                          /\ Keyed(b)
                          /\ claims[SlotOf(b)] # NoClaim
                          /\ claims[SlotOf(b)].owner = b
                          /\ pc[b] \in Executing \cup {"persist"} \/ "pair" \in limbo[b] =>
                               claims[SlotOf(b)].execution = 0
                     /\ pc[b] \in Executing \cup {"gate"} /\ Keyed(b) => owned[b]
                     /\ pc[b] = "persist" /\ rec[b].answer = "rows" /\ Keyed(b) => owned[b]
                     /\ sent[b] /\ Keyed(b) => owned[b])'
  BY DEF OwnerInv
<1> USE DEF TypeOK, AttemptInv, OwnerInv, BeforeClaim, Executing, Over, Keyed, SlotOf, Goto,
        Answer, storeVars
<1>1. CASE Submit(a)
  BY <1>1 DEF Submit
<1>2. CASE ResolveAccess(a)
  BY <1>2, TerminateType DEF ResolveAccess, ResolveMySQLAccess, ResolvePGAccess,
     Admit, Statuses
<1>3. CASE Prepare(a)
  BY <1>3, TerminateType DEF Prepare, PrepareSaved, PrepareNavigation,
     PreparePGSaved, PreparePGNavigation, PrepareWith, Admit, Statuses
<1>4. CASE AdmitKeyless(a)
  BY <1>4, AfterAdmissionPlaces DEF AdmitKeyless
<1>5. CASE ClassifyDuplicate(a)
  BY <1>5 DEF ClassifyDuplicate
<1>6. CASE ClaimStoreFails(a)
  BY <1>6, TerminateType DEF ClaimStoreFails, Statuses
<1>7. CASE Guard(a)
  BY <1>7, TerminateType DEF Guard, Statuses
<1>8. CASE Preflight(a)
  BY <1>8, TerminateType DEF Preflight, Statuses
<1>9. CASE RunMySQL(a)
  BY <1>9, TerminateType DEF RunMySQL, Statuses
<1>10. CASE Apply(a)
  BY <1>10, TerminateType DEF Apply, Statuses
<1>11. CASE PGChain(a)
  BY <1>11, TerminateType DEF PGChain, Statuses
<1>12. CASE RunPG(a)
  BY <1>12, RunPGTerminates, TerminateType DEF RunPG
<1>13. CASE PersistFails(a)
  BY <1>13 DEF PersistFails
<1>14. CASE DeliveryGate(a)
  BY <1>14 DEF DeliveryGate
<1>15. CASE TryClaim(a)
  <2>1. req[a] \in Requests /\ Keyed(a) /\ limbo[a] = {} /\ ~sent[a]
    BY <1>15 DEF TryClaim
  <2>2. SlotOf(a) \in Slots
    BY <2>1, RequestFields
  <2>3. CASE SlotFree(a)
    <3>1. /\ claims' = [claims EXCEPT ![SlotOf(a)] = NewClaim(a)]
          /\ owned' = [owned EXCEPT ![a] = TRUE]
          /\ \E l \in {"pgchain", "preflight", "guard"} : Goto(a, l)
      BY <1>15, <2>3, AfterAdmissionPlaces DEF TryClaim
    <3>2. NewClaim(a) # NoClaim /\ NewClaim(a).owner = a /\ NewClaim(a).execution = 0
      BY <2>1, NewClaimType DEF NewClaim
    <3>3. CASE b = a
      BY <1>15, <2>1, <2>2, <3>1, <3>2, <3>3 DEF TryClaim
    <3>4. CASE b # a
      <4>1. owned[b] => claims'[SlotOf(b)] = claims[SlotOf(b)]
        BY <2>2, <2>3, <3>1, RequestFields DEF SlotFree
      <4> QED
        BY <1>15, <3>1, <3>4, <4>1 DEF TryClaim
    <3> QED
      BY <3>3, <3>4
  <2>4. CASE ~SlotFree(a)
    BY <1>15, <2>1, <2>4 DEF TryClaim
  <2> QED
    BY <2>3, <2>4
<1>16. CASE PersistKeyless(a)
  BY <1>16 DEF PersistKeyless, Acknowledged
<1>17. CASE PersistKeyed(a)
  <2>1. /\ pc'[a] \in {"gate", "answered"}
        /\ \A c \in Attempts \ {a} : pc'[c] = pc[c]
        /\ UNCHANGED <<req, owned, sent, rec, limbo>>
    BY <1>17 DEF PersistKeyed, Acknowledged
  <2>2. owned[b] /\ b # a => claims'[SlotOf(b)] = claims[SlotOf(b)]
    BY <1>17, OwnerKeepsSlot DEF PersistKeyed
  <2>3. owned[b] => /\ claims'[SlotOf(b)] # NoClaim
                    /\ claims'[SlotOf(b)].owner = b
    BY <1>17, OwnerKeepsSlot DEF PersistKeyed
  <2>4. "pair" \notin limbo[a]
    BY <1>17 DEF PersistKeyed
  <2> QED
    BY <1>17, <2>1, <2>2, <2>3, <2>4 DEF PersistKeyed
<1>18. CASE LateClaim(a)
  BY <1>18, NewClaimType, RequestFields DEF LateClaim, NewClaim
<1>19. CASE LatePair(a)
  <2>1. /\ UNCHANGED <<pc, req, owned, sent, rec>>
        /\ limbo'[a] = limbo[a] \ {"pair"}
        /\ \A c \in Attempts \ {a} : limbo'[c] = limbo[c]
        /\ pc[a] \in Over
    BY <1>19 DEF LatePair
  <2>2. owned[b] => /\ claims'[SlotOf(b)] # NoClaim
                    /\ claims'[SlotOf(b)].owner = b
                    /\ b # a => claims'[SlotOf(b)] = claims[SlotOf(b)]
    BY <1>19, OwnerKeepsSlot DEF LatePair
  <2> QED
    BY <2>1, <2>2
<1>20. CASE LateAbort(a)
  BY <1>20 DEF LateAbort
<1> QED
  BY <1>1, <1>2, <1>3, <1>4, <1>5, <1>6, <1>7, <1>8, <1>9, <1>10, <1>11, <1>12, <1>13, <1>14, <1>15, <1>16, <1>17, <1>18, <1>19, <1>20 DEF Serve

(* How a step of one attempt moves it through the protocol: other         *)
(* attempts stay where they are, requests are fixed once submitted, and   *)
(* nobody returns to a place before the claim after passing it.           *)
LEMMA StepMoves ==
    ASSUME TypeOK, TypeOK', AttemptInv, NEW a \in Attempts,
           \/ Submit(a) \/ Serve(a) \/ LateClaim(a) \/ LatePair(a) \/ LateAbort(a),
           NEW b \in Attempts
    PROVE  /\ pc[b] \notin BeforeClaim => pc'[b] \notin BeforeClaim
           /\ pc[b] # "idle" => req'[b] = req[b]
<1> USE DEF TypeOK, AttemptInv, BeforeClaim, Goto, Answer
<1>1. CASE Submit(a)
  BY <1>1 DEF Submit
<1>2. CASE ResolveAccess(a)
  BY <1>2, TerminateType DEF ResolveAccess, ResolveMySQLAccess, ResolvePGAccess,
     Admit, Statuses
<1>3. CASE Prepare(a)
  BY <1>3, TerminateType DEF Prepare, PrepareSaved, PrepareNavigation,
     PreparePGSaved, PreparePGNavigation, PrepareWith, Admit, Statuses
<1>4. CASE AdmitKeyless(a)
  BY <1>4, AfterAdmissionPlaces DEF AdmitKeyless
<1>5. CASE ClassifyDuplicate(a)
  BY <1>5 DEF ClassifyDuplicate
<1>6. CASE ClaimStoreFails(a)
  BY <1>6, TerminateType DEF ClaimStoreFails, Statuses
<1>7. CASE Guard(a)
  BY <1>7, TerminateType DEF Guard, Statuses
<1>8. CASE Preflight(a)
  BY <1>8, TerminateType DEF Preflight, Statuses
<1>9. CASE RunMySQL(a)
  BY <1>9, TerminateType DEF RunMySQL, Statuses
<1>10. CASE Apply(a)
  BY <1>10, TerminateType DEF Apply, Statuses
<1>11. CASE PGChain(a)
  BY <1>11, TerminateType DEF PGChain, Statuses
<1>12. CASE RunPG(a)
  BY <1>12, RunPGTerminates, TerminateType DEF RunPG
<1>13. CASE PersistFails(a)
  BY <1>13 DEF PersistFails
<1>14. CASE DeliveryGate(a)
  BY <1>14 DEF DeliveryGate
<1>15. CASE TryClaim(a)
  BY <1>15, AfterAdmissionPlaces DEF TryClaim
<1>16. CASE PersistKeyless(a)
  BY <1>16 DEF PersistKeyless, Acknowledged
<1>17. CASE PersistKeyed(a)
  BY <1>17 DEF PersistKeyed, Acknowledged
<1>18. CASE LateClaim(a) \/ LatePair(a) \/ LateAbort(a)
  BY <1>18 DEF LateClaim, LatePair, LateAbort
<1> QED
  BY <1>1, <1>2, <1>3, <1>4, <1>5, <1>6, <1>7, <1>8, <1>9, <1>10, <1>11, <1>12, <1>13, <1>14, <1>15, <1>16, <1>17, <1>18 DEF Serve

(* The four things a step can do to the tables. *)
StoreIdle == UNCHANGED storeVars

StoreClaims(a) ==
    /\ req[a] \in Requests /\ Keyed(a)
    /\ pc'[a] \notin BeforeClaim /\ req'[a] = req[a]
    /\ claims[SlotOf(a)] = NoClaim
    /\ claims' = [claims EXCEPT ![SlotOf(a)] = NewClaim(a)]
    /\ UNCHANGED <<rows, audits, nextId>>

StoreKeyless(a) ==
    /\ req[a] \in Requests /\ rec[a] \in Record
    /\ ~owned[a]
    /\ InsertPair(a)
    /\ UNCHANGED claims

StoreLinks(a) ==
    /\ req[a] \in Requests /\ rec[a] \in Record
    /\ owned[a] /\ Keyed(a)
    /\ claims[SlotOf(a)] # NoClaim
    /\ claims[SlotOf(a)].execution = 0
    /\ LinkClaim(a)

(* Every step of an attempt does one of the four. *)
LEMMA StoreSteps ==
    ASSUME TypeOK, AttemptInv, OwnerInv, NEW a \in Attempts,
           \/ Submit(a) \/ Serve(a) \/ LateClaim(a) \/ LatePair(a) \/ LateAbort(a)
    PROVE  StoreIdle \/ StoreClaims(a) \/ StoreKeyless(a) \/ StoreLinks(a)
<1>1. CASE \/ Submit(a) \/ ResolveAccess(a) \/ Prepare(a) \/ AdmitKeyless(a)
           \/ ClassifyDuplicate(a) \/ ClaimStoreFails(a) \/ Guard(a) \/ Preflight(a)
           \/ RunMySQL(a) \/ Apply(a) \/ PGChain(a) \/ RunPG(a) \/ PersistFails(a)
           \/ DeliveryGate(a) \/ LateAbort(a)
  BY <1>1 DEF StoreIdle, Submit, ResolveAccess, ResolveMySQLAccess, ResolvePGAccess, Prepare,
     PrepareSaved, PrepareNavigation, PreparePGSaved, PreparePGNavigation, PrepareWith, AdmitKeyless, ClassifyDuplicate,
     ClaimStoreFails, Guard, Preflight, RunMySQL, Apply, PGChain, RunPG, PersistFails,
     DeliveryGate, LateAbort
<1>2. CASE TryClaim(a)
  <2>1. req[a] \in Requests /\ Keyed(a) /\ req' = req
    BY <1>2 DEF TryClaim, AttemptInv
  <2>2. CASE SlotFree(a)
    <3>1. pc'[a] \notin BeforeClaim
      BY <1>2, <2>2, AfterAdmissionPlaces DEF TryClaim, Goto, TypeOK, BeforeClaim
    <3> QED
      BY <1>2, <2>1, <2>2, <3>1 DEF TryClaim, SlotFree, StoreClaims
  <2>3. CASE ~SlotFree(a)
    BY <1>2, <2>3 DEF TryClaim, StoreIdle, storeVars
  <2> QED
    BY <2>2, <2>3
<1>3. CASE PersistKeyless(a)
  BY <1>3 DEF PersistKeyless, StoreKeyless, AttemptInv
<1>4. CASE PersistKeyed(a)
  <2>1. /\ req[a] \in Requests /\ rec[a] \in Record /\ owned[a]
        /\ Keyed(a) /\ claims[SlotOf(a)] # NoClaim
        /\ claims[SlotOf(a)].execution = 0
    BY <1>4 DEF PersistKeyed, AttemptInv, OwnerInv
  <2> QED
    BY <1>4, <2>1 DEF PersistKeyed, StoreLinks, StoreIdle
<1>5. CASE LateClaim(a)
  <2>1. /\ req[a] \in Requests /\ Keyed(a) /\ pc[a] \notin BeforeClaim
        /\ UNCHANGED <<pc, req, rows, audits, nextId>>
    BY <1>5 DEF LateClaim, AttemptInv, Over, BeforeClaim
  <2>2. SlotOf(a) \in Slots
    BY <2>1, RequestFields DEF SlotOf, Keyed
  <2>3. CASE claims[SlotOf(a)] = NoClaim
    BY <1>5, <2>1, <2>2, <2>3 DEF LateClaim, StoreClaims, TypeOK
  <2>4. CASE claims[SlotOf(a)] # NoClaim
    <3>1. claims' = claims
      BY <1>5, <2>2, <2>4 DEF LateClaim, TypeOK
    <3> QED
      BY <2>1, <3>1 DEF StoreIdle, storeVars
  <2> QED
    BY <2>3, <2>4
<1>6. CASE LatePair(a)
  <2>1. req[a] \in Requests /\ rec[a] \in Record
    BY <1>6 DEF LatePair, AttemptInv, Over
  <2>2. CASE owned[a]
    BY <1>6, <2>1, <2>2 DEF LatePair, OwnerInv, StoreLinks
  <2>3. CASE ~owned[a]
    BY <1>6, <2>1, <2>3 DEF LatePair, StoreKeyless
  <2> QED
    BY <2>2, <2>3
<1> QED
  BY <1>1, <1>2, <1>3, <1>4, <1>5, <1>6 DEF Serve

(* What linking does to each slot. *)
LEMMA LinkedSlot ==
    ASSUME TypeOK, NEW a \in Attempts, StoreLinks(a), NEW s \in Slots
    PROVE  /\ s # SlotOf(a) => claims'[s] = claims[s]
           /\ s = SlotOf(a) =>
                /\ claims'[s] = [claims[s] EXCEPT !.execution = nextId]
                /\ claims'[s] \in Claim
                /\ claims'[s] # NoClaim
                /\ claims'[s].execution = nextId
                /\ claims'[s].owner = claims[s].owner
                /\ claims'[s].actor = claims[s].actor
                /\ claims'[s].scope = claims[s].scope
                /\ claims'[s].digest = claims[s].digest
                /\ claims'[s].claimedAt = claims[s].claimedAt
<1>1. /\ claims' \in [Slots -> Claim \cup {NoClaim}]
      /\ claims' = [claims EXCEPT ![SlotOf(a)] =
                      [claims[SlotOf(a)] EXCEPT !.execution = nextId]]
  BY LinkClaimType DEF StoreLinks
<1>2. SlotOf(a) \in Slots
  BY RequestFields DEF StoreLinks, SlotOf, Keyed
<1>3. claims[SlotOf(a)] \in Claim
  BY <1>2 DEF StoreLinks, TypeOK
<1>4. /\ s # SlotOf(a) => claims'[s] = claims[s]
      /\ s = SlotOf(a) => claims'[s] = [claims[s] EXCEPT !.execution = nextId]
  BY <1>1, <1>2 DEF TypeOK
<1>5. ASSUME s = SlotOf(a)
      PROVE  [claims[s] EXCEPT !.execution = nextId] \in Claim
  BY <1>3, <1>5 DEF Claim, TypeOK
<1>6. ASSUME s = SlotOf(a)
      PROVE  LET c == [claims[s] EXCEPT !.execution = nextId]
             IN  /\ c.execution = nextId
                 /\ c.owner = claims[s].owner
                 /\ c.actor = claims[s].actor
                 /\ c.scope = claims[s].scope
                 /\ c.digest = claims[s].digest
                 /\ c.claimedAt = claims[s].claimedAt
  BY <1>3, <1>6 DEF Claim
<1> QED
  BY <1>4, <1>5, <1>6, SentinelsAssumption

(* What a won claim does to each slot. *)
LEMMA ClaimedSlot ==
    ASSUME TypeOK, NEW a \in Attempts, StoreClaims(a), NEW s \in Slots
    PROVE  /\ s # SlotOf(a) => claims'[s] = claims[s]
           /\ s = SlotOf(a) => claims'[s] = NewClaim(a)
BY DEF StoreClaims, TypeOK

(* Claims keep the identity of the request that inserted them. *)
LEMMA ClaimInvStep ==
    ASSUME TypeOK, TypeOK', AttemptInv, OwnerInv, ClaimInv, NEW a \in Attempts,
           \/ Submit(a) \/ Serve(a) \/ LateClaim(a) \/ LatePair(a) \/ LateAbort(a)
    PROVE  ClaimInv'
<1> SUFFICES ASSUME NEW s \in Slots, claims'[s] # NoClaim
             PROVE  InsertedBy(s, claims[s].owner)'
  BY DEF ClaimInv
<1>1. ASSUME claims[s] # NoClaim,
             claims'[s].owner = claims[s].owner,
             claims'[s].actor = claims[s].actor,
             claims'[s].scope = claims[s].scope,
             claims'[s].digest = claims[s].digest
      PROVE  InsertedBy(s, claims[s].owner)'
  <2>1. claims[s].owner \in Attempts
    BY <1>1 DEF TypeOK, Claim
  <2>2. PICK o \in Attempts : o = claims[s].owner
    BY <2>1
  <2>3. InsertedBy(s, o)
    BY <1>1, <2>2 DEF ClaimInv
  <2>4. pc'[o] \notin BeforeClaim /\ req'[o] = req[o]
    BY <2>3, StepMoves DEF InsertedBy, BeforeClaim
  <2> QED
    BY <1>1, <2>2, <2>3, <2>4 DEF InsertedBy
<1>2. CASE StoreIdle
  BY <1>1, <1>2 DEF StoreIdle, storeVars
<1>3. CASE StoreClaims(a)
  <2>1. CASE s # SlotOf(a)
    BY <1>1, <1>3, <2>1, ClaimedSlot
  <2>2. CASE s = SlotOf(a)
    <3>1. claims'[s] = NewClaim(a)
      BY <1>3, <2>2, ClaimedSlot
    <3>2. /\ pc'[a] \notin BeforeClaim /\ req'[a] = req[a]
          /\ <<req[a].target, req[a].key>> = s
      BY <1>3, <2>2 DEF StoreClaims, SlotOf
    <3>3. /\ claims'[s].owner = a
          /\ claims'[s].actor = req[a].actor
          /\ claims'[s].scope = req[a].scope
          /\ claims'[s].digest = Digest(req[a])
      BY <3>1 DEF NewClaim
    <3> QED
      BY <3>2, <3>3 DEF InsertedBy
  <2> QED
    BY <2>1, <2>2
<1>4. CASE StoreKeyless(a)
  BY <1>1, <1>4 DEF StoreKeyless
<1>5. CASE StoreLinks(a)
  BY <1>1, <1>5, LinkedSlot DEF StoreLinks
<1> QED
  BY <1>2, <1>3, <1>4, <1>5, StoreSteps

(* The row an attempt inserts carries the counter, and the key exactly    *)
(* when the attempt won it.                                                *)
LEMMA PairRowFields ==
    ASSUME NEW a \in Attempts
    PROVE  /\ PairRow(a).id = nextId
           /\ PairRow(a).attempt = a
           /\ PairRow(a).target = req[a].target
           /\ PairRow(a).key = IF owned[a] THEN req[a].key ELSE NoKey
           /\ PairRow(a).actor = req[a].actor
           /\ PairRow(a).scope = IF owned[a] THEN req[a].scope ELSE NoScope
           /\ PairRow(a).status = rec[a].status
           /\ PairRow(a).createdAt = rec[a].createdAt
BY DEF PairRow

(* Row ids stay below the counter. *)
LEMMA RowInvStep ==
    ASSUME TypeOK, AttemptInv, OwnerInv, RowInv, NEW a \in Attempts,
           \/ Submit(a) \/ Serve(a) \/ LateClaim(a) \/ LatePair(a) \/ LateAbort(a)
    PROVE  RowInv'
<1>1. CASE UNCHANGED <<rows, nextId>>
  BY <1>1 DEF RowInv
<1>2. CASE InsertPair(a)
  BY <1>2, PairRowFields DEF InsertPair, RowInv, TypeOK
<1> QED
  BY <1>1, <1>2, StoreSteps DEF StoreIdle, storeVars, StoreClaims, StoreKeyless,
     StoreLinks, LinkClaim

(* Claims and rows stay linked both ways. *)
LEMMA LinkIntegrityStep ==
    ASSUME TypeOK, AttemptInv, OwnerInv, ClaimInv, RowInv, LinkIntegrity,
           NEW a \in Attempts,
           \/ Submit(a) \/ Serve(a) \/ LateClaim(a) \/ LatePair(a) \/ LateAbort(a)
    PROVE  LinkIntegrity'
<1>1. CASE StoreIdle
  BY <1>1 DEF StoreIdle, storeVars, LinkIntegrity
<1>2. CASE StoreClaims(a)
  <2>1. UNCHANGED rows /\ claims[SlotOf(a)] = NoClaim
    BY <1>2 DEF StoreClaims
  <2>2. NewClaim(a).execution = 0 /\ NewClaim(a) # NoClaim
    BY <1>2, NewClaimType DEF StoreClaims, NewClaim
  <2>3. ASSUME NEW r \in rows, r.key # NoKey
        PROVE  <<r.target, r.key>> \in Slots
    BY <2>3 DEF TypeOK, Row, Slots
  <2>4. ASSUME NEW s \in Slots
        PROVE  \/ claims'[s] = claims[s]
               \/ claims[s] = NoClaim /\ claims'[s] # NoClaim /\ claims'[s].execution = 0
    BY <1>2, <2>1, <2>2, ClaimedSlot
  <2> QED
    BY <2>1, <2>3, <2>4 DEF LinkIntegrity
<1>3. CASE StoreKeyless(a)
  BY <1>3, PairRowFields DEF StoreKeyless, InsertPair, LinkIntegrity
<1>4. CASE StoreLinks(a)
  <2>1. /\ rows' = rows \cup {PairRow(a)}
        /\ owned[a] /\ Keyed(a)
        /\ claims[SlotOf(a)] # NoClaim
        /\ claims[SlotOf(a)].execution = 0
    BY <1>4 DEF StoreLinks, LinkClaim, InsertPair
  <2>2. SlotOf(a) \in Slots
    BY <1>4, RequestFields DEF StoreLinks, SlotOf, Keyed
  <2>3. /\ claims[SlotOf(a)].actor = req[a].actor
        /\ claims[SlotOf(a)].scope = req[a].scope
    BY <2>1, <2>2 DEF OwnerInv, ClaimInv, InsertedBy
  <2>4. /\ PairRow(a).id = nextId
        /\ <<PairRow(a).target, PairRow(a).key>> = SlotOf(a)
        /\ PairRow(a).actor = claims[SlotOf(a)].actor
        /\ PairRow(a).scope = claims[SlotOf(a)].scope
    BY <2>1, <2>3, PairRowFields DEF SlotOf
  <2>5. ASSUME NEW s \in Slots, claims'[s] # NoClaim, claims'[s].execution # 0
        PROVE  \E r \in rows' : /\ r.id = claims'[s].execution
                                /\ <<r.target, r.key>> = s
                                /\ r.actor = claims'[s].actor
                                /\ r.scope = claims'[s].scope
    <3>1. CASE s = SlotOf(a)
      <4>1. PairRow(a) \in rows'
        BY <2>1
      <4>2. /\ claims'[s].execution = nextId
            /\ claims'[s].actor = claims[s].actor
            /\ claims'[s].scope = claims[s].scope
        BY <1>4, <3>1, LinkedSlot
      <4> QED
        BY <2>4, <3>1, <4>1, <4>2
    <3>2. CASE s # SlotOf(a)
      <4>1. claims'[s] = claims[s]
        BY <1>4, <3>2, LinkedSlot
      <4> QED
        BY <2>1, <2>5, <4>1 DEF LinkIntegrity
    <3> QED
      BY <3>1, <3>2
  <2>6. ASSUME NEW r \in rows', r.key # NoKey
        PROVE  /\ claims'[<<r.target, r.key>>] # NoClaim
               /\ claims'[<<r.target, r.key>>].execution = r.id
    <3>1. CASE r = PairRow(a)
      <4>1. <<r.target, r.key>> = SlotOf(a) /\ r.id = nextId
        BY <2>4, <3>1
      <4>2. claims'[SlotOf(a)] # NoClaim /\ claims'[SlotOf(a)].execution = nextId
        BY <1>4, <2>2, LinkedSlot
      <4> QED
        BY <4>1, <4>2
    <3>2. CASE r \in rows
      <4>1. <<r.target, r.key>> \in Slots
        BY <2>6, <3>2 DEF TypeOK, Row, Slots
      <4>2. /\ claims[<<r.target, r.key>>] # NoClaim
            /\ claims[<<r.target, r.key>>].execution = r.id
        BY <2>6, <3>2 DEF LinkIntegrity
      <4>3. r.id # 0
        BY <3>2 DEF RowInv
      <4>4. <<r.target, r.key>> # SlotOf(a)
        BY <2>1, <4>2, <4>3
      <4> QED
        BY <1>4, <4>1, <4>2, <4>4, LinkedSlot
    <3> QED
      BY <2>1, <3>1, <3>2
  <2> QED
    BY <2>5, <2>6 DEF LinkIntegrity
<1> QED
  BY <1>1, <1>2, <1>3, <1>4, StoreSteps

(* The refusal in FinalizeClaimWithAudit is not reached. *)
LEMMA FinalizeStep ==
    ASSUME TypeOK, AttemptInv, OwnerInv, ClaimInv, FinalizeFindsItsClaim,
           NEW a \in Attempts,
           \/ Submit(a) \/ Serve(a) \/ LateClaim(a) \/ LatePair(a) \/ LateAbort(a)
    PROVE  FinalizeFindsItsClaim'
<1> USE DEF TypeOK, FinalizeFindsItsClaim, Goto, Answer
<1>1. CASE UNCHANGED resp
  BY <1>1
<1>2. CASE Submit(a) \/ ResolveAccess(a) \/ Prepare(a) \/ ClassifyDuplicate(a) \/ PersistFails(a)
           \/ DeliveryGate(a)
  BY <1>2 DEF Submit, ResolveAccess, ResolveMySQLAccess, ResolvePGAccess, Prepare,
     PrepareSaved, PrepareNavigation, PreparePGSaved, PreparePGNavigation, PrepareWith,
     ClassifyDuplicate, PersistFails, DeliveryGate
<1>3. CASE PersistKeyless(a)
  BY <1>3 DEF PersistKeyless, Acknowledged, AttemptInv, Record
<1>4. CASE PersistKeyed(a)
  <2>1. /\ owned[a] /\ Keyed(a) /\ req[a] \in Requests /\ rec[a] \in Record
        /\ claims[SlotOf(a)] # NoClaim
        /\ claims[SlotOf(a)].owner = a
        /\ claims[SlotOf(a)].execution = 0
    BY <1>4 DEF PersistKeyed, AttemptInv, OwnerInv
  <2>2. SlotOf(a) \in Slots
    BY <2>1, RequestFields DEF SlotOf, Keyed
  <2>3. OccupantMatches(a)
    BY <2>1, <2>2 DEF OccupantMatches, ClaimInv, InsertedBy
  <2> QED
    BY <1>4, <2>1, <2>3 DEF PersistKeyed, Acknowledged, Record
<1> QED
  BY <1>1, <1>2, <1>3, <1>4 DEF Serve, AdmitKeyless, TryClaim, ClaimStoreFails,
     Guard, Preflight, RunMySQL, Apply, PGChain, RunPG, LateClaim, LatePair, LateAbort

(* The invariant holds initially. *)
LEMMA InitIInv == Init => IInv
<1> SUFFICES ASSUME Init PROVE IInv
  OBVIOUS
<1>1. TypeOK
  BY InitTypeOK
<1>2. AttemptInv /\ OwnerInv
  BY DEF Init, AttemptInv, OwnerInv, BeforeClaim, Executing, Over
<1>3. ClaimInv /\ RowInv /\ LinkIntegrity /\ FinalizeFindsItsClaim
  BY DEF Init, ClaimInv, RowInv, LinkIntegrity, FinalizeFindsItsClaim
<1> QED
  BY <1>1, <1>2, <1>3 DEF IInv

(* A step of one attempt keeps the invariant. *)
LEMMA AttemptStepIInv ==
    ASSUME IInv, NEW a \in Attempts,
           \/ Submit(a) \/ Serve(a) \/ LateClaim(a) \/ LatePair(a) \/ LateAbort(a)
    PROVE  IInv'
<1> USE DEF IInv
<1>1. TypeOK'
  BY ServeLocalType, ServeStoreType DEF Serve
<1>2. AttemptInv'
  BY <1>1, AttemptInvStep
<1>3. OwnerInv'
  BY <1>1, OwnerInvStep
<1>4. ClaimInv'
  BY <1>1, ClaimInvStep
<1>5. RowInv'
  BY RowInvStep
<1>6. LinkIntegrity'
  BY LinkIntegrityStep
<1>7. FinalizeFindsItsClaim'
  BY FinalizeStep
<1> QED
  BY <1>1, <1>2, <1>3, <1>4, <1>5, <1>6, <1>7

(* A crash of the server keeps the invariant: it loses attempts, never    *)
(* what the tables hold.                                                   *)
LEMMA CrashIInv == ASSUME IInv, Crash PROVE IInv'
<1>1. /\ UNCHANGED <<req, owned, sent, rec, resp, stamp, claims, rows, audits, nextId, now>>
      /\ failures' = 0
      /\ pc' = [a \in Attempts |-> IF pc[a] \in Waiting THEN "lost" ELSE pc[a]]
  BY DEF Crash, storeVars
<1>2. PICK arriving \in SUBSET Attempts :
        limbo' = [a \in Attempts |->
                    IF a \in arriving THEN limbo[a] \cup OnItsWay(a) ELSE limbo[a]]
  BY DEF Crash
<1>3. ASSUME NEW a \in Attempts
      PROVE  /\ OnItsWay(a) \in SUBSET {"claim", "pair"}
             /\ "claim" \in OnItsWay(a) => pc[a] = "admit" /\ Keyed(a)
             /\ "pair" \in OnItsWay(a) => pc[a] = "persist"
  BY DEF OnItsWay
<1>4. ASSUME NEW a \in Attempts
      PROVE  /\ limbo'[a] \in SUBSET {"claim", "pair"}
             /\ "claim" \in limbo'[a] =>
                  "claim" \in limbo[a] \/ (pc[a] = "admit" /\ Keyed(a))
             /\ "pair" \in limbo'[a] => "pair" \in limbo[a] \/ pc[a] = "persist"
             /\ pc[a] = "idle" => limbo'[a] = limbo[a]
             /\ pc'[a] = IF pc[a] \in Waiting THEN "lost" ELSE pc[a]
  <2>1. pc[a] = "idle" => OnItsWay(a) = {}
    BY DEF OnItsWay
  <2>2. limbo[a] \in SUBSET {"claim", "pair"}
    BY DEF IInv, TypeOK
  <2> QED
    BY <1>1, <1>2, <1>3, <2>1, <2>2
<1>5. TypeOK'
  <2>1. pc' \in [Attempts -> PCs]
    BY <1>1 DEF IInv, TypeOK, PCs
  <2>2. limbo' \in [Attempts -> SUBSET {"claim", "pair"}]
    BY <1>2, <1>4
  <2> QED
    BY <1>1, <2>1, <2>2 DEF IInv, TypeOK
<1>6. AttemptInv'
  BY <1>1, <1>4 DEF IInv, TypeOK, AttemptInv, BeforeClaim, Over, Waiting, PCs, Keyed
<1>7. OwnerInv'
  BY <1>1, <1>4 DEF IInv, TypeOK, OwnerInv, Executing, Waiting, PCs, Keyed, SlotOf
<1>8. ClaimInv'
  <2>1. ASSUME NEW s \in Slots, claims[s] # NoClaim
        PROVE  claims[s].owner \in Attempts
    BY <2>1 DEF IInv, TypeOK, Claim
  <2> QED
    BY <1>1, <1>4, <2>1 DEF IInv, ClaimInv, InsertedBy, BeforeClaim
<1>9. RowInv' /\ LinkIntegrity' /\ FinalizeFindsItsClaim'
  BY <1>1 DEF IInv, RowInv, LinkIntegrity, FinalizeFindsItsClaim
<1> QED
  BY <1>5, <1>6, <1>7, <1>8, <1>9 DEF IInv

(* The clock, and doing nothing, keep the invariant. *)
LEMMA IdleIInv == ASSUME IInv, Tick \/ UNCHANGED vars PROVE IInv'
<1>1. /\ UNCHANGED <<pc, req, owned, sent, rec, resp, stamp, limbo>>
      /\ UNCHANGED <<claims, rows, audits, nextId, failures>>
      /\ now' \in 0..MaxNow
  BY ConstantsAssumption DEF Tick, vars, attemptVars, storeVars, IInv, TypeOK
<1>2. TypeOK'
  BY <1>1 DEF IInv, TypeOK
<1>3. AttemptInv' /\ OwnerInv'
  BY <1>1 DEF IInv, AttemptInv, OwnerInv, Keyed, SlotOf
<1>4. ClaimInv' /\ RowInv' /\ LinkIntegrity' /\ FinalizeFindsItsClaim'
  BY <1>1 DEF IInv, ClaimInv, InsertedBy, RowInv, LinkIntegrity, FinalizeFindsItsClaim
<1> QED
  BY <1>2, <1>3, <1>4 DEF IInv

(* Every step keeps the invariant. *)
LEMMA NextIInv == IInv /\ [Next]_vars => IInv'
BY AttemptStepIInv, CrashIInv, IdleIInv DEF Next, Quiescent

(* IInv is an invariant of the protocol, for every instance. *)
THEOREM Invariance == Spec => []IInv
BY InitIInv, NextIInv, PTL DEF Spec

(* The state of the protocol is always well typed.                         *)
THEOREM TypeCorrect == Spec => []TypeOK
<1>1. IInv => TypeOK
  BY DEF IInv
<1> QED
  BY <1>1, Invariance, PTL

(* At most one attempt runs SQL for a key: two that did would both own the *)
(* slot, and a claim has one owner.                                        *)
THEOREM OneRunPerKey == Spec => []AtMostOneRunPerKey
<1>1. IInv => AtMostOneRunPerKey
  BY DEF IInv, OwnerInv, AtMostOneRunPerKey
<1> QED
  BY <1>1, Invariance, PTL

(* Claims and execution rows are linked both ways, whatever was lost, late *)
(* or interrupted.                                                         *)
THEOREM LinksIntact == Spec => []LinkIntegrity
<1>1. IInv => LinkIntegrity
  BY DEF IInv
<1> QED
  BY <1>1, Invariance, PTL

(* FinalizeClaimWithAudit never refuses the owner of a claim.              *)
THEOREM FinalizeNeverRefused == Spec => []FinalizeFindsItsClaim
<1>1. IInv => FinalizeFindsItsClaim
  BY DEF IInv
<1> QED
  BY <1>1, Invariance, PTL

(* Rows, audit events and claims are never removed or rewritten, but for  *)
(* the one link a claim gets.                                              *)
THEOREM EvidenceGrows == Spec => EvidenceOnlyGrows
<1> DEFINE Grows ==
      /\ rows \subseteq rows'
      /\ audits \subseteq audits'
      /\ \A s \in Slots : claims[s] # NoClaim =>
            \/ claims'[s] = claims[s]
            \/ /\ claims[s].execution = 0
               /\ claims'[s] = [claims[s] EXCEPT !.execution = nextId]
<1>1. ASSUME IInv, Next PROVE Grows
  <2>1. CASE UNCHANGED storeVars
    BY <2>1 DEF storeVars
  <2>2. ASSUME NEW a \in Attempts,
               \/ Submit(a) \/ Serve(a) \/ LateClaim(a) \/ LatePair(a) \/ LateAbort(a)
        PROVE  Grows
    <3>1. CASE StoreIdle
      BY <2>1, <3>1 DEF StoreIdle
    <3>2. CASE StoreClaims(a)
      BY <1>1, <3>2, ClaimedSlot DEF StoreClaims, IInv
    <3>3. CASE StoreKeyless(a)
      BY <3>3 DEF StoreKeyless, InsertPair
    <3>4. CASE StoreLinks(a)
      BY <1>1, <3>4, LinkedSlot DEF StoreLinks, LinkClaim, InsertPair, IInv
    <3> QED
      BY <1>1, <2>2, <3>1, <3>2, <3>3, <3>4, StoreSteps DEF IInv
  <2> QED
    BY <1>1, <2>1, <2>2 DEF Next, Crash, Tick, Quiescent, vars
<1>2. IInv /\ [Next]_vars => [Grows]_vars
  BY <1>1
<1> QED
  BY <1>2, Invariance, PTL DEF Spec, EvidenceOnlyGrows

-----------------------------------------------------------------------------
(* What the protocol leaves on record: the evidence pairs, the answers     *)
(* given on them, and the two abstract specifications it implements.       *)

(* A step of attempt a, the late effects of its writes included.           *)
Step(a) == Submit(a) \/ Serve(a) \/ LateClaim(a) \/ LatePair(a) \/ LateAbort(a)

(* A step of one attempt leaves the others alone.                          *)
LEMMA OthersStay ==
    ASSUME TypeOK, NEW a \in Attempts, Step(a), NEW b \in Attempts \ {a}
    PROVE  /\ pc'[b] = pc[b] /\ req'[b] = req[b] /\ owned'[b] = owned[b]
           /\ sent'[b] = sent[b] /\ rec'[b] = rec[b] /\ resp'[b] = resp[b]
           /\ stamp'[b] = stamp[b] /\ limbo'[b] = limbo[b]
<1> USE DEF TypeOK, Goto, Answer
<1>1. CASE Submit(a)
  BY <1>1 DEF Submit
<1>2. CASE ResolveAccess(a) \/ Prepare(a)
  BY <1>2 DEF ResolveAccess, ResolveMySQLAccess, ResolvePGAccess, Terminate, Admit,
     Prepare, PrepareSaved, PrepareNavigation, PreparePGSaved, PreparePGNavigation, PrepareWith
<1>3. CASE AdmitKeyless(a) \/ TryClaim(a) \/ ClassifyDuplicate(a) \/ ClaimStoreFails(a)
  BY <1>3 DEF AdmitKeyless, TryClaim, ClassifyDuplicate, ClaimStoreFails, Terminate
<1>4. CASE Guard(a) \/ Preflight(a) \/ RunMySQL(a) \/ Apply(a) \/ PGChain(a) \/ RunPG(a)
  BY <1>4 DEF Guard, Preflight, RunMySQL, Apply, PGChain, RunPG, Terminate
<1>5. CASE PersistKeyless(a) \/ PersistKeyed(a) \/ PersistFails(a) \/ DeliveryGate(a)
  BY <1>5 DEF PersistKeyless, PersistKeyed, PersistFails, DeliveryGate, Acknowledged
<1>6. CASE LateClaim(a) \/ LatePair(a) \/ LateAbort(a)
  BY <1>6 DEF LateClaim, LatePair, LateAbort
<1> QED
  BY <1>1, <1>2, <1>3, <1>4, <1>5, <1>6 DEF Step, Serve

(* Rows stay, and so does a claim once it is linked.                       *)
LEMMA StoreGrows ==
    ASSUME IInv, NEW a \in Attempts, Step(a)
    PROVE  /\ rows \subseteq rows'
           /\ \A s \in Slots : claims[s] # NoClaim /\ claims[s].execution # 0 =>
                claims'[s] = claims[s]
<1> USE DEF IInv
<1>1. CASE StoreIdle
  BY <1>1 DEF StoreIdle, storeVars
<1>2. CASE StoreClaims(a)
  BY <1>2, ClaimedSlot DEF StoreClaims
<1>3. CASE StoreKeyless(a)
  BY <1>3 DEF StoreKeyless, InsertPair
<1>4. CASE StoreLinks(a)
  BY <1>4, LinkedSlot DEF StoreLinks, LinkClaim, InsertPair
<1> QED
  BY <1>1, <1>2, <1>3, <1>4, StoreSteps DEF Step

(* The invariant in front of a step and behind it.                         *)
LEMMA StepIInv ==
    ASSUME IInv, NEW a \in Attempts, Step(a)
    PROVE  IInv' /\ TypeOK /\ TypeOK'
BY AttemptStepIInv DEF Step, IInv

(* The row an attempt may deliver stays deliverable.                       *)
LEMMA DeliverableStays ==
    ASSUME IInv, NEW a \in Attempts, Step(a), NEW b \in Attempts,
           pc[b] = "gate", DeliverableRow(b),
           owned'[b] = owned[b], req'[b] = req[b]
    PROVE  DeliverableRow(b)'
<1>1. PICK r \in rows : /\ r.attempt = b
                        /\ r.status = "success"
                        /\ owned[b] => claims[SlotOf(b)].execution = r.id
  BY DEF DeliverableRow
<1>2. r \in rows' /\ r.id # 0
  BY <1>1, StoreGrows DEF IInv, RowInv
<1>3. ASSUME owned[b]
      PROVE  claims'[SlotOf(b)].execution = r.id
  <2>1. claims[SlotOf(b)] # NoClaim /\ req[b] \in Requests /\ Keyed(b)
    BY <1>3 DEF IInv, OwnerInv, AttemptInv
  <2>2. SlotOf(b) \in Slots
    BY <2>1, RequestFields DEF SlotOf, Keyed
  <2> QED
    BY <1>1, <1>2, <1>3, <2>1, <2>2, StoreGrows
<1> QED
  BY <1>1, <1>2, <1>3 DEF DeliverableRow, SlotOf

(* A finalized attempt that goes to the gate has its row there.            *)
LEMMA PersistedIsDeliverable ==
    ASSUME IInv, NEW a \in Attempts, PersistKeyless(a) \/ PersistKeyed(a),
           rec[a].status = "success"
    PROVE  DeliverableRow(a)'
<1> USE DEF IInv
<1>1. UNCHANGED <<req, owned>>
  BY DEF PersistKeyless, PersistKeyed
<1>2. PairRow(a) \in rows' /\ PairRow(a).attempt = a /\ PairRow(a).status = "success"
      /\ PairRow(a).id = nextId /\ (owned[a] => StoreLinks(a))
  <2>1. CASE PersistKeyless(a)
    BY <2>1, PairRowFields DEF PersistKeyless, InsertPair
  <2>2. CASE PersistKeyed(a)
    <3>1. /\ owned[a] /\ Keyed(a) /\ req[a] \in Requests /\ rec[a] \in Record
          /\ claims[SlotOf(a)] # NoClaim
          /\ claims[SlotOf(a)].owner = a
          /\ claims[SlotOf(a)].execution = 0
      BY <2>2 DEF PersistKeyed, AttemptInv, OwnerInv
    <3>2. SlotOf(a) \in Slots
      BY <3>1, RequestFields DEF SlotOf, Keyed
    <3>3. OccupantMatches(a)
      BY <3>1, <3>2 DEF OccupantMatches, ClaimInv, InsertedBy
    <3>4. LinkClaim(a)
      BY <2>2, <3>3 DEF PersistKeyed
    <3> QED
      BY <3>1, <3>4, PairRowFields DEF StoreLinks, LinkClaim, InsertPair
  <2> QED
    BY <2>1, <2>2
<1>3. owned[a] => claims'[SlotOf(a)].execution = nextId
  BY <1>2, LinkedSlot, RequestFields DEF StoreLinks, SlotOf, Keyed
<1> QED
  BY <1>1, <1>2, <1>3 DEF DeliverableRow, SlotOf

(* What the chain of PostgreSQL builds is truthful.                        *)
LEMMA PGRecordIsTruthful ==
    ASSUME NEW o \in PGOutcome
    PROVE  /\ PGTerminalStatus(o) \in Statuses
           /\ IF ~ContractFault(o) /\ ~o.error THEN PGTerminalStatus(o) = "success"
                                               ELSE PGTerminalStatus(o) # "success"
BY DEF PGOutcome, PGTerminalStatus, ContractFault, Statuses

(* A step keeps what Progress says of the attempt that takes it.           *)
LEMMA ProgressOwn ==
    ASSUME IInv, NEW a \in Attempts, Step(a), Progress(a)
    PROVE  Progress(a)'
<1>1. TypeOK /\ TypeOK' /\ AttemptInv
  BY StepIInv DEF IInv
<1> USE <1>1 DEF TypeOK, AttemptInv, Progress, BeforeClaim, Over, Goto, Answer, TruthfulRecord
<1>2. CASE Submit(a)
  BY <1>2 DEF Submit
<1>3. CASE ResolveAccess(a)
  BY <1>3, TerminateType DEF ResolveAccess, ResolveMySQLAccess, ResolvePGAccess, Admit, Statuses
<1>4. CASE Prepare(a)
  BY <1>4, TerminateType DEF Prepare, PrepareSaved, PrepareNavigation, PreparePGSaved,
     PreparePGNavigation, PrepareWith, Admit, Statuses
<1>5. CASE AdmitKeyless(a) \/ TryClaim(a)
  BY <1>5, AfterAdmissionPlaces DEF AdmitKeyless, TryClaim
<1>6. CASE ClassifyDuplicate(a)
  BY <1>6 DEF ClassifyDuplicate
<1>7. CASE ClaimStoreFails(a)
  BY <1>7, TerminateType DEF ClaimStoreFails, Statuses
<1>8. CASE Guard(a)
  BY <1>8, TerminateType DEF Guard, Statuses
<1>9. CASE Preflight(a)
  BY <1>9, TerminateType DEF Preflight, Statuses
<1>10. CASE RunMySQL(a)
  BY <1>10, TerminateType DEF RunMySQL, Statuses
<1>11. CASE Apply(a)
  BY <1>11, TerminateType DEF Apply, Statuses
<1>12. CASE PGChain(a)
  BY <1>12, TerminateType DEF PGChain, Statuses
<1>13. CASE RunPG(a)
  <2>1. PICK o \in PGOutcome :
          Terminate(a, PGTerminalStatus(o),
                    IF ~ContractFault(o) /\ ~o.error THEN "rows" ELSE "recorded")
    BY <1>13 DEF RunPG
  <2> QED
    BY <1>13, <2>1, TerminateType, PGRecordIsTruthful DEF RunPG
<1>14. CASE PersistFails(a)
  BY <1>14 DEF PersistFails
<1>15. CASE DeliveryGate(a)
  BY <1>15 DEF DeliveryGate
<1>16. CASE PersistKeyless(a)
  BY <1>16, PersistedIsDeliverable DEF PersistKeyless, Acknowledged
<1>17. CASE PersistKeyed(a)
  BY <1>17, PersistedIsDeliverable DEF PersistKeyed, Acknowledged
<1>18. CASE LateClaim(a) \/ LatePair(a) \/ LateAbort(a)
  <2>1. UNCHANGED <<pc, req, owned, sent, rec, resp>> /\ limbo'[a] \subseteq limbo[a]
    BY <1>18 DEF LateClaim, LatePair, LateAbort
  <2>2. pc[a] = "gate" => DeliverableRow(a)'
    BY <2>1, DeliverableStays
  <2> QED
    BY <2>1, <2>2
<1> QED
  BY <1>2, <1>3, <1>4, <1>5, <1>6, <1>7, <1>8, <1>9, <1>10, <1>11, <1>12, <1>13,
     <1>14, <1>15, <1>16, <1>17, <1>18 DEF Step, Serve

LEMMA ProgressStep ==
    ASSUME IInv, ProgressInv, NEW a \in Attempts, Step(a)
    PROVE  ProgressInv'
<1> SUFFICES ASSUME NEW b \in Attempts PROVE Progress(b)'
  BY DEF ProgressInv
<1>1. Progress(b)
  BY DEF ProgressInv
<1>2. CASE b = a
  BY <1>1, <1>2, ProgressOwn
<1>3. CASE b # a
  <2>1. /\ pc'[b] = pc[b] /\ req'[b] = req[b] /\ owned'[b] = owned[b]
        /\ sent'[b] = sent[b] /\ rec'[b] = rec[b] /\ resp'[b] = resp[b]
        /\ limbo'[b] = limbo[b]
    BY <1>3, OthersStay DEF IInv
  <2>2. pc[b] = "gate" => DeliverableRow(b)'
    BY <1>1, <2>1, DeliverableStays DEF Progress
  <2> QED
    BY <1>1, <2>1, <2>2 DEF Progress, TruthfulRecord
<1> QED
  BY <1>2, <1>3

(* Who writes a pair: an attempt that persists, or whose pair was on its   *)
(* way; it has none yet and will not write another.                        *)
LEMMA PairWritten ==
    ASSUME IInv, PairInv, NEW a \in Attempts, Step(a)
    PROVE  \/ UNCHANGED <<rows, audits, nextId>>
           \/ /\ InsertPair(a)
              /\ req[a] \in Requests /\ rec[a] \in Record
              /\ pc[a] = "persist" \/ ("pair" \in limbo[a] /\ resp'[a] = resp[a])
              /\ pc'[a] \in {"gate"} \cup Over
              /\ "pair" \notin limbo'[a]
              /\ \A r \in rows : r.attempt # a
<1> USE DEF IInv, TypeOK, AttemptInv, PairInv, Over, Goto, Answer
<1>1. CASE PersistKeyless(a)
  BY <1>1 DEF PersistKeyless, Acknowledged
<1>2. CASE PersistKeyed(a)
  BY <1>2 DEF PersistKeyed, Acknowledged, LinkClaim, storeVars
<1>3. CASE LatePair(a)
  BY <1>3 DEF LatePair, LinkClaim
<1>4. CASE ~PersistKeyless(a) /\ ~PersistKeyed(a) /\ ~LatePair(a)
  BY <1>4 DEF Step, Serve, Submit, ResolveAccess, ResolveMySQLAccess, ResolvePGAccess, Prepare,
     PrepareSaved, PrepareNavigation, PreparePGSaved, PreparePGNavigation, PrepareWith,
     AdmitKeyless, TryClaim, ClassifyDuplicate, ClaimStoreFails, Guard, Preflight, RunMySQL,
     Apply, PGChain, RunPG, PersistFails, DeliveryGate, LateClaim, LateAbort, storeVars
<1> QED
  BY <1>1, <1>2, <1>3, <1>4

(* An attempt that has persisted has nothing more to write.                *)
LEMMA PersistedStays ==
    ASSUME IInv, NEW a \in Attempts, Step(a), pc[a] \in {"gate"} \cup Over
    PROVE  pc'[a] \in {"gate"} \cup Over /\ limbo'[a] \subseteq limbo[a]
BY DEF IInv, TypeOK, Over, Goto, Answer, Step, Serve, Submit, ResolveAccess, ResolveMySQLAccess,
   ResolvePGAccess, Prepare,
   PrepareSaved, PrepareNavigation, PreparePGSaved, PreparePGNavigation, PrepareWith,
   AdmitKeyless, TryClaim, ClassifyDuplicate, ClaimStoreFails, Guard, Preflight, RunMySQL,
   Apply, PGChain, RunPG, PersistKeyless, PersistKeyed, PersistFails, DeliveryGate, LateClaim,
   LatePair, LateAbort

(* The audit event an attempt inserts tells what its row tells.            *)
LEMMA PairAuditFields ==
    ASSUME NEW a \in Attempts
    PROVE  /\ PairAudit(a).id = nextId
           /\ PairAudit(a).attempt = a
           /\ PairAudit(a).target = req[a].target
           /\ PairAudit(a).actor = req[a].actor
           /\ PairAudit(a).result = auditResultFor(rec[a].status)
BY DEF PairAudit

(* One pair per attempt, and the facts on ids it needs.                    *)
LEMMA PairStep ==
    ASSUME IInv, PairInv, OnePairPerAttempt, NEW a \in Attempts, Step(a)
    PROVE  PairInv' /\ OnePairPerAttempt'
<1>1. ASSUME NEW r \in rows
      PROVE  /\ pc'[r.attempt] \in {"gate"} \cup Over
             /\ "pair" \notin limbo'[r.attempt]
  <2>1. r.attempt \in Attempts
    BY DEF IInv, TypeOK, Row
  <2>2. pc[r.attempt] \in {"gate"} \cup Over /\ "pair" \notin limbo[r.attempt]
    BY DEF PairInv
  <2>3. CASE r.attempt = a
    BY <2>2, <2>3, PersistedStays
  <2>4. CASE r.attempt # a
    BY <2>1, <2>2, <2>4, OthersStay DEF IInv
  <2> QED
    BY <2>3, <2>4
<1>2. CASE UNCHANGED <<rows, audits, nextId>>
  BY <1>1, <1>2 DEF PairInv, OnePairPerAttempt
<1>3. CASE ~UNCHANGED <<rows, audits, nextId>>
  <2>1. /\ rows' = rows \cup {PairRow(a)}
        /\ audits' = audits \cup {PairAudit(a)}
        /\ nextId' = nextId + 1 /\ nextId \in Nat \ {0}
        /\ pc'[a] \in {"gate"} \cup Over
        /\ "pair" \notin limbo'[a]
        /\ \A r \in rows : r.attempt # a
    BY <1>3, PairWritten DEF InsertPair, IInv, TypeOK
  <2>2. /\ \A r \in rows : r.id \in 1..(nextId - 1)
        /\ \A x \in audits : x.id \in 1..(nextId - 1)
    BY DEF IInv, RowInv, PairInv
  <2>3. PairRow(a) \notin rows /\ PairAudit(a) \notin audits
    BY <2>1, <2>2, PairRowFields, PairAuditFields
  <2>4. /\ IsFiniteSet(rows') /\ IsFiniteSet(audits')
        /\ Cardinality(rows') = Cardinality(rows) + 1
        /\ Cardinality(audits') = Cardinality(audits) + 1
    BY <2>1, <2>3, FS_AddElement DEF PairInv
  <2>5. PairInv'
    <3>1. \A r \in rows' : /\ pc'[r.attempt] \in {"gate"} \cup Over
                           /\ "pair" \notin limbo'[r.attempt]
      BY <1>1, <2>1, PairRowFields
    <3>2. \A r, q \in rows' : r.id = q.id => r = q
      BY <2>1, <2>2, PairRowFields DEF PairInv
    <3>3. \A x \in audits' : x.id \in 1..(nextId' - 1)
      BY <2>1, <2>2, PairAuditFields
    <3> QED
      BY <2>4, <3>1, <3>2, <3>3 DEF PairInv
  <2>6. OnePairPerAttempt'
    <3>1. \A r, q \in rows' : r.attempt = q.attempt => r = q
      BY <2>1, PairRowFields DEF OnePairPerAttempt
    <3>2. Cardinality(audits') = Cardinality(rows')
      BY <2>4 DEF OnePairPerAttempt
    <3>3. ASSUME NEW r \in rows'
          PROVE  \E x \in audits' :
                   /\ x.attempt = r.attempt /\ x.target = r.target /\ x.actor = r.actor
                   /\ x.result = auditResultFor(r.status)
      <4>1. CASE r \in rows
        BY <2>1, <4>1 DEF OnePairPerAttempt
      <4>2. CASE r = PairRow(a)
        BY <2>1, <4>2, PairRowFields, PairAuditFields
      <4> QED
        BY <2>1, <4>1, <4>2
    <3> QED
      BY <3>1, <3>2, <3>3 DEF OnePairPerAttempt
  <2> QED
    BY <2>5, <2>6
<1> QED
  BY <1>2, <1>3

(* Once answered, an attempt changes nothing but what is on its way.       *)
LEMMA AnsweredStays ==
    ASSUME IInv, NEW a \in Attempts, Step(a), pc[a] = "answered"
    PROVE  /\ UNCHANGED <<req, owned, sent, rec, resp>>
           /\ LateClaim(a) \/ LatePair(a) \/ LateAbort(a)
BY DEF IInv, TypeOK, Step, Serve, Submit, ResolveAccess, ResolveMySQLAccess,
   ResolvePGAccess, Prepare,
   PrepareSaved, PrepareNavigation, PreparePGSaved, PreparePGNavigation, PrepareWith,
   AdmitKeyless, TryClaim, ClassifyDuplicate, ClaimStoreFails, Guard, Preflight, RunMySQL,
   Apply, PGChain, RunPG, PersistKeyless, PersistKeyed, PersistFails, DeliveryGate, LateClaim,
   LatePair, LateAbort

(* An answer given earlier stays true: rows and links stay, and the rows   *)
(* that arrive late are of attempts that were not promised their absence.  *)
LEMMA AnswerStays ==
    ASSUME IInv, ProgressInv, PairInv, NEW a \in Attempts, Step(a),
           NEW b \in Attempts, AnswerMatches(b), a = b => pc[a] = "answered"
    PROVE  AnswerMatches(b)'
<1>1. /\ req'[b] = req[b] /\ owned'[b] = owned[b] /\ sent'[b] = sent[b]
      /\ resp'[b] = resp[b]
  BY OthersStay, AnsweredStays DEF IInv
<1>2. resp[b] # "none" => pc[b] = "answered" /\ req[b] \in Requests
  BY DEF ProgressInv, Progress, IInv, AttemptInv
<1>3. rows \subseteq rows'
  BY StoreGrows
<1>4. ASSUME NEW r \in rows, claims[SlotOf(b)].execution = r.id, owned[b]
      PROVE  claims'[SlotOf(b)].execution = r.id
  <2>1. r.id # 0
    BY DEF IInv, RowInv
  <2>2. claims[SlotOf(b)] # NoClaim /\ req[b] \in Requests /\ Keyed(b)
    BY <1>4 DEF IInv, OwnerInv, AttemptInv, BeforeClaim
  <2>3. SlotOf(b) \in Slots
    BY <2>2, RequestFields DEF SlotOf, Keyed
  <2> QED
    BY <1>4, <2>1, <2>2, <2>3, StoreGrows
<1>5. ASSUME resp[b] \in {"invalid", "notFound", "unrecorded", "exists", "conflict"},
             NEW r \in rows', r.attempt = b
      PROVE  r \in rows
  <2>1. CASE a = b
    <3>1. "pair" \notin limbo[a] /\ pc[a] # "persist"
      BY <1>2, <1>5, <2>1 DEF ProgressInv, Progress
    <3> QED
      BY <3>1, <1>5, PairWritten
  <2>2. CASE a # b
    BY <1>5, <2>2, PairWritten, PairRowFields DEF InsertPair
  <2> QED
    BY <2>1, <2>2
<1> QED
  BY <1>1, <1>3, <1>4, <1>5 DEF AnswerMatches, SlotOf

(* An answer is true when it is given.                                     *)
LEMMA AnswerGiven ==
    ASSUME IInv, ProgressInv, PairInv, NEW a \in Attempts, Step(a), pc[a] # "answered"
    PROVE  AnswerMatches(a)'
<1>1. /\ TypeOK /\ AttemptInv /\ resp[a] = "none"
      /\ pc[a] \in BeforeClaim => ~sent[a] /\ \A r \in rows : r.attempt # a
  BY DEF IInv, ProgressInv, Progress, AttemptInv, PairInv, BeforeClaim, Over
<1>2. CASE resp'[a] \in {"none", "persistError"}
  BY <1>2 DEF AnswerMatches
<1>3. CASE Submit(a)
  BY <1>1, <1>3 DEF Submit, TypeOK, Goto, Answer, BeforeClaim, AnswerMatches, storeVars
<1>4. CASE ResolveAccess(a)
  BY <1>1, <1>4 DEF ResolveAccess, ResolveMySQLAccess, ResolvePGAccess, TypeOK, Goto, Answer,
     BeforeClaim, AnswerMatches, storeVars
<1>5. CASE Prepare(a)
  BY <1>1, <1>5 DEF Prepare, PrepareSaved, PrepareNavigation, PreparePGSaved,
     PreparePGNavigation, PrepareWith, TypeOK, Goto, Answer, BeforeClaim, AnswerMatches, storeVars
<1>6. CASE ClassifyDuplicate(a)
  BY <1>1, <1>6 DEF ClassifyDuplicate, TypeOK, Goto, Answer, BeforeClaim, AnswerMatches, storeVars
<1>7. CASE PersistKeyless(a) \/ PersistKeyed(a)
  <2>1. /\ req[a] \in Requests /\ rec[a] \in Record
        /\ TruthfulRecord(a) /\ pc[a] = "persist"
        /\ UNCHANGED <<req, owned, sent>>
    BY <1>1, <1>7 DEF PersistKeyless, PersistKeyed, AttemptInv, ProgressInv, Progress
  <2>2. resp'[a] # "none" => resp'[a] = rec[a].answer /\ rec[a].answer # "rows"
    <3>1. resp'[a] # "notOccupant"
      BY StepIInv DEF IInv, FinalizeFindsItsClaim
    <3> QED
      BY <1>1, <1>7, <3>1 DEF PersistKeyless, PersistKeyed, Acknowledged, Goto, Answer, TypeOK
  <2>3. ASSUME resp'[a] # "none"
        PROVE  /\ PairRow(a) \in rows' /\ PairRow(a).attempt = a
               /\ PairRow(a).status # "success" /\ PairRow(a).id = nextId
               /\ owned[a] => StoreLinks(a)
    <3>1. rec[a].status # "success"
      BY <2>1, <2>2, <2>3 DEF TruthfulRecord
    <3>2. CASE PersistKeyless(a)
      BY <3>1, <3>2, PairRowFields DEF PersistKeyless, InsertPair
    <3>3. CASE PersistKeyed(a)
      <4>1. /\ owned[a] /\ Keyed(a) /\ claims[SlotOf(a)] # NoClaim
            /\ claims[SlotOf(a)].execution = 0
        BY <2>1, <3>3 DEF PersistKeyed, IInv, OwnerInv
      <4>2. LinkClaim(a)
        <5>1. resp'[a] # "notOccupant"
          BY StepIInv DEF IInv, FinalizeFindsItsClaim
        <5> QED
          BY <1>1, <3>3, <5>1 DEF PersistKeyed, Answer, TypeOK
      <4> QED
        BY <2>1, <3>1, <4>1, <4>2, PairRowFields DEF StoreLinks, LinkClaim, InsertPair
    <3> QED
      BY <1>7, <3>2, <3>3
  <2>4. ASSUME resp'[a] # "none", owned[a]
        PROVE  claims'[SlotOf(a)].execution = nextId
    BY <1>1, <2>3, <2>4, LinkedSlot, RequestFields DEF StoreLinks, SlotOf, Keyed
  <2>5. resp'[a] \in {"none", "recorded", "admissionFailed"}
    BY <2>1, <2>2 DEF Record
  <2> QED
    BY <2>1, <2>3, <2>4, <2>5 DEF AnswerMatches, SlotOf
<1>8. CASE DeliveryGate(a)
  <2>1. sent[a] /\ DeliverableRow(a)
    BY <1>8 DEF DeliveryGate, ProgressInv, Progress
  <2>2. UNCHANGED <<req, owned, sent, rows, claims>> /\ resp'[a] \in {"rows", "upgradeRequired"}
    BY <1>1, <1>8 DEF DeliveryGate, Answer, TypeOK, storeVars
  <2> QED
    BY <2>1, <2>2 DEF AnswerMatches, DeliverableRow, SlotOf
<1>9. CASE PersistFails(a)
  BY <1>1, <1>9 DEF PersistFails, Answer, TypeOK, AnswerMatches
<1>10. CASE UNCHANGED resp
  BY <1>1, <1>2, <1>10
<1> QED
  BY <1>3, <1>4, <1>5, <1>6, <1>7, <1>8, <1>9, <1>10 DEF Step, Serve, AdmitKeyless, TryClaim,
     ClaimStoreFails, Guard, Preflight, RunMySQL, Apply, PGChain, RunPG, LateClaim, LatePair,
     LateAbort

(* How a step of an attempt moves its times: it stamps its claim before    *)
(* the claim exists, and its record with the present.                      *)
LEMMA TimesOwn ==
    ASSUME IInv, NEW a \in Attempts, Step(a)
    PROVE  /\ now' = now
           /\ \/ stamp'[a] = stamp[a]
              \/ pc[a] \in BeforeClaim /\ pc'[a] = "admit" /\ stamp'[a] = now
           /\ \/ rec'[a] = rec[a]
              \/ rec'[a] \in Record /\ rec'[a].createdAt = now
           /\ pc'[a] = "persist" \/ "pair" \in limbo'[a] =>
                \/ rec'[a] = rec[a] /\ (pc[a] = "persist" \/ "pair" \in limbo[a])
                \/ rec'[a] \in Record /\ rec'[a].createdAt = now
           /\ owned'[a] = owned[a] \/ pc'[a] \in Executing
<1>1. TypeOK /\ TypeOK' /\ AttemptInv
  BY StepIInv DEF IInv
<1>2. ASSUME NEW status \in Statuses, NEW answer \in {"recorded", "admissionFailed", "rows"},
             Terminate(a, status, answer)
      PROVE  rec'[a] \in Record /\ rec'[a].createdAt = now
  BY <1>1, <1>2 DEF TypeOK, Terminate, Record
<1> USE <1>1 DEF TypeOK, AttemptInv, BeforeClaim, Executing, Over, Goto, Answer
<1>3. CASE Submit(a)
  BY <1>3 DEF Submit
<1>4. CASE ResolveAccess(a)
  BY <1>2, <1>4, TerminateType DEF ResolveAccess, ResolveMySQLAccess, ResolvePGAccess, Admit,
     Statuses
<1>5. CASE Prepare(a)
  BY <1>2, <1>5, TerminateType DEF Prepare, PrepareSaved, PrepareNavigation, PreparePGSaved,
     PreparePGNavigation, PrepareWith, Admit, Statuses
<1>6. CASE AdmitKeyless(a) \/ TryClaim(a)
  BY <1>6, AfterAdmissionPlaces DEF AdmitKeyless, TryClaim
<1>7. CASE ClassifyDuplicate(a)
  BY <1>7 DEF ClassifyDuplicate
<1>8. CASE ClaimStoreFails(a)
  BY <1>2, <1>8, TerminateType DEF ClaimStoreFails, Statuses
<1>9. CASE Guard(a)
  BY <1>2, <1>9, TerminateType DEF Guard, Statuses
<1>10. CASE Preflight(a)
  BY <1>2, <1>10, TerminateType DEF Preflight, Statuses
<1>11. CASE RunMySQL(a)
  BY <1>2, <1>11, TerminateType DEF RunMySQL, Statuses
<1>12. CASE Apply(a)
  BY <1>2, <1>12, TerminateType DEF Apply, Statuses
<1>13. CASE PGChain(a)
  BY <1>2, <1>13, TerminateType DEF PGChain, Statuses
<1>14. CASE RunPG(a)
  BY <1>2, <1>14, TerminateType, RunPGTerminates DEF RunPG
<1>15. CASE PersistFails(a)
  BY <1>15 DEF PersistFails
<1>16. CASE DeliveryGate(a)
  BY <1>16 DEF DeliveryGate
<1>17. CASE PersistKeyless(a) \/ PersistKeyed(a)
  BY <1>17 DEF PersistKeyless, PersistKeyed, Acknowledged
<1>18. CASE LateClaim(a) \/ LatePair(a) \/ LateAbort(a)
  BY <1>18 DEF LateClaim, LatePair, LateAbort
<1> QED
  BY <1>3, <1>4, <1>5, <1>6, <1>7, <1>8, <1>9, <1>10, <1>11, <1>12, <1>13,
     <1>14, <1>15, <1>16, <1>17, <1>18 DEF Step, Serve

LEMMA TimeStep ==
    ASSUME IInv, TimeInv, NEW a \in Attempts, Step(a)
    PROVE  TimeInv'
<1>1. ASSUME NEW b \in Attempts
      PROVE  (/\ stamp[b] <= now
              /\ rec[b] \in Record => rec[b].createdAt <= now
              /\ owned[b] /\ (pc[b] = "persist" \/ "pair" \in limbo[b]) =>
                   stamp[b] <= rec[b].createdAt)'
  <2>1. /\ stamp[b] <= now /\ now \in Nat
        /\ rec[b] \in Record => rec[b].createdAt <= now
        /\ owned[b] /\ (pc[b] = "persist" \/ "pair" \in limbo[b]) =>
             stamp[b] <= rec[b].createdAt
    BY ConstantsAssumption DEF TimeInv, IInv, TypeOK
  <2>2. CASE b = a
    <3>1. owned[a] => pc[a] \notin BeforeClaim
      BY DEF IInv, AttemptInv
    <3>2. "pair" \in limbo'[a] => pc'[a] \in Over
      BY StepIInv DEF IInv, AttemptInv
    <3>3. pc'[a] = "persist" \/ "pair" \in limbo'[a] => pc'[a] \notin Executing
      BY <3>2 DEF Executing, Over
    <3>4. stamp'[a] <= now
      BY <2>1, <2>2, TimesOwn
    <3>5. rec'[a] \in Record => rec'[a].createdAt <= now
      BY <2>1, <2>2, TimesOwn
    <3>6. ASSUME owned'[a], pc'[a] = "persist" \/ "pair" \in limbo'[a]
          PROVE  stamp'[a] <= rec'[a].createdAt
      BY <2>1, <2>2, <3>1, <3>3, <3>4, <3>6, TimesOwn
    <3> QED
      BY <2>2, <3>4, <3>5, <3>6, TimesOwn
  <2>3. CASE b # a
    BY <2>1, <2>3, OthersStay, TimesOwn DEF IInv
  <2> QED
    BY <2>2, <2>3
<1>2. ASSUME NEW s \in Slots, claims'[s] # NoClaim
      PROVE  claims'[s].claimedAt = stamp'[claims'[s].owner]
  <2>1. ASSUME claims[s] # NoClaim, claims'[s].owner = claims[s].owner,
               claims'[s].claimedAt = claims[s].claimedAt
        PROVE  claims'[s].claimedAt = stamp'[claims'[s].owner]
    <3>1. PICK o \in Attempts : o = claims[s].owner
      BY <2>1 DEF IInv, TypeOK, Claim
    <3>2. pc[o] \notin BeforeClaim /\ claims[s].claimedAt = stamp[o]
      BY <2>1, <3>1 DEF IInv, ClaimInv, InsertedBy, TimeInv
    <3>3. stamp'[o] = stamp[o]
      BY <3>2, OthersStay, TimesOwn DEF IInv
    <3> QED
      BY <2>1, <3>1, <3>2, <3>3
  <2>2. CASE StoreIdle
    BY <1>2, <2>1, <2>2 DEF StoreIdle, storeVars
  <2>3. CASE StoreClaims(a)
    <3>1. CASE s # SlotOf(a)
      BY <1>2, <2>1, <2>3, <3>1, ClaimedSlot DEF IInv
    <3>2. CASE s = SlotOf(a)
      <4>1. claims'[s] = NewClaim(a)
        BY <2>3, <3>2, ClaimedSlot DEF IInv
      <4>2. claims'[s].owner = a /\ claims'[s].claimedAt = stamp[a]
        BY <4>1 DEF NewClaim
      <4>3. stamp'[a] = stamp[a]
        BY <2>3, TimesOwn DEF StoreClaims, BeforeClaim
      <4> QED
        BY <4>2, <4>3
    <3> QED
      BY <3>1, <3>2
  <2>4. CASE StoreKeyless(a)
    BY <1>2, <2>1, <2>4 DEF StoreKeyless
  <2>5. CASE StoreLinks(a)
    <3>1. s = SlotOf(a) => claims[s] # NoClaim
      BY <2>5 DEF StoreLinks
    <3> QED
      BY <1>2, <2>1, <2>5, <3>1, LinkedSlot DEF IInv
  <2> QED
    BY <2>2, <2>3, <2>4, <2>5, StoreSteps DEF Step, IInv
<1> QED
  BY <1>1, <1>2 DEF TimeInv

(* A step of one attempt keeps the invariant.                              *)
LEMMA StepEInv ==
    ASSUME EInv, NEW a \in Attempts, Step(a)
    PROVE  EInv'
<1> USE DEF EInv
<1>1. IInv' /\ ProgressInv' /\ TimeInv'
  BY StepIInv, ProgressStep, TimeStep
<1>2. PairInv' /\ OnePairPerAttempt'
  BY PairStep
<1>3. ASSUME NEW b \in Attempts PROVE AnswerMatches(b)'
  <2>1. AnswerMatches(b)
    BY DEF AnswersMatchEvidence
  <2>2. CASE b = a /\ pc[a] # "answered"
    BY <2>2, AnswerGiven
  <2>3. CASE ~(b = a /\ pc[a] # "answered")
    BY <2>1, <2>3, AnswerStays
  <2> QED
    BY <2>2, <2>3
<1> QED
  BY <1>1, <1>2, <1>3 DEF AnswersMatchEvidence

(* A crash loses attempts; what was on its way may still arrive.           *)
LEMMA CrashEInv == ASSUME EInv, Crash PROVE EInv'
<1> USE DEF EInv
<1>1. UNCHANGED <<req, owned, sent, rec, resp, stamp, claims, rows, audits, nextId, now>>
  BY DEF Crash, storeVars
<1>2. ASSUME NEW a \in Attempts
      PROVE  /\ pc'[a] = IF pc[a] \in Waiting THEN "lost" ELSE pc[a]
             /\ "pair" \in limbo'[a] => "pair" \in limbo[a] \/ pc[a] = "persist"
  <2>1. "pair" \in OnItsWay(a) => pc[a] = "persist"
    BY DEF OnItsWay
  <2> QED
    BY <2>1 DEF Crash, IInv, TypeOK
<1>3. IInv'
  BY CrashIInv
<1>4. ASSUME NEW a \in Attempts PROVE Progress(a)'
  <2>1. Progress(a) /\ pc[a] \in PCs
    BY DEF ProgressInv, IInv, TypeOK
  <2> QED
    BY <1>1, <1>2, <2>1 DEF Progress, TruthfulRecord, PCs, Waiting
<1>5. PairInv'
  <2>1. ASSUME NEW r \in rows
        PROVE  pc'[r.attempt] \in {"gate"} \cup Over /\ "pair" \notin limbo'[r.attempt]
    <3>1. r.attempt \in Attempts
      BY DEF IInv, TypeOK, Row
    <3> QED
      BY <1>2, <3>1 DEF PairInv, Over, Waiting
  <2> QED
    BY <1>1, <2>1 DEF PairInv
<1>6. TimeInv'
  <2>1. \A a \in Attempts : pc'[a] # "persist"
    BY <1>2 DEF Waiting
  <2> QED
    BY <1>1, <1>2, <2>1 DEF TimeInv
<1>7. OnePairPerAttempt' /\ AnswersMatchEvidence'
  BY <1>1 DEF OnePairPerAttempt, AnswersMatchEvidence, AnswerMatches, SlotOf
<1> QED
  BY <1>3, <1>4, <1>5, <1>6, <1>7 DEF ProgressInv

(* The clock, and doing nothing, keep the invariant.                       *)
LEMMA IdleEInv == ASSUME EInv, Tick \/ UNCHANGED vars PROVE EInv'
<1> USE DEF EInv
<1>1. /\ UNCHANGED <<pc, req, owned, sent, rec, resp, stamp, limbo>>
      /\ UNCHANGED <<claims, rows, audits, nextId>>
      /\ now' = now \/ now' = now + 1
  BY DEF Tick, vars, attemptVars, storeVars
<1>2. IInv'
  BY IdleIInv
<1>3. ProgressInv' /\ PairInv'
  BY <1>1 DEF ProgressInv, Progress, TruthfulRecord, DeliverableRow, SlotOf, PairInv
<1>4. TimeInv'
  <2>1. /\ now \in Nat
        /\ \A a \in Attempts : stamp[a] \in Nat
        /\ \A a \in Attempts : rec[a] \in Record => rec[a].createdAt \in Nat
    BY ConstantsAssumption DEF IInv, TypeOK, Record
  <2> QED
    BY <1>1, <2>1 DEF TimeInv
<1>5. OnePairPerAttempt' /\ AnswersMatchEvidence'
  BY <1>1 DEF OnePairPerAttempt, AnswersMatchEvidence, AnswerMatches, SlotOf
<1> QED
  BY <1>2, <1>3, <1>4, <1>5

LEMMA InitEInv == Init => EInv
<1> SUFFICES ASSUME Init PROVE EInv
  OBVIOUS
<1>1. IInv
  BY InitIInv
<1>2. ProgressInv /\ TimeInv /\ AnswersMatchEvidence
  <2>1. NoRecord \notin Record
    BY SentinelsAssumption
  <2> QED
    BY <2>1 DEF Init, ProgressInv, Progress, TimeInv, AnswersMatchEvidence, AnswerMatches
<1>3. PairInv /\ OnePairPerAttempt
  BY FS_EmptySet DEF Init, PairInv, OnePairPerAttempt
<1> QED
  BY <1>1, <1>2, <1>3 DEF EInv

LEMMA NextEInv == EInv /\ [Next]_vars => EInv'
BY StepEInv, CrashEInv, IdleEInv DEF Next, Quiescent, Step

LEMMA EvidenceInvariance == Spec => []EInv
BY InitEInv, NextEInv, PTL DEF Spec

(* However acknowledgements are lost and writes arrive late, an attempt    *)
(* leaves at most one row, matched by one audit event with its result.     *)
THEOREM OnePair == Spec => []OnePairPerAttempt
<1>1. EInv => OnePairPerAttempt
  BY DEF EInv
<1> QED
  BY <1>1, EvidenceInvariance, PTL

(* What a client was told agrees with the tables from then on.             *)
THEOREM AnswersAreTrue == Spec => []AnswersMatchEvidence
<1>1. EInv => AnswersMatchEvidence
  BY DEF EInv
<1> QED
  BY <1>1, EvidenceInvariance, PTL

-----------------------------------------------------------------------------
(* The protocol implements EvidenceStore.                                  *)

LEMMA InitEvidence == Init => Evidence!StoreInit
BY DEF Init, Evidence!StoreInit, StoredClaim, Evidence!Slots, Slots

(* The row that is written, as readers see it.                             *)
LEMMA StoredPair ==
    ASSUME NEW a \in Attempts, InsertPair(a)
    PROVE  /\ {StoredRow(r) : r \in rows'} = {StoredRow(r) : r \in rows} \cup {StoredRow(PairRow(a))}
           /\ StoredRow(PairRow(a)) =
                [id |-> nextId, target |-> req[a].target,
                 key |-> IF owned[a] THEN req[a].key ELSE NoKey, actor |-> req[a].actor,
                 status |-> rec[a].status, createdAt |-> rec[a].createdAt]
<1>1. rows' = rows \cup {PairRow(a)}
  BY DEF InsertPair
<1>2. {StoredRow(r) : r \in rows'} = {StoredRow(r) : r \in rows} \cup {StoredRow(PairRow(a))}
  BY <1>1
<1> QED
  BY <1>2 DEF StoredRow, PairRow

(* A commit of an attempt is one of the three commits.                     *)
LEMMA EvidenceStep ==
    ASSUME EInv, NEW a \in Attempts, Step(a)
    PROVE  Evidence!StoreNext \/ UNCHANGED Evidence!evidenceVars
<1> USE DEF EInv, IInv
<1>1. now' = now /\ now \in 0..MaxNow
  BY TimesOwn DEF TypeOK
<1>2. CASE StoreIdle
  BY <1>1, <1>2 DEF StoreIdle, storeVars, Evidence!evidenceVars
<1>3. CASE StoreClaims(a)
  <2>1. /\ SlotOf(a) \in Slots /\ req[a].actor \in Actor
        /\ stamp[a] \in 0..MaxNow /\ stamp[a] <= now
    BY <1>3, RequestFields DEF StoreClaims, SlotOf, Keyed, TypeOK, TimeInv
  <2>2. claims[SlotOf(a)] = NoClaim /\ UNCHANGED <<rows, nextId>>
    BY <1>3 DEF StoreClaims
  <2>3. StoredClaim(NewClaim(a)) = [actor |-> req[a].actor, claimedAt |-> stamp[a], execution |-> 0]
    BY <1>3, NewClaimType DEF StoreClaims, StoredClaim, NewClaim
  <2>4. [s \in Slots |-> StoredClaim(claims'[s])] =
          [[s \in Slots |-> StoredClaim(claims[s])] EXCEPT ![SlotOf(a)] =
              [actor |-> req[a].actor, claimedAt |-> stamp[a], execution |-> 0]]
    BY <1>3, <2>1, <2>3, ClaimedSlot
  <2>5. Evidence!InsertClaim(SlotOf(a), req[a].actor, stamp[a])
    BY <1>1, <2>1, <2>2, <2>4 DEF Evidence!InsertClaim, StoredClaim
  <2> QED
    BY <2>1, <2>5 DEF Evidence!StoreNext, Evidence!Slots, Slots
<1>4. CASE StoreKeyless(a)
  <2>1. /\ req[a].target \in Targets /\ req[a].actor \in Actor
        /\ rec[a].status \in Statuses /\ rec[a].createdAt \in 0..MaxNow
        /\ rec[a].createdAt <= now
    BY <1>4, RequestFields DEF StoreKeyless, Record, TimeInv
  <2>2. Evidence!InsertKeyless(req[a].target, req[a].actor, rec[a].status, rec[a].createdAt)
    BY <1>1, <1>4, <2>1, StoredPair DEF StoreKeyless, InsertPair, Evidence!InsertKeyless,
       Evidence!InsertRow
  <2> QED
    BY <2>1, <2>2 DEF Evidence!StoreNext
<1>5. CASE StoreLinks(a)
  <2>1. /\ SlotOf(a) \in Slots
        /\ SlotOf(a)[1] = req[a].target /\ SlotOf(a)[2] = req[a].key
        /\ rec[a].status \in Statuses /\ rec[a].createdAt \in 0..MaxNow
        /\ rec[a].createdAt <= now
    BY <1>5, RequestFields DEF StoreLinks, SlotOf, Keyed, Record, TimeInv
  <2>2. /\ owned[a] /\ claims[SlotOf(a)] \in Claim /\ claims[SlotOf(a)] # NoClaim
        /\ claims[SlotOf(a)].owner = a /\ claims[SlotOf(a)].execution = 0
        /\ InsertPair(a)
    BY <1>5, <2>1 DEF StoreLinks, OwnerInv, TypeOK, LinkClaim
  <2>3. claims[SlotOf(a)].actor = req[a].actor
    BY <2>1, <2>2 DEF ClaimInv, InsertedBy
  <2>4. claims[SlotOf(a)].claimedAt <= rec[a].createdAt
    <3>1. pc[a] = "persist" \/ "pair" \in limbo[a]
      BY <2>2, PairWritten DEF InsertPair, TypeOK
    <3> QED
      BY <2>1, <2>2, <3>1 DEF TimeInv
  <2>5. LET c == StoredClaim(claims[SlotOf(a)])
        IN  /\ c = [actor |-> claims[SlotOf(a)].actor,
                    claimedAt |-> claims[SlotOf(a)].claimedAt, execution |-> 0]
            /\ c # NoClaim
    BY <2>2, SentinelsAssumption DEF StoredClaim, Claim
  <2>6. StoredClaim(claims'[SlotOf(a)]) =
          [actor |-> claims[SlotOf(a)].actor,
           claimedAt |-> claims[SlotOf(a)].claimedAt, execution |-> nextId]
    BY <1>5, <2>1, LinkedSlot DEF StoredClaim
  <2>7. [s \in Slots |-> StoredClaim(claims'[s])] =
          [[s \in Slots |-> StoredClaim(claims[s])] EXCEPT ![SlotOf(a)].execution = nextId]
    <3>1. [StoredClaim(claims[SlotOf(a)]) EXCEPT !.execution = nextId] =
            StoredClaim(claims'[SlotOf(a)])
      BY <2>5, <2>6
    <3>2. \A s \in Slots : s # SlotOf(a) => claims'[s] = claims[s]
      BY <1>5, <2>1, LinkedSlot
    <3> HIDE DEF EInv, IInv
    <3> QED
      BY <2>1, <3>1, <3>2
  <2>8. Evidence!FinalizeClaim(SlotOf(a), rec[a].status, rec[a].createdAt)
    BY <1>1, <2>1, <2>2, <2>3, <2>4, <2>5, <2>7, StoredPair
       DEF Evidence!FinalizeClaim, Evidence!InsertRow, InsertPair
  <2> QED
    BY <2>1, <2>8 DEF Evidence!StoreNext, Evidence!Slots, Slots
<1> QED
  BY <1>2, <1>3, <1>4, <1>5, StoreSteps DEF Step

LEMMA NextEvidence == EInv /\ [Next]_vars => [Evidence!StoreNext]_(Evidence!evidenceVars)
<1> SUFFICES ASSUME EInv, [Next]_vars
             PROVE  Evidence!StoreNext \/ UNCHANGED Evidence!evidenceVars
  OBVIOUS
<1>1. CASE \E a \in Attempts : Step(a)
  BY <1>1, EvidenceStep
<1>2. CASE Crash \/ UNCHANGED vars
  BY <1>2 DEF Crash, vars, storeVars, Evidence!evidenceVars
<1>3. CASE Tick
  BY <1>3 DEF Tick, storeVars, Evidence!StoreNext, Evidence!ClockTick
<1> QED
  BY <1>1, <1>2, <1>3 DEF Next, Quiescent, Step

(* Every commit of the protocol is a commit that readers of the two tables *)
(* expect, with the times they expect.                                     *)
THEOREM EvidenceStoreImplemented == Spec => ImplementsEvidenceStore
BY InitEvidence, NextEvidence, EvidenceInvariance, PTL
   DEF Spec, ImplementsEvidenceStore, Evidence!StoreSpec

-----------------------------------------------------------------------------
(* The protocol implements IdempotencyLedger.                              *)

LEMMA InitLedger == Init => Ledger!Init
<1> SUFFICES ASSUME Init PROVE Ledger!Init
  OBVIOUS
<1>1. [s \in Slots |-> OccupantOf(s)] = [s \in Slots |-> NoClaim]
  BY DEF Init, OccupantOf
<1>2. [s \in Slots |-> OutcomeOf(s)] = [s \in Slots |-> NoClaim]
  BY DEF Init, OutcomeOf
<1>3. \A s \in Slots : RanFor(s) = FALSE
  BY DEF Init, RanFor
<1>4. [s \in Slots |-> RanFor(s)] = [s \in Slots |-> FALSE]
  BY <1>3
<1> QED
  BY <1>1, <1>2, <1>4 DEF Ledger!Init

(* The row an id chooses is the only one with it.                          *)
LEMMA RowChosen ==
    ASSUME NEW R, \A r, q \in R : r.id = q.id => r = q, NEW r \in R, NEW id, r.id = id
    PROVE  (CHOOSE q \in R : q.id = id) = r
OBVIOUS

(* What settled stays settled.                                             *)
LEMMA OutcomeStays ==
    ASSUME EInv, EInv', NEW s \in Slots, claims'[s] = claims[s], rows \subseteq rows'
    PROVE  OutcomeOf(s)' = OutcomeOf(s)
<1>1. CASE claims[s] = NoClaim
  BY <1>1 DEF OutcomeOf
<1>2. CASE claims[s] # NoClaim /\ claims[s].execution = 0
  BY <1>2 DEF OutcomeOf
<1>3. CASE claims[s] # NoClaim /\ claims[s].execution # 0
  <2>1. PICK r \in rows : r.id = claims[s].execution
    BY <1>3 DEF EInv, IInv, LinkIntegrity
  <2>2. r \in rows'
    BY <2>1
  <2>3. (CHOOSE q \in rows : q.id = claims[s].execution) = r
    BY <2>1, RowChosen DEF EInv, PairInv
  <2>4. (CHOOSE q \in rows' : q.id = claims'[s].execution) = r
    BY <2>1, <2>2, RowChosen DEF EInv, PairInv
  <2>5. OutcomeOf(s) = r.status
    BY <1>3, <2>3 DEF OutcomeOf
  <2>6. OutcomeOf(s)' = r.status
    BY <1>3, <2>4, Zenon DEF OutcomeOf
  <2> QED
    BY <2>5, <2>6
<1> QED
  BY <1>1, <1>2, <1>3

(* A statement is sent in front of a target that has not seen it, by a     *)
(* step that writes nothing.                                               *)
LEMMA Sends ==
    ASSUME TypeOK, NEW a \in Attempts, Step(a)
    PROVE  \/ sent' = sent
           \/ /\ pc[a] \in {"preflight", "pgchain"}
              /\ sent' = [sent EXCEPT ![a] = TRUE]
              /\ req' = req
              /\ StoreIdle
<1>1. CASE Preflight(a) \/ PGChain(a)
  BY <1>1 DEF Preflight, PGChain, StoreIdle
<1>2. CASE ~Preflight(a) /\ ~PGChain(a)
  BY <1>2 DEF Step, Serve, Submit, ResolveAccess, ResolveMySQLAccess, ResolvePGAccess, Prepare,
     PrepareSaved, PrepareNavigation, PreparePGSaved, PreparePGNavigation, PrepareWith,
     AdmitKeyless, TryClaim, ClassifyDuplicate, ClaimStoreFails, Guard, RunMySQL,
     Apply, RunPG, PersistKeyless, PersistKeyed, PersistFails, DeliveryGate,
     LateClaim, LatePair, LateAbort
<1> QED
  BY <1>1, <1>2

(* Whoever sent serves a request that no longer changes.                   *)
LEMMA SenderServes ==
    ASSUME IInv, NEW b \in Attempts, sent[b]
    PROVE  pc[b] # "idle" /\ req[b] \in Requests /\ req[b] # NoRequest
BY RequestsAssumption, SentinelsAssumption DEF IInv, AttemptInv, BeforeClaim

LEMMA RanStays ==
    ASSUME IInv, NEW a \in Attempts, Step(a), sent' = sent, NEW s \in Slots
    PROVE  RanFor(s)' = RanFor(s)
<1>1. \A b \in Attempts : sent[b] => req'[b] = req[b]
  BY StepIInv, SenderServes, StepMoves DEF IInv, Step
<1>2. \A b \in Attempts : sent[b] => Keyed(b)' = Keyed(b) /\ SlotOf(b)' = SlotOf(b)
  BY <1>1 DEF Keyed, SlotOf
<1> QED
  BY <1>1, <1>2 DEF RanFor

(* Only the owner of a slot runs for it.                                   *)
LEMMA RanByOwner ==
    ASSUME IInv, NEW s \in Slots
    PROVE  RanFor(s) => claims[s] # NoClaim /\ sent[claims[s].owner]
BY DEF RanFor, IInv, OwnerInv

LEMMA OccupantStays ==
    ASSUME NEW s \in Slots, claims'[s] = claims[s]
    PROVE  OccupantOf(s)' = OccupantOf(s)
BY DEF OccupantOf

(* Sending without a key is nobody's run, sending with one is the first    *)
(* for its open slot.                                                      *)
LEMMA LedgerSend ==
    ASSUME EInv, EInv', NEW a \in Attempts, Step(a),
           pc[a] \in {"preflight", "pgchain"}, sent' = [sent EXCEPT ![a] = TRUE],
           req' = req, StoreIdle
    PROVE  Ledger!Next \/ UNCHANGED Ledger!ledgerVars
<1>1. claims' = claims /\ rows' = rows
  BY DEF StoreIdle, storeVars
<1>2. /\ [s \in Slots |-> OccupantOf(s)]' = [s \in Slots |-> OccupantOf(s)]
      /\ [s \in Slots |-> OutcomeOf(s)]' = [s \in Slots |-> OutcomeOf(s)]
  BY <1>1, OccupantStays, OutcomeStays
<1>3. \A b \in Attempts : sent'[b] = (sent[b] \/ b = a)
  BY DEF EInv, IInv, TypeOK
<1>4. req[a] \in Requests /\ req[a] # NoRequest
  BY RequestsAssumption, SentinelsAssumption DEF EInv, IInv, AttemptInv
<1>5. CASE ~Keyed(a)
  <2>1. \A s \in Slots : RanFor(s)' = RanFor(s)
    BY <1>3, <1>5 DEF RanFor, Keyed, SlotOf
  <2> QED
    BY <1>2, <2>1 DEF Ledger!ledgerVars
<1>6. CASE Keyed(a)
  <2> DEFINE k == SlotOf(a)
  <2>1. owned[a] /\ ~sent[a]
    BY <1>6 DEF EInv, IInv, OwnerInv, Executing, ProgressInv, Progress
  <2>2. /\ k \in Slots /\ claims[k] # NoClaim /\ claims[k].owner = a
        /\ claims[k].execution = 0 /\ claims[k] \in Claim
    BY <1>4, <1>6, <2>1, RequestFields DEF EInv, IInv, OwnerInv, TypeOK, Executing, Keyed, SlotOf
  <2>3. OccupantOf(k) # NoClaim /\ OutcomeOf(k) = NoClaim
    BY <2>2, SentinelsAssumption DEF OccupantOf, OutcomeOf, Claim
  <2>4. ~RanFor(k)
    BY <2>1, <2>2, RanByOwner DEF EInv
  <2>5. \A s \in Slots : RanFor(s)' = IF s = k THEN TRUE ELSE RanFor(s)
    BY <1>3, <1>4, <1>6 DEF RanFor, Keyed, SlotOf
  <2>6. [s \in Slots |-> RanFor(s)]' = [[s \in Slots |-> RanFor(s)] EXCEPT ![k] = TRUE]
    BY <2>2, <2>5
  <2>7. Ledger!Run(k)
    BY <1>2, <2>2, <2>3, <2>4, <2>6 DEF Ledger!Run, Ledger!Open
  <2> QED
    BY <2>2, <2>7 DEF Ledger!Next
<1> QED
  BY <1>5, <1>6

(* Any other step occupies a free slot, settles an open one, or changes    *)
(* nothing a client can tell.                                              *)
LEMMA LedgerWrite ==
    ASSUME EInv, EInv', NEW a \in Attempts, Step(a), sent' = sent
    PROVE  Ledger!Next \/ UNCHANGED Ledger!ledgerVars
<1>1. [s \in Slots |-> RanFor(s)]' = [s \in Slots |-> RanFor(s)]
  BY RanStays DEF EInv
<1>2. CASE claims' = claims /\ rows \subseteq rows'
  BY <1>1, <1>2, OccupantStays, OutcomeStays DEF Ledger!ledgerVars
<1>3. CASE StoreClaims(a)
  <2>0. PICK k \in Slots, d \in Digests : k = SlotOf(a) /\ d = Digest(req[a])
    BY <1>3, RequestFields DEF StoreClaims, SlotOf, Keyed
  <2>1. claims[k] = NoClaim /\ rows' = rows
    BY <1>3, <2>0 DEF StoreClaims
  <2>2. claims'[k] # NoClaim /\ claims'[k].digest = d /\ claims'[k].execution = 0
    <3>1. claims'[k] = NewClaim(a)
      BY <1>3, <2>0, ClaimedSlot DEF EInv, IInv
    <3>2. NewClaim(a) # NoClaim
      BY <1>3, NewClaimType DEF EInv, IInv, StoreClaims
    <3> QED
      BY <2>0, <3>1, <3>2 DEF NewClaim
  <2>3. \A s \in Slots : s # k => claims'[s] = claims[s]
    BY <1>3, <2>0, ClaimedSlot DEF EInv, IInv
  <2>4. \A s \in Slots : OutcomeOf(s)' = OutcomeOf(s)
    <3>1. OutcomeOf(k)' = NoClaim /\ OutcomeOf(k) = NoClaim
      BY <2>1, <2>2, Zenon DEF OutcomeOf
    <3> QED
      BY <2>1, <2>3, <3>1, OutcomeStays
  <2>5. \A s \in Slots : OccupantOf(s)' = IF s = k THEN d ELSE OccupantOf(s)
    BY <2>2, <2>3 DEF OccupantOf
  <2>6. [s \in Slots |-> OccupantOf(s)]' = [[s \in Slots |-> OccupantOf(s)] EXCEPT ![k] = d]
    BY <2>1, <2>5
  <2>7. OccupantOf(k) = NoClaim
    BY <2>1 DEF OccupantOf
  <2>8. Ledger!Occupy(k, d)
    BY <1>1, <2>1, <2>4, <2>6, <2>7 DEF Ledger!Occupy
  <2> QED
    BY <2>1, <2>8 DEF Ledger!Next
<1>4. CASE StoreLinks(a)
  <2>0. PICK k \in Slots, st \in Statuses : k = SlotOf(a) /\ st = rec[a].status
    BY <1>4, RequestFields DEF StoreLinks, SlotOf, Keyed, Record
  <2>1. /\ claims[k] \in Claim /\ claims[k] # NoClaim /\ claims[k].execution = 0
        /\ owned[a] /\ InsertPair(a)
    BY <1>4, <2>0 DEF StoreLinks, LinkClaim, EInv, IInv, TypeOK
  <2>2. st = "success" => RanFor(k)
    <3>1. pc[a] = "persist" \/ "pair" \in limbo[a]
      BY <2>1, PairWritten DEF InsertPair, EInv, IInv, TypeOK
    <3>2. st = "success" => sent[a]
      BY <2>0, <3>1 DEF EInv, ProgressInv, Progress, TruthfulRecord
    <3>3. req[a] # NoRequest /\ Keyed(a)
      BY <1>4, RequestsAssumption, SentinelsAssumption DEF StoreLinks
    <3> QED
      BY <2>0, <3>2, <3>3 DEF RanFor
  <2>3. claims'[k] # NoClaim /\ claims'[k].digest = claims[k].digest /\ claims'[k].execution = nextId
    BY <1>4, <2>0, LinkedSlot DEF EInv, IInv
  <2>4. \A s \in Slots : s # k => claims'[s] = claims[s]
    BY <1>4, <2>0, LinkedSlot DEF EInv, IInv
  <2>5. PairRow(a) \in rows' /\ PairRow(a).id = nextId /\ PairRow(a).status = st /\ nextId # 0
    BY <2>0, <2>1 DEF InsertPair, PairRow, EInv, IInv, TypeOK
  <2>6. OutcomeOf(k)' = st
    <3>1. (CHOOSE q \in rows' : q.id = claims'[k].execution) = PairRow(a)
      BY <2>3, <2>5, RowChosen DEF EInv, PairInv
    <3> QED
      BY <2>3, <2>5, <3>1, Zenon DEF OutcomeOf
  <2>7. \A s \in Slots : OutcomeOf(s)' = IF s = k THEN st ELSE OutcomeOf(s)
    BY <2>4, <2>6, StoreGrows, OutcomeStays DEF EInv
  <2>8. [s \in Slots |-> OutcomeOf(s)]' = [[s \in Slots |-> OutcomeOf(s)] EXCEPT ![k] = st]
    BY <2>1, <2>7
  <2>9. OccupantOf(k) # NoClaim /\ OutcomeOf(k) = NoClaim
    BY <2>1, SentinelsAssumption DEF OccupantOf, OutcomeOf, Claim
  <2>10. \A s \in Slots : OccupantOf(s)' = OccupantOf(s)
    BY <2>1, <2>3, <2>4 DEF OccupantOf
  <2>11. Ledger!Settle(k, st)
    BY <1>1, <2>1, <2>2, <2>8, <2>9, <2>10 DEF Ledger!Settle, Ledger!Open
  <2> QED
    BY <2>1, <2>11 DEF Ledger!Next
<1> QED
  BY <1>2, <1>3, <1>4, StoreSteps, StoreGrows
     DEF EInv, IInv, Step, StoreIdle, storeVars, StoreKeyless

LEMMA NextLedger == EInv /\ EInv' /\ [Next]_vars => [Ledger!Next]_(Ledger!ledgerVars)
<1> SUFFICES ASSUME EInv, EInv', [Next]_vars
             PROVE  Ledger!Next \/ UNCHANGED Ledger!ledgerVars
  OBVIOUS
<1>1. CASE \E a \in Attempts : Step(a)
  BY <1>1, Sends, LedgerSend, LedgerWrite DEF EInv, IInv
<1>2. CASE Crash \/ Tick \/ UNCHANGED vars
  <2>1. UNCHANGED <<claims, rows, sent, req>>
    BY <1>2 DEF Crash, Tick, vars, storeVars, attemptVars
  <2>2. \A s \in Slots : RanFor(s)' = RanFor(s)
    BY <2>1 DEF RanFor, Keyed, SlotOf
  <2> QED
    BY <2>1, <2>2, OccupantStays, OutcomeStays DEF Ledger!ledgerVars
<1> QED
  BY <1>1, <1>2 DEF Next, Quiescent, Step

(* Seen through its slots the protocol is the ledger: a client execution   *)
(* id is occupied once, runs at most once while open, settles at most once *)
(* and as a success only after it ran.                                     *)
THEOREM LedgerImplemented == Spec => ImplementsLedger
BY InitLedger, NextLedger, EvidenceInvariance, PTL DEF Spec, ImplementsLedger, Ledger!Spec
=============================================================================
