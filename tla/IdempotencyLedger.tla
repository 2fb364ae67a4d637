------------------------- MODULE IdempotencyLedger -------------------------
(***************************************************************************)
(* What the claim protocol promises a client about one slot, that is, one  *)
(* (target, client execution id): it is occupied at most once, by one     *)
(* request; at most one statement is ever run for it, while it is          *)
(* occupied and unsettled; it settles at most once; and a settled slot is  *)
(* never reopened, relabelled or released.                                 *)
(***************************************************************************)
CONSTANTS Slots, Digests, Statuses, None

VARIABLES
    occupant,  \* digest of the request that occupies the slot, or None
    ran,       \* a statement was run for the slot
    outcome    \* terminal status of the slot, or None

ledgerVars == <<occupant, ran, outcome>>

Init ==
    /\ occupant = [s \in Slots |-> None]
    /\ ran = [s \in Slots |-> FALSE]
    /\ outcome = [s \in Slots |-> None]

Open(s) == occupant[s] # None /\ outcome[s] = None

Occupy(s, d) ==
    /\ occupant[s] = None
    /\ occupant' = [occupant EXCEPT ![s] = d]
    /\ UNCHANGED <<ran, outcome>>

Run(s) ==
    /\ Open(s)
    /\ ~ran[s]
    /\ ran' = [ran EXCEPT ![s] = TRUE]
    /\ UNCHANGED <<occupant, outcome>>

(* A slot settles as success only if its statement was run.                *)
Settle(s, status) ==
    /\ Open(s)
    /\ status = "success" => ran[s]
    /\ outcome' = [outcome EXCEPT ![s] = status]
    /\ UNCHANGED <<occupant, ran>>

Next ==
    \E s \in Slots :
        \/ \E d \in Digests : Occupy(s, d)
        \/ Run(s)
        \/ \E status \in Statuses : Settle(s, status)

Spec == Init /\ [][Next]_ledgerVars
=============================================================================
