------------------------- MODULE MCExecutionClaims -------------------------
(* Small instances of ExecutionClaims.                                     *)
EXTENDS ExecutionClaims, TLC

User(i) == [kind |-> "user", id |-> i]
Machine(i) == [kind |-> "machine", id |-> i]

R(t, k, actor, entry, scope, body) ==
    [target |-> t, key |-> k, actor |-> actor, entry |-> entry,
     scope |-> scope, body |-> body]

(* One MySQL target: a request, another request under the same key, and    *)
(* one without a key.                                                      *)
MySQLRequests ==
    {R("t1", 1, User(7), "ordinary", NoScope, "b1"),
     R("t1", 1, User(7), "saved", NoScope, "b1"),
     R("t1", NoKey, User(7), "navigation", NoScope, "b1")}

(* One PostgreSQL target: the same key in two connection scopes, from two *)
(* actors that share a number, and a request without the key it requires.  *)
PGRequests ==
    {R("t2", 1, Machine(7), "ordinary", "db1", "b1"),
     R("t2", 1, User(7), "saved", "db2", "b1"),
     R("t2", 1, User(7), "navigation", "db1", "b1"),
     R("t2", NoKey, User(7), "ordinary", "db1", "b1")}

AllRequests == MySQLRequests \cup PGRequests

(* One request on each target, for the run with fairness and a clock.      *)
LiveRequests ==
    {R("t1", 1, User(7), "ordinary", NoScope, "b1"),
     R("t2", 1, Machine(7), "ordinary", "db1", "b1")}

AttemptSymmetry == Permutations(Attempts)
=============================================================================
