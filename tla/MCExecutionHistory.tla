------------------------- MODULE MCExecutionHistory -------------------------
(* A small instance of ExecutionHistory: a user and a machine principal   *)
(* with the same numeric id.                                               *)
EXTENDS ExecutionHistory

MCActor == [kind : {"user", "machine"}, id : {7}]

Q(scope, status) == [target |-> "t1", scope |-> scope, status |-> status]

(* An admin, with and without a status, and a user.                        *)
MCQueries == {Q(MCActor, "any"), Q(MCActor, "success"),
              Q({[kind |-> "user", id |-> 7]}, "any")}
=============================================================================
