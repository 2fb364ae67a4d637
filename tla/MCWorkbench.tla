---------------------------- MODULE MCWorkbench -----------------------------
(***************************************************************************)
(* Instances of Workbench for TLC: an administrator and a viewer, one with *)
(* a legacy password hash, and a few concurrent calls.                     *)
(***************************************************************************)
EXTENDS Workbench, TLC

CONSTANTS u1, u2, p1, p2, c1, c2, r1, r2, st1, st2, v1, v2

MCFirstAccount ==
    u1 :> [role |-> "admin", active |-> TRUE, version |-> 1,
           hash |-> [password |-> p1, legacy |-> TRUE]]
    @@ u2 :> [role |-> "viewer", active |-> TRUE, version |-> 1,
              hash |-> [password |-> p1, legacy |-> FALSE]]

ByUser(op) == [by |-> "user", op |-> op]
OnRow(op, i) == [by |-> "user", op |-> op, id |-> i]

Login1(p) == [by |-> "login", user |-> u1, password |-> p]
Put(n) == [by |-> "user", op |-> "wsPut", expected |-> n]
Create(op, scope) == [by |-> "user", op |-> op, scope |-> scope]
Machine == [by |-> "machine", op |-> "viewList"]

\* Two calls that meet: on an account, on the budget, on a credential, on a
\* workspace, or on a row of the library.
Meetings ==
    { <<Login1(p1), Login1(p1)>>, <<Login1(p2), ByUser("wsGet")>>,
      <<ByUser("viewList"), ByUser("wsGet")>>,
      <<ByUser("stList"), OnRow("stUpdate", st1)>>,
      <<Machine, Machine>>, <<Machine, OnRow("credRevoke", c1)>>,
      <<OnRow("credRotate", c1), OnRow("credRevoke", c2)>>,
      <<ByUser("credCreate"), ByUser("credList")>>,
      <<OnRow("credRotate", c2), Machine>>,
      <<Put(0), Put(0)>>, <<Put(0), Put(1)>>,
      <<OnRow("stUpdate", st1), OnRow("stDelete", st1)>>,
      <<Create("stCreate", "personal"), OnRow("stUpdate", st2)>>,
      <<Create("stCreate", "shared"), OnRow("stRead", st2)>>,
      <<OnRow("stRead", st2), Create("stCreate", "personal")>>,
      <<OnRow("viewUpdate", v1), OnRow("viewDelete", v1)>>,
      <<Create("viewCreate", "personal"), OnRow("viewUpdate", v2)>>,
      <<Create("viewCreate", "shared"), Machine>> }

MCRequests == {r1 :> m[1] @@ r2 :> m[2] : m \in Meetings}
=============================================================================
