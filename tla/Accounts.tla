------------------------------ MODULE Accounts ------------------------------
(***************************************************************************)
(* Who may call: user accounts with their bearer tokens, machine           *)
(* credentials, and the budget that bounds the audit rows written for      *)
(* rejected tokens.                                                        *)
(*                                                                         *)
(* A token carries the user, the authorization version and the time of     *)
(* issue.  Every administrative change of an account bumps its version in  *)
(* the same UPDATE, and a token is good only while its version is the      *)
(* account's.  Logins, verifications and administrative changes run        *)
(* concurrently; each of their SQL statements is one step.                 *)
(*                                                                         *)
(* History variables: accountLog[u][v] is the authority account u had at   *)
(* version v; rejectionRows tells in which window each written rejection   *)
(* was counted; effects tells what was read or changed on whose authority. *)
(***************************************************************************)
EXTENDS Integers, Sequences, FiniteSets

CONSTANTS
    Users,        \* user ids
    Passwords,    \* passwords
    Creds,        \* ids of machine credentials
    Calls,        \* HTTP calls; each is made once
    Requests,     \* a set of [Calls -> request]: what the calls may ask for
    FirstAccount, \* [Users -> Account]: the accounts at the start
    FirstCred,    \* the machine credential that exists at the start
    MaxVersion,   \* bound on the authorization version
    MaxNow,       \* bound on the clock
    TokenAge,     \* MaxQueryTokenAge
    Window,       \* the rejection budget's window
    Limit,        \* BoundedBearerRejectedLimit
    Damaged,      \* a credential that does not decode
    None          \* absence of a row, of a token or of an actor

\* A row of users.  hash.legacy tells a SHA-256 hash from an Argon2id one.
Account == [role : {"admin", "viewer"}, active : BOOLEAN,
            version : 1..MaxVersion,
            hash : [password : Passwords, legacy : BOOLEAN]]

\* A row of machine_principal_credentials; reads tells whether its scopes
\* include named-views:read, the one the modelled machine route asks for.
Credential == [revoked : BOOLEAN, reads : BOOLEAN, expiresAt : 1..MaxNow + 1,
               lastUsedAt : 0..MaxNow \cup {None}]

ASSUME AccountsAssumption ==
    /\ {MaxVersion, MaxNow, TokenAge, Window, Limit} \subseteq Nat \ {0}
    /\ \A q \in Requests : DOMAIN q = Calls
    /\ FirstAccount \in [Users -> Account]
    /\ \A u \in Users : FirstAccount[u].version = 1
    /\ FirstCred \in Creds

ASSUME AbsenceAssumption ==
    /\ None \notin Nat /\ None \notin Users
    /\ None \notin Credential

VARIABLES users, accountLog, tokens, creds, budget, rejectionRows, now, call,
          effects

accountVars == <<users, accountLog, tokens, creds, budget, rejectionRows, now>>

\* The authority of an account, as accountLog keeps it.
Authority(account) ==
    [role |-> account.role, active |-> account.active,
     password |-> account.hash.password]

idleCall(request) ==
    [pc |-> "idle", request |-> request, credential |-> None, read |-> None,
     stamp |-> 0, actor |-> None, born |-> None, answer |-> None, shown |-> None]

\* Every user holds a token of an earlier login.  A new budget has the zero
\* time for a window start, so that its first event opens a window.
AccountsInit ==
    /\ users = FirstAccount
    /\ accountLog = [u \in Users |-> <<Authority(FirstAccount[u])>>]
    /\ tokens = {[user |-> u, version |-> 1, issuedAt |-> 0,
                  password |-> FirstAccount[u].hash.password] : u \in Users}
    /\ creds = [c \in Creds |-> IF c = FirstCred
                                THEN [revoked |-> FALSE, reads |-> TRUE,
                                      expiresAt |-> MaxNow, lastUsedAt |-> None]
                                ELSE None]
    /\ budget = [start |-> None, count |-> 0]
    /\ rejectionRows = {}
    /\ now = 0
    /\ \E q \in Requests : call = [r \in Calls |-> idleCall(q[r])]
    /\ effects = {}

At(r, pc) == call[r].pc = pc

\* Call r moves to pc, with the given fields replaced.
Move(r, pc, fields) ==
    call' = [call EXCEPT ![r] =
                [f \in DOMAIN @ |-> IF f = "pc" THEN pc
                                    ELSE IF f \in DOMAIN fields THEN fields[f]
                                    ELSE @[f]]]

\* Call r is answered.
Answer(r, answer) ==
    Move(r, "done", [answer |-> answer, read |-> None, stamp |-> 0])

\* The authority a step of call r relies on, with the version the account
\* has when the step is taken.
Effect(r, scope, owner) ==
    [by |-> r, scope |-> scope, owner |-> owner,
     at |-> IF call[r].actor.user = None THEN None
            ELSE users[call[r].actor.user].version]

\* A call arrives with the credential its client holds: any token ever
\* issued, a damaged one, none at all, or a machine credential.  born is a
\* history field: what the caller's authority was at that moment.
Arrive(r) ==
    /\ At(r, "idle")
    /\ LET q == call[r].request IN
         \/ /\ q.by = "login"
            /\ Move(r, "find", <<>>)
         \/ /\ q.by = "user"
            /\ \E t \in tokens \cup {Damaged, None} :
                 IF t = None
                 THEN Answer(r, "unauthorized")
                 ELSE Move(r, "verify",
                           [credential |-> t,
                            born |-> IF t = Damaged THEN None
                                     ELSE users[t.user].version])
         \* verifyBearer refuses a machine credential on a route for users.
         \/ q.by = "user" /\ q.op # "viewList" /\ Answer(r, "scope denied")
         \/ /\ q.by = "machine"
            /\ \E c \in {d \in Creds : creds[d] # None} \cup {Damaged} :
                 Move(r, "findCredential",
                      [credential |-> c,
                       born |-> IF c = Damaged THEN None
                                ELSE creds[c].revoked \/ creds[c].expiresAt <= now
                                     \/ ~creds[c].reads])
    /\ UNCHANGED <<accountVars, effects>>

-----------------------------------------------------------------------------
(* Login *)

FindByEmail(email) == users[email]
FindByID(id) == users[id]

\* A hash of either kind verifies exactly the password it was made from.
VerifyPassword(hash, password) == hash.password = password

\* Every failure is answered in the same words.
HandleLogin(r, ok) == Answer(r, IF ok THEN "token" ELSE "invalid credentials")

\* The read of the user and the checks on the row it returned.
Login(r) ==
    /\ At(r, "find")
    /\ LET q == call[r].request
           account == FindByEmail(q.user)
       IN  IF ~account.active \/ ~VerifyPassword(account.hash, q.password)
           THEN HandleLogin(r, FALSE)
           ELSE Move(r, IF account.hash.legacy THEN "upgrade" ELSE "issue",
                     [read |-> account])
    /\ UNCHANGED <<accountVars, effects>>

\* A stale login must not overwrite what changed since it read the row.
UpgradeBlindly(r) ==
    LET q == call[r].request IN
    /\ users' = [users EXCEPT ![q.user].hash =
                    [password |-> q.password, legacy |-> FALSE]]
    /\ Move(r, "issue", [read |-> [call[r].read EXCEPT !.hash.legacy = FALSE]])

\* The compare-and-swap on password_hash; the version stays.
UpgradePasswordHash(r) ==
    LET q == call[r].request IN
    IF users[q.user].hash = call[r].read.hash
    THEN /\ users' = [users EXCEPT ![q.user].hash.legacy = FALSE]
         /\ Move(r, "issue", [read |-> [call[r].read EXCEPT !.hash.legacy = FALSE]])
    ELSE HandleLogin(r, FALSE) /\ UNCHANGED users

LoginUpgrade(r) ==
    /\ At(r, "upgrade")
    /\ UpgradePasswordHash(r)
    /\ UNCHANGED <<accountLog, tokens, creds, budget, rejectionRows, now, effects>>

\* issueToken signs the version the login read.
IssueToken(r) ==
    /\ At(r, "issue")
    /\ LET q == call[r].request IN
       tokens' = tokens \cup {[user |-> q.user, version |-> call[r].read.version,
                               issuedAt |-> now, password |-> q.password]}
    /\ HandleLogin(r, TRUE)
    /\ UNCHANGED <<users, accountLog, creds, budget, rejectionRows, now, effects>>

-----------------------------------------------------------------------------
(* Administrative changes: one UPDATE each, which bumps the version *)

ChangeAccount(u, account) ==
    /\ users[u].version < MaxVersion
    /\ LET bumped == [account EXCEPT !.version = @ + 1] IN
       /\ users' = [users EXCEPT ![u] = bumped]
       /\ accountLog' = [accountLog EXCEPT ![u] = Append(@, Authority(bumped))]
    /\ UNCHANGED <<tokens, creds, budget, rejectionRows, now, call, effects>>

ChangeUserRole(u) ==
    \E role \in {"admin", "viewer"} : ChangeAccount(u, [users[u] EXCEPT !.role = role])

SetUserActive(u) ==
    \E active \in BOOLEAN : ChangeAccount(u, [users[u] EXCEPT !.active = active])

ResetUserPassword(u) ==
    \E p \in Passwords :
        ChangeAccount(u, [users[u] EXCEPT !.hash = [password |-> p, legacy |-> FALSE]])

-----------------------------------------------------------------------------
(* Bearer verification *)

\* A verification that trusts the signature and the active flag alone.
TokenIsSigned(t) == t # Damaged /\ users[t.user].active

\* Whether VerifyToken accepts the token: FindByID and its checks.
TokenIsCurrent(t) ==
    /\ t # Damaged
    /\ FindByID(t.user).active
    /\ FindByID(t.user).version = t.version

FreshToken(t) == now - t.issuedAt < TokenAge

\* verifyBearer and the age check.  The role is the account's, as read now.
\* A token too old is rejected with its verified actor, outside the budget.
VerifyBearer(r) ==
    LET t == call[r].credential IN
    /\ At(r, "verify")
    /\ IF ~TokenIsCurrent(t) THEN Move(r, "reject", <<>>)
       ELSE IF ~FreshToken(t) THEN Answer(r, "unauthorized")
       ELSE Move(r, "accepted",
                 [actor |-> [user |-> t.user, role |-> users[t.user].role]])
    /\ UNCHANGED <<accountVars, effects>>

\* allow() reads the clock before it takes the mutex.
RejectClock(r) ==
    /\ At(r, "reject")
    /\ Move(r, "count", [stamp |-> now])
    /\ UNCHANGED <<accountVars, effects>>

\* A goroutine that was overtaken must not reopen a window.
WindowRollsOnAnyDrift(stamp) ==
    budget.start = None \/ stamp - budget.start >= Window \/ stamp < budget.start

WindowRolls(stamp) ==
    budget.start = None \/ stamp - budget.start >= Window

\* The rest of allow() under the mutex, and the row when it says yes.
RejectCount(r) ==
    /\ At(r, "count")
    /\ LET rolled == IF WindowRolls(call[r].stamp)
                     THEN [start |-> call[r].stamp, count |-> 0]
                     ELSE budget
           allowed == rolled.count < Limit
       IN  /\ budget' = IF allowed THEN [rolled EXCEPT !.count = @ + 1] ELSE rolled
           /\ rejectionRows' = IF allowed
                               THEN rejectionRows \cup {[by |-> r, start |-> rolled.start]}
                               ELSE rejectionRows
    /\ Answer(r, "unauthorized")
    /\ UNCHANGED <<users, accountLog, tokens, creds, now, effects>>

-----------------------------------------------------------------------------
(* Machine credentials *)

ParsesAsCredential(c) == c # Damaged

FindCredential(c) == creds[c]

HasScope(c) == FindCredential(c).reads

\* The read of the credential and the checks on the row it returned.
Authenticate(r) ==
    LET c == call[r].credential IN
    /\ At(r, "findCredential")
    /\ IF \/ ~ParsesAsCredential(c) \/ FindCredential(c).revoked
          \/ now >= FindCredential(c).expiresAt \/ ~HasScope(c)
       THEN Answer(r, "unauthorized")
       ELSE Move(r, "markUsed", [stamp |-> now])
    /\ UNCHANGED <<accountVars, effects>>

\* The WHERE clause of MarkUsed, and of the re-check.
StillActive(c, stamp) == ~creds[c].revoked /\ creds[c].expiresAt > stamp

AcceptMachine(r) ==
    Move(r, "accepted", [actor |-> [user |-> None, role |-> "machine"]])

\* The UPDATE reports no row also when last_used_at does not change; a second
\* statement then tells the cases apart.
MarkUsed(r) ==
    LET c == call[r].credential
        stamp == call[r].stamp
    IN
    /\ At(r, "markUsed")
    /\ IF StillActive(c, stamp) /\ creds[c].lastUsedAt # stamp
       THEN /\ creds' = [creds EXCEPT ![c].lastUsedAt = stamp]
            /\ AcceptMachine(r)
       ELSE /\ Move(r, "recheck", <<>>)
            /\ UNCHANGED creds
    /\ UNCHANGED <<users, accountLog, tokens, budget, rejectionRows, now, effects>>

MarkUsedRecheck(r) ==
    /\ At(r, "recheck")
    /\ IF StillActive(call[r].credential, call[r].stamp)
       THEN AcceptMachine(r)
       ELSE Answer(r, "unauthorized")
    /\ UNCHANGED <<accountVars, effects>>

\* An administrator's call, decided by the role the middleware read.
IsAdmin(r) == call[r].actor.role = "admin"

\* requireAdminActor, on the administrators' routes.
AdminRoutes == {"credCreate", "credRotate", "credRevoke", "credList"}
RefuseNonAdmin(r) ==
    /\ At(r, "accepted") /\ call[r].request.op \in AdminRoutes
    /\ ~IsAdmin(r)
    /\ Answer(r, "forbidden")
    /\ UNCHANGED <<accountVars, effects>>

Admin(r, op) == At(r, "accepted") /\ call[r].request.op = op /\ IsAdmin(r)

\* A body that does not decode, no or unknown scopes, a bad name or expiry.
RefuseCredentialBody(r) ==
    /\ Admin(r, "credCreate") \/ Admin(r, "credRotate")
    /\ Answer(r, "invalid")
    /\ UNCHANGED <<accountVars, effects>>

\* The credential row of a Create or Rotate transaction, with its event.
InsertMachineCredential(r) ==
    /\ \E c \in {d \in Creds : creds[d] = None}, reads \in BOOLEAN,
          expiry \in now + 1..MaxNow + 1 :
         creds' = [creds EXCEPT ![c] = [revoked |-> FALSE, reads |-> reads,
                                        expiresAt |-> expiry, lastUsedAt |-> None]]
    /\ effects' = effects \cup {Effect(r, "shared", None)}
    /\ Answer(r, "ok")

CreateMachinePrincipal(r) ==
    /\ Admin(r, "credCreate")
    /\ InsertMachineCredential(r)
    /\ UNCHANGED <<users, accountLog, tokens, budget, rejectionRows, now>>

LockForRotation(old) == creds[old] # None

\* Rotate locks the old credential, whatever its state, and leaves it in
\* force: revoking it is a call of its own.
Rotate(r) ==
    LET old == call[r].request.id IN
    /\ Admin(r, "credRotate")
    /\ IF ~LockForRotation(old) THEN Answer(r, "not found") /\ UNCHANGED <<creds, effects>>
       ELSE InsertMachineCredential(r)
    /\ UNCHANGED <<users, accountLog, tokens, budget, rejectionRows, now>>

\* UPDATE ... WHERE revoked_at IS NULL: revoking twice finds nothing.
Revoke(r) ==
    LET c == call[r].request.id IN
    /\ Admin(r, "credRevoke")
    /\ IF creds[c] = None \/ creds[c].revoked
       THEN Answer(r, "not found") /\ UNCHANGED <<creds, effects>>
       ELSE /\ creds' = [creds EXCEPT ![c].revoked = TRUE]
            /\ effects' = effects \cup {Effect(r, "shared", None)}
            /\ Answer(r, "ok")
    /\ UNCHANGED <<users, accountLog, tokens, budget, rejectionRows, now>>

ListMachinePrincipals(r) ==
    /\ Admin(r, "credList")
    /\ effects' = effects \cup {Effect(r, "shared", None)}
    /\ Answer(r, "ok")
    /\ UNCHANGED accountVars

Tick ==
    /\ now < MaxNow
    /\ now' = now + 1
    /\ UNCHANGED <<users, accountLog, tokens, creds, budget, rejectionRows, call,
                   effects>>

AccountsNext ==
    \/ \E r \in Calls :
         \/ Arrive(r) \/ Login(r) \/ LoginUpgrade(r) \/ IssueToken(r)
         \/ VerifyBearer(r) \/ RejectClock(r) \/ RejectCount(r)
         \/ Authenticate(r) \/ MarkUsed(r) \/ MarkUsedRecheck(r)
         \/ RefuseNonAdmin(r) \/ RefuseCredentialBody(r) \/ CreateMachinePrincipal(r)
         \/ Rotate(r) \/ Revoke(r) \/ ListMachinePrincipals(r)
    \/ \E u \in Users : ChangeUserRole(u) \/ SetUserActive(u) \/ ResetUserPassword(u)
    \/ Tick

-----------------------------------------------------------------------------
(* Properties *)

\* A password reset wins over every login it races with: the stored hash is
\* of the password set last, and a token that verifies was issued to someone
\* who presented that password.  Logins read the row, hash for a quarter of a
\* second, and write and sign afterwards.
ResetWins ==
    /\ \A u \in Users :
         users[u].hash.password = accountLog[u][users[u].version].password
    /\ \A t \in tokens :
         TokenIsCurrent(t) => t.password = users[t.user].hash.password

\* At most Limit rejections are written per window, and windows do not
\* overlap, although a call may compare a clock reading older than the
\* window another call has opened meanwhile.
RejectionsWithinBudget ==
    LET starts == {row.start : row \in rejectionRows} IN
    /\ \A s \in starts : Cardinality({row \in rejectionRows : row.start = s}) <= Limit
    /\ \A s, t \in starts : s < t => t - s >= Window
=============================================================================
