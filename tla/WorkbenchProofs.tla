-------------------------- MODULE WorkbenchProofs --------------------------
(***************************************************************************)
(* Proofs about Accounts and Workbench: WorkbenchInv is inductive, and the *)
(* four properties of the two modules follow from it for any number of     *)
(* users, calls, credentials and rows.                                     *)
(***************************************************************************)
EXTENDS Workbench, TLAPS, FiniteSetTheorems

-----------------------------------------------------------------------------
(* What a step does to the calls.                                          *)

CallsShaped == DOMAIN call = Calls /\ \A r \in Calls : DOMAIN call[r] = CallFields

(* A move replaces the fields it names, of one call.                       *)
LEMMA Moved ==
    ASSUME CallsShaped, NEW r \in Calls, NEW pc, NEW fields, Move(r, pc, fields)
    PROVE  /\ CallsShaped'
           /\ \A s \in Calls \ {r} : call'[s] = call[s]
           /\ call'[r].pc = pc
           /\ \A f \in CallFields \ {"pc"} :
                call'[r][f] = IF f \in DOMAIN fields THEN fields[f] ELSE call[r][f]
BY DEF CallsShaped, CallFields, Move

LEMMA MovedOnly ==
    ASSUME CallsShaped, NEW r \in Calls, NEW pc, Move(r, pc, <<>>)
    PROVE  /\ call'[r].pc = pc
           /\ call'[r].request = call[r].request /\ call'[r].credential = call[r].credential
           /\ call'[r].read = call[r].read /\ call'[r].stamp = call[r].stamp
           /\ call'[r].actor = call[r].actor /\ call'[r].born = call[r].born
           /\ call'[r].answer = call[r].answer /\ call'[r].shown = call[r].shown
<1>1. \A f \in CallFields : f \notin DOMAIN <<>>
  BY DEF CallFields
<1> QED
  BY <1>1, Moved DEF CallFields

LEMMA Answered ==
    ASSUME CallsShaped, NEW r \in Calls, NEW answer, Answer(r, answer)
    PROVE  /\ CallsShaped'
           /\ \A s \in Calls \ {r} : call'[s] = call[s]
           /\ call'[r].pc = "done"
           /\ call'[r].request = call[r].request /\ call'[r].credential = call[r].credential
           /\ call'[r].actor = call[r].actor /\ call'[r].born = call[r].born
           /\ call'[r].shown = call[r].shown
<1> DEFINE fields == [answer |-> answer, read |-> None, stamp |-> 0]
<1>1. Move(r, "done", fields)
  BY DEF Answer
<1>2. \A f \in {"request", "credential", "actor", "born", "shown"} : f \notin DOMAIN fields
  OBVIOUS
<1> HIDE DEF fields
<1> QED
  BY <1>1, <1>2, Moved DEF CallFields

-----------------------------------------------------------------------------
(* What a step does to the accounts, the tokens and the credentials.       *)

AccountsState == <<users, accountLog, tokens, creds, now>>

AccountsStateTyped ==
    /\ users \in [Users -> Account]
    /\ accountLog \in [Users -> Seq(LoggedAuthority)]
    /\ tokens \subseteq Token
    /\ creds \in [Creds -> Credential \cup {None}]
    /\ now \in 0..MaxNow

(* Nothing that was logged, issued or revoked is taken back.               *)
Later ==
    /\ now <= now'
    /\ tokens \subseteq tokens'
    /\ \A u \in Users :
         /\ users[u].version <= users'[u].version
         /\ \A v \in 1..users[u].version : accountLog'[u][v] = accountLog[u][v]
    /\ \A c \in Creds : creds[c] # None =>
         /\ creds'[c] # None
         /\ creds'[c].reads = creds[c].reads
         /\ creds'[c].expiresAt = creds[c].expiresAt
         /\ creds[c].revoked => creds'[c].revoked

Sound == AccountsStateTyped /\ LogInv /\ TokenInv

LEMMA Bounds ==
    /\ MaxVersion \in Nat /\ MaxNow \in Nat /\ Window \in Nat /\ Limit \in Nat
    /\ MaxVersion # 0 /\ MaxNow # 0 /\ Window # 0
BY AccountsAssumption

(* The version of a row is a number, its credentials have an expiry.       *)
LEMMA RowTypes ==
    ASSUME AccountsStateTyped
    PROVE  /\ \A u \in Users : /\ users[u] \in Account
                               /\ users[u].version \in 1..MaxVersion
                               /\ users[u].version \in Nat
                               /\ users[u].hash.password \in Passwords
                               /\ accountLog[u] \in Seq(LoggedAuthority)
           /\ \A t \in tokens : t.user \in Users /\ t.version \in 1..MaxVersion /\ t.version \in Nat
           /\ \A c \in Creds : creds[c] # None =>
                creds[c] \in Credential /\ creds[c].expiresAt \in Nat
           /\ now \in Nat
BY Bounds DEF AccountsStateTyped, Account, Token, Credential

LEMMA SameAccounts ==
    ASSUME Sound, UNCHANGED AccountsState
    PROVE  Sound' /\ Later
<1>1. UNCHANGED <<users, accountLog, tokens, creds, now>>
  BY DEF AccountsState
<1>2. now <= now' /\ \A u \in Users : users[u].version <= users'[u].version
  BY <1>1, RowTypes DEF Sound
<1> QED
  BY <1>1, <1>2 DEF Sound, Later, AccountsStateTyped, LogInv, TokenInv

(* The clock.                                                              *)
LEMMA ClockMoves ==
    ASSUME Sound, Tick
    PROVE  Sound' /\ Later
<1>1. UNCHANGED <<users, accountLog, tokens, creds>> /\ now < MaxNow /\ now' = now + 1
  BY DEF Tick
<1>2. now <= now' /\ now' \in 0..MaxNow /\ \A u \in Users : users[u].version <= users'[u].version
  BY <1>1, RowTypes, Bounds DEF Sound
<1> QED
  BY <1>1, <1>2 DEF Sound, Later, AccountsStateTyped, LogInv, TokenInv

(* An administrative change logs the account it leaves.                    *)
LEMMA AccountChanges ==
    ASSUME Sound, NEW u \in Users, NEW account \in Account,
           account.version = users[u].version, ChangeAccount(u, account)
    PROVE  Sound' /\ Later
<1> DEFINE bumped == [account EXCEPT !.version = @ + 1]
           old == users[u].version
<1>1. /\ users' = [users EXCEPT ![u] = bumped]
      /\ accountLog' = [accountLog EXCEPT ![u] = Append(@, Authority(bumped))]
      /\ UNCHANGED <<tokens, creds, now>> /\ old < MaxVersion
  BY DEF ChangeAccount
<1>2. old \in Nat /\ now \in Nat /\ \A w \in Users : users[w].version \in Nat
  BY RowTypes DEF Sound
<1>3. bumped \in Account /\ bumped.version = old + 1
  BY <1>1, <1>2, Bounds DEF Account
<1>4. Authority(bumped) \in LoggedAuthority
  BY <1>3 DEF Authority, LoggedAuthority, Account
<1> HIDE DEF bumped
<1>5. /\ users' \in [Users -> Account]
      /\ \A w \in Users : users'[w] = IF w = u THEN bumped ELSE users[w]
  BY <1>1, <1>3 DEF Sound, AccountsStateTyped
<1>6. /\ accountLog[u] \in Seq(LoggedAuthority) /\ Len(accountLog[u]) = old
      /\ accountLog'[u] = Append(accountLog[u], Authority(bumped))
      /\ \A w \in Users \ {u} : accountLog'[w] = accountLog[w]
      /\ accountLog' \in [Users -> Seq(LoggedAuthority)]
  BY <1>1, <1>4 DEF Sound, AccountsStateTyped, LogInv
<1>7. /\ Len(accountLog'[u]) = old + 1
      /\ accountLog'[u][old + 1] = Authority(bumped)
      /\ \A v \in 1..old : accountLog'[u][v] = accountLog[u][v]
  BY <1>2, <1>4, <1>6
<1>8. AccountsStateTyped'
  BY <1>1, <1>5, <1>6 DEF Sound, AccountsStateTyped
<1>9. LogInv'
  BY <1>3, <1>5, <1>6, <1>7 DEF Sound, LogInv
<1>10. Later
  BY <1>1, <1>2, <1>3, <1>5, <1>6, <1>7 DEF Later
<1>11. TokenInv'
  <2>1. \A t \in tokens : /\ t.user \in Users /\ t.version \in 1..users[t.user].version
                          /\ users'[t.user].version \in Nat
    <3>1. \A w \in Users : users'[w].version \in Nat
      BY <1>2, <1>3, <1>5
    <3> QED
      BY <1>2, <3>1, RowTypes DEF Sound, TokenInv
  <2>2. \A t \in tokens : /\ users[t.user].version <= users'[t.user].version
                          /\ accountLog'[t.user][t.version] = accountLog[t.user][t.version]
    BY <1>10, <2>1 DEF Later
  <2>3. \A t \in tokens : t.version <= users'[t.user].version
    BY <1>2, <2>1, <2>2
  <2> QED
    BY <1>1, <2>2, <2>3 DEF Sound, TokenInv
<1> QED
  BY <1>8, <1>9, <1>10, <1>11 DEF Sound

LEMMA AdminSteps ==
    ASSUME Sound, NEW u \in Users, ChangeUserRole(u) \/ SetUserActive(u) \/ ResetUserPassword(u)
    PROVE  Sound' /\ Later
<1>1. users[u] \in Account
  BY RowTypes DEF Sound
<1>2. CASE ChangeUserRole(u)
  <2>1. PICK role \in {"admin", "viewer"} : ChangeAccount(u, [users[u] EXCEPT !.role = role])
    BY <1>2 DEF ChangeUserRole
  <2>2. /\ [users[u] EXCEPT !.role = role] \in Account
        /\ [users[u] EXCEPT !.role = role].version = users[u].version
    BY <1>1 DEF Account
  <2> QED
    BY <2>1, <2>2, AccountChanges
<1>3. CASE SetUserActive(u)
  <2>1. PICK active \in BOOLEAN : ChangeAccount(u, [users[u] EXCEPT !.active = active])
    BY <1>3 DEF SetUserActive
  <2>2. /\ [users[u] EXCEPT !.active = active] \in Account
        /\ [users[u] EXCEPT !.active = active].version = users[u].version
    BY <1>1 DEF Account
  <2> QED
    BY <2>1, <2>2, AccountChanges
<1>4. CASE ResetUserPassword(u)
  <2>1. PICK p \in Passwords :
          ChangeAccount(u, [users[u] EXCEPT !.hash = [password |-> p, legacy |-> FALSE]])
    BY <1>4 DEF ResetUserPassword
  <2>2. /\ [users[u] EXCEPT !.hash = [password |-> p, legacy |-> FALSE]] \in Account
        /\ [users[u] EXCEPT !.hash = [password |-> p, legacy |-> FALSE]].version = users[u].version
    BY <1>1 DEF Account
  <2> QED
    BY <2>1, <2>2, AccountChanges
<1> QED
  BY <1>2, <1>3, <1>4

(* The upgrade of a hash keeps the password, so the log stays true.        *)
LEMMA UpgradeStep ==
    ASSUME Sound, NEW r \in Calls, LoginInv(r), call[r].request \in AnyRequest, LoginUpgrade(r)
    PROVE  Sound' /\ Later
<1>1. call[r].request.user \in Users
  BY DEF LoginInv, LoginUpgrade, At, AnyRequest, WorkspaceRequests, StatementRequests,
     ViewRequests, CredentialRequests, Reads, Logins
<1>2. UNCHANGED <<accountLog, tokens, creds, now>>
  BY DEF LoginUpgrade
<1>3. CASE UNCHANGED users
  BY <1>2, <1>3, SameAccounts DEF AccountsState
<1>4. CASE users' = [users EXCEPT ![call[r].request.user].hash.legacy = FALSE]
  <2> DEFINE u == call[r].request.user
             fresh == [users[u] EXCEPT !.hash.legacy = FALSE]
  <2>1. users[u] \in Account
    BY <1>1, RowTypes DEF Sound
  <2>2. /\ fresh \in Account /\ fresh.version = users[u].version
        /\ Authority(fresh) = Authority(users[u])
    BY <2>1 DEF Account, Authority
  <2>3. users' = [users EXCEPT ![u] = fresh]
    BY <1>4
  <2> HIDE DEF fresh, u
  <2>4. users' \in [Users -> Account]
    BY <2>2, <2>3 DEF Sound, AccountsStateTyped
  <2>5. \A w \in Users : /\ users'[w].version = users[w].version
                         /\ Authority(users'[w]) = Authority(users[w])
    BY <1>1, <2>2, <2>3 DEF Sound, AccountsStateTyped, u
  <2>6. now <= now' /\ \A w \in Users : users[w].version <= users'[w].version
    BY <1>2, <2>5, RowTypes DEF Sound
  <2>7. \A t \in tokens : t.user \in Users
    BY RowTypes DEF Sound
  <2> QED
    BY <1>2, <2>4, <2>5, <2>6, <2>7 DEF Sound, AccountsStateTyped, LogInv, TokenInv, Later
<1> QED
  BY <1>3, <1>4 DEF LoginUpgrade, UpgradePasswordHash

(* A token is signed for the version the login read.                       *)
LEMMA IssueStep ==
    ASSUME Sound, NEW r \in Calls, LoginInv(r), call[r].request \in AnyRequest, IssueToken(r)
    PROVE  Sound' /\ Later
<1> DEFINE q == call[r].request
           t == [user |-> q.user, version |-> call[r].read.version,
                 issuedAt |-> now, password |-> q.password]
<1>1. q.user \in Users /\ q.password \in Passwords
  BY DEF LoginInv, IssueToken, At, AnyRequest, WorkspaceRequests, StatementRequests,
     ViewRequests, CredentialRequests, Reads, Logins
<1>2. UNCHANGED <<users, accountLog, creds, now>> /\ tokens' = tokens \cup {t}
  BY DEF IssueToken
<1>3. /\ t \in Token /\ t.version <= users[t.user].version
      /\ t.password = accountLog[t.user][t.version].password
  BY <1>1 DEF LoginInv, IssueToken, At, Token, Account, Sound, AccountsStateTyped
<1> HIDE DEF t
<1>4. now <= now' /\ \A w \in Users : users[w].version <= users'[w].version
  BY <1>2, RowTypes DEF Sound
<1> QED
  BY <1>2, <1>3, <1>4 DEF Sound, AccountsStateTyped, LogInv, TokenInv, Later

(* A credential row that changes keeps its scopes and its expiry, and what *)
(* was revoked stays revoked; a new row takes a free id.                   *)
LEMMA CredentialChanges ==
    ASSUME Sound, UNCHANGED <<users, accountLog, tokens, now>>, NEW c \in Creds,
           NEW row \in Credential, creds' = [creds EXCEPT ![c] = row],
           creds[c] # None => /\ row.reads = creds[c].reads
                              /\ row.expiresAt = creds[c].expiresAt
                              /\ creds[c].revoked => row.revoked
    PROVE  Sound' /\ Later
<1>1. creds' \in [Creds -> Credential \cup {None}]
  BY DEF Sound, AccountsStateTyped
<1>2. \A d \in Creds : creds'[d] = IF d = c THEN row ELSE creds[d]
  BY DEF Sound, AccountsStateTyped
<1>3. row # None
  BY AbsenceAssumption
<1>4. now <= now' /\ \A u \in Users : users[u].version <= users'[u].version
  BY RowTypes DEF Sound
<1> QED
  BY <1>1, <1>2, <1>3, <1>4 DEF Sound, AccountsStateTyped, LogInv, TokenInv, Later

(* What a request may name.                                                *)
LEMMA RequestTypes ==
    ASSUME NEW q \in AnyRequest
    PROVE  /\ q.by \in {"user", "machine", "login"}
           /\ q.by = "login" => q.user \in Users /\ q.password \in Passwords
           /\ q.by = "machine" => q.op = "viewList"
           /\ q.by = "user" =>
                /\ q.op = "wsPut" => q.expected \in Nat
                /\ q.op \in {"stCreate", "viewCreate"} => q.scope \in {"shared", "personal"}
                /\ q.op \in {"stUpdate", "stDelete", "stRead"} => q.id \in Statements
                /\ q.op \in {"viewUpdate", "viewDelete"} => q.id \in Views
                /\ q.op \in {"credRotate", "credRevoke"} => q.id \in Creds
BY DEF AnyRequest, WorkspaceRequests, StatementRequests,
   ViewRequests, CredentialRequests, Reads, Logins

LEMMA InsertCredentialStep ==
    ASSUME Sound, NEW r \in Calls, InsertMachineCredential(r),
           UNCHANGED <<users, accountLog, tokens, now>>
    PROVE  Sound' /\ Later
<1>1. PICK c \in Creds, reads \in BOOLEAN, expiry \in now + 1..MaxNow + 1 :
        /\ creds[c] = None
        /\ creds' = [creds EXCEPT ![c] = [revoked |-> FALSE, reads |-> reads,
                                          expiresAt |-> expiry, lastUsedAt |-> None]]
  BY DEF InsertMachineCredential
<1>2. [revoked |-> FALSE, reads |-> reads, expiresAt |-> expiry, lastUsedAt |-> None] \in Credential
  BY RowTypes, Bounds DEF Sound, Credential
<1> QED
  BY <1>1, <1>2, CredentialChanges

LEMMA RevokeStep ==
    ASSUME Sound, NEW r \in Calls, call[r].request \in AnyRequest, call[r].request.by = "user",
           Revoke(r)
    PROVE  Sound' /\ Later
<1> DEFINE c == call[r].request.id
<1>1. c \in Creds
  BY RequestTypes DEF Revoke, Admin
<1>2. UNCHANGED <<users, accountLog, tokens, now>>
  BY DEF Revoke
<1>3. CASE UNCHANGED creds
  BY <1>2, <1>3, SameAccounts DEF AccountsState
<1>4. CASE creds[c] # None /\ creds' = [creds EXCEPT ![c].revoked = TRUE]
  <2> DEFINE row == [creds[c] EXCEPT !.revoked = TRUE]
  <2>1. creds[c] \in Credential
    BY <1>1, <1>4, RowTypes DEF Sound
  <2>2. /\ row \in Credential /\ row.reads = creds[c].reads
        /\ row.expiresAt = creds[c].expiresAt /\ row.revoked
    BY <2>1 DEF Credential
  <2>3. creds' = [creds EXCEPT ![c] = row]
    BY <1>4
  <2> HIDE DEF row, c
  <2> QED
    BY <1>1, <1>2, <2>2, <2>3, CredentialChanges
<1> QED
  BY <1>3, <1>4 DEF Revoke

LEMMA MarkUsedStep ==
    ASSUME Sound, NEW r \in Calls, MachineInv(r), MarkUsed(r)
    PROVE  Sound' /\ Later
<1> DEFINE c == call[r].credential
           stamp == call[r].stamp
<1>1. c \in Creds /\ creds[c] # None /\ stamp \in 0..MaxNow
  BY DEF MarkUsed, MachineInv, At
<1>2. UNCHANGED <<users, accountLog, tokens, now>>
  BY DEF MarkUsed
<1>3. CASE UNCHANGED creds
  BY <1>2, <1>3, SameAccounts DEF AccountsState
<1>4. CASE creds' = [creds EXCEPT ![c].lastUsedAt = stamp]
  <2> DEFINE row == [creds[c] EXCEPT !.lastUsedAt = stamp]
  <2>1. creds[c] \in Credential
    BY <1>1, RowTypes DEF Sound
  <2>2. /\ row \in Credential /\ row.reads = creds[c].reads
        /\ row.expiresAt = creds[c].expiresAt /\ row.revoked = creds[c].revoked
    BY <1>1, <2>1 DEF Credential
  <2>3. creds' = [creds EXCEPT ![c] = row]
    BY <1>4
  <2> HIDE DEF row, c, stamp
  <2> QED
    BY <1>1, <1>2, <2>2, <2>3, CredentialChanges
<1> QED
  BY <1>3, <1>4 DEF MarkUsed

LEMMA InvParts ==
    ASSUME AccountsInv
    PROVE  /\ Sound /\ CallsShaped
           /\ \A r \in Calls : call[r].request \in AnyRequest
           /\ \A r \in Calls : LoginInv(r) /\ MachineInv(r) /\ VerifyInv(r) /\ ActorInv(r)
BY DEF AccountsInv, AccountsTyped, Sound, AccountsStateTyped, CallsShaped

(* An administrator is a user.                                             *)
LEMMA AdminIsUser ==
    ASSUME AccountsInv, NEW r \in Calls, call[r].pc \in Serving, IsAdmin(r)
    PROVE  UserActor(r) /\ call[r].request.by = "user"
BY InvParts DEF ActorInv, UserActor, MachineActor, IsAdmin

(* A step of a handler.                                                    *)
ShelfStep(r) ==
    \/ RefuseWorkspaceBody(r) \/ PutQueryWorkspace(r) \/ GetQueryWorkspace(r)
    \/ RefuseStatementBody(r) \/ RefuseStatement(r) \/ CreateSavedStatement(r)
    \/ AuthorizeStatement(r) \/ WriteStatement(r) \/ ReadStatement(r) \/ ListStatements(r)
    \/ LoadParameterDefinitions(r)
    \/ RefuseView(r) \/ CreateNamedInventoryView(r) \/ ReadBackView(r)
    \/ AuthorizeView(r) \/ WriteView(r) \/ ListViews(r)

(* Accounts, tokens and credentials stay sound and nothing is taken back.  *)
LEMMA StateStep ==
    ASSUME AccountsInv, [Next]_vars
    PROVE  Sound' /\ Later
<1>1. Sound /\ \A r \in Calls : /\ call[r].request \in AnyRequest
                                /\ LoginInv(r) /\ MachineInv(r)
  BY InvParts
<1>2. CASE ShelfNext \/ UNCHANGED vars
  <2>1. UNCHANGED accountVars
    BY <1>2 DEF ShelfNext, vars, RefuseWorkspaceBody, PutQueryWorkspace, GetQueryWorkspace,
       RefuseStatementBody, RefuseStatement, CreateSavedStatement, AuthorizeStatement,
       WriteStatement, ReadStatement, ListStatements, LoadParameterDefinitions, RefuseView,
       CreateNamedInventoryView, ReadBackView, AuthorizeView, WriteView, ListViews
  <2> QED
    BY <1>1, <2>1, SameAccounts DEF accountVars, AccountsState
<1>3. CASE Tick \/ \E u \in Users : ChangeUserRole(u) \/ SetUserActive(u) \/ ResetUserPassword(u)
  BY <1>1, <1>3, ClockMoves, AdminSteps
<1>4. ASSUME NEW r \in Calls,
             \/ Arrive(r) \/ Login(r) \/ VerifyBearer(r) \/ RejectClock(r) \/ RejectCount(r)
             \/ Authenticate(r) \/ MarkUsedRecheck(r) \/ RefuseNonAdmin(r)
             \/ RefuseCredentialBody(r) \/ ListMachinePrincipals(r)
      PROVE  Sound' /\ Later
  <2>1. UNCHANGED AccountsState
    BY <1>4 DEF Arrive, Login, VerifyBearer, RejectClock, RejectCount, Authenticate,
       MarkUsedRecheck, RefuseNonAdmin, RefuseCredentialBody, ListMachinePrincipals,
       accountVars, AccountsState
  <2> QED
    BY <1>1, <2>1, SameAccounts
<1>5. ASSUME NEW r \in Calls, LoginUpgrade(r) \/ IssueToken(r) \/ MarkUsed(r)
      PROVE  Sound' /\ Later
  BY <1>1, <1>5, UpgradeStep, IssueStep, MarkUsedStep
<1>6. ASSUME NEW r \in Calls, CreateMachinePrincipal(r) \/ Rotate(r)
      PROVE  Sound' /\ Later
  <2>1. UNCHANGED <<users, accountLog, tokens, now>>
    BY <1>6 DEF CreateMachinePrincipal, Rotate
  <2>2. InsertMachineCredential(r) \/ UNCHANGED creds
    BY <1>6 DEF CreateMachinePrincipal, Rotate
  <2> QED
    BY <1>1, <2>1, <2>2, InsertCredentialStep, SameAccounts DEF AccountsState
<1>7. ASSUME NEW r \in Calls, Revoke(r)
      PROVE  Sound' /\ Later
  <2>1. call[r].request.by = "user"
    BY <1>7, AdminIsUser DEF Revoke, Admin, At, Serving
  <2> QED
    BY <1>1, <1>7, <2>1, RevokeStep
<1> QED
  BY <1>2, <1>3, <1>4, <1>5, <1>6, <1>7 DEF Next, AccountsNext

-----------------------------------------------------------------------------
(* The calls: those that do not move keep their invariants.                *)

CallInv(r) == LoginInv(r) /\ MachineInv(r) /\ VerifyInv(r) /\ ActorInv(r)

LEMMA CallStays ==
    ASSUME AccountsInv, Later, Sound', NEW r \in Calls, call'[r] = call[r]
    PROVE  CallInv(r)'
<1>1. /\ Sound /\ call[r].request \in AnyRequest
      /\ LoginInv(r) /\ MachineInv(r) /\ VerifyInv(r) /\ ActorInv(r)
  BY InvParts
<1>2. /\ \A u \in Users : users[u].version \in Nat
      /\ \A t \in tokens : t.user \in Users /\ t.version \in Nat /\ t.version \in 1..users[t.user].version
      /\ \A c \in Creds : creds[c] # None => creds[c].expiresAt \in Nat
      /\ now \in Nat
  BY <1>1, RowTypes DEF Sound, TokenInv
<1>3. /\ \A u \in Users : users'[u].version \in Nat
      /\ now' \in Nat
  BY RowTypes, Bounds DEF Sound, AccountsStateTyped, Account
<1>4. LoginInv(r)'
  <2> SUFFICES ASSUME call[r].pc \in {"find", "upgrade", "issue"}, call[r].pc # "find"
               PROVE  LET q == call[r].request
                          account == call[r].read
                      IN  /\ account \in Account
                          /\ account.version <= users'[q.user].version
                          /\ account.hash.password = q.password
                          /\ accountLog'[q.user][account.version].password = q.password
    BY <1>1 DEF LoginInv
  <2>1. call[r].request.user \in Users /\ call[r].read.version \in Nat \ {0}
    BY <1>1, RequestTypes, Bounds DEF LoginInv, Account
  <2>2. call[r].read.version \in 1..users[call[r].request.user].version
    BY <1>1, <1>2, <2>1 DEF LoginInv
  <2> QED
    BY <1>1, <1>2, <1>3, <2>1, <2>2 DEF LoginInv, Later
<1>5. MachineInv(r)'
  BY <1>1, <1>2, <1>3 DEF MachineInv, Valid, Later
<1>6. VerifyInv(r)'
  BY <1>1, <1>2, <1>3 DEF VerifyInv, Later
<1>7. ActorInv(r)'
  BY <1>1, <1>2 DEF ActorInv, UserActor, MachineActor, Later
<1> QED
  BY <1>4, <1>5, <1>6, <1>7 DEF CallInv

(* A call that is answered has nothing left to keep.                       *)
LEMMA CallDone ==
    ASSUME NEW r \in Calls, call'[r].pc = "done"
    PROVE  CallInv(r)'
BY DEF CallInv, LoginInv, MachineInv, VerifyInv, ActorInv, Serving

(* What a handler never touches.                                           *)
Kept(r) ==
    /\ CallsShaped'
    /\ \A s \in Calls \ {r} : call'[s] = call[s]
    /\ call'[r].request = call[r].request
    /\ call'[r].credential = call[r].credential
    /\ call'[r].actor = call[r].actor
    /\ call'[r].born = call[r].born

LEMMA AnswerKeeps ==
    ASSUME CallsShaped, NEW r \in Calls, NEW answer, Answer(r, answer)
    PROVE  Kept(r) /\ call'[r].pc = "done" /\ call'[r].shown = call[r].shown
BY Answered DEF Kept

(* A move inside a handler replaces no more than what was read and shown.  *)
LEMMA HandlerMoves ==
    ASSUME CallsShaped, NEW r \in Calls, NEW pc, NEW fields, Move(r, pc, fields),
           DOMAIN fields \cap CallFields \subseteq {"read", "answer", "shown", "stamp"}
    PROVE  /\ Kept(r) /\ call'[r].pc = pc
           /\ call'[r].shown = IF "shown" \in DOMAIN fields THEN fields.shown ELSE call[r].shown
BY Moved DEF Kept, CallFields

(* From the middleware on, a handler keeps the caller and moves the call   *)
(* to a place behind it or answers; a machine is answered at once.         *)
LEMMA ShelfKeeps ==
    ASSUME AccountsInv, NEW r \in Calls, ShelfStep(r)
    PROVE  /\ Kept(r)
           /\ call[r].pc \in Serving
           /\ call'[r].pc \in (Serving \ {"accepted"}) \cup {"done"}
           /\ call'[r].pc # "done" => UserActor(r)
           /\ \/ GetQueryWorkspace(r) \/ LoadParameterDefinitions(r)
              \/ call'[r].shown = call[r].shown
           /\ call'[r].pc = "stParams" => ListStatements(r)
           /\ call'[r].pc = "stWrite" => AuthorizeStatement(r)
           /\ call'[r].pc = "viewWrite" => AuthorizeView(r)
<1>1. CallsShaped
  BY InvParts
<1>2. /\ ActorInv(r) /\ call[r].request \in AnyRequest
      /\ \A op : Op(r, op) /\ op # "viewList" => UserActor(r)
  BY InvParts, RequestTypes DEF Op, At, ActorInv, Serving, MachineActor
<1>3. CASE \/ RefuseWorkspaceBody(r) \/ RefuseStatementBody(r) \/ RefuseStatement(r)
           \/ RefuseView(r) \/ ReadBackView(r) \/ WriteStatement(r) \/ ReadStatement(r)
           \/ WriteView(r) \/ ListViews(r)
  <2>1. \E answer : Answer(r, answer)
    BY <1>3 DEF RefuseWorkspaceBody, RefuseStatementBody, RefuseStatement, RefuseView,
       ReadBackView, WriteStatement, ReadStatement, WriteView, ListViews
  <2>2. call[r].pc \in Serving
    BY <1>3 DEF RefuseWorkspaceBody, RefuseStatementBody, RefuseStatement, RefuseView,
       ReadBackView, WriteStatement, ReadStatement, WriteView, ListViews, Op, At, Serving
  <2> QED
    BY <1>1, <2>1, <2>2, AnswerKeeps
<1>4. CASE PutQueryWorkspace(r)
  <2>1. Move(r, "wsRead", <<>>) \/ Answer(r, "conflict")
    BY <1>4 DEF PutQueryWorkspace
  <2>2. DOMAIN <<>> \cap CallFields = {}
    BY DEF CallFields
  <2>3. Move(r, "wsRead", <<>>) =>
          Kept(r) /\ call'[r].pc = "wsRead" /\ call'[r].shown = call[r].shown
    <3>1. "shown" \notin DOMAIN <<>>
      OBVIOUS
    <3> QED
      BY <1>1, <2>2, <3>1, HandlerMoves
  <2>4. call[r].pc \in Serving /\ UserActor(r)
    BY <1>2, <1>4 DEF PutQueryWorkspace, Op, At, Serving
  <2> QED
    BY <1>1, <2>1, <2>3, <2>4, AnswerKeeps DEF Serving
<1>5. CASE GetQueryWorkspace(r)
  <2>1. PICK v : Move(r, "done", [shown |-> v])
    BY <1>5 DEF GetQueryWorkspace
  <2>2. call[r].pc \in Serving
    BY <1>5 DEF GetQueryWorkspace, Op, At, Serving
  <2> QED
    BY <1>1, <1>5, <2>1, <2>2, HandlerMoves
<1>6. CASE CreateSavedStatement(r) \/ CreateNamedInventoryView(r)
  <2>1. (\E i : Move(r, "viewBack", [read |-> i])) \/ (\E answer : Answer(r, answer))
    BY <1>6 DEF CreateSavedStatement, CreateNamedInventoryView, InsertRow
  <2>2. call[r].pc \in Serving /\ UserActor(r)
    BY <1>2, <1>6 DEF CreateSavedStatement, CreateNamedInventoryView, Op, At, Serving
  <2>3. ASSUME NEW v, Move(r, "viewBack", [read |-> v])
        PROVE  Kept(r) /\ call'[r].pc = "viewBack" /\ call'[r].shown = call[r].shown
    BY <1>1, <2>3, HandlerMoves
  <2> QED
    BY <1>1, <2>1, <2>2, <2>3, AnswerKeeps DEF Serving
<1>7. CASE AuthorizeStatement(r)
  <2>1. Move(r, "stWrite", <<>>) \/ (\E answer : Answer(r, answer))
    BY <1>7 DEF AuthorizeStatement
  <2>2. DOMAIN <<>> \cap CallFields = {}
    BY DEF CallFields
  <2>3. call[r].pc \in Serving /\ UserActor(r)
    BY <1>2, <1>7 DEF AuthorizeStatement, Op, At, Serving
  <2> QED
    BY <1>1, <1>7, <2>1, <2>2, <2>3, AnswerKeeps, HandlerMoves DEF Serving
<1>8. CASE AuthorizeView(r)
  <2>1. (\E v : Move(r, "viewWrite", [read |-> v])) \/ (\E answer : Answer(r, answer))
    BY <1>8 DEF AuthorizeView
  <2>2. call[r].pc \in Serving /\ UserActor(r)
    BY <1>2, <1>8 DEF AuthorizeView, Op, At, Serving
  <2>3. ASSUME NEW v, Move(r, "viewWrite", [read |-> v])
        PROVE  Kept(r) /\ call'[r].pc = "viewWrite" /\ call'[r].shown = call[r].shown
    BY <1>1, <2>3, HandlerMoves
  <2> QED
    BY <1>1, <1>8, <2>1, <2>2, <2>3, AnswerKeeps DEF Serving
<1>9. CASE ListStatements(r)
  <2>1. PICK v : Move(r, "stParams", [read |-> v])
    BY <1>9 DEF ListStatements
  <2>2. call[r].pc \in Serving /\ UserActor(r)
    BY <1>2, <1>9 DEF ListStatements, Op, At, Serving
  <2> QED
    BY <1>1, <1>9, <2>1, <2>2, HandlerMoves DEF Serving
<1>10. CASE LoadParameterDefinitions(r)
  <2>1. PICK v : Move(r, "done", [answer |-> "ok", read |-> None, shown |-> v])
    BY <1>10 DEF LoadParameterDefinitions
  <2> QED
    BY <1>1, <1>10, <2>1, HandlerMoves DEF LoadParameterDefinitions, At, Serving
<1> QED
  BY <1>3, <1>4, <1>5, <1>6, <1>7, <1>8, <1>9, <1>10 DEF ShelfStep

(* The steps in front of a handler.                                        *)
Moves(r) ==
    /\ CallsShaped'
    /\ \A s \in Calls \ {r} : call'[s] = call[s]
    /\ call'[r].request = call[r].request
    /\ call'[r].shown = call[r].shown

LEMMA MoveMoves ==
    ASSUME CallsShaped, NEW r \in Calls, NEW pc, NEW fields, Move(r, pc, fields),
           "request" \notin DOMAIN fields, "shown" \notin DOMAIN fields
    PROVE  /\ Moves(r) /\ call'[r].pc = pc
           /\ \A f \in {"credential", "read", "stamp", "actor", "born", "answer"} :
                call'[r][f] = IF f \in DOMAIN fields THEN fields[f] ELSE call[r][f]
BY Moved DEF Moves, CallFields

LEMMA AnswerMoves ==
    ASSUME CallsShaped, NEW r \in Calls, NEW answer, Answer(r, answer)
    PROVE  Moves(r) /\ call'[r].pc = "done" /\ CallInv(r)'
BY Answered, CallDone DEF Moves

LEMMA ArriveOwn ==
    ASSUME AccountsInv, NEW r \in Calls, Arrive(r)
    PROVE  Moves(r) /\ CallInv(r)' /\ call'[r].pc \notin Settled \ {"done"} /\ call'[r].pc # "count"
<1> DEFINE q == call[r].request
<1>1. /\ CallsShaped /\ Sound /\ q \in AnyRequest /\ UNCHANGED <<users, accountLog, tokens, creds, now>>
  BY InvParts DEF Arrive, accountVars
<1>2. CASE q.by = "login" /\ Move(r, "find", <<>>)
  <2>1. \A f : f \in {"request", "shown", "credential"} => f \notin DOMAIN <<>>
    OBVIOUS
  <2>2. Moves(r) /\ call'[r].pc = "find"
    BY <1>1, <1>2, <2>1, MoveMoves
  <2> QED
    BY <1>2, <2>2 DEF CallInv, LoginInv, MachineInv, VerifyInv, ActorInv, Serving, Settled, Moves
<1>3. CASE \E answer : Answer(r, answer)
  BY <1>1, <1>3, AnswerMoves
<1>4. ASSUME NEW t \in tokens \cup {Damaged}, q.by = "user",
             Move(r, "verify", [credential |-> t,
                                born |-> IF t = Damaged THEN None ELSE users[t.user].version])
      PROVE  Moves(r) /\ CallInv(r)' /\ call'[r].pc = "verify"
  <2>1. /\ Moves(r) /\ call'[r].pc = "verify" /\ call'[r].credential = t
        /\ call'[r].born = IF t = Damaged THEN None ELSE users[t.user].version
    BY <1>1, <1>4, MoveMoves
  <2>2. t # Damaged => users[t.user].version \in 1..users[t.user].version
    BY <1>1, RowTypes DEF Sound
  <2> QED
    BY <1>1, <1>4, <2>1, <2>2 DEF CallInv, LoginInv, MachineInv, VerifyInv, ActorInv, Serving, Moves
<1>5. ASSUME NEW c \in {d \in Creds : creds[d] # None} \cup {Damaged}, q.by = "machine",
             Move(r, "findCredential",
                  [credential |-> c,
                   born |-> IF c = Damaged THEN None
                            ELSE creds[c].revoked \/ creds[c].expiresAt <= now
                                 \/ ~creds[c].reads])
      PROVE  Moves(r) /\ CallInv(r)' /\ call'[r].pc = "findCredential"
  <2>1. /\ Moves(r) /\ call'[r].pc = "findCredential" /\ call'[r].credential = c
        /\ c # Damaged =>
             call'[r].born = (creds[c].revoked \/ creds[c].expiresAt <= now \/ ~creds[c].reads)
    BY <1>1, <1>5, MoveMoves
  <2>2. c # Damaged =>
          c \in Creds /\ creds[c] # None /\ creds[c].expiresAt \in Nat /\ now \in Nat
    BY <1>1, <1>5, RowTypes DEF Sound
  <2>3. c # Damaged /\ Valid(c) =>
          ~(creds[c].revoked \/ creds[c].expiresAt <= now \/ ~creds[c].reads)
    BY <2>2 DEF Valid
  <2>4. c # Damaged /\ Valid(c) => call'[r].born = FALSE
    BY <2>1, <2>3
  <2>5. MachineInv(r)'
    BY <1>1, <1>5, <2>1, <2>2, <2>4 DEF MachineInv, Valid, Moves
  <2> QED
    BY <2>1, <2>5 DEF CallInv, LoginInv, VerifyInv, ActorInv, Serving
<1> QED
  BY <1>2, <1>3, <1>4, <1>5 DEF Arrive, Settled, Serving

(* The last entry of the log, field by field.                              *)
LEMMA LastLogged ==
    ASSUME Sound, NEW u \in Users
    PROVE  LET a == accountLog[u][users[u].version]
           IN  /\ a.active = users[u].active /\ a.role = users[u].role
               /\ a.password = users[u].hash.password
<1>1. accountLog[u][users[u].version] = Authority(users[u])
  BY DEF Sound, LogInv
<1> QED
  BY <1>1 DEF Authority

LEMMA LoginOwn ==
    ASSUME AccountsInv, NEW r \in Calls, Login(r) \/ LoginUpgrade(r) \/ IssueToken(r)
    PROVE  Moves(r) /\ CallInv(r)' /\ call'[r].pc \in {"upgrade", "issue", "done"}
<1> DEFINE q == call[r].request
<1>1. /\ CallsShaped /\ Sound /\ q \in AnyRequest /\ LoginInv(r) /\ UNCHANGED accountLog
  BY InvParts DEF Login, LoginUpgrade, IssueToken, accountVars
<1>2. call[r].pc \in {"find", "upgrade", "issue"}
  BY DEF Login, LoginUpgrade, IssueToken, At
<1>3. q.by = "login" /\ q.user \in Users
  BY <1>1, <1>2, RequestTypes DEF LoginInv
<1>4. CASE \E answer : Answer(r, answer)
  BY <1>1, <1>4, AnswerMoves
<1>5. ASSUME NEW pc \in {"upgrade", "issue"}, NEW account \in Account,
             Move(r, pc, [read |-> account]),
             \A u \in Users : users'[u].version = users[u].version,
             account.version <= users[q.user].version, account.hash.password = q.password,
             accountLog[q.user][account.version].password = q.password
      PROVE  Moves(r) /\ CallInv(r)' /\ call'[r].pc \in {"upgrade", "issue"}
  <2>1. Moves(r) /\ call'[r].pc = pc /\ call'[r].read = account
    BY <1>1, <1>5, MoveMoves
  <2> QED
    BY <1>1, <1>3, <1>5, <2>1 DEF CallInv, LoginInv, MachineInv, VerifyInv, ActorInv, Serving, Moves
<1>6. CASE Login(r)
  <2> DEFINE account == users[q.user]
  <2>1. /\ account \in Account /\ account.version \in Nat
        /\ accountLog[q.user][account.version].password = account.hash.password
    BY <1>1, <1>3, RowTypes, LastLogged DEF Sound
  <2>2. UNCHANGED users
    BY <1>6 DEF Login, accountVars
  <2>3. \/ \E answer : Answer(r, answer)
        \/ /\ account.hash.password = q.password
           /\ \E pc \in {"upgrade", "issue"} : Move(r, pc, [read |-> account])
    BY <1>6 DEF Login, FindByEmail, VerifyPassword, HandleLogin
  <2>4. account.version <= users[q.user].version
    BY <2>1
  <2>5. CASE \E answer : Answer(r, answer)
    BY <1>4, <2>5
  <2>6. CASE \E pc \in {"upgrade", "issue"} : Move(r, pc, [read |-> account])
    <3>1. PICK pc \in {"upgrade", "issue"} : Move(r, pc, [read |-> account])
      BY <2>6
    <3> QED
      BY <1>4, <1>5, <2>1, <2>2, <2>3, <2>4, <3>1
  <2> QED
    BY <2>3, <2>5, <2>6
<1>7. CASE LoginUpgrade(r)
  <2>1. CASE HandleLogin(r, FALSE)
    BY <1>4, <2>1 DEF HandleLogin
  <2>2. CASE /\ users' = [users EXCEPT ![q.user].hash.legacy = FALSE]
             /\ Move(r, "issue", [read |-> [call[r].read EXCEPT !.hash.legacy = FALSE]])
    <3> DEFINE account == [call[r].read EXCEPT !.hash.legacy = FALSE]
    <3>1. /\ call[r].read \in Account /\ call[r].read.version <= users[q.user].version
          /\ call[r].read.hash.password = q.password
          /\ accountLog[q.user][call[r].read.version].password = q.password
      BY <1>1, <1>7 DEF LoginUpgrade, At, LoginInv
    <3>2. /\ account \in Account /\ account.version = call[r].read.version
          /\ account.hash.password = call[r].read.hash.password
      BY <3>1 DEF Account
    <3>3. \A u \in Users : users'[u].version = users[u].version
      BY <1>1, <1>3, <2>2 DEF Sound, AccountsStateTyped, Account
    <3> HIDE DEF account
    <3> QED
      BY <1>5, <2>2, <3>1, <3>2, <3>3 DEF account
  <2> QED
    BY <1>7, <2>1, <2>2 DEF LoginUpgrade, UpgradePasswordHash
<1>8. CASE IssueToken(r)
  BY <1>4, <1>8 DEF IssueToken, HandleLogin
<1> QED
  BY <1>6, <1>7, <1>8

(* The middleware accepts a token of the account as it is.                 *)
LEMMA VerifyOwn ==
    ASSUME AccountsInv, NEW r \in Calls, VerifyBearer(r)
    PROVE  Moves(r) /\ CallInv(r)' /\ call'[r].pc \in {"reject", "done", "accepted"}
<1> DEFINE t == call[r].credential
<1>1. /\ CallsShaped /\ Sound /\ VerifyInv(r) /\ call[r].pc = "verify"
      /\ UNCHANGED <<users, accountLog, tokens>>
  BY InvParts DEF VerifyBearer, At, accountVars
<1>2. CASE Move(r, "reject", <<>>)
  <2>1. \A f : f \in {"request", "shown"} => f \notin DOMAIN <<>>
    OBVIOUS
  <2>2. Moves(r) /\ call'[r].pc = "reject"
    BY <1>1, <1>2, <2>1, MoveMoves
  <2> QED
    BY <2>2 DEF CallInv, LoginInv, MachineInv, VerifyInv, ActorInv, Serving
<1>3. CASE Answer(r, "unauthorized")
  BY <1>1, <1>3, AnswerMoves
<1>4. CASE /\ TokenIsCurrent(t)
           /\ Move(r, "accepted", [actor |-> [user |-> t.user, role |-> users[t.user].role]])
  <2>1. /\ Moves(r) /\ call'[r].pc = "accepted" /\ call'[r].credential = t
        /\ call'[r].born = call[r].born
        /\ call'[r].actor = [user |-> t.user, role |-> users[t.user].role]
    BY <1>1, <1>4, MoveMoves
  <2>2. /\ call[r].request.by = "user" /\ t \in tokens /\ t.user \in Users
        /\ users[t.user].active /\ users[t.user].version = t.version
        /\ call[r].born \in 1..t.version
    BY <1>1, <1>4, RowTypes DEF VerifyInv, TokenIsCurrent, FindByID, Sound
  <2>3. /\ accountLog[t.user][t.version].active = users[t.user].active
        /\ accountLog[t.user][t.version].role = users[t.user].role
    BY <1>1, <2>2, LastLogged
  <2>4. UserActor(r)'
    BY <1>1, <2>1, <2>2, <2>3 DEF UserActor, Moves
  <2> QED
    BY <2>1, <2>4 DEF CallInv, LoginInv, MachineInv, VerifyInv, ActorInv
<1> QED
  BY <1>2, <1>3, <1>4 DEF VerifyBearer

(* A machine credential found valid was valid when the call arrived.       *)
LEMMA MachineOwn ==
    ASSUME AccountsInv, Later, NEW r \in Calls, Authenticate(r) \/ MarkUsed(r) \/ MarkUsedRecheck(r)
    PROVE  Moves(r) /\ CallInv(r)' /\ call'[r].pc \in {"markUsed", "recheck", "done", "accepted"}
<1> DEFINE c == call[r].credential
<1>1. CallsShaped /\ Sound /\ MachineInv(r)
  BY InvParts
<1>2. CASE \E answer : Answer(r, answer)
  BY <1>1, <1>2, AnswerMoves
<1>3. CASE /\ Authenticate(r) /\ c # Damaged /\ Valid(c)
           /\ Move(r, "markUsed", [stamp |-> now])
  <2>1. /\ Moves(r) /\ call'[r].pc = "markUsed" /\ call'[r].credential = c
        /\ call'[r].born = call[r].born /\ call'[r].stamp = now
    BY <1>1, <1>3, MoveMoves
  <2>2. /\ call[r].request.by = "machine" /\ c \in Creds /\ creds[c] # None
        /\ call[r].born = FALSE /\ now \in 0..MaxNow /\ UNCHANGED creds
    BY <1>1, <1>3 DEF Authenticate, At, MachineInv, Sound, AccountsStateTyped, accountVars
  <2> QED
    BY <2>1, <2>2 DEF CallInv, LoginInv, MachineInv, VerifyInv, ActorInv, Serving, Moves
<1>4. CASE (MarkUsed(r) \/ MarkUsedRecheck(r)) /\ AcceptMachine(r)
  <2>1. /\ Moves(r) /\ call'[r].pc = "accepted" /\ call'[r].born = call[r].born
        /\ call'[r].actor = [user |-> None, role |-> "machine"]
    BY <1>1, <1>4, MoveMoves DEF AcceptMachine
  <2>2. call[r].request.by = "machine" /\ call[r].born = FALSE
    BY <1>1, <1>4 DEF MarkUsed, MarkUsedRecheck, At, MachineInv
  <2> QED
    BY <2>1, <2>2 DEF CallInv, LoginInv, MachineInv, VerifyInv, ActorInv, MachineActor, Moves
<1>5. CASE MarkUsed(r) /\ Move(r, "recheck", <<>>)
  <2>1. \A f : f \in {"request", "shown", "credential", "stamp", "born"} => f \notin DOMAIN <<>>
    OBVIOUS
  <2>2. /\ Moves(r) /\ call'[r].pc = "recheck" /\ call'[r].credential = c
        /\ call'[r].born = call[r].born /\ call'[r].stamp = call[r].stamp
    BY <1>1, <1>5, <2>1, MoveMoves
  <2>3. /\ call[r].request.by = "machine" /\ c \in Creds /\ creds[c] # None
        /\ call[r].born = FALSE /\ call[r].stamp \in 0..MaxNow
    BY <1>1, <1>5 DEF MarkUsed, At, MachineInv
  <2> QED
    BY <2>2, <2>3 DEF CallInv, LoginInv, MachineInv, VerifyInv, ActorInv, Serving, Moves, Later
<1>6. CASE Authenticate(r)
  <2>1. \/ c \in Creds /\ creds[c] # None /\ creds[c].expiresAt \in Nat /\ now \in Nat
        \/ c = Damaged
    BY <1>1, <1>6, RowTypes DEF Authenticate, At, MachineInv, Sound
  <2> QED
    BY <1>2, <1>3, <1>6, <2>1 DEF Authenticate, ParsesAsCredential, FindCredential, HasScope, Valid
<1> QED
  BY <1>2, <1>4, <1>5, <1>6 DEF MarkUsed, MarkUsedRecheck

LEMMA RejectOwn ==
    ASSUME AccountsInv, NEW r \in Calls, RejectClock(r)
    PROVE  Moves(r) /\ CallInv(r)' /\ call'[r].pc = "count" /\ call'[r].stamp \in Nat
<1>1. CallsShaped /\ Sound
  BY InvParts
<1>2. Moves(r) /\ call'[r].pc = "count" /\ call'[r].stamp = now
  BY <1>1, MoveMoves DEF RejectClock
<1> QED
  BY <1>1, <1>2, RowTypes DEF Sound, CallInv, LoginInv, MachineInv, VerifyInv, ActorInv, Serving

(* Everything else of the accounts answers.                                *)
AnsweringStep(r) ==
    \/ RejectCount(r) \/ RefuseNonAdmin(r) \/ RefuseCredentialBody(r)
    \/ CreateMachinePrincipal(r) \/ Rotate(r) \/ Revoke(r) \/ ListMachinePrincipals(r)

LEMMA AnsweringOwn ==
    ASSUME AccountsInv, NEW r \in Calls, AnsweringStep(r)
    PROVE  Moves(r) /\ CallInv(r)' /\ call'[r].pc = "done" /\ Kept(r)
<1>1. \E answer : Answer(r, answer)
  BY DEF AnsweringStep, RejectCount, RefuseNonAdmin, RefuseCredentialBody,
     CreateMachinePrincipal, Rotate, Revoke, ListMachinePrincipals, InsertMachineCredential
<1> QED
  BY <1>1, InvParts, AnswerMoves, AnswerKeeps

AccountStep(r) ==
    \/ Arrive(r) \/ Login(r) \/ LoginUpgrade(r) \/ IssueToken(r)
    \/ VerifyBearer(r) \/ RejectClock(r)
    \/ Authenticate(r) \/ MarkUsed(r) \/ MarkUsedRecheck(r) \/ AnsweringStep(r)

(* A step of the middleware or of an administrator's handler.              *)
LEMMA AccountOwn ==
    ASSUME AccountsInv, Later, NEW r \in Calls, AccountStep(r)
    PROVE  /\ Moves(r) /\ CallInv(r)'
           /\ call'[r].pc = "count" => call'[r].stamp \in Nat
           /\ call'[r].pc \notin Serving \ {"accepted"}
BY ArriveOwn, LoginOwn, VerifyOwn, RejectOwn, MachineOwn, AnsweringOwn
   DEF AccountStep, Serving, Settled

LEMMA ShelfOwn ==
    ASSUME AccountsInv, Later, Sound', NEW r \in Calls, ShelfStep(r)
    PROVE  CallInv(r)'
<1>1. /\ Kept(r) /\ call'[r].pc \in (Serving \ {"accepted"}) \cup {"done"}
      /\ call'[r].pc # "done" => UserActor(r)
  BY ShelfKeeps
<1>2. CASE call'[r].pc = "done"
  BY <1>2, CallDone
<1>3. CASE call'[r].pc # "done"
  <2>1. UserActor(r)
    BY <1>1, <1>3
  <2>2. \A t \in tokens : t.user \in Users /\ t.version \in 1..users[t.user].version
    BY InvParts, RowTypes DEF Sound, TokenInv
  <2>3. UserActor(r)'
    BY <1>1, <2>1, <2>2 DEF UserActor, Kept, Later
  <2> QED
    BY <1>1, <1>3, <2>3 DEF CallInv, LoginInv, MachineInv, VerifyInv, ActorInv, Serving
<1> QED
  BY <1>2, <1>3

(* Who moves in a step: one call, or none.                                 *)
LEMMA WhoMoves ==
    ASSUME AccountsInv, [Next]_vars
    PROVE  \/ UNCHANGED call
           \/ \E r \in Calls : AccountStep(r) /\ UNCHANGED shelfVars
           \/ \E r \in Calls : ShelfStep(r) /\ UNCHANGED accountVars
<1>1. CASE AccountsNext /\ UNCHANGED shelfVars
  BY <1>1 DEF AccountsNext, AccountStep, AnsweringStep, Tick, ChangeUserRole, SetUserActive,
     ResetUserPassword, ChangeAccount
<1>2. CASE ShelfNext
  <2>1. PICK r \in Calls : ShelfStep(r)
    BY <1>2 DEF ShelfNext, ShelfStep
  <2>2. UNCHANGED accountVars
    BY <2>1 DEF ShelfStep, RefuseWorkspaceBody, PutQueryWorkspace, GetQueryWorkspace,
       RefuseStatementBody, RefuseStatement, CreateSavedStatement, AuthorizeStatement,
       WriteStatement, ReadStatement, ListStatements, LoadParameterDefinitions, RefuseView,
       CreateNamedInventoryView, ReadBackView, AuthorizeView, WriteView, ListViews
  <2> QED
    BY <2>1, <2>2
<1>3. CASE UNCHANGED vars
  BY <1>3 DEF vars
<1> QED
  BY <1>1, <1>2, <1>3 DEF Next

LEMMA CallsStep ==
    ASSUME AccountsInv, [Next]_vars
    PROVE  /\ CallsShaped'
           /\ \A s \in Calls : CallInv(s)' /\ call'[s].request = call[s].request
<1>1. Sound' /\ Later /\ CallsShaped
  BY StateStep, InvParts
<1>2. CASE UNCHANGED call
  BY <1>1, <1>2, CallStays DEF CallsShaped
<1>3. CASE \E r \in Calls : AccountStep(r)
  BY <1>1, <1>3, AccountOwn, CallStays DEF Moves
<1>4. CASE \E r \in Calls : ShelfStep(r)
  BY <1>1, <1>4, ShelfKeeps, ShelfOwn, CallStays DEF Kept
<1> QED
  BY <1>2, <1>3, <1>4, WhoMoves

-----------------------------------------------------------------------------
(* The budget of rejections.                                               *)

InWindow(start) == {row \in rejectionRows : row.start = start}

LEMMA CountStep ==
    ASSUME BudgetInv, NEW r \in Calls, call[r].stamp \in Nat, RejectCount(r)
    PROVE  /\ budget' \in [start : Nat \cup {None}, count : 0..Limit]
           /\ rejectionRows' \subseteq [by : Calls, start : Nat]
           /\ IsFiniteSet(rejectionRows')
           /\ budget'.start # None
           /\ \A row \in rejectionRows' :
                row.start = budget'.start \/ row.start + Window <= budget'.start
           /\ Cardinality({row \in rejectionRows' : row.start = budget'.start}) <= budget'.count
<1> DEFINE stamp == call[r].stamp
           rolled == IF WindowRolls(stamp) THEN [start |-> stamp, count |-> 0] ELSE budget
           new == [by |-> r, start |-> rolled.start]
<1>1. /\ budget \in [start : Nat \cup {None}, count : 0..Limit]
      /\ rejectionRows \subseteq [by : Calls, start : Nat]
      /\ IsFiniteSet(rejectionRows)
      /\ budget.start = None => rejectionRows = {}
      /\ \A row \in rejectionRows : row.start = budget.start \/ row.start + Window <= budget.start
      /\ Cardinality(InWindow(budget.start)) <= budget.count
  BY DEF BudgetInv, InWindow
<1>2. None \notin Nat /\ Window \in Nat \ {0} /\ Limit \in Nat \ {0}
  BY AbsenceAssumption, AccountsAssumption
<1>3. /\ rolled \in [start : Nat, count : 0..Limit]
      /\ \A row \in rejectionRows : row.start = rolled.start \/ row.start + Window <= rolled.start
  <2>1. CASE WindowRolls(stamp) /\ budget.start = None
    BY <1>1, <1>2, <2>1
  <2>2. CASE WindowRolls(stamp) /\ budget.start # None
    BY <1>1, <1>2, <2>2 DEF WindowRolls
  <2>3. CASE ~WindowRolls(stamp)
    BY <1>1, <1>2, <2>3 DEF WindowRolls
  <2> QED
    BY <2>1, <2>2, <2>3
<1>4. IsFiniteSet(InWindow(rolled.start)) /\ Cardinality(InWindow(rolled.start)) <= rolled.count
  <2>1. IsFiniteSet(InWindow(rolled.start))
    BY <1>1, FS_Subset DEF InWindow
  <2>2. CASE WindowRolls(stamp)
    <3>1. InWindow(stamp) = {}
      BY <1>1, <1>2, <2>2 DEF InWindow, WindowRolls
    <3> QED
      BY <2>1, <2>2, <3>1, FS_EmptySet
  <2>3. CASE ~WindowRolls(stamp)
    BY <1>1, <2>1, <2>3
  <2> QED
    BY <2>2, <2>3, <2>1
<1> HIDE DEF rolled
<1>5. CASE rolled.count < Limit
  <2>1. budget' = [rolled EXCEPT !.count = @ + 1] /\ rejectionRows' = rejectionRows \cup {new}
    BY <1>5 DEF RejectCount, rolled
  <2>2. /\ budget'.start = rolled.start /\ budget'.count = rolled.count + 1
        /\ budget' \in [start : Nat \cup {None}, count : 0..Limit]
    BY <1>2, <1>3, <1>5, <2>1
  <2>3. {row \in rejectionRows' : row.start = rolled.start} = InWindow(rolled.start) \cup {new}
    BY <2>1 DEF InWindow
  <2>4. Cardinality(InWindow(rolled.start) \cup {new}) <= rolled.count + 1
    <3>1. PICK W : W = InWindow(rolled.start)
      OBVIOUS
    <3>2. PICK n \in 0..Limit : n = rolled.count
      BY <1>3
    <3>3. IsFiniteSet(W) /\ Cardinality(W) \in Nat /\ Cardinality(W) <= n
      BY <1>4, <3>1, <3>2, FS_CardinalityType
    <3>4. Cardinality(W \cup {new}) = IF new \in W THEN Cardinality(W) ELSE Cardinality(W) + 1
      BY <3>3, FS_AddElement
    <3>5. Cardinality(W \cup {new}) <= n + 1
      BY <1>2, <3>2, <3>3, <3>4
    <3> QED
      BY <3>1, <3>2, <3>5
  <2>5. IsFiniteSet(rejectionRows')
    BY <1>1, <2>1, FS_AddElement
  <2>6. rejectionRows' \subseteq [by : Calls, start : Nat] /\ budget'.start # None
    BY <1>1, <1>2, <1>3, <2>1, <2>2
  <2>7. \A row \in rejectionRows' :
          row.start = budget'.start \/ row.start + Window <= budget'.start
    BY <1>3, <2>1, <2>2
  <2>8. Cardinality({row \in rejectionRows' : row.start = budget'.start}) <= budget'.count
    BY <2>2, <2>3, <2>4
  <2> QED
    BY <2>2, <2>5, <2>6, <2>7, <2>8
<1>6. CASE ~(rolled.count < Limit)
  <2>1. budget' = rolled /\ rejectionRows' = rejectionRows
    BY <1>6 DEF RejectCount, rolled
  <2> QED
    BY <1>1, <1>2, <1>3, <1>4, <2>1 DEF InWindow
<1> QED
  BY <1>5, <1>6

(* A row is added to the current window only, which starts last.           *)
LEMMA WindowsStep ==
    ASSUME BudgetInv, BudgetInv', RejectionsWithinBudget, NEW r \in Calls, RejectCount(r),
           budget'.start # None
    PROVE  RejectionsWithinBudget'
<1> DEFINE Rows(s) == {row \in rejectionRows' : row.start = s}
<1>1. \A row \in rejectionRows' : row \in rejectionRows \/ row.start = budget'.start
  BY DEF RejectCount
<1>2. /\ rejectionRows \subseteq rejectionRows' /\ budget'.start \in Nat /\ budget'.count \in 0..Limit
      /\ \A row \in rejectionRows' : row.start \in Nat
      /\ Window \in Nat \ {0} /\ Limit \in Nat /\ IsFiniteSet(rejectionRows')
  BY AccountsAssumption DEF RejectCount, BudgetInv
<1>3. ASSUME NEW row \in rejectionRows'
      PROVE  Cardinality(Rows(row.start)) <= Limit
  <2>1. CASE row.start = budget'.start
    <3>1. Cardinality(Rows(row.start)) <= budget'.count
      BY <2>1 DEF BudgetInv
    <3>2. Cardinality(Rows(row.start)) \in Nat
      <4>1. IsFiniteSet(Rows(row.start))
        BY <1>2, FS_Subset
      <4> QED
        BY <4>1, FS_CardinalityType
    <3> QED
      BY <1>2, <3>1, <3>2
  <2>2. CASE row.start # budget'.start
    <3>1. Rows(row.start) = {x \in rejectionRows : x.start = row.start}
      BY <1>1, <1>2, <2>2
    <3>2. row \in rejectionRows
      BY <1>1, <2>2
    <3> QED
      BY <3>1, <3>2 DEF RejectionsWithinBudget
  <2> QED
    BY <2>1, <2>2
<1>4. ASSUME NEW x \in rejectionRows', NEW y \in rejectionRows', x.start < y.start
      PROVE  y.start - x.start >= Window
  <2>1. CASE x \in rejectionRows /\ y \in rejectionRows
    BY <1>4, <2>1 DEF RejectionsWithinBudget
  <2>2. /\ x.start = budget'.start \/ x.start + Window <= budget'.start
        /\ y.start = budget'.start \/ y.start + Window <= budget'.start
    BY DEF BudgetInv
  <2>3. CASE x.start = budget'.start \/ y.start = budget'.start
    BY <1>2, <1>4, <2>2, <2>3
  <2> QED
    BY <1>1, <2>1, <2>3
<1>5. \A s \in {row.start : row \in rejectionRows'} : Cardinality(Rows(s)) <= Limit
  BY <1>3
<1>6. \A s, t \in {row.start : row \in rejectionRows'} : s < t => t - s >= Window
  BY <1>4
<1> QED
  BY <1>5, <1>6 DEF RejectionsWithinBudget

LEMMA BudgetStep ==
    ASSUME AccountsInv, [Next]_vars
    PROVE  BudgetInv' /\ RejectionsWithinBudget'
<1>1. BudgetInv /\ RejectionsWithinBudget /\ Later /\ Sound' /\ \A s \in Calls : call[s].pc = "count" => call[s].stamp \in Nat
  BY StateStep DEF AccountsInv, BudgetInv
<1>2. \A s \in Calls : call'[s].pc = "count" => call'[s].stamp \in Nat
  <2>1. CASE UNCHANGED call
    BY <1>1, <2>1
  <2>2. ASSUME NEW r \in Calls, AccountStep(r)
        PROVE  \A s \in Calls : call'[s].pc = "count" => call'[s].stamp \in Nat
    BY <1>1, <2>2, AccountOwn DEF Moves
  <2>3. ASSUME NEW r \in Calls, ShelfStep(r)
        PROVE  \A s \in Calls : call'[s].pc = "count" => call'[s].stamp \in Nat
    BY <1>1, <2>3, ShelfKeeps DEF Kept, Serving
  <2> QED
    BY <2>1, <2>2, <2>3, WhoMoves
<1>3. CASE UNCHANGED <<budget, rejectionRows>>
  BY <1>1, <1>2, <1>3 DEF BudgetInv, RejectionsWithinBudget
<1>4. ASSUME NEW r \in Calls, RejectCount(r)
      PROVE  BudgetInv' /\ RejectionsWithinBudget'
  <2>1. call[r].stamp \in Nat
    BY <1>1, <1>4 DEF RejectCount, At
  <2>2. BudgetInv' /\ budget'.start # None
    BY <1>1, <1>2, <1>4, <2>1, CountStep DEF BudgetInv
  <2> QED
    BY <1>1, <1>4, <2>2, WindowsStep
<1>5. \/ UNCHANGED <<budget, rejectionRows>>
      \/ \E r \in Calls : RejectCount(r)
  BY DEF Next, AccountsNext, ShelfNext, vars, accountVars, Arrive, Login, LoginUpgrade, IssueToken,
     VerifyBearer, RejectClock, Authenticate, MarkUsed, MarkUsedRecheck, RefuseNonAdmin,
     RefuseCredentialBody, CreateMachinePrincipal, Rotate, Revoke, ListMachinePrincipals,
     ChangeUserRole, SetUserActive, ResetUserPassword, ChangeAccount, Tick,
     RefuseWorkspaceBody, PutQueryWorkspace, GetQueryWorkspace,
     RefuseStatementBody, RefuseStatement, CreateSavedStatement, AuthorizeStatement,
     WriteStatement, ReadStatement, ListStatements, LoadParameterDefinitions, RefuseView,
     CreateNamedInventoryView, ReadBackView, AuthorizeView, WriteView, ListViews
<1> QED
  BY <1>3, <1>4, <1>5

LEMMA AccountsInvStep ==
    ASSUME AccountsInv, [Next]_vars
    PROVE  AccountsInv'
<1>1. Sound' /\ CallsShaped' /\ BudgetInv' /\ RejectionsWithinBudget' /\ \A r \in Calls : CallInv(r)'
  BY StateStep, CallsStep, BudgetStep
<1>2. \A r \in Calls : call'[r].request \in AnyRequest
  BY CallsStep, InvParts
<1> QED
  BY <1>1, <1>2 DEF AccountsInv, AccountsTyped, Sound, AccountsStateTyped, CallsShaped, CallInv

-----------------------------------------------------------------------------
(* What is settled about a call stays.                                     *)

LEMMA SettledStays ==
    ASSUME AccountsInv, [Next]_vars, NEW s \in Calls, call[s].pc \in Settled
    PROVE  /\ call'[s].pc \in Settled
           /\ call'[s].actor = call[s].actor
           /\ call'[s].credential = call[s].credential
           /\ call'[s].born = call[s].born
           /\ call[s].pc = "done" => call'[s] = call[s]
<1>1. Later
  BY StateStep
<1>2. CASE UNCHANGED call
  BY <1>2
<1>3. ASSUME NEW r \in Calls, AccountStep(r), s = r
      PROVE  AnsweringStep(r) /\ call[s].pc # "done"
  BY <1>3 DEF AccountStep, AnsweringStep, Arrive, Login, LoginUpgrade, IssueToken, VerifyBearer,
     RejectClock, Authenticate, MarkUsed, MarkUsedRecheck, RejectCount, RefuseNonAdmin,
     RefuseCredentialBody, CreateMachinePrincipal, Rotate, Revoke, ListMachinePrincipals,
     Admin, At, Settled, Serving
<1>4. ASSUME NEW r \in Calls, AccountStep(r), s # r
      PROVE  call'[s] = call[s]
  BY <1>1, <1>4, AccountOwn DEF Moves
<1>5. ASSUME NEW r \in Calls, ShelfStep(r)
      PROVE  /\ s # r => call'[s] = call[s]
             /\ s = r => Kept(r) /\ call'[r].pc \in Settled /\ call[r].pc # "done"
  BY <1>5, ShelfKeeps DEF Kept, Settled, Serving
<1> QED
  BY <1>2, <1>3, <1>4, <1>5, AnsweringOwn, WhoMoves DEF Kept, Settled

(* Only the workspace read and the list of statements show anything.       *)
LEMMA ShownMoves ==
    ASSUME AccountsInv, [Next]_vars, NEW s \in Calls,
           ~GetQueryWorkspace(s), ~LoadParameterDefinitions(s)
    PROVE  call'[s].shown = call[s].shown
BY StateStep, WhoMoves, AccountOwn, ShelfKeeps DEF Moves, Kept

-----------------------------------------------------------------------------
(* The workspace.                                                          *)

EditsTyped ==
    /\ workspace \in [Users -> WorkspaceRow \cup {None}]
    /\ edits \in [Users -> Seq(Edit)]

EditsOrdered == \A u \in Users : \A i \in DOMAIN edits[u] : edits[u][i].on = i - 1

EditsGrow ==
    \A u \in Users : /\ Len(edits[u]) <= Len(edits'[u])
                     /\ \A i \in 1..Len(edits[u]) : edits'[u][i] = edits[u][i]

LEMMA PutStep ==
    ASSUME AccountsInv, EditsTyped, WorkspaceInv, EditsOrdered, NEW r \in Calls, PutQueryWorkspace(r)
    PROVE  EditsTyped' /\ WorkspaceInv' /\ EditsOrdered' /\ EditsGrow
<1>1. PICK u \in Users, expected \in Nat :
        u = call[r].actor.user /\ expected = call[r].request.expected
  <2>1. UserActor(r) /\ call[r].request \in AnyRequest /\ call[r].request.op = "wsPut"
    BY InvParts, RequestTypes DEF PutQueryWorkspace, Op, At, ActorInv, Serving, MachineActor
  <2> QED
    BY <2>1, InvParts, RowTypes, RequestTypes DEF UserActor, Sound
<1>2. CASE UNCHANGED <<workspace, edits>>
  <2>1. \A w \in Users : Len(edits[w]) \in Nat
    BY DEF EditsTyped
  <2> QED
    <3>1. workspace' = workspace /\ edits' = edits
      BY <1>2
    <3>2. EditsGrow
      BY <2>1, <3>1 DEF EditsGrow
    <3> QED
      BY <3>1, <3>2 DEF EditsTyped, WorkspaceInv, EditsOrdered
<1>3. CASE /\ VersionMatches(workspace[u], expected)
           /\ workspace' = [workspace EXCEPT ![u] =
                  [version |-> IF @ = None THEN 1 ELSE @.version + 1, content |-> r]]
           /\ edits' = [edits EXCEPT ![u] = Append(@, [by |-> r, on |-> expected])]
  <2>0. PICK log, edit, row : /\ log = edits[u]
                              /\ edit = [by |-> r, on |-> expected]
                              /\ row = [version |-> expected + 1, content |-> r]
    OBVIOUS
  <2>1. log \in Seq(Edit) /\ edit \in Edit
    BY <1>1, <2>0 DEF EditsTyped, Edit
  <2>2. Len(log) = expected
    BY <1>1, <1>3, <2>0 DEF VersionMatches, WorkspaceInv, EditsTyped
  <2>3. (IF workspace[u] = None THEN 1 ELSE workspace[u].version + 1) = expected + 1
    BY <1>1, <1>3, <2>0 DEF VersionMatches, WorkspaceInv, EditsTyped
  <2>4. row \in WorkspaceRow /\ row # None
    BY <1>1, <2>0, WorkbenchAssumption DEF WorkspaceRow
  <2>5. /\ edits' \in [Users -> Seq(Edit)]
        /\ edits'[u] = Append(log, edit)
        /\ \A w \in Users \ {u} : edits'[w] = edits[w]
    <3>1. Append(log, edit) \in Seq(Edit)
      BY <2>1
    <3>2. edits' = [edits EXCEPT ![u] = Append(log, edit)]
      BY <1>3, <2>0
    <3> QED
      BY <3>1, <3>2 DEF EditsTyped
  <2>6. /\ workspace' = [workspace EXCEPT ![u] = row]
        /\ workspace' \in [Users -> WorkspaceRow \cup {None}]
        /\ workspace'[u] = row
        /\ \A w \in Users \ {u} : workspace'[w] = workspace[w]
    BY <1>1, <1>3, <2>0, <2>3, <2>4 DEF EditsTyped
  <2>7. /\ Len(edits'[u]) = expected + 1 /\ edits'[u][expected + 1] = edit
        /\ \A i \in 1..expected : edits'[u][i] = log[i]
        /\ DOMAIN edits'[u] = 1..(expected + 1) /\ DOMAIN log = 1..expected
    BY <1>1, <2>1, <2>2, <2>5
  <2>8. EditsGrow
    <3> SUFFICES ASSUME NEW w \in Users
                 PROVE  /\ Len(edits[w]) <= Len(edits'[w])
                        /\ \A i \in 1..Len(edits[w]) : edits'[w][i] = edits[w][i]
      BY DEF EditsGrow
    <3>1. CASE w = u
      BY <2>0, <2>2, <2>7, <3>1
    <3>2. CASE w # u
      <4>1. Len(edits[w]) \in Nat /\ edits'[w] = edits[w]
        BY <2>5, <3>2 DEF EditsTyped
      <4> QED
        BY <4>1
    <3> QED
      BY <3>1, <3>2
  <2>9. WorkspaceInv'
    <3>1. /\ workspace'[u] # None /\ workspace'[u].version = expected + 1
          /\ workspace'[u].content = r
          /\ edits'[u][Len(edits'[u])].by = r /\ Len(edits'[u]) = expected + 1
      BY <2>0, <2>4, <2>6, <2>7
    <3>2. \A w \in Users \ {u} : workspace'[w] = workspace[w] /\ edits'[w] = edits[w]
      BY <2>5, <2>6
    <3> SUFFICES ASSUME NEW w \in Users
                 PROVE  /\ workspace'[w] = None => edits'[w] = <<>>
                        /\ workspace'[w] # None =>
                             /\ workspace'[w].version = Len(edits'[w])
                             /\ workspace'[w].version > 0
                             /\ workspace'[w].content = edits'[w][Len(edits'[w])].by
      BY DEF WorkspaceInv
    <3>3. CASE w = u
      BY <3>1, <3>3
    <3>4. CASE w # u
      BY <3>2, <3>4 DEF WorkspaceInv
    <3> QED
      BY <3>3, <3>4
  <2>10. EditsOrdered'
    <3> SUFFICES ASSUME NEW w \in Users, NEW i \in DOMAIN edits'[w]
                 PROVE  edits'[w][i].on = i - 1
      BY DEF EditsOrdered
    <3>1. CASE w # u
      BY <2>5, <3>1 DEF EditsOrdered
    <3>2. CASE w = u /\ i = expected + 1
      BY <2>0, <2>7, <3>2
    <3>3. CASE w = u /\ i # expected + 1
      <4>1. i \in 1..expected
        BY <2>7, <3>3
      <4>2. edits'[u][i] = edits[u][i] /\ i \in DOMAIN edits[u]
        BY <2>0, <2>7, <4>1
      <4> QED
        BY <3>3, <4>2 DEF EditsOrdered
    <3> QED
      BY <3>1, <3>2, <3>3
  <2> QED
    BY <2>5, <2>6, <2>8, <2>9, <2>10 DEF EditsTyped
<1> QED
  BY <1>1, <1>2, <1>3 DEF PutQueryWorkspace

LEMMA WorkspaceStep ==
    ASSUME AccountsInv, EditsTyped, WorkspaceInv, EditsOrdered, [Next]_vars
    PROVE  EditsTyped' /\ WorkspaceInv' /\ EditsOrdered' /\ EditsGrow
<1>1. CASE \E r \in Calls : PutQueryWorkspace(r)
  BY <1>1, PutStep
<1>2. CASE UNCHANGED <<workspace, edits>>
  <2>1. \A w \in Users : Len(edits[w]) \in Nat
    BY DEF EditsTyped
  <2>2. workspace' = workspace /\ edits' = edits
    BY <1>2
  <2>3. EditsGrow
    BY <2>1, <2>2 DEF EditsGrow
  <2> QED
    BY <2>2, <2>3 DEF EditsTyped, WorkspaceInv, EditsOrdered
<1>3. UNCHANGED <<workspace, edits>> \/ \E r \in Calls : PutQueryWorkspace(r)
  BY DEF Next, ShelfNext, vars, shelfVars, RefuseWorkspaceBody, GetQueryWorkspace,
     RefuseStatementBody, RefuseStatement, CreateSavedStatement, AuthorizeStatement,
     WriteStatement, ReadStatement, ListStatements, LoadParameterDefinitions, RefuseView,
     CreateNamedInventoryView, ReadBackView, AuthorizeView, WriteView, ListViews
<1> QED
  BY <1>1, <1>2, <1>3

(* What a call shows, against the edits.                                   *)
Described(r) ==
    LET shown == call[r].shown
        log == edits[call[r].actor.user]
    IN  IF shown.version = 0 THEN shown.content = None
        ELSE shown.version \in DOMAIN log /\ log[shown.version].by = shown.content

ShownRight(r) ==
    call[r].shown # None /\ call[r].request.op \in {"wsPut", "wsGet"} => Described(r)

(* The answer of a read of the workspace is one of its versions.           *)
LEMMA GetShows ==
    ASSUME AccountsInv, EditsTyped, WorkspaceInv, NEW r \in Calls, GetQueryWorkspace(r)
    PROVE  /\ call'[r].pc = "done" /\ call'[r].actor.user \in Users
           /\ Described(r)'
<1>1. UserActor(r)
  BY InvParts, RequestTypes DEF GetQueryWorkspace, Op, At, ActorInv, Serving, MachineActor
<1>2. PICK u \in Users : u = call[r].actor.user
  BY <1>1, InvParts, RowTypes DEF UserActor, Sound
<1> DEFINE seen == IF workspace[u] = None THEN [version |-> 0, content |-> None] ELSE workspace[u]
<1>3. Move(r, "done", [shown |-> seen]) /\ edits' = edits
  BY <1>2 DEF GetQueryWorkspace, shelfVars
<1> HIDE DEF seen
<1>4. call'[r].pc = "done" /\ call'[r].shown = seen /\ call'[r].actor = call[r].actor
  BY <1>3, InvParts, HandlerMoves DEF Kept
<1>5. IF seen.version = 0 THEN seen.content = None
      ELSE seen.version \in DOMAIN edits[u] /\ edits[u][seen.version].by = seen.content
  <2>1. CASE workspace[u] = None
    BY <2>1 DEF seen
  <2>2. CASE workspace[u] # None
    <3>1. DOMAIN edits[u] = 1..Len(edits[u]) /\ Len(edits[u]) \in Nat
      BY DEF EditsTyped
    <3>2. /\ seen.version = Len(edits[u]) /\ seen.version > 0
          /\ seen.content = edits[u][Len(edits[u])].by
      BY <2>2 DEF seen, WorkspaceInv
    <3> QED
      BY <3>1, <3>2
  <2> QED
    BY <2>1, <2>2
<1> QED
  BY <1>2, <1>3, <1>4, <1>5 DEF Described

LEMMA ShownStep ==
    ASSUME AccountsInv, EditsTyped, WorkspaceInv, EditsOrdered, [Next]_vars, NEW s \in Calls,
           ShownInv(s), ShownRight(s)
    PROVE  ShownInv(s)' /\ ShownRight(s)'
<1>0. call'[s].pc = "stParams" => call'[s].request.op = "stList"
  <2>1. CASE call'[s] = call[s]
    BY <2>1 DEF ShownInv
  <2>2. CASE AccountStep(s)
    BY <2>2, StateStep, AccountOwn DEF Serving
  <2>3. CASE ShelfStep(s)
    BY <2>3, ShelfKeeps DEF Kept, ListStatements, Op
  <2> QED
    BY <2>1, <2>2, <2>3, WhoMoves, StateStep, AccountOwn, ShelfKeeps DEF Moves, Kept
<1>1. CASE GetQueryWorkspace(s)
  BY <1>0, <1>1, GetShows DEF ShownInv, ShownRight
<1>2. CASE LoadParameterDefinitions(s)
  <2>1. call'[s].pc = "done" /\ call'[s].request = call[s].request
    <3>1. PICK v : Move(s, "done", [answer |-> "ok", read |-> None, shown |-> v])
      BY <1>2 DEF LoadParameterDefinitions
    <3> QED
      BY <3>1, InvParts, HandlerMoves DEF Kept
  <2> QED
    BY <1>0, <1>2, <2>1 DEF ShownInv, ShownRight, LoadParameterDefinitions, At
<1>3. CASE ~GetQueryWorkspace(s) /\ ~LoadParameterDefinitions(s)
  <2>1. call'[s].shown = call[s].shown
    BY <1>3, ShownMoves
  <2>2. CASE call[s].shown = None
    BY <1>0, <2>1, <2>2 DEF ShownInv, ShownRight
  <2>3. CASE call[s].shown # None
    <3>1. call'[s] = call[s]
      BY <2>3, SettledStays DEF ShownInv, Settled
    <3>2. ShownInv(s)'
      BY <3>1 DEF ShownInv
    <3>3. ASSUME call[s].request.op \in {"wsPut", "wsGet"}
          PROVE  Described(s)'
      <4>1. PICK u \in Users : u = call[s].actor.user
        BY <2>3, <3>3 DEF ShownInv
      <4>2. Described(s)
        BY <2>3, <3>3 DEF ShownRight
      <4>3. EditsGrow /\ EditsTyped'
        BY WorkspaceStep
      <4>4. /\ DOMAIN edits[u] = 1..Len(edits[u]) /\ Len(edits[u]) \in Nat
            /\ DOMAIN edits'[u] = 1..Len(edits'[u]) /\ Len(edits'[u]) \in Nat
        BY <4>3 DEF EditsTyped
      <4>5. \A i \in DOMAIN edits[u] : i \in DOMAIN edits'[u] /\ edits'[u][i] = edits[u][i]
        BY <4>3, <4>4 DEF EditsGrow
      <4> QED
        BY <3>1, <4>1, <4>2, <4>5 DEF Described
    <3> QED
      BY <3>1, <3>2, <3>3 DEF ShownRight
  <2> QED
    BY <2>2, <2>3
<1> QED
  BY <1>1, <1>2, <1>3

-----------------------------------------------------------------------------
(* The rows of the library.                                                *)

LibraryTyped == library \in [Ids -> LibraryRow \cup {None}] /\ issued \subseteq Ids

OwnedRows ==
    \A i \in Ids : library[i] # None =>
        i \in issued /\ (library[i].owner = None => library[i].scope = "shared")

(* A row keeps its scope and its owner until it is deleted.                *)
LibraryLater ==
    /\ issued \subseteq issued'
    /\ \A i \in issued : library'[i] # None =>
         /\ library[i] # None
         /\ library'[i].scope = library[i].scope /\ library'[i].owner = library[i].owner

LEMMA RowInserted ==
    ASSUME LibraryTyped, OwnedRows, NEW i \in Ids \ issued, NEW row \in LibraryRow,
           row.owner # None, issued' = issued \cup {i}, library' = [library EXCEPT ![i] = row]
    PROVE  LibraryTyped' /\ OwnedRows' /\ LibraryLater
<1>1. \A j \in Ids : library'[j] = IF j = i THEN row ELSE library[j]
  BY DEF LibraryTyped
<1>2. LibraryTyped'
  BY DEF LibraryTyped
<1> QED
  BY <1>1, <1>2 DEF LibraryTyped, OwnedRows, LibraryLater

LEMMA RowChanged ==
    ASSUME LibraryTyped, OwnedRows, NEW i \in Ids, library[i] # None, NEW row \in LibraryRow \cup {None},
           row # None => row.scope = library[i].scope /\ row.owner = library[i].owner,
           issued' = issued, library' = [library EXCEPT ![i] = row]
    PROVE  LibraryTyped' /\ OwnedRows' /\ LibraryLater
<1>1. \A j \in Ids : library'[j] = IF j = i THEN row ELSE library[j]
  BY DEF LibraryTyped
<1>2. LibraryTyped'
  BY DEF LibraryTyped
<1> QED
  BY <1>1, <1>2 DEF LibraryTyped, OwnedRows, LibraryLater

LEMMA UserIsKnown ==
    ASSUME AccountsInv, NEW r \in Calls, UserActor(r)
    PROVE  call[r].actor.user \in Users /\ call[r].actor.user # None
BY InvParts, RowTypes, AbsenceAssumption DEF UserActor, Sound

LEMMA InsertStep ==
    ASSUME AccountsInv, LibraryTyped, OwnedRows, NEW r \in Calls, NEW ids \in SUBSET Ids,
           UserActor(r), call[r].request.scope \in {"shared", "personal"}, InsertRow(r, ids)
    PROVE  LibraryTyped' /\ OwnedRows' /\ LibraryLater
<1> DEFINE row == [scope |-> call[r].request.scope, owner |-> call[r].actor.user,
                   text |-> r, params |-> r]
<1>1. row \in LibraryRow /\ row.owner # None
  BY UserIsKnown DEF LibraryRow
<1>2. PICK i \in ids \ issued : issued' = issued \cup {i} /\ library' = [library EXCEPT ![i] = row]
  BY DEF InsertRow
<1> HIDE DEF row
<1> QED
  BY <1>1, <1>2, RowInserted

(* A write finds its row among the issued ones.                            *)
LEMMA WriteStep ==
    ASSUME AccountsInv, LibraryTyped, LibraryInv, OwnedRows, NEW r \in Calls,
           WriteStatement(r) \/ WriteView(r)
    PROVE  LibraryTyped' /\ OwnedRows' /\ LibraryLater
<1>1. PICK i \in Ids : i = call[r].request.id
  BY DEF WriteStatement, WriteView, At, LibraryInv, LibraryTyped
<1>2. CASE UNCHANGED <<library, issued>>
  BY <1>2 DEF LibraryTyped, OwnedRows, LibraryLater
<1>3. ASSUME library[i] # None, NEW row, issued' = issued,
             library' = [library EXCEPT ![i] = row],
             row = None \/ \E text \in Calls \cup {None} :
                             \/ row = [library[i] EXCEPT !.text = text]
                             \/ row = [library[i] EXCEPT !.text = text, !.params = text]
      PROVE  LibraryTyped' /\ OwnedRows' /\ LibraryLater
  <2>1. library[i] \in LibraryRow
    BY <1>3 DEF LibraryTyped
  <2>2. /\ row \in LibraryRow \cup {None}
        /\ row # None => row.scope = library[i].scope /\ row.owner = library[i].owner
    BY <1>3, <2>1 DEF LibraryRow
  <2> QED
    BY <1>3, <2>2, RowChanged
<1>4. CASE WriteStatement(r)
  <2> DEFINE row == IF call[r].request.op = "stDelete" THEN None
                    ELSE [library[i] EXCEPT !.text = r, !.params = r]
  <2>1. \/ UNCHANGED <<library, issued>>
        \/ library[i] # None /\ issued' = issued /\ library' = [library EXCEPT ![i] = row]
    BY <1>1, <1>4 DEF WriteStatement, StatementRowMatches
  <2>2. row = None \/ \E text \in Calls \cup {None} :
                        \/ row = [library[i] EXCEPT !.text = text]
                        \/ row = [library[i] EXCEPT !.text = text, !.params = text]
    OBVIOUS
  <2> HIDE DEF row
  <2> QED
    BY <1>2, <1>3, <2>1, <2>2
<1>5. CASE WriteView(r)
  <2>1. call[r].read.text \in Calls \cup {None}
    BY <1>5 DEF WriteView, At, LibraryInv, LibraryRow
  <2>2. PICK text \in {r, call[r].read.text} :
          \/ UNCHANGED <<library, issued>>
          \/ /\ library[i] # None /\ issued' = issued
             /\ library' = [library EXCEPT ![i] =
                   IF call[r].request.op = "viewDelete" THEN None
                   ELSE [library[i] EXCEPT !.text = text]]
    BY <1>1, <1>5 DEF WriteView
  <2> DEFINE row == IF call[r].request.op = "viewDelete" THEN None
                    ELSE [library[i] EXCEPT !.text = text]
  <2>3. row = None \/ \E x \in Calls \cup {None} :
                        \/ row = [library[i] EXCEPT !.text = x]
                        \/ row = [library[i] EXCEPT !.text = x, !.params = x]
    BY <2>1, <2>2
  <2>4. \/ UNCHANGED <<library, issued>>
        \/ library[i] # None /\ issued' = issued /\ library' = [library EXCEPT ![i] = row]
    BY <2>2
  <2> HIDE DEF row
  <2> QED
    BY <1>2, <1>3, <2>3, <2>4
<1> QED
  BY <1>4, <1>5

LEMMA RowsStep ==
    ASSUME AccountsInv, LibraryTyped, LibraryInv, OwnedRows, [Next]_vars
    PROVE  LibraryTyped' /\ OwnedRows' /\ LibraryLater
<1>1. CASE UNCHANGED <<library, issued>>
  BY <1>1 DEF LibraryTyped, OwnedRows, LibraryLater
<1>2. ASSUME NEW r \in Calls, WriteStatement(r) \/ WriteView(r)
      PROVE  LibraryTyped' /\ OwnedRows' /\ LibraryLater
  BY <1>2, WriteStep
<1>3. ASSUME NEW r \in Calls, CreateSavedStatement(r) \/ CreateNamedInventoryView(r)
      PROVE  LibraryTyped' /\ OwnedRows' /\ LibraryLater
  <2>1. UserActor(r) /\ call[r].request.scope \in {"shared", "personal"}
    <3>1. call[r].pc = "accepted" /\ call[r].request.op \in {"stCreate", "viewCreate"}
      BY <1>3 DEF CreateSavedStatement, CreateNamedInventoryView, Op, At
    <3>2. UserActor(r)
      BY <3>1, InvParts, RequestTypes DEF ActorInv, Serving, MachineActor
    <3> QED
      BY <3>1, <3>2, InvParts, RequestTypes DEF UserActor
  <2>2. \/ UNCHANGED <<library, issued>>
        \/ InsertRow(r, Statements) \/ InsertRow(r, Views)
    BY <1>3 DEF CreateSavedStatement, CreateNamedInventoryView
  <2> QED
    BY <1>1, <2>1, <2>2, InsertStep DEF Ids
<1>4. \/ UNCHANGED <<library, issued>>
      \/ \E r \in Calls : \/ WriteStatement(r) \/ WriteView(r)
                          \/ CreateSavedStatement(r) \/ CreateNamedInventoryView(r)
  BY DEF Next, ShelfNext, vars, shelfVars, RefuseWorkspaceBody, PutQueryWorkspace,
     GetQueryWorkspace, RefuseStatementBody, RefuseStatement, AuthorizeStatement,
     ReadStatement, ListStatements, LoadParameterDefinitions, RefuseView,
     ReadBackView, AuthorizeView, ListViews
<1> QED
  BY <1>1, <1>2, <1>3, <1>4

(* A call about to write its row may write it.                             *)
MayWrite(r) ==
    call[r].pc \in {"stWrite", "viewWrite"} =>
         LET i == call[r].request.id IN
         /\ call[r].request.op \in {"stUpdate", "stDelete", "viewUpdate", "viewDelete"}
         /\ i \in issued
         /\ library[i] # None => Refusal(r, library[i]) = "none"
         /\ call[r].pc = "viewWrite" => call[r].read \in LibraryRow

LEMMA MayWriteStays ==
    ASSUME LibraryLater, NEW s \in Calls, MayWrite(s), call'[s] = call[s]
    PROVE  MayWrite(s)'
<1> SUFFICES ASSUME call[s].pc \in {"stWrite", "viewWrite"}
             PROVE  MayWrite(s)'
  BY DEF MayWrite
<1> DEFINE i == call[s].request.id
<1>1. i \in issued /\ i \in issued'
  BY DEF MayWrite, LibraryLater
<1>2. library'[i] # None => Refusal(s, library[i]) = "none" /\ library[i] # None
  BY <1>1 DEF MayWrite, LibraryLater
<1>3. library'[i] # None => Refusal(s, library[i])' = "none"
  BY <1>1, <1>2 DEF Refusal, IsAdmin, LibraryLater
<1> QED
  BY <1>1, <1>3 DEF MayWrite, Refusal, IsAdmin

LEMMA MayWriteOwn ==
    ASSUME AccountsInv, LibraryTyped, OwnedRows, NEW r \in Calls, ShelfStep(r)
    PROVE  MayWrite(r)'
<1> SUFFICES ASSUME call'[r].pc \in {"stWrite", "viewWrite"}
             PROVE  MayWrite(r)'
  BY DEF MayWrite
<1> DEFINE i == call[r].request.id
<1>1. Kept(r) /\ (AuthorizeStatement(r) \/ AuthorizeView(r))
  BY ShelfKeeps
<1>2. /\ UNCHANGED <<library, issued>>
      /\ call[r].pc = "accepted"
      /\ call[r].request.op \in {"stUpdate", "stDelete", "viewUpdate", "viewDelete"}
  BY <1>1 DEF AuthorizeStatement, AuthorizeView, shelfVars, Op, At
<1>3. i \in Ids
  <2>1. UserActor(r)
    BY <1>2, InvParts, RequestTypes DEF ActorInv, Serving, MachineActor
  <2> QED
    BY <1>2, <2>1, InvParts, RequestTypes DEF UserActor, Ids
<1>4. /\ Refusal(r, library[i]) = "none"
      /\ AuthorizeView(r) => call'[r].read = library[i]
      /\ AuthorizeStatement(r) => call'[r].pc = "stWrite"
  <2>1. \A answer : ~Answer(r, answer)
    BY InvParts, AnswerKeeps
  <2>2. CASE AuthorizeStatement(r)
    <3>1. Refusal(r, library[i]) = "none" /\ Move(r, "stWrite", <<>>)
      BY <2>1, <2>2 DEF AuthorizeStatement, GetByID
    <3> QED
      BY <1>2, <2>2, <3>1, InvParts, Moved DEF AuthorizeStatement, AuthorizeView, Op
  <2>3. CASE AuthorizeView(r)
    <3>1. Refusal(r, library[i]) = "none" /\ Move(r, "viewWrite", [read |-> library[i]])
      BY <2>1, <2>3 DEF AuthorizeView
    <3>2. call'[r].read = library[i]
      BY <3>1, InvParts, Moved DEF CallFields
    <3> QED
      BY <2>3, <3>1, <3>2 DEF AuthorizeStatement, AuthorizeView, Op
  <2> QED
    BY <1>1, <2>2, <2>3
<1>5. library[i] # None /\ i \in issued /\ library[i] \in LibraryRow
  BY <1>3, <1>4 DEF Refusal, OwnedRows, LibraryTyped
<1>6. Refusal(r, library[i])' = "none"
  BY <1>1, <1>2, <1>4 DEF Refusal, IsAdmin, Kept
<1>7. call'[r].request = call[r].request
  BY <1>1 DEF Kept
<1> QED
  BY <1>1, <1>2, <1>4, <1>5, <1>6, <1>7 DEF MayWrite

LEMMA LibraryStep ==
    ASSUME AccountsInv, LibraryTyped, LibraryInv, [Next]_vars
    PROVE  LibraryTyped' /\ LibraryInv'
<1>1. OwnedRows /\ \A s \in Calls : MayWrite(s)
  BY DEF LibraryInv, OwnedRows, MayWrite
<1>2. LibraryTyped' /\ OwnedRows' /\ LibraryLater
  BY <1>1, RowsStep
<1>3. ASSUME NEW s \in Calls PROVE MayWrite(s)'
  <2>1. CASE call'[s] = call[s]
    BY <1>1, <1>2, <2>1, MayWriteStays
  <2>2. CASE AccountStep(s)
    BY <2>2, StateStep, AccountOwn DEF MayWrite, Serving
  <2>3. CASE ShelfStep(s)
    BY <1>1, <2>3, MayWriteOwn
  <2> QED
    BY <2>1, <2>2, <2>3, WhoMoves, StateStep, AccountOwn, ShelfKeeps DEF Moves, Kept
<1> QED
  BY <1>2, <1>3 DEF LibraryInv, OwnedRows, MayWrite

-----------------------------------------------------------------------------
(* Effects and the authority they rest on.                                 *)

Entitled(r, scope, owner) ==
    /\ call[r].pc \in Serving
    /\ scope \in {"shared", "personal", "read"}
    /\ scope = "shared" => IsAdmin(r)
    /\ scope = "personal" => UserActor(r) /\ owner = call[r].actor.user

(* What an accepted call does with its authority is justified by it.       *)
LEMMA EffectIsJustified ==
    ASSUME AccountsInv, [Next]_vars, UNCHANGED <<users, accountLog, tokens>>,
           NEW r \in Calls, NEW scope, NEW owner, Entitled(r, scope, owner),
           NEW e, e = Effect(r, scope, owner)
    PROVE  e.by \in Calls /\ call'[e.by].pc \in Settled /\ Justified(e)'
<1>1. /\ e.by = r /\ e.scope = scope /\ e.owner = owner
      /\ call[r].actor.user # None => e.at = users[call[r].actor.user].version
  BY DEF Effect
<1>2. /\ call'[r].pc \in Settled /\ call'[r].actor = call[r].actor
      /\ call'[r].credential = call[r].credential /\ call'[r].born = call[r].born
  BY SettledStays DEF Entitled, Settled
<1>3. Sound /\ ActorInv(r)
  BY InvParts
<1>4. CASE UserActor(r)
  <2>1. PICK t \in tokens : t = call[r].credential
    BY <1>4 DEF UserActor
  <2>2. /\ t.user \in Users /\ t.version \in Nat /\ users[t.user].version \in Nat
        /\ t.version <= users[t.user].version
        /\ t.password = accountLog[t.user][t.version].password
        /\ call[r].actor.user = t.user /\ t.user # None
    BY <1>3, <1>4, <2>1, RowTypes, AbsenceAssumption DEF Sound, TokenInv, UserActor
  <2>3. /\ call[r].born \in 1..t.version /\ accountLog[t.user][t.version].active
        /\ call[r].actor.role = accountLog[t.user][t.version].role
    BY <1>4, <2>1 DEF UserActor
  <2>4. e.at \in t.version..users[t.user].version
    BY <1>1, <2>2
  <2>5. /\ scope = "shared" => accountLog[t.user][t.version].role = "admin"
        /\ scope = "personal" => owner = t.user
    BY <2>2, <2>3 DEF Entitled, IsAdmin
  <2>6. Justified(e)'
    BY <1>1, <1>2, <2>1, <2>2, <2>3, <2>4, <2>5 DEF Justified
  <2> QED
    BY <1>1, <1>2, <2>6
<1>5. CASE MachineActor(r)
  <2>1. scope = "read"
    BY <1>5 DEF Entitled, MachineActor, UserActor, IsAdmin
  <2>2. Justified(e)'
    BY <1>1, <1>2, <1>5, <2>1 DEF Justified, MachineActor
  <2> QED
    BY <1>1, <1>2, <2>2
<1> QED
  BY <1>3, <1>4, <1>5 DEF ActorInv, Entitled

(* The effects a step records, each one entitled.                          *)
Records(r, E) ==
    /\ effects' = effects \cup E
    /\ UNCHANGED <<users, accountLog, tokens>>
    /\ \A e \in E : \E scope, owner : e = Effect(r, scope, owner) /\ Entitled(r, scope, owner)

LEMMA AdminRecords ==
    ASSUME AccountsInv, NEW r \in Calls,
           CreateMachinePrincipal(r) \/ Rotate(r) \/ Revoke(r) \/ ListMachinePrincipals(r)
    PROVE  UNCHANGED effects \/ \E E : Records(r, E)
<1>1. Entitled(r, "shared", None)
  BY DEF CreateMachinePrincipal, Rotate, Revoke, ListMachinePrincipals, Admin, At, Entitled, Serving
<1>2. UNCHANGED <<users, accountLog, tokens>>
  BY DEF CreateMachinePrincipal, Rotate, Revoke, ListMachinePrincipals, accountVars
<1>3. UNCHANGED effects \/ effects' = effects \cup {Effect(r, "shared", None)}
  BY DEF CreateMachinePrincipal, Rotate, Revoke, ListMachinePrincipals, InsertMachineCredential
<1> QED
  BY <1>1, <1>2, <1>3 DEF Records

(* What is read is shared or the reader's own.                             *)
LEMMA ReadIsEntitled ==
    ASSUME AccountsInv, LibraryTyped, OwnedRows, NEW r \in Calls, call[r].pc = "accepted",
           NEW i \in Ids, VisibleTo(r, library[i])
    PROVE  \E scope, owner : ReadEffect(r, library[i]) = Effect(r, scope, owner) /\ Entitled(r, scope, owner)
<1> DEFINE row == library[i]
           scope == IF row.scope = "shared" THEN "read" ELSE "personal"
<1>1. row.scope = "shared" \/ row.owner = call[r].actor.user
  BY DEF VisibleTo
<1>2. row # None /\ (row.owner = None => row.scope = "shared")
  BY DEF VisibleTo, OwnedRows
<1>3. UserActor(r) \/ MachineActor(r)
  BY InvParts DEF ActorInv, Serving
<1>4. Entitled(r, scope, row.owner)
  BY <1>1, <1>2, <1>3 DEF Entitled, Serving, MachineActor
<1>5. ReadEffect(r, row) = Effect(r, scope, row.owner)
  BY DEF ReadEffect
<1> QED
  BY <1>4, <1>5

LEMMA ReadRecords ==
    ASSUME AccountsInv, LibraryTyped, OwnedRows, NEW r \in Calls,
           ReadStatement(r) \/ ListStatements(r) \/ ListViews(r)
    PROVE  UNCHANGED effects \/ \E E : Records(r, E)
<1>1. call[r].pc = "accepted" /\ UNCHANGED <<users, accountLog, tokens>>
  BY DEF ReadStatement, ListStatements, ListViews, Op, At, accountVars
<1>2. \A i \in Ids : VisibleTo(r, library[i]) =>
        \E scope, owner : ReadEffect(r, library[i]) = Effect(r, scope, owner) /\ Entitled(r, scope, owner)
  BY <1>1, ReadIsEntitled
<1>3. CASE ReadStatement(r)
  <2> DEFINE i == call[r].request.id
  <2>1. UserActor(r)
    BY <1>1, <1>3, InvParts, RequestTypes DEF ReadStatement, Op, ActorInv, Serving, MachineActor
  <2>2. i \in Ids
    BY <1>3, <2>1, InvParts, RequestTypes DEF ReadStatement, Op, UserActor, Ids
  <2>3. \/ UNCHANGED effects
        \/ VisibleTo(r, library[i]) /\ effects' = effects \cup {ReadEffect(r, library[i])}
    BY <1>3 DEF ReadStatement, GetByID
  <2> QED
    BY <1>1, <1>2, <2>2, <2>3 DEF Records
<1>4. CASE ListStatements(r)
  <2> DEFINE E == {ReadEffect(r, library[i]) : i \in {j \in Statements : VisibleTo(r, library[j])}}
  <2>1. effects' = effects \cup E
    BY <1>4 DEF ListStatements
  <2>2. Records(r, E)
    BY <1>1, <1>2, <2>1 DEF Records, Ids
  <2> QED
    BY <2>2
<1>5. CASE ListViews(r)
  <2> DEFINE E == {ReadEffect(r, library[i]) : i \in {j \in Views : VisibleTo(r, library[j])}}
  <2>1. effects' = effects \cup E
    BY <1>5 DEF ListViews
  <2>2. Records(r, E)
    BY <1>1, <1>2, <2>1 DEF Records, Ids
  <2> QED
    BY <2>2
<1> QED
  BY <1>3, <1>4, <1>5

(* What is written is an admin's or the writer's own.                      *)
LEMMA WriteRecords ==
    ASSUME AccountsInv, LibraryTyped, LibraryInv, OwnedRows, NEW r \in Calls,
           \/ PutQueryWorkspace(r) \/ CreateSavedStatement(r) \/ CreateNamedInventoryView(r)
           \/ WriteStatement(r) \/ WriteView(r)
    PROVE  UNCHANGED effects \/ \E E : Records(r, E)
<1>1. UNCHANGED <<users, accountLog, tokens>>
  BY DEF PutQueryWorkspace, CreateSavedStatement, CreateNamedInventoryView, WriteStatement,
     WriteView, accountVars
<1>2. call[r].pc \in Serving /\ UserActor(r)
  BY InvParts, RequestTypes DEF PutQueryWorkspace, CreateSavedStatement, CreateNamedInventoryView,
     WriteStatement, WriteView, Op, At, ActorInv, Serving, MachineActor
<1>3. ASSUME NEW scope, NEW owner, Entitled(r, scope, owner),
             effects' = effects \cup {Effect(r, scope, owner)}
      PROVE  \E E : Records(r, E)
  <2>1. Records(r, {Effect(r, scope, owner)})
    BY <1>1, <1>3 DEF Records
  <2> QED
    BY <2>1
<1>4. CASE PutQueryWorkspace(r)
  <2>1. \/ UNCHANGED effects
        \/ effects' = effects \cup {Effect(r, "personal", call[r].actor.user)}
    BY <1>4 DEF PutQueryWorkspace
  <2> QED
    BY <1>2, <1>3, <2>1 DEF Entitled
<1>5. CASE CreateSavedStatement(r) \/ CreateNamedInventoryView(r)
  <2> DEFINE scope == call[r].request.scope
  <2>1. \/ UNCHANGED effects
        \/ MayCreate(r) /\ effects' = effects \cup {Effect(r, scope, call[r].actor.user)}
    BY <1>5 DEF CreateSavedStatement, CreateNamedInventoryView, InsertRow
  <2>2. scope \in {"shared", "personal"}
    BY <1>2, <1>5, InvParts, RequestTypes
       DEF CreateSavedStatement, CreateNamedInventoryView, Op, UserActor
  <2> QED
    BY <1>2, <1>3, <2>1, <2>2 DEF Entitled, MayCreate
<1>6. CASE WriteStatement(r) \/ WriteView(r)
  <2> DEFINE i == call[r].request.id
             row == library[i]
  <2>1. \/ UNCHANGED effects
        \/ row # None /\ effects' = effects \cup {Effect(r, row.scope, row.owner)}
    BY <1>6 DEF WriteStatement, WriteView, StatementRowMatches
  <2>2. i \in Ids /\ (row # None => Refusal(r, row) = "none")
    BY <1>6 DEF WriteStatement, WriteView, At, LibraryInv, LibraryTyped
  <2>3. row # None => row.scope \in {"shared", "personal"}
    BY <2>2 DEF LibraryTyped, LibraryRow
  <2> QED
    BY <1>2, <1>3, <2>1, <2>2, <2>3 DEF Entitled, Refusal
<1> QED
  BY <1>4, <1>5, <1>6

LEMMA EffectStep ==
    ASSUME AccountsInv, LibraryTyped, LibraryInv, EffectInv, [Next]_vars
    PROVE  EffectInv'
<1>1. OwnedRows /\ Later /\ Sound
  BY StateStep, InvParts DEF LibraryInv, OwnedRows
<1>2. UNCHANGED effects \/ \E r \in Calls : \E E : Records(r, E)
  <2>1. ASSUME NEW r \in Calls,
               \/ CreateMachinePrincipal(r) \/ Rotate(r) \/ Revoke(r) \/ ListMachinePrincipals(r)
               \/ ReadStatement(r) \/ ListStatements(r) \/ ListViews(r)
               \/ PutQueryWorkspace(r) \/ CreateSavedStatement(r) \/ CreateNamedInventoryView(r)
               \/ WriteStatement(r) \/ WriteView(r)
        PROVE  UNCHANGED effects \/ \E E : Records(r, E)
    BY <1>1, <2>1, AdminRecords, ReadRecords, WriteRecords
  <2>2. \/ UNCHANGED effects
        \/ \E r \in Calls :
             \/ CreateMachinePrincipal(r) \/ Rotate(r) \/ Revoke(r) \/ ListMachinePrincipals(r)
             \/ ReadStatement(r) \/ ListStatements(r) \/ ListViews(r)
             \/ PutQueryWorkspace(r) \/ CreateSavedStatement(r) \/ CreateNamedInventoryView(r)
             \/ WriteStatement(r) \/ WriteView(r)
    BY DEF Next, AccountsNext, ShelfNext, vars, Arrive, Login, LoginUpgrade, IssueToken,
       VerifyBearer, RejectClock, RejectCount, Authenticate, MarkUsed, MarkUsedRecheck, RefuseNonAdmin,
       RefuseCredentialBody, ChangeUserRole, SetUserActive, ResetUserPassword, ChangeAccount, Tick,
       RefuseWorkspaceBody, GetQueryWorkspace, RefuseStatementBody, RefuseStatement,
       AuthorizeStatement, LoadParameterDefinitions, RefuseView, ReadBackView, AuthorizeView
  <2> QED
    BY <2>1, <2>2
<1>3. ASSUME NEW e \in effects
      PROVE  e.by \in Calls /\ call'[e.by].pc \in Settled /\ Justified(e)'
  <2>1. e.by \in Calls /\ call[e.by].pc \in Settled /\ Justified(e)
    BY DEF EffectInv
  <2>2. /\ call'[e.by].pc \in Settled /\ call'[e.by].actor = call[e.by].actor
        /\ call'[e.by].credential = call[e.by].credential /\ call'[e.by].born = call[e.by].born
    BY <2>1, SettledStays
  <2>3. /\ \A u \in Users : users[u].version \in Nat /\ users'[u].version \in Nat
        /\ \A t \in tokens : t.user \in Users /\ t.version \in 1..users[t.user].version
    <3>1. Sound'
      BY StateStep
    <3>2. \A u \in Users : users'[u].version \in Nat
      BY <3>1, Bounds DEF Sound, AccountsStateTyped, Account
    <3> QED
      BY <1>1, <3>2, RowTypes DEF Sound, TokenInv
  <2>4. CASE call[e.by].actor.user = None
    BY <2>1, <2>2, <2>4 DEF Justified
  <2>5. CASE call[e.by].actor.user # None
    <3>1. PICK t \in tokens : t = call[e.by].credential
      BY <2>1, <2>5 DEF Justified
    <3>2. /\ call[e.by].born \in 1..t.version /\ e.at \in t.version..users[t.user].version
          /\ accountLog[t.user][t.version].active
          /\ accountLog[t.user][t.version].password = t.password
          /\ e.scope = "shared" => accountLog[t.user][t.version].role = "admin"
          /\ e.scope = "personal" => e.owner = t.user
      BY <2>1, <2>5, <3>1 DEF Justified
    <3>3. /\ accountLog'[t.user][t.version] = accountLog[t.user][t.version]
          /\ e.at \in t.version..users'[t.user].version /\ t \in tokens'
      BY <1>1, <2>3, <3>2 DEF Later
    <3> QED
      BY <2>1, <2>2, <2>5, <3>1, <3>2, <3>3 DEF Justified
  <2> QED
    BY <2>1, <2>2, <2>4, <2>5
<1>4. ASSUME NEW r \in Calls, NEW E, Records(r, E), NEW e \in E
      PROVE  e.by \in Calls /\ call'[e.by].pc \in Settled /\ Justified(e)'
  BY <1>4, EffectIsJustified DEF Records
<1> QED
  BY <1>2, <1>3, <1>4 DEF EffectInv, Records

-----------------------------------------------------------------------------
(* The invariant.                                                          *)

LEMMA ShelfParts ==
    /\ ShelfTyped <=> EditsTyped /\ LibraryTyped
    /\ EditsBuildOnEachOther <=> EditsOrdered /\ \A r \in Calls : ShownRight(r)
<1>1. ShelfTyped <=> EditsTyped /\ LibraryTyped
  BY DEF ShelfTyped, EditsTyped, LibraryTyped
<1>2. EditsBuildOnEachOther <=> EditsOrdered /\ \A r \in Calls : ShownRight(r)
  BY DEF EditsBuildOnEachOther, EditsOrdered, ShownRight, Described
<1> QED
  BY <1>1, <1>2

LEMMA ShelfPartsNext ==
    /\ ShelfTyped' <=> EditsTyped' /\ LibraryTyped'
    /\ EditsBuildOnEachOther' <=> EditsOrdered' /\ \A r \in Calls : ShownRight(r)'
<1>1. ShelfTyped' <=> EditsTyped' /\ LibraryTyped'
  BY DEF ShelfTyped, EditsTyped, LibraryTyped
<1>2. EditsBuildOnEachOther' <=> EditsOrdered' /\ \A r \in Calls : ShownRight(r)'
  BY DEF EditsBuildOnEachOther, EditsOrdered, ShownRight, Described
<1> QED
  BY <1>1, <1>2

LEMMA NextWorkbenchInv ==
    ASSUME WorkbenchInv, [Next]_vars
    PROVE  WorkbenchInv'
<1>1. /\ AccountsInv /\ EditsTyped /\ LibraryTyped /\ WorkspaceInv /\ LibraryInv /\ EffectInv
      /\ EditsOrdered /\ \A r \in Calls : ShownInv(r) /\ ShownRight(r)
  BY ShelfParts DEF WorkbenchInv, ShelfInv
<1>2. AccountsInv'
  BY <1>1, AccountsInvStep
<1>3. EditsTyped' /\ WorkspaceInv' /\ EditsOrdered'
  BY <1>1, WorkspaceStep
<1>4. \A r \in Calls : ShownInv(r)' /\ ShownRight(r)'
  BY <1>1, ShownStep
<1>5. LibraryTyped' /\ LibraryInv'
  BY <1>1, LibraryStep
<1>6. EffectInv'
  BY <1>1, EffectStep
<1> QED
  BY <1>2, <1>3, <1>4, <1>5, <1>6, ShelfPartsNext DEF WorkbenchInv, ShelfInv

LEMMA InitAccountsInv ==
    ASSUME Init
    PROVE  AccountsInv
<1>1. PICK q \in Requests : call = [r \in Calls |-> idleCall(q[r])]
  BY DEF Init, AccountsInit
<1>2. \A r \in Calls : /\ call[r].pc = "idle" /\ DOMAIN call[r] = CallFields
                       /\ call[r].request \in AnyRequest
  BY <1>1, WorkbenchAssumption DEF idleCall, CallFields
<1>3. \A u \in Users : /\ FirstAccount[u] \in Account /\ FirstAccount[u].version = 1
                       /\ Authority(FirstAccount[u]) \in LoggedAuthority
                       /\ FirstAccount[u].hash.password \in Passwords
  BY AccountsAssumption DEF Account, Authority, LoggedAuthority
<1>4. \A u \in Users : /\ accountLog[u] = <<Authority(FirstAccount[u])>>
                       /\ accountLog[u] \in Seq(LoggedAuthority) /\ Len(accountLog[u]) = 1
                       /\ accountLog[u][1] = Authority(FirstAccount[u])
  BY <1>3 DEF Init, AccountsInit
<1>5. users = FirstAccount /\ now = 0
  BY DEF Init, AccountsInit
<1>6. LogInv
  BY <1>3, <1>4, <1>5 DEF LogInv
<1>7. \A t \in tokens : /\ t \in Token /\ t.user \in Users /\ t.version = 1
                        /\ t.password = FirstAccount[t.user].hash.password
  BY <1>3, Bounds DEF Init, AccountsInit, Token
<1>8. TokenInv
  <2>1. ASSUME NEW u \in Users
        PROVE  accountLog[u][1].password = FirstAccount[u].hash.password
    <3>1. accountLog[u][1] = Authority(FirstAccount[u])
      BY <1>4
    <3>2. Authority(FirstAccount[u]).password = FirstAccount[u].hash.password
      BY DEF Authority
    <3> QED
      BY <3>1, <3>2
  <2>2. \A u \in Users : users[u].version = 1
    BY <1>3, <1>5
  <2>3. ASSUME NEW t \in tokens
        PROVE  /\ t.version <= users[t.user].version
               /\ t.password = accountLog[t.user][t.version].password
    BY <1>7, <2>1, <2>2
  <2> QED
    BY <2>3 DEF TokenInv
<1>9. creds \in [Creds -> Credential \cup {None}]
  BY Bounds DEF Init, AccountsInit, Credential
<1>10. AccountsTyped
  <2>1. accountLog \in [Users -> Seq(LoggedAuthority)]
    BY <1>3, <1>4 DEF Init, AccountsInit
  <2>2. users \in [Users -> Account]
    BY <1>5, AccountsAssumption
  <2>3. now \in 0..MaxNow
    BY <1>5, Bounds
  <2> QED
    BY <1>1, <1>2, <1>7, <1>9, <2>1, <2>2, <2>3 DEF AccountsTyped
<1>11. BudgetInv /\ RejectionsWithinBudget
  <2>1. rejectionRows = {} /\ budget = [start |-> None, count |-> 0]
    BY DEF Init, AccountsInit
  <2>2. {row \in rejectionRows : row.start = budget.start} = {}
    BY <2>1
  <2>3. Cardinality({row \in rejectionRows : row.start = budget.start}) = 0 /\ IsFiniteSet(rejectionRows)
    BY <2>1, <2>2, FS_EmptySet
  <2>4. budget \in [start : Nat \cup {None}, count : 0..Limit] /\ budget.count = 0
    BY <2>1, Bounds
  <2>5. BudgetInv
    BY <1>2, <2>1, <2>3, <2>4 DEF BudgetInv
  <2>6. RejectionsWithinBudget
    BY <2>1 DEF RejectionsWithinBudget
  <2> QED
    BY <2>5, <2>6
<1>12. \A r \in Calls : LoginInv(r) /\ MachineInv(r) /\ VerifyInv(r) /\ ActorInv(r)
  BY <1>2 DEF LoginInv, MachineInv, VerifyInv, ActorInv, Serving
<1> QED
  BY <1>6, <1>8, <1>10, <1>11, <1>12 DEF AccountsInv

LEMMA InitWorkbenchInv ==
    ASSUME Init
    PROVE  WorkbenchInv
<1>1. \A r \in Calls : call[r].pc = "idle" /\ call[r].shown = None
  BY DEF Init, AccountsInit, idleCall
<1>2. effects = {}
  BY DEF Init, AccountsInit
<1>3. /\ workspace = [u \in Users |-> None] /\ edits = [u \in Users |-> <<>>]
      /\ issued = SharedAtStart
      /\ library = [i \in Ids |->
                      IF i \in SharedAtStart
                      THEN [scope |-> "shared", owner |-> None, text |-> None, params |-> None]
                      ELSE None]
  BY DEF Init
<1>4. ShelfTyped
  BY <1>3, WorkbenchAssumption DEF ShelfTyped, LibraryRow, Ids
<1>5. WorkspaceInv /\ LibraryInv /\ EffectInv
  BY <1>1, <1>2, <1>3 DEF WorkspaceInv, LibraryInv, EffectInv
<1>6. EditsBuildOnEachOther /\ \A r \in Calls : ShownInv(r)
  BY <1>1, <1>3 DEF EditsBuildOnEachOther, ShownInv
<1> QED
  BY <1>4, <1>5, <1>6, InitAccountsInv DEF WorkbenchInv, ShelfInv

(* The invariant holds in every reachable state.                           *)
LEMMA Invariance == Spec => []WorkbenchInv
<1>1. Init => WorkbenchInv
  BY InitWorkbenchInv
<1>2. WorkbenchInv /\ [Next]_vars => WorkbenchInv'
  BY NextWorkbenchInv
<1> QED
  BY <1>1, <1>2, PTL DEF Spec

(* A password reset wins over every login that races with it, however many *)
(* logins, verifications and administrators run at once: the stored hash   *)
(* is of the password set last, and a token VerifyToken accepts was issued *)
(* to someone who presented that password.  UpgradePasswordHash's compare- *)
(* and-swap and the version issueToken signs are what it rests on.         *)
THEOREM AResetWins == Spec => []ResetWins
<1>1. ASSUME WorkbenchInv PROVE ResetWins
  <2>1. Sound
    BY <1>1, InvParts DEF WorkbenchInv
  <2>2. \A u \in Users : accountLog[u][users[u].version].password = users[u].hash.password
    BY <2>1, LastLogged
  <2>3. \A t \in tokens : t.user \in Users /\ t.password = accountLog[t.user][t.version].password
    BY <2>1, RowTypes DEF Sound, TokenInv
  <2> QED
    BY <2>2, <2>3 DEF ResetWins, TokenIsCurrent, FindByID
<1> QED
  BY <1>1, Invariance, PTL

(* At most Limit rejection rows are written per window and no two windows  *)
(* overlap, for any number of rejected calls, each of which may have read  *)
(* the clock before another opened the window it is counted in.            *)
THEOREM RejectionsAreBounded == Spec => []RejectionsWithinBudget
<1>1. WorkbenchInv => RejectionsWithinBudget
  BY DEF WorkbenchInv, AccountsInv
<1> QED
  BY <1>1, Invariance, PTL

(* No accepted workspace write is lost and every answer shows the content  *)
(* written as the version it names: PutQueryWorkspace under an expected    *)
(* version, with its second read, for any number of clients.               *)
THEOREM NoEditIsLost == Spec => []EditsBuildOnEachOther
<1>1. WorkbenchInv => EditsBuildOnEachOther
  BY DEF WorkbenchInv, ShelfInv
<1> QED
  BY <1>1, Invariance, PTL

(* Whatever a call read or changed, its user or machine was entitled to at *)
(* some moment between the arrival and the effect, whatever account and    *)
(* credential changes and whatever writes to the row came in between.      *)
THEOREM EffectsHaveAuthority == Spec => []ServedOnLiveAuthority
<1>1. ASSUME WorkbenchInv PROVE ServedOnLiveAuthority
  <2>1. Sound /\ EffectInv
    BY <1>1, InvParts DEF WorkbenchInv, ShelfInv
  <2>2. SUFFICES ASSUME NEW e \in effects, call[e.by].actor.user # None
                 PROVE  \E a \in AuthoritiesDuring(e) :
                          /\ a.active /\ a.password = call[e.by].credential.password
                          /\ e.scope = "shared" => a.role = "admin"
                          /\ e.scope = "personal" => e.owner = call[e.by].credential.user
    BY <2>1 DEF ServedOnLiveAuthority, EffectInv, Justified
  <2>3. PICK t \in tokens : t = call[e.by].credential
    BY <2>1, <2>2 DEF EffectInv, Justified
  <2>4. /\ call[e.by].born \in 1..t.version /\ e.at \in t.version..users[t.user].version
        /\ accountLog[t.user][t.version].active
        /\ accountLog[t.user][t.version].password = t.password
        /\ e.scope = "shared" => accountLog[t.user][t.version].role = "admin"
        /\ e.scope = "personal" => e.owner = t.user
    BY <2>1, <2>2, <2>3 DEF EffectInv, Justified
  <2>5. t.version \in call[e.by].born .. e.at
    BY <2>1, <2>3, <2>4, RowTypes DEF Sound
  <2>6. accountLog[t.user][t.version] \in AuthoritiesDuring(e)
    BY <2>3, <2>5 DEF AuthoritiesDuring
  <2> QED
    BY <2>3, <2>4, <2>6
<1> QED
  BY <1>1, Invariance, PTL
=============================================================================
