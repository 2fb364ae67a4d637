----------------------------- MODULE Workbench ------------------------------
(***************************************************************************)
(* What a user keeps on the server: the query workspace (one row per user, *)
(* replaced under an expected version), saved statements and named         *)
(* inventory views (personal or shared rows, changed after a read that     *)
(* decides who may).  The calls are those of Accounts: a call that the     *)
(* middleware accepted carries the user and the role read then, and every  *)
(* later statement of its handler relies on them.                          *)
(*                                                                         *)
(* edits[u] is a history variable: the accepted workspace writes of u.     *)
(* issued holds the ids AUTO_INCREMENT has given out: none is given again, *)
(* although its row may be deleted.                                        *)
(***************************************************************************)
EXTENDS Accounts

CONSTANTS
    Statements,   \* ids of saved statements
    Views,        \* ids of named inventory views
    SharedAtStart \* ids of the shared rows that exist at the start

\* What the calls may ask for.  op is the route; by is who the caller says
\* it is.
WorkspaceRequests == [by : {"user"}, op : {"wsPut"}, expected : Nat]
StatementRequests ==
    [by : {"user"}, op : {"stCreate"}, scope : {"shared", "personal"}]
    \cup [by : {"user"}, op : {"stUpdate", "stDelete", "stRead"}, id : Statements]
ViewRequests ==
    [by : {"user"}, op : {"viewCreate"}, scope : {"shared", "personal"}]
    \cup [by : {"user"}, op : {"viewUpdate", "viewDelete"}, id : Views]
CredentialRequests ==
    [by : {"user"}, op : {"credCreate", "credList"}]
    \cup [by : {"user"}, op : {"credRotate", "credRevoke"}, id : Creds]
Reads ==
    [by : {"user"}, op : {"wsGet", "stList", "viewList"}]
    \cup [by : {"machine"}, op : {"viewList"}]
Logins == [by : {"login"}, user : Users, password : Passwords]

AnyRequest ==
    WorkspaceRequests \cup StatementRequests \cup ViewRequests
    \cup CredentialRequests \cup Reads \cup Logins

\* A row of query_workspaces, a write to it, and a row of the two tables of
\* named rows.
WorkspaceRow == [version : Nat, content : Calls]
Edit == [by : Calls, on : Nat]
LibraryRow == [scope : {"shared", "personal"}, owner : Users \cup {None},
               text : Calls \cup {None}, params : Calls \cup {None}]

ASSUME WorkbenchAssumption ==
    /\ SharedAtStart \subseteq Statements \cup Views
    /\ \A q \in Requests, r \in Calls : q[r] \in AnyRequest
    /\ None \notin WorkspaceRow

VARIABLES workspace, edits, library, issued

shelfVars == <<workspace, edits, library, issued>>
vars == <<accountVars, call, effects, shelfVars>>

Ids == Statements \cup Views

Init ==
    /\ AccountsInit
    /\ workspace = [u \in Users |-> None]
    /\ edits = [u \in Users |-> <<>>]
    /\ library = [i \in Ids |->
                    IF i \in SharedAtStart
                    THEN [scope |-> "shared", owner |-> None, text |-> None, params |-> None]
                    ELSE None]
    /\ issued = SharedAtStart

Op(r, op) == At(r, "accepted") /\ call[r].request.op = op

-----------------------------------------------------------------------------
(* Query workspace *)

\* A write that takes the version it finds.
VersionMatchesAnything(row, expected) == expected = 0 => row = None

\* INSERT for expected version 0, otherwise UPDATE ... WHERE version = ?.
VersionMatches(row, expected) ==
    IF expected = 0 THEN row = None
    ELSE row # None /\ row.version = expected

\* A body that is too large, repeats or misses a field, or fails Validate.
RefuseWorkspaceBody(r) ==
    /\ Op(r, "wsPut")
    /\ Answer(r, "invalid")
    /\ UNCHANGED <<accountVars, effects, shelfVars>>

PutQueryWorkspace(r) ==
    LET u == call[r].actor.user
        expected == call[r].request.expected
    IN
    /\ Op(r, "wsPut")
    /\ IF VersionMatches(workspace[u], expected)
       THEN /\ workspace' = [workspace EXCEPT ![u] =
                    [version |-> IF @ = None THEN 1 ELSE @.version + 1, content |-> r]]
            /\ edits' = [edits EXCEPT ![u] = Append(@, [by |-> r, on |-> expected])]
            /\ effects' = effects \cup {Effect(r, "personal", u)}
            /\ Move(r, "wsRead", <<>>)
       ELSE Answer(r, "conflict") /\ UNCHANGED <<workspace, edits, effects>>
    /\ UNCHANGED <<accountVars, library, issued>>

\* GET, and the answer of PUT: whatever the row holds by then.
GetQueryWorkspace(r) ==
    /\ Op(r, "wsGet") \/ At(r, "wsRead")
    /\ Move(r, "done", [shown |-> IF workspace[call[r].actor.user] = None
                                  THEN [version |-> 0, content |-> None]
                                  ELSE workspace[call[r].actor.user]])
    /\ UNCHANGED <<accountVars, effects, shelfVars>>

-----------------------------------------------------------------------------
(* Saved statements and named views: rows with a scope and an owner *)

GetByID(id) == library[id]

\* The WHERE clause of the lists.
VisibleTo(r, row) ==
    row # None /\ (row.scope = "shared" \/ row.owner = call[r].actor.user)

ReadEffect(r, row) ==
    Effect(r, IF row.scope = "shared" THEN "read" ELSE "personal", row.owner)

\* What the actor may not change, decided on a row read before the write:
\* a personal row of someone else is hidden, a shared row is the admins'.
Refusal(r, row) ==
    IF row = None \/ (row.scope = "personal" /\ row.owner # call[r].actor.user)
    THEN "not found"
    ELSE IF row.scope = "shared" /\ ~IsAdmin(r) THEN "forbidden"
    ELSE "none"

\* A new row; a shared one is created by admins only.
InsertRow(r, ids) ==
    LET scope == call[r].request.scope IN
    \E i \in ids \ issued :
        /\ issued' = issued \cup {i}
        /\ library' = [library EXCEPT ![i] =
                         [scope |-> scope, owner |-> call[r].actor.user,
                          text |-> r, params |-> r]]
        /\ effects' = effects \cup {Effect(r, scope, call[r].actor.user)}
        /\ IF i \in Views THEN Move(r, "viewBack", [read |-> i]) ELSE Answer(r, "ok")

MayCreate(r) == call[r].request.scope = "personal" \/ IsAdmin(r)

\* A body that repeats a field or fails Validate is refused first; text,
\* parameters and connection are validated once the actor may write.
RefuseStatementBody(r) ==
    /\ Op(r, "stCreate") \/ Op(r, "stUpdate")
    /\ Answer(r, "invalid")
    /\ UNCHANGED <<accountVars, effects, shelfVars>>

RefuseStatement(r) ==
    /\ \/ Op(r, "stCreate") /\ MayCreate(r)
       \/ At(r, "stWrite") /\ call[r].request.op = "stUpdate"
    /\ Answer(r, "invalid")
    /\ UNCHANGED <<accountVars, effects, shelfVars>>

RefuseView(r) ==
    /\ Op(r, "viewCreate") \/ Op(r, "viewUpdate")
    /\ Answer(r, "invalid")
    /\ UNCHANGED <<accountVars, effects, shelfVars>>

CreateSavedStatement(r) ==
    /\ Op(r, "stCreate")
    /\ IF MayCreate(r) THEN InsertRow(r, Statements)
       ELSE Answer(r, "forbidden") /\ UNCHANGED <<library, issued, effects>>
    /\ UNCHANGED <<accountVars, workspace, edits>>

CreateNamedInventoryView(r) ==
    /\ Op(r, "viewCreate")
    /\ IF MayCreate(r) THEN InsertRow(r, Views)
       ELSE Answer(r, "forbidden") /\ UNCHANGED <<library, issued, effects>>
    /\ UNCHANGED <<accountVars, workspace, edits>>

\* Create answers with a read of the new row, which may be gone by then.
ReadBackView(r) ==
    /\ At(r, "viewBack")
    /\ Answer(r, IF library[call[r].read] = None THEN "not found" ELSE "ok")
    /\ UNCHANGED <<accountVars, effects, shelfVars>>

\* Update and Delete of a statement: GetByID, the authorization on what it
\* returned.
AuthorizeStatement(r) ==
    LET refusal == Refusal(r, GetByID(call[r].request.id)) IN
    /\ Op(r, "stUpdate") \/ Op(r, "stDelete")
    /\ IF refusal # "none" THEN Answer(r, refusal)
       ELSE Move(r, "stWrite", <<>>)
    /\ UNCHANGED <<accountVars, effects, shelfVars>>

\* The WHERE clause of UpdateWithAudit and DeleteWithAudit.
StatementRowMatches(r, row) ==
    /\ row # None
    /\ row.owner = call[r].actor.user \/ (IsAdmin(r) /\ row.scope = "shared")

\* UpdateWithAudit or DeleteWithAudit: the row, its parameters and the audit
\* event in one transaction.
WriteStatement(r) ==
    LET i == call[r].request.id
        row == library[i]
    IN
    /\ At(r, "stWrite")
    /\ IF StatementRowMatches(r, row)
       THEN /\ library' = [library EXCEPT ![i] =
                    IF call[r].request.op = "stDelete" THEN None
                    ELSE [@ EXCEPT !.text = r, !.params = r]]
            /\ effects' = effects \cup {Effect(r, row.scope, row.owner)}
            /\ Answer(r, "ok")
       ELSE Answer(r, "not found") /\ UNCHANGED <<library, effects>>
    /\ UNCHANGED <<accountVars, workspace, edits, issued>>

\* RestoreContext, and the read before a saved statement is executed: one
\* joined SELECT.  Others' personal statements are hidden; a connection that
\* is disabled or a schema that is gone refuses the rest.
ReadStatement(r) ==
    LET row == GetByID(call[r].request.id)
        hidden == ~VisibleTo(r, row)
    IN
    /\ Op(r, "stRead")
    /\ \/ hidden /\ Answer(r, "not found") /\ UNCHANGED effects
       \/ ~hidden /\ Answer(r, "not allowed") /\ UNCHANGED effects
       \/ /\ ~hidden
          /\ Answer(r, "ok")
          /\ effects' = effects \cup {ReadEffect(r, row)}
    /\ UNCHANGED <<accountVars, shelfVars>>

\* The page of the list, and the parameters of its rows by a second SELECT.
ListStatements(r) ==
    LET visible == {i \in Statements : VisibleTo(r, library[i])} IN
    /\ Op(r, "stList")
    /\ effects' = effects \cup {ReadEffect(r, library[i]) : i \in visible}
    /\ Move(r, "stParams", [read |-> [i \in visible |-> library[i].text]])
    /\ UNCHANGED <<accountVars, shelfVars>>

LoadParameterDefinitions(r) ==
    /\ At(r, "stParams")
    /\ Move(r, "done", [answer |-> "ok", read |-> None,
            shown |-> [i \in DOMAIN call[r].read |->
                        [text |-> call[r].read[i],
                         params |-> IF library[i] = None THEN None ELSE library[i].params]]])
    /\ UNCHANGED <<accountVars, effects, shelfVars>>

\* Update and Delete of a view: the read and the authorization ...
AuthorizeView(r) ==
    LET refusal == Refusal(r, library[call[r].request.id]) IN
    /\ Op(r, "viewUpdate") \/ Op(r, "viewDelete")
    /\ IF refusal # "none" THEN Answer(r, refusal)
       ELSE Move(r, "viewWrite", [read |-> library[call[r].request.id]])
    /\ UNCHANGED <<accountVars, effects, shelfVars>>

\* ... and a write by id alone.  MySQL counts the rows that change, so an
\* update to what is stored already finds nothing.
WriteView(r) ==
    LET i == call[r].request.id
        row == library[i]
        delete == call[r].request.op = "viewDelete"
    IN
    /\ At(r, "viewWrite")
    /\ \E text \in {r, call[r].read.text} :
         IF row # None /\ (delete \/ row.text # text)
         THEN /\ library' = [library EXCEPT ![i] =
                    IF delete THEN None ELSE [@ EXCEPT !.text = text]]
              /\ effects' = effects \cup {Effect(r, row.scope, row.owner)}
              /\ Answer(r, "ok")
         ELSE Answer(r, "not found") /\ UNCHANGED <<library, effects>>
    /\ UNCHANGED <<accountVars, workspace, edits, issued>>

\* A machine lists the shared views only, a user also the personal ones.
ListViews(r) ==
    /\ Op(r, "viewList")
    /\ effects' = effects \cup
         {ReadEffect(r, library[i]) : i \in {j \in Views : VisibleTo(r, library[j])}}
    /\ Answer(r, "ok")
    /\ UNCHANGED <<accountVars, shelfVars>>

-----------------------------------------------------------------------------

ShelfNext ==
    \E r \in Calls :
      \/ RefuseWorkspaceBody(r) \/ PutQueryWorkspace(r) \/ GetQueryWorkspace(r)
      \/ RefuseStatementBody(r) \/ RefuseStatement(r) \/ CreateSavedStatement(r)
      \/ AuthorizeStatement(r) \/ WriteStatement(r) \/ ReadStatement(r) \/ ListStatements(r)
      \/ LoadParameterDefinitions(r)
      \/ RefuseView(r) \/ CreateNamedInventoryView(r) \/ ReadBackView(r)
      \/ AuthorizeView(r) \/ WriteView(r) \/ ListViews(r)

Next == (AccountsNext /\ UNCHANGED shelfVars) \/ ShelfNext

Spec == Init /\ [][Next]_vars

-----------------------------------------------------------------------------
(* Properties *)

\* The versions the account of call r went through from its arrival to the
\* effect e, and the authority it had at each.
AuthoritiesDuring(e) ==
    {accountLog[call[e.by].credential.user][v] : v \in call[e.by].born .. e.at}

\* Whatever a call read or changed, it was entitled to at some moment between
\* its arrival and its effect: a user by an active account whose password the
\* token was issued for, as the owner of a personal row, as an admin for a
\* shared one; a machine by a credential that was neither revoked nor expired
\* when the call arrived.  The check and the effect are separate statements,
\* with account changes in between.
ServedOnLiveAuthority ==
    \A e \in effects :
        IF call[e.by].actor.user = None THEN call[e.by].born = FALSE /\ e.scope = "read"
        ELSE \E a \in AuthoritiesDuring(e) :
               /\ a.active /\ a.password = call[e.by].credential.password
               /\ e.scope = "shared" => a.role = "admin"
               /\ e.scope = "personal" => e.owner = call[e.by].credential.user

\* No workspace edit is lost: the i-th accepted write was made on version
\* i - 1, and whoever was told version v was shown the content written as
\* version v, although PUT answers with a second read.
EditsBuildOnEachOther ==
    /\ \A u \in Users :
         \A i \in DOMAIN edits[u] : edits[u][i].on = i - 1
    /\ \A r \in Calls :
         call[r].shown # None /\ call[r].request.op \in {"wsPut", "wsGet"}
         => LET shown == call[r].shown
                log == edits[call[r].actor.user]
            IN  IF shown.version = 0 THEN shown.content = None
                ELSE shown.version \in DOMAIN log /\ log[shown.version].by = shown.content

-----------------------------------------------------------------------------
(* The inductive invariant: why the properties hold.                       *)

CallFields == {"pc", "request", "credential", "read", "stamp", "actor", "born",
               "answer", "shown"}

Token == [user : Users, version : 1..MaxVersion, issuedAt : 0..MaxNow,
          password : Passwords]

LoggedAuthority == [role : {"admin", "viewer"}, active : BOOLEAN, password : Passwords]

AccountsTyped ==
    /\ users \in [Users -> Account]
    /\ accountLog \in [Users -> Seq(LoggedAuthority)]
    /\ tokens \subseteq Token
    /\ creds \in [Creds -> Credential \cup {None}]
    /\ now \in 0..MaxNow
    /\ DOMAIN call = Calls
    /\ \A r \in Calls : /\ DOMAIN call[r] = CallFields
                        /\ call[r].request \in AnyRequest

\* The account is the last entry of its log, and a token carries the password
\* its version had.
LogInv == \A u \in Users : /\ Len(accountLog[u]) = users[u].version
                           /\ accountLog[u][users[u].version] = Authority(users[u])

TokenInv == \A t \in tokens :
    /\ t.version <= users[t.user].version
    /\ t.password = accountLog[t.user][t.version].password

\* A login holds a row as it was at some version, with the password presented.
LoginInv(r) ==
    call[r].pc \in {"find", "upgrade", "issue"} =>
        /\ call[r].request.by = "login"
        /\ call[r].pc # "find" =>
             LET q == call[r].request
                 account == call[r].read
             IN  /\ account \in Account
                 /\ account.version <= users[q.user].version
                 /\ account.hash.password = q.password
                 /\ accountLog[q.user][account.version].password = q.password

\* The rows written lie in windows that ended, or in the current one, which
\* counts them.
BudgetInv ==
    /\ budget \in [start : Nat \cup {None}, count : 0..Limit]
    /\ rejectionRows \subseteq [by : Calls, start : Nat]
    /\ IsFiniteSet(rejectionRows)
    /\ budget.start = None => rejectionRows = {}
    /\ \A row \in rejectionRows :
         row.start = budget.start \/ row.start + Window <= budget.start
    /\ Cardinality({row \in rejectionRows : row.start = budget.start}) <= budget.count
    /\ \A r \in Calls : call[r].pc = "count" => call[r].stamp \in Nat

\* A credential read as bad when the call arrived is never good later.
Valid(c) == ~creds[c].revoked /\ now < creds[c].expiresAt /\ creds[c].reads

MachineInv(r) ==
    call[r].pc \in {"findCredential", "markUsed", "recheck"} =>
        LET c == call[r].credential IN
        /\ call[r].request.by = "machine"
        /\ call[r].pc # "findCredential" =>
             c \in Creds /\ creds[c] # None /\ call[r].born = FALSE
             /\ call[r].stamp \in 0..MaxNow
        /\ call[r].pc = "findCredential" /\ c # Damaged =>
             /\ c \in Creds /\ creds[c] # None
             /\ Valid(c) => call[r].born = FALSE

\* A token that is being verified, with the version its account had when the
\* call arrived.
VerifyInv(r) ==
    call[r].pc = "verify" =>
        LET t == call[r].credential IN
        /\ call[r].request.by = "user"
        /\ t # Damaged => t \in tokens /\ call[r].born \in 1..users[t.user].version

\* Places behind the middleware.
Serving == {"accepted", "wsRead", "stWrite", "viewWrite", "stParams", "viewBack"}

\* The middleware accepted call r for what its account was at the version of
\* the token, which it had not left when the call arrived.
UserActor(r) ==
    LET t == call[r].credential IN
    /\ call[r].request.by = "user"
    /\ t \in tokens
    /\ call[r].born \in 1..t.version
    /\ accountLog[t.user][t.version].active
    /\ call[r].actor.user = t.user
    /\ call[r].actor.role = accountLog[t.user][t.version].role

MachineActor(r) ==
    /\ call[r].request.by = "machine"
    /\ call[r].actor.user = None
    /\ call[r].actor.role = "machine"
    /\ call[r].born = FALSE
    /\ call[r].pc = "accepted"

ActorInv(r) == call[r].pc \in Serving => UserActor(r) \/ MachineActor(r)

AccountsInv ==
    /\ AccountsTyped /\ LogInv /\ TokenInv /\ BudgetInv /\ RejectionsWithinBudget
    /\ \A r \in Calls : LoginInv(r) /\ MachineInv(r) /\ VerifyInv(r) /\ ActorInv(r)

ShelfTyped ==
    /\ workspace \in [Users -> WorkspaceRow \cup {None}]
    /\ edits \in [Users -> Seq(Edit)]
    /\ library \in [Ids -> LibraryRow \cup {None}]
    /\ issued \subseteq Ids

\* The workspace is the last accepted edit.
WorkspaceInv ==
    \A u \in Users :
        /\ workspace[u] = None => edits[u] = <<>>
        /\ workspace[u] # None =>
             /\ workspace[u].version = Len(edits[u])
             /\ workspace[u].version > 0
             /\ workspace[u].content = edits[u][Len(edits[u])].by

\* Only a finished call shows anything, and only a list shows no workspace.
ShownInv(r) ==
    /\ call[r].pc = "stParams" => call[r].request.op = "stList"
    /\ call[r].shown # None =>
        /\ call[r].pc = "done"
        /\ \/ call[r].request.op = "stList"
           \/ call[r].actor.user \in Users

\* Rows without an owner are shared; a row keeps its scope and owner while a
\* call that may change it is on its way, and its id is not given out again.
LibraryInv ==
    /\ \A i \in Ids : library[i] # None =>
         i \in issued /\ (library[i].owner = None => library[i].scope = "shared")
    /\ \A r \in Calls : call[r].pc \in {"stWrite", "viewWrite"} =>
         LET i == call[r].request.id IN
         /\ call[r].request.op \in {"stUpdate", "stDelete", "viewUpdate", "viewDelete"}
         /\ i \in issued
         /\ library[i] # None => Refusal(r, library[i]) = "none"
         /\ call[r].pc = "viewWrite" => call[r].read \in LibraryRow

\* What an effect rests on; the fields it reads no longer change.
Settled == Serving \cup {"done"}

Justified(e) ==
    LET c == call[e.by] IN
    IF c.actor.user = None THEN c.born = FALSE /\ e.scope = "read"
    ELSE LET t == c.credential
             a == accountLog[t.user][t.version]
         IN  /\ t \in tokens
             /\ c.born \in 1..t.version /\ e.at \in t.version..users[t.user].version
             /\ a.active /\ a.password = t.password
             /\ e.scope = "shared" => a.role = "admin"
             /\ e.scope = "personal" => e.owner = t.user

EffectInv ==
    \A e \in effects : /\ e.by \in Calls
                       /\ call[e.by].pc \in Settled
                       /\ Justified(e)

ShelfInv ==
    /\ ShelfTyped /\ WorkspaceInv /\ LibraryInv /\ EffectInv /\ EditsBuildOnEachOther
    /\ \A r \in Calls : ShownInv(r)

WorkbenchInv == AccountsInv /\ ShelfInv
=============================================================================
