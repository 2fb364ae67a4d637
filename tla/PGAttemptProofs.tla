-------------------------- MODULE PGAttemptProofs --------------------------
(***************************************************************************)
(* Proofs about the governed PostgreSQL attempt: for every catalog,        *)
(* statement, set of policies, budget and number of changes by other       *)
(* sessions.                                                               *)
(***************************************************************************)
EXTENDS PGAttempt, SequenceTheorems, TLAPS

USE DEF Opening, Naming, Describing, Sending, Checking, Ending, Converging, Gated

(* The classes a failure can have. *)
Failures == {"reject", "invalid", "toolarge", "blocked", "timeout", "cancelled", "failed"}

-----------------------------------------------------------------------------
(* Steps of the attempt, by what they leave alone.                         *)

(* A failure is never taken for success, and the attempt converges.        *)
LEMMA Failing ==
    ASSUME NEW e \in Failures, Fail(e)
    PROVE  err' \in Failures /\ pc' = "release" /\ stage' = stage
BY DEF Fail, Classify, Failures

Others ==
    \/ Prepare \/ Guard \/ Connect \/ Begin \/ ReadTransactionIdentity \/ BindSteps
    \/ Rewrite \/ DisclosurePreflight \/ DescribeParameters \/ ProbeParameters
    \/ Dispatch \/ ReadResult \/ Verify \/ Audit \/ Deliver
    \/ ReleaseExecution \/ ObserveRemoteState \/ Finish
    \/ StatementFails \/ ContextCheck

(* Only the preparation of a navigation changes the statement, only other  *)
(* sessions change the catalog.                                            *)
LEMMA OthersKeep ==
    ASSUME Others
    PROVE  /\ UNCHANGED <<catalog, entry, nav>>
           /\ pc' # "prepare"
           /\ pc' = "end" => pc = "finish"
           /\ pc = "prepare" => entry.kind # "navigation"
           /\ pc # "end"
           /\ parsed' = parsed
           /\ Recheck \/ ReadAttributes \/ UNCHANGED <<ref, bound>>
           /\ ResolveName \/ UNCHANGED found
           /\ BindSteps \/ UNCHANGED approved
           /\ Rewrite \/ UNCHANGED win
           /\ DisclosurePreflight \/ UNCHANGED plan
           /\ Begin \/ ReleaseExecution \/ UNCHANGED tx
           /\ Dispatch \/ ReadResult \/ UNCHANGED fate
           /\ DescribeParameters \/ UNCHANGED described
           /\ DescribeParameters \/ Dispatch \/ UNCHANGED crossed
           /\ Dispatch \/ UNCHANGED wire
           /\ Touch \/ DescribeParameters \/ ReleaseExecution \/ UNCHANGED locks
           /\ ObserveRemoteState \/ Finish \/ UNCHANGED out
           /\ Connect \/ (session = "closed" => session' = "closed")
<1>1. CASE Prepare \/ Guard \/ Connect \/ Begin \/ ReadTransactionIdentity
  BY <1>1 DEF Prepare, Guard, Connect, Begin, ReadTransactionIdentity, Ask, Go, Fail,
              catalogVars, gateVars, planVars, clientVars, serverVars
<1>2. CASE BindSteps
  BY <1>2 DEF BindSteps, PinnedUsage, ResolveName, Touch, Recheck, ReadAttributes,
              VerifyNavigation, ViewDependencies, Approve, Ask, Go, Fail, Rest, Server,
              catalogVars, gateVars, planVars, clientVars
<1>3. CASE Rewrite \/ DisclosurePreflight \/ DescribeParameters \/ ProbeParameters
  BY <1>3 DEF Rewrite, DisclosurePreflight, DescribeParameters, ProbeParameters, Ask,
              Go, Fail, Rest, Server, catalogVars, gateVars, planVars, clientVars, serverVars
<1>4. CASE Dispatch \/ ReadResult \/ Verify \/ Audit \/ Deliver
  BY <1>4 DEF Dispatch, ReadResult, Verify, Audit, Deliver, Ask, Go, Fail,
              catalogVars, gateVars, planVars, clientVars, serverVars
<1>5. CASE ReleaseExecution \/ ObserveRemoteState \/ Finish \/ StatementFails \/ ContextCheck
  BY <1>5 DEF ReleaseExecution, ObserveRemoteState, Finish, StatementFails, ContextCheck,
              Fail, Asking, catalogVars, gateVars, planVars, clientVars, serverVars
<1> QED
  BY <1>1, <1>2, <1>3, <1>4, <1>5 DEF Others

(* The environment touches the catalog, the time and the server only.      *)
LEMMA EnvironmentKeeps ==
    ASSUME Environment
    PROVE  /\ UNCHANGED <<gateVars, pc, stage, planVars, clientVars, err, out, crossed, cap>>
           /\ DDL \/ UNCHANGED catalog
BY DEF Environment, DDL, Cancel, Tick, ConnectionBreaks, ServerNotices, ServerCleanup,
       BytesLost, ServerParse, ServerFinish, ServerError, ServerTimeout, ServerMoves,
       catalogVars, gateVars, planVars, timeVars, clientVars, serverVars

LEMMA StepCases ==
    Next => PrepareNavigation \/ Others \/ Environment
BY DEF Next, Step, Others

-----------------------------------------------------------------------------
(* The statement and the catalog.                                          *)

(* Other sessions leave a catalog, and no change touches the columns of a  *)
(* locked relation or the foreign key of two locked ones.                  *)
LEMMA CatalogStep ==
    ASSUME catalog \in CatalogState, DDL
    PROVE  /\ catalog' \in CatalogState
           /\ \A r \in Rels \cap locks : catalog'.cols[r] = catalog.cols[r]
           /\ {catalog.fk.source, catalog.fk.target} \cap locks # {} => catalog'.fk = catalog.fk
           /\ catalog'.fk.source = catalog.fk.source /\ catalog'.fk.target = catalog.fk.target
<1>1. ASSUME NEW a \in Schemas, NEW b \in Schemas, SwapSchemas(a, b)
      PROVE  /\ catalog' \in CatalogState
             /\ catalog'.cols = catalog.cols /\ catalog'.fk = catalog.fk
  BY <1>1 DEF SwapSchemas, CatalogState, Names
<1>2. ASSUME NEW r \in Rels, RenameColumns(r)
      PROVE  /\ catalog' \in CatalogState
             /\ \A q \in Rels : q # r => catalog'.cols[q] = catalog.cols[q]
             /\ r \notin locks /\ catalog'.fk = catalog.fk
  <2>1. catalog.cols[r] \in Columns \X Columns
    BY <1>2 DEF RenameColumns, CatalogState, ColumnLists
  <2>2. <<catalog.cols[r][2], catalog.cols[r][1]>> \in ColumnLists
    BY <2>1 DEF ColumnLists
  <2> QED
    BY <1>2, <2>2 DEF RenameColumns, CatalogState
<1>3. ASSUME NEW c \in Rels, NEW r \in Rels, Attach(c, r)
      PROVE  /\ catalog' \in CatalogState
             /\ catalog'.cols = catalog.cols /\ catalog'.fk = catalog.fk
  BY <1>3 DEF Attach, CatalogState
<1>4. ASSUME NEW n \in Names, DropRelation(n)
      PROVE  /\ catalog' \in CatalogState
             /\ catalog'.cols = catalog.cols /\ catalog'.fk = catalog.fk
  BY <1>4 DEF DropRelation, CatalogState
<1>5. ASSUME MoveForeignKey
      PROVE  /\ catalog' \in CatalogState
             /\ catalog'.cols = catalog.cols
             /\ {catalog.fk.source, catalog.fk.target} \cap locks = {}
             /\ catalog'.fk.source = catalog.fk.source /\ catalog'.fk.target = catalog.fk.target
  BY <1>5 DEF MoveForeignKey, CatalogState
<1> QED
  BY <1>1, <1>2, <1>3, <1>4, <1>5 DEF DDL

LEMMA PreparedStatement ==
    ASSUME StatementInv, PrepareNavigation
    PROVE  /\ StatementInv' /\ UNCHANGED <<catalog, err, out>>
           /\ pc = "prepare" /\ pc' \in {"guard", "end"}
<1>1. UNCHANGED <<catalog, err, out>> /\ pc = "prepare" /\ pc' \in {"guard", "end"}
  BY DEF PrepareNavigation, Go, catalogVars
<1>2. CASE pc' = "end"
  BY <1>1, <1>2 DEF StatementInv, PrepareNavigation, Go
<1>3. CASE pc' = "guard"
  <2>1. PICK n \in Names : entry' = [entry EXCEPT !.refs = <<n>>]
    BY <1>3 DEF PrepareNavigation, Named, NameOf
  <2>2. entry.kind = "navigation"
    BY DEF PrepareNavigation
  <2>3. /\ entry' \in Entry /\ entry'.kind = entry.kind /\ entry'.source = entry.source
        /\ entry'.refs # <<>> /\ Len(entry'.refs) = 1
    <3>1. <<n>> \in Seq(Names) /\ Len(<<n>>) = 1 /\ <<n>> # <<>>
      BY <2>1
    <3>2. entry \in Entry
      BY DEF StatementInv
    <3> QED
      BY <2>1, <3>1, <3>2 DEF Entry
  <2> QED
    BY <1>1, <1>3, <2>2, <2>3 DEF StatementInv
<1> QED
  BY <1>1, <1>2, <1>3

LEMMA StatementStep ==
    ASSUME StatementInv, Next
    PROVE  StatementInv'
<1>1. CASE PrepareNavigation
  BY <1>1, PreparedStatement
<1>2. CASE Others
  BY <1>2, OthersKeep DEF StatementInv
<1>3. CASE Environment
  <2>1. catalog' \in CatalogState
    BY <1>3, EnvironmentKeeps, CatalogStep DEF StatementInv
  <2> QED
    BY <1>3, <2>1, EnvironmentKeeps DEF StatementInv, gateVars
<1> QED
  BY <1>1, <1>2, <1>3, StepCases

-----------------------------------------------------------------------------
(* The control flow of the attempt.                                        *)

(* The place after a successful statement. *)
Follows(l, m) ==
    \/ l = "prepare" /\ m = "guard"
    \/ l = "guard" /\ m = "connect"
    \/ l = "connect" /\ m = "begin"
    \/ l = "begin" /\ m = "identity"
    \/ l = "identity" /\ m = "pinned"
    \/ l = "pinned" /\ m = "resolve"
    \/ l = "resolve" /\ m = "touch"
    \/ l = "touch" /\ m = "recheck"
    \/ l = "recheck" /\ m \in {"resolve", "attributes"}
    \/ l = "attributes" /\ m \in {"navverify", "viewdeps"}
    \/ l = "navverify" /\ m = "viewdeps"
    \/ l = "viewdeps" /\ m = "child"
    \/ l = "child" /\ m = "index"
    \/ l = "index" /\ m = "toast"
    \/ l = "toast" /\ m = "rewrite"
    \/ l = "rewrite" /\ m = "preflight"
    \/ l = "preflight" /\ m \in {"describe", "dispatch"}
    \/ l = "describe" /\ m = "probe"
    \/ l = "probe" /\ m = "dispatch"
    \/ l = "dispatch" /\ m = "read"
    \/ l = "read" /\ m = "verify"
    \/ l = "verify" /\ m = "audit"
    \/ l = "audit" /\ m = "deliver"

Advances == Follows(pc, pc') /\ err' = err /\ stage' = StageOf(pc')
Fails == pc \notin Ending /\ pc' = "release" /\ err' \in Failures /\ stage' = stage

(* A step of the attempt goes on, fails, or converges. *)
LEMMA ControlFlow ==
    ASSUME Others
    PROVE  Advances \/ Fails \/ Deliver \/ ReleaseExecution \/ ObserveRemoteState \/ Finish
<1> USE DEF Go
<1>f. \A e \in Failures : Fail(e) => err' \in Failures /\ pc' = "release" /\ stage' = stage
  BY Failing
<1>1. CASE Prepare \/ Guard \/ Connect \/ Begin \/ ReadTransactionIdentity
  BY <1>1, <1>f DEF Prepare, Guard, Connect, Begin, ReadTransactionIdentity, Ask,
                    Advances, Fails, Follows, Failures
<1>2. CASE PinnedUsage \/ ResolveName \/ Touch
  BY <1>2, <1>f DEF PinnedUsage, ResolveName, Touch, Ask, Advances, Fails, Follows, Failures
<1>3. CASE Recheck
  BY <1>3, <1>f DEF Recheck, Ask, Advances, Fails, Follows, Failures
<1>4. CASE ReadAttributes \/ VerifyNavigation \/ ViewDependencies
  BY <1>4, <1>f DEF ReadAttributes, VerifyNavigation, ViewDependencies, Ask, Advances, Fails,
                    Follows, Failures
<1>5. CASE Approve("child", "index") \/ Approve("index", "toast") \/ Approve("toast", "rewrite")
  BY <1>5, <1>f DEF Approve, Ask, Advances, Fails, Follows, Failures
<1>6. CASE Rewrite \/ DisclosurePreflight \/ DescribeParameters \/ ProbeParameters
  BY <1>6, <1>f DEF Rewrite, DisclosurePreflight, DescribeParameters, ProbeParameters, Ask,
                    Advances, Fails, Follows, Failures
<1>7. CASE Dispatch \/ ReadResult \/ Verify \/ Audit
  BY <1>7, <1>f DEF Dispatch, ReadResult, Verify, Audit, Ask, Advances, Fails, Follows, Failures
<1>8. CASE StatementFails \/ ContextCheck
  BY <1>8, <1>f DEF StatementFails, ContextCheck, Asking, Fails, Failures
<1> QED
  BY <1>1, <1>2, <1>3, <1>4, <1>5, <1>6, <1>7, <1>8 DEF Others, BindSteps

(* Each place belongs to one action. *)
LEMMA WhoAdvances ==
    ASSUME Others, Advances
    PROVE  /\ pc = "begin" => Begin
           /\ pc = "resolve" => ResolveName
           /\ pc = "touch" => Touch
           /\ pc = "recheck" => Recheck
           /\ pc = "attributes" => ReadAttributes
           /\ pc = "navverify" => VerifyNavigation
           /\ pc = "rewrite" => Rewrite
           /\ pc = "preflight" => DisclosurePreflight
           /\ pc = "describe" => DescribeParameters
           /\ pc = "dispatch" => Dispatch
           /\ pc = "read" => ReadResult
           /\ pc = "verify" => Verify
           /\ pc = "audit" => Audit
<1>1. /\ Prepare => pc = "prepare"
      /\ Guard => pc = "guard"
      /\ Connect => pc = "connect"
      /\ Begin => pc = "begin"
      /\ ReadTransactionIdentity => pc = "identity"
  BY DEF Prepare, Guard, Connect, Begin, ReadTransactionIdentity, Ask
<1>2. /\ PinnedUsage => pc = "pinned"
      /\ ResolveName => pc = "resolve"
      /\ Touch => pc = "touch"
      /\ Recheck => pc = "recheck"
      /\ ReadAttributes => pc = "attributes"
      /\ VerifyNavigation => pc = "navverify"
      /\ ViewDependencies => pc = "viewdeps"
  BY DEF PinnedUsage, ResolveName, Touch, Recheck, ReadAttributes, VerifyNavigation,
         ViewDependencies, Ask
<1>3. \A kind, next \in {"child", "index", "toast", "rewrite"} : Approve(kind, next) => pc = kind
  BY DEF Approve, Ask
<1>4. /\ Rewrite => pc = "rewrite"
      /\ DisclosurePreflight => pc = "preflight"
      /\ DescribeParameters => pc = "describe"
      /\ ProbeParameters => pc = "probe"
      /\ Dispatch => pc = "dispatch"
      /\ ReadResult => pc = "read"
      /\ Verify => pc = "verify"
      /\ Audit => pc = "audit"
      /\ Deliver => pc = "deliver"
  BY DEF Rewrite, DisclosurePreflight, DescribeParameters, ProbeParameters, Dispatch,
         ReadResult, Verify, Audit, Deliver, Ask
<1>5. ~StatementFails /\ ~ContextCheck
  BY DEF StatementFails, ContextCheck, Fail, Advances, Follows
<1>6. /\ ReleaseExecution => pc = "release"
      /\ ObserveRemoteState => pc = "observe"
      /\ Finish => pc = "finish"
  BY DEF ReleaseExecution, ObserveRemoteState, Finish
<1> QED
  BY <1>1, <1>2, <1>3, <1>4, <1>5, <1>6 DEF Others, BindSteps

-----------------------------------------------------------------------------
(* Errors: what is delivered went through every check and was released.    *)

(* An attempt that converges with a result was about to deliver it.        *)
LEMMA SuccessIsKept ==
    ASSUME ErrorInv, OutcomeInv, Next
    PROVE  /\ Succeeding' => Succeeding \/ pc = "deliver"
           /\ Succeeded' => Succeeded \/ (pc = "finish" /\ err = "none")
<1> USE DEF Succeeding, Succeeded
<1>1. CASE PrepareNavigation
  <2>1. out' = out /\ pc = "prepare" /\ pc' \in {"guard", "end"}
    BY <1>1 DEF PrepareNavigation, Go
  <2> QED
    BY <2>1 DEF OutcomeInv, NoOutcome
<1>2. CASE Others
  <2>1. CASE Advances
    BY <2>1 DEF Advances, Follows
  <2>2. CASE Fails
    BY <2>2 DEF Fails, Failures
  <2>3. CASE Deliver
    BY <2>3 DEF Deliver
  <2>4. CASE ReleaseExecution
    BY <2>4 DEF ReleaseExecution, AfterRollback
  <2>5. CASE ObserveRemoteState
    BY <2>5 DEF ObserveRemoteState
  <2>6. CASE Finish
    BY <2>6 DEF Finish, OutcomeInv, NoOutcome
  <2> QED
    BY <1>2, <2>1, <2>2, <2>3, <2>4, <2>5, <2>6, ControlFlow
<1>3. CASE Environment
  BY <1>3, EnvironmentKeeps
<1> QED
  BY <1>1, <1>2, <1>3, StepCases

LEMMA ErrorStep ==
    ASSUME ErrorInv, OutcomeInv, Next
    PROVE  ErrorInv'
<1>0. Succeeded' => Succeeded \/ (pc = "finish" /\ err = "none")
  BY SuccessIsKept
<1>1. CASE PrepareNavigation
  <2>1. UNCHANGED <<err, out, tx, session, locks>> /\ pc = "prepare" /\ pc' \in {"guard", "end"}
    BY <1>1 DEF PrepareNavigation, Go, clientVars, serverVars
  <2> QED
    BY <1>0, <2>1 DEF ErrorInv, Succeeded
<1>2. CASE Others
  <2>1. CASE Advances
    <3>1. CASE Begin
      BY <1>0, <3>1 DEF Begin, Ask, Go, ErrorInv, Succeeded
    <3>2. CASE ~Begin
      <4>1. pc # "begin" /\ tx' = tx
        BY <1>2, <2>1, <3>2, OthersKeep, WhoAdvances DEF Advances, Follows, ReleaseExecution
      <4> QED
        BY <2>1, <4>1 DEF Advances, Follows, ErrorInv, Succeeded
    <3> QED
      BY <3>1, <3>2
  <2>2. CASE Fails
    BY <1>0, <2>2 DEF Fails, Failures, ErrorInv, Succeeded
  <2>3. CASE Deliver
    BY <1>0, <2>3 DEF Deliver, clientVars, ErrorInv, Succeeded
  <2>4. CASE ReleaseExecution
    BY <1>0, <2>4 DEF ReleaseExecution, AfterRollback, ErrorInv, Succeeded
  <2>5. CASE ObserveRemoteState
    BY <1>0, <2>5 DEF ObserveRemoteState, clientVars, serverVars, ErrorInv, Succeeded
  <2>6. CASE Finish
    BY <1>0, <2>6 DEF Finish, clientVars, serverVars, ErrorInv, Succeeded
  <2> QED
    BY <1>2, <2>1, <2>2, <2>3, <2>4, <2>5, <2>6, ControlFlow
<1>3. CASE Environment
  <2>1. UNCHANGED <<pc, err, out, tx>>
    BY <1>3, EnvironmentKeeps DEF clientVars
  <2>2. session = "closed" /\ locks = {} => session' = "closed" /\ locks' = {}
    BY <1>3 DEF Environment, DDL, Cancel, Tick, ConnectionBreaks, ServerNotices, ServerCleanup,
       BytesLost, ServerParse, ServerFinish, ServerError, ServerTimeout, ServerMoves, serverVars
  <2> QED
    BY <2>1, <2>2 DEF ErrorInv, Succeeded, NoOutcome
<1> QED
  BY <1>1, <1>2, <1>3, StepCases

-----------------------------------------------------------------------------
(* The evidence.                                                           *)

LEMMA OutcomeStep ==
    ASSUME OutcomeInv, FateInv, Next
    PROVE  OutcomeInv'
<1>1. CASE PrepareNavigation
  <2>1. out' = out /\ pc = "prepare" /\ pc' \in {"guard", "end"}
    BY <1>1 DEF PrepareNavigation, Go
  <2> QED
    BY <2>1 DEF OutcomeInv
<1>2. CASE Others
  <2>1. CASE ObserveRemoteState
    <3>1. PICK r \in RemoteStates : out' = [out EXCEPT !.evidence =
                   [stage |-> stage, status |-> AttemptStatus(err),
                    sent |-> UserSQLSent, remote |-> r]]
      BY <2>1 DEF ObserveRemoteState
    <3>2. /\ pc = "observe" /\ pc' = "finish" /\ UNCHANGED <<stage, err, fate, described>>
      BY <2>1 DEF ObserveRemoteState, clientVars
    <3>3. (r = "completed" <=> fate = "completed") /\ (r = "none" <=> fate = "unsent")
      BY <3>1 DEF RemoteStates, ProbeVerdicts, FateInv
    <3>4. out = NoOutcome
      BY <3>2 DEF OutcomeInv
    <3>5. Tells(out.evidence)'
      BY <3>1, <3>2, <3>3, <3>4 DEF NoOutcome, Tells, AttemptStatus, UserSQLSent
    <3> QED
      BY <3>1, <3>2, <3>4, <3>5 DEF OutcomeInv, NoOutcome
  <2>2. CASE Finish
    <3>1. /\ pc = "finish" /\ pc' = "end" /\ UNCHANGED <<fate, described, plan, win, entry>>
      BY <2>2 DEF Finish, clientVars, planVars, gateVars
    <3>2. Page' = Page
      BY <3>1 DEF Page, Fetched
    <3>3. /\ out = [result |-> None, evidence |-> out.evidence, error |-> None]
          /\ Tells(out.evidence)
      BY <3>1 DEF OutcomeInv
    <3>4. CASE UNCHANGED <<stage, err>>
      <4>1. /\ out'.evidence = out.evidence
            /\ out'.result = IF err = "none" THEN [modes |-> plan, page |-> Page] ELSE None
        BY <2>2, <3>3, <3>4 DEF Finish
      <4>2. Tells(out.evidence)'
        BY <3>1, <3>3, <3>4, <4>1 DEF Tells, AttemptStatus, UserSQLSent
      <4> QED
        BY <3>1, <3>2, <3>4, <4>1, <4>2 DEF OutcomeInv
    <3>5. CASE err = "none" /\ err' = "failed" /\ stage' = "transform"
      <4>1. /\ out'.evidence = [stage |-> "transform", status |-> AttemptStatus("failed"),
                                sent |-> out.evidence.sent, remote |-> out.evidence.remote]
            /\ out'.result = None
        <5>1. out' = [out EXCEPT !.evidence =
                       [stage |-> "transform", status |-> AttemptStatus("failed"),
                        sent |-> out.evidence.sent, remote |-> out.evidence.remote],
                                !.error = "failed"]
          BY <2>2, <3>5, err # err' DEF Finish
        <5> QED
          BY <3>3, <5>1
      <4>2. Tells(out.evidence)'
        BY <3>1, <3>3, <3>5, <4>1 DEF Tells, AttemptStatus, UserSQLSent
      <4> QED
        BY <3>1, <3>5, <4>1, <4>2 DEF OutcomeInv
    <3> QED
      BY <2>2, <3>4, <3>5 DEF Finish
  <2>3. CASE ~ObserveRemoteState /\ ~Finish
    <3>1. out' = out /\ pc \notin {"finish", "end"} /\ pc' \notin {"finish", "end"}
      BY <1>2, <2>3, OthersKeep, ControlFlow
         DEF Advances, Follows, Fails, Deliver, ReleaseExecution
    <3> QED
      BY <3>1 DEF OutcomeInv
  <2> QED
    BY <2>1, <2>2, <2>3
<1>3. CASE Environment
  <2>1. UNCHANGED <<entry, win, plan, pc, stage, err, out, fate, described>>
    BY <1>3, EnvironmentKeeps DEF gateVars, planVars, clientVars
  <2>2. Page' = Page
    BY <2>1 DEF Page, Fetched
  <2> QED
    BY <2>1, <2>2 DEF OutcomeInv, Tells, AttemptStatus, UserSQLSent
<1> QED
  BY <1>1, <1>2, <1>3, StepCases

LEMMA FateStep ==
    ASSUME FateInv, Next
    PROVE  FateInv'
<1>1. CASE PrepareNavigation
  BY <1>1 DEF PrepareNavigation, Go, clientVars, serverVars, FateInv, StageOf
<1>2. CASE Others
  <2>1. CASE DescribeParameters
    BY <2>1 DEF DescribeParameters, Ask, Go, Fail, StageOf, FateInv
  <2>2. CASE Dispatch
    BY <2>2 DEF Dispatch, Ask, Go, Fail, StageOf, FateInv
  <2>3. CASE ReadResult
    BY <2>3 DEF ReadResult, Go, Fail, StageOf, FateInv, FateAfterRead
  <2>4. CASE ~DescribeParameters /\ ~Dispatch /\ ~ReadResult
    <3>1. UNCHANGED <<fate, described, crossed, wire>>
      BY <1>2, <2>4, OthersKeep
    <3>2. CASE Advances
      <4>1. pc \notin {"describe", "dispatch", "read"}
        BY <1>2, <2>4, <3>2, WhoAdvances
      <4> QED
        BY <3>1, <3>2, <4>1 DEF Advances, Follows, StageOf, FateInv
    <3>3. CASE Fails
      BY <3>1, <3>3 DEF Fails, FateInv
    <3>4. CASE Deliver \/ ReleaseExecution \/ ObserveRemoteState \/ Finish
      BY <3>1, <3>4 DEF Deliver, ReleaseExecution, ObserveRemoteState, Finish, FateInv
    <3> QED
      BY <1>2, <3>2, <3>3, <3>4, ControlFlow
  <2> QED
    BY <2>1, <2>2, <2>3, <2>4
<1>3. CASE Environment
  <2>1. UNCHANGED <<pc, stage, fate, described, crossed>>
    BY <1>3, EnvironmentKeeps DEF clientVars
  <2>2. (wire = "none" => wire' = "none") /\ (wire = "done" => wire' = "done")
    BY <1>3 DEF Environment, DDL, Cancel, Tick, ConnectionBreaks, ServerNotices, ServerCleanup,
       BytesLost, ServerParse, ServerFinish, ServerError, ServerTimeout, ServerMoves, serverVars
  <2> QED
    BY <2>1, <2>2 DEF FateInv, StageOf
<1> QED
  BY <1>1, <1>2, <1>3, StepCases

-----------------------------------------------------------------------------
(* The names that are bound.                                               *)

LEMMA BindListType ==
    ASSUME StatementInv
    PROVE  /\ BindList \in Seq(Names)
           /\ Len(BindList) = IF nav = None THEN Len(entry.refs) ELSE 2
           /\ \A i \in 1..Len(entry.refs) : BindList[i] = entry.refs[i]
           /\ entry.refs \in Seq(Names) /\ Len(entry.refs) <= Len(BindList)
           /\ pc \notin {"prepare", "end"} => Len(BindList) >= 1
<1>1. /\ entry.refs \in Seq(Names)
      /\ nav # None => Len(entry.refs) = 1 /\ entry.source \in Names
      /\ pc \notin {"prepare", "end"} => entry.refs # <<>>
  BY DEF StatementInv, Entry
<1>2. CASE nav = None
  <2>1. BindList = entry.refs
    BY <1>2 DEF BindList
  <2>2. \A s \in Seq(Names) : s # <<>> => Len(s) >= 1
    OBVIOUS
  <2> QED
    BY <1>1, <1>2, <2>1, <2>2
<1>3. CASE nav # None
  <2>1. BindList = Append(entry.refs, entry.source)
    BY <1>3 DEF BindList
  <2>2. \A s \in Seq(Names), n \in Names :
          /\ Append(s, n) \in Seq(Names) /\ Len(Append(s, n)) = Len(s) + 1
          /\ \A i \in 1..Len(s) : Append(s, n)[i] = s[i]
    OBVIOUS
  <2> QED
    BY <1>1, <1>3, <2>1, <2>2
<1> QED
  BY <1>2, <1>3

LEMMA NamesStep ==
    ASSUME StatementInv, NamesInv, ErrorInv, OutcomeInv, Next
    PROVE  NamesInv'
<1>0. Succeeding' => Succeeding \/ pc = "deliver"
  BY SuccessIsKept
<1>1. CASE PrepareNavigation
  <2>1. UNCHANGED <<ref, found, bound>> /\ pc = "prepare" /\ pc' \in {"guard", "end"}
    BY <1>1 DEF PrepareNavigation, Go
  <2> QED
    BY <1>0, <2>1 DEF NamesInv, Through, Succeeding, Succeeded
<1>2. CASE Others
  <2>0. BindList' = BindList
    BY <1>2, OthersKeep DEF BindList
  <2>1. CASE ResolveName
    <3>1. UNCHANGED <<ref, bound>> /\ pc = "resolve"
      BY <2>1 DEF ResolveName, Ask
    <3>2. pc' = "release" \/ (pc' = "touch" /\ found' = catalog.name[BindList[ref]] /\ found' # None)
      BY <2>1 DEF ResolveName, Go, Fail
    <3>3. BindList[ref] \in Names
      BY <3>1, BindListType DEF NamesInv
    <3>4. pc' = "touch" => found' \in Rels
      BY <3>2, <3>3 DEF StatementInv, CatalogState
    <3> QED
      BY <1>0, <2>0, <3>1, <3>2, <3>4 DEF NamesInv, Through, Succeeding, Succeeded
  <2>2. CASE Recheck
    <3>1. UNCHANGED found /\ pc = "recheck"
      BY <2>2 DEF Recheck, Ask
    <3>2. CASE UNCHANGED <<ref, bound>> /\ pc' = "release"
      BY <1>0, <2>0, <3>1, <3>2 DEF NamesInv, Through, Succeeding, Succeeded
    <3>3. CASE ~(UNCHANGED <<ref, bound>> /\ pc' = "release")
      <4> DEFINE n == BindList[ref]
                 b == [oid |-> found, schema |-> n[1], object |-> n[2], cols |-> <<>>]
      <4>1. /\ bound' = Append(bound, b) /\ ref' = ref + 1
            /\ pc' = IF ref < Len(BindList) THEN "resolve" ELSE "attributes"
        BY <2>2, <3>3 DEF Recheck, Go, Fail
      <4>2. n \in Names /\ b \in BoundReference
        BY <3>1, BindListType DEF NamesInv, BoundReference, ColumnLists, Names
      <4>3. n = <<b.schema, b.object>>
        BY <4>2 DEF Names
      <4> HIDE DEF n, b
      <4>4. /\ bound' \in Seq(BoundReference) /\ Len(bound') = ref' - 1
            /\ \A i \in 1..Len(bound) : bound'[i] = bound[i]
            /\ bound'[Len(bound')] = b
        BY <3>1, <4>1, <4>2 DEF NamesInv
      <4>5. \A i \in 1..Len(bound') : BindList[i] = <<bound'[i].schema, bound'[i].object>>
        BY <3>1, <4>1, <4>3, <4>4 DEF NamesInv, n
      <4> QED
        BY <1>0, <2>0, <3>1, <4>1, <4>4, <4>5, BindListType
           DEF NamesInv, Through, Succeeding, Succeeded
    <3> QED
      BY <3>2, <3>3
  <2>3. CASE ReadAttributes
    <3>1. UNCHANGED <<ref, found>> /\ pc = "attributes" /\ pc' \in {"navverify", "viewdeps"}
      BY <2>3 DEF ReadAttributes, Ask, Go
    <3>2. bound' = [i \in 1..Len(bound) |-> [bound[i] EXCEPT !.cols = catalog.cols[bound[i].oid]]]
      BY <2>3 DEF ReadAttributes
    <3>3. \A i \in 1..Len(bound) :
            /\ [bound[i] EXCEPT !.cols = catalog.cols[bound[i].oid]] \in BoundReference
            /\ [bound[i] EXCEPT !.cols = catalog.cols[bound[i].oid]].schema = bound[i].schema
            /\ [bound[i] EXCEPT !.cols = catalog.cols[bound[i].oid]].object = bound[i].object
      <4> SUFFICES ASSUME NEW i \in 1..Len(bound)
                   PROVE  LET b == [bound[i] EXCEPT !.cols = catalog.cols[bound[i].oid]]
                          IN  /\ b \in BoundReference
                              /\ b.schema = bound[i].schema /\ b.object = bound[i].object
        OBVIOUS
      <4>1. bound[i] \in BoundReference
        BY DEF NamesInv
      <4>2. catalog.cols[bound[i].oid] \in ColumnLists
        BY <4>1 DEF BoundReference, StatementInv, CatalogState
      <4> QED
        BY <4>1, <4>2 DEF BoundReference
    <3>4. bound' \in Seq(BoundReference) /\ Len(bound') = Len(bound)
      BY <3>2, <3>3 DEF NamesInv
    <3> QED
      BY <1>0, <2>0, <3>1, <3>2, <3>3, <3>4 DEF NamesInv, Through, Succeeding, Succeeded
  <2>4. CASE ~ResolveName /\ ~Recheck /\ ~ReadAttributes
    <3>1. UNCHANGED <<ref, found, bound>> /\ pc' # "prepare"
      BY <1>2, <2>4, OthersKeep
    <3>2. CASE Advances
      <4>1. pc \notin {"resolve", "recheck", "attributes"}
        BY <1>2, <2>4, <3>2, WhoAdvances
      <4> QED
        BY <1>0, <2>0, <3>1, <3>2, <4>1, BindListType
           DEF Advances, Follows, NamesInv, Through, Succeeding, Succeeded
    <3>3. CASE Fails
      BY <1>0, <2>0, <3>1, <3>3 DEF Fails, NamesInv, Through, Succeeding, Succeeded
    <3>4. CASE Deliver \/ ReleaseExecution \/ ObserveRemoteState \/ Finish
      BY <1>0, <2>0, <3>1, <3>4 DEF Deliver, ReleaseExecution, ObserveRemoteState, Finish,
                                   NamesInv, Through
    <3> QED
      BY <1>2, <3>2, <3>3, <3>4, ControlFlow
  <2> QED
    BY <2>1, <2>2, <2>3, <2>4
<1>3. CASE Environment
  <2>1. UNCHANGED <<entry, nav, ref, found, bound, pc, err, out>>
    BY <1>3, EnvironmentKeeps DEF gateVars
  <2>2. BindList' = BindList /\ Succeeding' = Succeeding
    BY <2>1 DEF BindList, Succeeding, Succeeded
  <2> QED
    BY <2>1, <2>2 DEF NamesInv, Through
<1> QED
  BY <1>1, <1>2, <1>3, StepCases

-----------------------------------------------------------------------------
(* The locks.                                                              *)

(* With what was bound locked, other sessions cannot change it. *)
LEMMA LocksHold ==
    ASSUME StatementInv, NamesInv, LocksInv, session # "closed", DDL
    PROVE  /\ AttributesHold => AttributesHold'
           /\ KeyHolds => KeyHolds'
<1>1. /\ \A r \in Rels \cap locks : catalog'.cols[r] = catalog.cols[r]
      /\ {catalog.fk.source, catalog.fk.target} \cap locks # {} => catalog'.fk = catalog.fk
      /\ UNCHANGED <<bound, nav, locks>>
  BY CatalogStep DEF StatementInv, DDL, gateVars, serverVars
<1>2. \A i \in 1..Len(bound) : bound[i].oid \in Rels \cap locks
  <2>1. \A i \in 1..Len(bound) : bound[i] \in BoundReference
    BY DEF NamesInv
  <2> QED
    BY <2>1 DEF LocksInv, Bound, BoundReference
<1>3. {catalog.fk.source, catalog.fk.target} \subseteq Rels
  BY DEF StatementInv, CatalogState
<1>4. AttributesHold => AttributesHold'
  BY <1>1, <1>2 DEF AttributesHold
<1>5. ASSUME KeyHolds PROVE KeyHolds'
  <2>1. catalog'.fk = catalog.fk /\ catalog'.cols[catalog.fk.target] = catalog.cols[catalog.fk.target]
    BY <1>1, <1>3, <1>5 DEF KeyHolds
  <2>2. ForeignKey' = ForeignKey
    BY <2>1 DEF ForeignKey
  <2> QED
    BY <1>1, <1>5, <2>1, <2>2 DEF KeyHolds
<1> QED
  BY <1>4, <1>5

LEMMA LocksStep ==
    ASSUME StatementInv, NamesInv, LocksInv, Next
    PROVE  LocksInv'
<1>0. SUFFICES ASSUME session' # "closed"
               PROVE  /\ Bound' \subseteq locks'
                      /\ pc' = "recheck" => found' \in locks'
                      /\ pc' \in {"navverify"} \cup Gated => AttributesHold'
                      /\ nav' # None /\ pc' \in Gated => KeyHolds'
  BY DEF LocksInv
<1>1. CASE PrepareNavigation
  <2>1. bound' = bound /\ pc = "prepare" /\ pc' \in {"guard", "end"}
    BY <1>1 DEF PrepareNavigation, Go
  <2> QED
    BY <2>1 DEF NamesInv, Bound
<1>2. CASE Others
  <2>0. /\ UNCHANGED <<catalog, entry, nav>>
        /\ Connect \/ session # "closed"
    BY <1>0, <1>2, OthersKeep
  <2>1. CASE Connect
    BY <2>1 DEF Connect, Go, gateVars, NamesInv, Bound
  <2>2. CASE ReadAttributes
    <3>1. UNCHANGED locks /\ pc = "attributes"
      BY <2>2 DEF ReadAttributes, Ask
    <3>2. bound' = [i \in 1..Len(bound) |-> [bound[i] EXCEPT !.cols = catalog.cols[bound[i].oid]]]
      BY <2>2 DEF ReadAttributes
    <3>3. bound \in Seq(BoundReference)
      BY DEF NamesInv
    <3>4. Len(bound') = Len(bound)
      BY <3>2, <3>3
    <3>5. \A i \in 1..Len(bound) : bound'[i].oid = bound[i].oid /\ bound'[i].cols = catalog.cols[bound[i].oid]
      <4> TAKE i \in 1..Len(bound)
      <4>1. bound[i] \in BoundReference
        BY <3>3
      <4>2. bound'[i] = [bound[i] EXCEPT !.cols = catalog.cols[bound[i].oid]]
        BY <3>2
      <4> QED
        BY <4>1, <4>2 DEF BoundReference
    <3>6. Bound' = Bound /\ AttributesHold'
      BY <2>0, <3>4, <3>5 DEF Bound, AttributesHold
    <3>7. pc' = "navverify" \/ (pc' = "viewdeps" /\ nav = None)
      BY <2>2 DEF ReadAttributes, Go
    <3> QED
      BY <2>0, <2>2, <3>1, <3>6, <3>7 DEF LocksInv, Connect, ReadAttributes, Ask
  <2>3. CASE Recheck
    <3>1. UNCHANGED <<locks, found>> /\ pc = "recheck" /\ session # "closed"
      BY <2>3 DEF Recheck, Ask
    <3>2. CASE UNCHANGED bound /\ pc' = "release"
      BY <3>1, <3>2 DEF LocksInv, Bound
    <3>3. CASE ~(UNCHANGED bound /\ pc' = "release")
      <4>1. PICK b : bound' = Append(bound, b) /\ b.oid = found
        BY <2>3, <3>3 DEF Recheck, Go, Fail
      <4>2. pc' \in {"resolve", "attributes"}
        BY <2>3, <3>3 DEF Recheck, Go, Fail
      <4>3. bound \in Seq(BoundReference)
        BY DEF NamesInv
      <4>4. Bound' \subseteq Bound \cup {found}
        BY <4>1, <4>3 DEF Bound
      <4> QED
        BY <3>1, <4>2, <4>4 DEF LocksInv
    <3> QED
      BY <3>2, <3>3
  <2>4. CASE Touch
    <3>1. /\ UNCHANGED <<found, bound>> /\ pc = "touch" /\ session # "closed"
          /\ pc' = "release" \/ (pc' = "recheck" /\ locks' = locks \cup LockedBy(found))
          /\ locks \subseteq locks'
      BY <2>4 DEF Touch, Ask, Go, Fail, gateVars
    <3>2. found \in LockedBy(found)
      BY DEF LockedBy
    <3> QED
      BY <3>1, <3>2 DEF LocksInv, Bound
  <2>5. CASE DescribeParameters
    <3>1. /\ UNCHANGED bound /\ locks \subseteq locks' /\ pc = "describe" /\ session # "closed"
          /\ pc' \in {"release", "probe"}
      BY <2>5 DEF DescribeParameters, Ask, Go, Fail, gateVars
    <3> QED
      BY <2>0, <3>1 DEF LocksInv, Bound, AttributesHold, KeyHolds, ForeignKey
  <2>6. CASE ReleaseExecution
    BY <1>0, <2>0, <2>6 DEF ReleaseExecution, LocksInv, Bound, gateVars, Connect
  <2>7. CASE ~Connect /\ ~ReadAttributes /\ ~Recheck /\ ~Touch /\ ~DescribeParameters /\ ~ReleaseExecution
    <3>1. UNCHANGED <<bound, locks>> /\ session # "closed"
      BY <1>2, <2>0, <2>7, OthersKeep
    <3>2. Bound' = Bound /\ AttributesHold' = AttributesHold /\ KeyHolds' = KeyHolds
      BY <2>0, <3>1 DEF Bound, AttributesHold, KeyHolds, ForeignKey
    <3>3. CASE Advances
      <4>1. pc \notin {"attributes", "recheck", "touch", "describe"}
        BY <1>2, <2>7, <3>3, WhoAdvances
      <4>2. CASE VerifyNavigation
        <5>1. /\ bound[1].oid = nav.target /\ bound[2].oid = nav.source /\ ForeignKey = nav
              /\ pc = "navverify" /\ pc' = "viewdeps"
          BY <3>3, <4>2 DEF VerifyNavigation, Ask, Fail, Advances, Follows
        <5>2. nav # None => Len(bound) = 2
          BY <5>1, BindListType DEF NamesInv, Through
        <5>3. nav # None => {catalog.fk.source, catalog.fk.target} \subseteq Bound
          BY <5>1, <5>2 DEF ForeignKey, Bound
        <5> QED
          BY <2>0, <3>1, <3>2, <5>1, <5>3 DEF LocksInv, KeyHolds
      <4>3. CASE ~VerifyNavigation
        <5>1. pc # "navverify"
          BY <1>2, <3>3, <4>3, WhoAdvances
        <5> QED
          BY <2>0, <3>1, <3>2, <3>3, <4>1, <5>1 DEF LocksInv, Advances, Follows
      <4> QED
        BY <4>2, <4>3
    <3>4. CASE Fails
      BY <3>1, <3>2, <3>4 DEF Fails, LocksInv
    <3>5. CASE Deliver \/ ObserveRemoteState \/ Finish
      BY <3>1, <3>2, <3>5 DEF Deliver, ObserveRemoteState, Finish, LocksInv
    <3> QED
      BY <1>2, <2>7, <3>3, <3>4, <3>5, ControlFlow
  <2> QED
    BY <2>1, <2>2, <2>3, <2>4, <2>5, <2>6, <2>7
<1>3. CASE Environment
  <2>1. UNCHANGED <<entry, nav, found, bound, pc>>
    BY <1>3, EnvironmentKeeps DEF gateVars
  <2>2. session # "closed" /\ locks \subseteq locks'
    BY <1>0, <1>3 DEF Environment, DDL, Cancel, Tick, ConnectionBreaks, ServerNotices, ServerCleanup,
       BytesLost, ServerParse, ServerFinish, ServerError, ServerTimeout, ServerMoves, serverVars
  <2>3. AttributesHold => AttributesHold'
    BY <1>3, <2>1, <2>2, EnvironmentKeeps, LocksHold DEF AttributesHold
  <2>4. KeyHolds => KeyHolds'
    BY <1>3, <2>1, <2>2, EnvironmentKeeps, LocksHold DEF KeyHolds, ForeignKey
  <2> QED
    BY <2>1, <2>2, <2>3, <2>4 DEF LocksInv, Bound
<1> QED
  BY <1>1, <1>2, <1>3, StepCases

-----------------------------------------------------------------------------
(* The window and the disclosure plan.                                     *)

LEMMA PlanKept ==
    ASSUME UNCHANGED <<entry, bound>>
    PROVE  /\ UNCHANGED win => WindowHolds' = WindowHolds
           /\ UNCHANGED plan => PlanHolds' = PlanHolds
<1>1. Window(entry.page)' = Window(entry.page) /\ OutOfRange(entry.page)' = OutOfRange(entry.page)
  BY DEF Window, OutOfRange
<1>2. Positions' = Positions
  BY DEF Positions
<1>3. ExpectedLayoutHolds' = ExpectedLayoutHolds
  BY <1>2 DEF ExpectedLayoutHolds
<1>4. \A p : PolicyKey(p)' = PolicyKey(p)
  BY <1>2 DEF PolicyKey
<1> QED
  BY <1>1, <1>2, <1>3, <1>4 DEF WindowHolds, PlanHolds

LEMMA PlanStep ==
    ASSUME PlanInv, ErrorInv, OutcomeInv, Next
    PROVE  PlanInv'
<1>0. Succeeding' => Succeeding \/ pc = "deliver"
  BY SuccessIsKept
<1>1. CASE PrepareNavigation
  <2>1. pc = "prepare" /\ pc' \in {"guard", "end"}
    BY <1>1 DEF PrepareNavigation, Go
  <2> QED
    BY <1>0, <2>1 DEF PlanInv, Through, Succeeding, Succeeded
<1>2. CASE Others
  <2>1. CASE Advances
    <3>1. CASE pc' \notin {"preflight", "read"} \cup Sending \cup Checking
      BY <1>0, <2>1, <3>1 DEF PlanInv, Through, Succeeding, Succeeded, Advances, Follows
    <3>2. CASE pc = "rewrite"
      <4>1. Rewrite /\ pc' = "preflight"
        BY <1>2, <2>1, <3>2, WhoAdvances DEF Advances, Follows
      <4>2. UNCHANGED <<entry, bound>>
        BY <4>1 DEF Rewrite, gateVars
      <4>3. win' = Window(entry.page) /\ ~OutOfRange(entry.page) /\ ExpectedLayoutHolds
        BY <4>1 DEF Rewrite, Fail
      <4>4. Window(entry.page)' = Window(entry.page) /\ OutOfRange(entry.page)' = OutOfRange(entry.page)
        BY <4>2 DEF Window, OutOfRange
      <4>5. ExpectedLayoutHolds'
        BY <4>2, <4>3 DEF ExpectedLayoutHolds, Positions
      <4>6. WindowHolds'
        BY <4>3, <4>4, <4>5 DEF WindowHolds
      <4> QED
        BY <1>0, <3>2, <4>1, <4>6 DEF PlanInv, Through, Succeeding, Succeeded
    <3>3. CASE pc = "preflight"
      <4>1. DisclosurePreflight /\ pc' \in {"describe", "dispatch"}
        BY <1>2, <2>1, <3>3, WhoAdvances DEF Advances, Follows
      <4>2. UNCHANGED <<entry, bound, win>>
        BY <4>1 DEF DisclosurePreflight, gateVars
      <4>3. /\ \A p \in DOMAIN Positions : PolicyKey(p) \in DOMAIN Policy
            /\ plan' = [p \in DOMAIN Positions |-> Policy[PolicyKey(p)]]
        BY <4>1 DEF DisclosurePreflight, Fail
      <4>4. Positions' = Positions
        BY <4>2 DEF Positions
      <4>5. \A p : PolicyKey(p)' = PolicyKey(p)
        BY <4>2, <4>4 DEF PolicyKey
      <4>6. PlanHolds'
        BY <4>3, <4>4, <4>5 DEF PlanHolds
      <4>7. WindowHolds'
        BY <3>3, <4>2, PlanKept DEF PlanInv, Through
      <4> QED
        BY <4>6, <4>7 DEF PlanInv
    <3>4. CASE pc' \in {"preflight", "read"} \cup Sending \cup Checking /\ pc \notin {"rewrite", "preflight"}
      <4>1. pc \in {"read"} \cup Sending \cup Checking
        BY <2>1, <3>4 DEF Advances, Follows
      <4>2. UNCHANGED <<entry, bound, win, plan>>
        BY <1>2, <4>1, OthersKeep DEF Recheck, ReadAttributes, Rewrite, DisclosurePreflight, Ask
      <4> QED
        BY <4>1, <4>2, PlanKept DEF PlanInv, Through
    <3> QED
      BY <3>1, <3>2, <3>3, <3>4
  <2>2. CASE Fails
    BY <1>0, <2>2 DEF Fails, Failures, PlanInv, Through, Succeeding, Succeeded
  <2>3. CASE Deliver \/ ReleaseExecution \/ ObserveRemoteState \/ Finish
    <3>1. UNCHANGED <<entry, bound, win, plan>> /\ pc' \in Ending
      BY <2>3 DEF Deliver, ReleaseExecution, ObserveRemoteState, Finish, gateVars, planVars
    <3> QED
      BY <1>0, <3>1, PlanKept DEF PlanInv, Through
  <2> QED
    BY <1>2, <2>1, <2>2, <2>3, ControlFlow
<1>3. CASE Environment
  <2>1. UNCHANGED <<entry, bound, win, plan, pc, err, out>>
    BY <1>3, EnvironmentKeeps DEF gateVars, planVars
  <2>2. Succeeding' = Succeeding
    BY <2>1 DEF Succeeding, Succeeded
  <2> QED
    BY <2>1, <2>2, PlanKept DEF PlanInv, Through
<1> QED
  BY <1>1, <1>2, <1>3, StepCases

-----------------------------------------------------------------------------
(* What the server read.                                                   *)

(* The server parses what the gate bound, whenever it does so before the   *)
(* attempt gave up.                                                        *)
LEMMA ParseHolds ==
    ASSUME StatementInv, NamesInv, LocksInv, pc = "read", ServerParse, wire' = "running"
    PROVE  ReadHolds'
<1>1. /\ session # "closed" /\ session' = session /\ UNCHANGED <<entry, nav, bound>>
      /\ locks' = locks \cup ParseLocks
      /\ parsed' = [oids |-> ParsedRels,
                    cols |-> [i \in 1..Len(entry.refs) |-> catalog.cols[ParsedRels[i]]],
                    scanned |-> ParseLocks, fk |-> ForeignKey]
  BY DEF ServerParse, gateVars
<1>2. AttributesHold /\ (nav # None => ForeignKey = nav)
  BY <1>1 DEF LocksInv, KeyHolds
<1>3. Len(entry.refs) <= Len(bound) /\ Len(entry.refs) \in Nat
  BY BindListType DEF NamesInv, Through
<1>4. ASSUME NEW i \in 1..Len(entry.refs), parsed'.oids[i] = bound[i].oid
      PROVE  parsed'.cols[i] = bound[i].cols
  <2>1. parsed'.cols[i] = catalog.cols[bound[i].oid]
    BY <1>1, <1>4
  <2>2. i \in 1..Len(bound)
    BY <1>3, <1>4 DEF NamesInv
  <2> QED
    BY <1>2, <2>1, <2>2 DEF AttributesHold
<1> QED
  BY <1>1, <1>2, <1>4 DEF ReadHolds

LEMMA ReadStep ==
    ASSUME StatementInv, NamesInv, LocksInv, ReadInv, FateInv, ErrorInv, OutcomeInv, Next
    PROVE  ReadInv'
<1>0. Succeeding' => Succeeding \/ pc = "deliver"
  BY SuccessIsKept
<1>1. CASE PrepareNavigation
  <2>1. pc = "prepare" /\ pc' \in {"guard", "end"}
    BY <1>1 DEF PrepareNavigation, Go
  <2> QED
    BY <1>0, <2>1 DEF ReadInv, Through, Succeeding, Succeeded
<1>2. CASE Others
  <2>0. UNCHANGED <<catalog, entry, nav, parsed>>
    BY <1>2, OthersKeep
  <2>1. CASE Advances
    <3>1. CASE pc' \notin {"read"} \cup Checking
      BY <1>0, <2>1, <3>1 DEF ReadInv, Through, Succeeding, Succeeded, Advances, Follows
    <3>2. CASE pc = "dispatch"
      <4>1. Dispatch /\ pc' = "read"
        BY <1>2, <2>1, <3>2, WhoAdvances DEF Advances, Follows
      <4>2. wire' = "flight"
        BY <4>1 DEF Dispatch, Fail
      <4> QED
        BY <1>0, <3>2, <4>1, <4>2 DEF ReadInv, Through, Succeeding, Succeeded
    <3>3. CASE pc' \in Checking
      <4>1. pc \in {"read", "verify", "audit"}
        BY <2>1, <3>3 DEF Advances, Follows
      <4>2. UNCHANGED <<bound, approved, wire, locks>> /\ session' = session
        BY <1>2, <2>1, <4>1, WhoAdvances
           DEF ReadResult, Verify, Audit, Fail, Advances, Follows, gateVars, serverVars
      <4>3. ReadHolds' = ReadHolds /\ PositionsMatch' = PositionsMatch
        BY <2>0, <4>2 DEF ReadHolds, PositionsMatch
      <4>4. CASE pc = "read"
        <5>1. ReadResult /\ pc' = "verify"
          BY <1>2, <2>1, <4>4, WhoAdvances DEF Advances, Follows
        <5>2. wire = "done" /\ fate' = "completed"
          BY <5>1 DEF ReadResult, Fail, FateAfterRead
        <5> QED
          BY <1>0, <4>2, <4>3, <4>4, <5>1, <5>2 DEF ReadInv, Through, Succeeding, Succeeded
      <4>5. CASE pc = "verify"
        <5>1. Verify /\ pc' = "audit"
          BY <1>2, <2>1, <4>5, WhoAdvances DEF Advances, Follows
        <5>2. PositionsMatch /\ fate' = fate
          BY <5>1 DEF Verify, Fail, clientVars
        <5> QED
          BY <1>0, <4>2, <4>3, <4>5, <5>1, <5>2 DEF ReadInv, Through, Succeeding, Succeeded
      <4>6. CASE pc = "audit"
        <5>1. Audit /\ pc' = "deliver"
          BY <1>2, <2>1, <4>6, WhoAdvances DEF Advances, Follows
        <5>2. session # "closed" /\ locks \subseteq approved /\ fate' = fate
          BY <5>1 DEF Audit, Fail, clientVars
        <5>3. parsed.scanned \subseteq approved
          BY <4>6, <5>2 DEF ReadInv, ReadHolds, Through
        <5> QED
          BY <2>0, <4>2, <4>3, <4>6, <5>1, <5>2, <5>3 DEF ReadInv, Through
      <4> QED
        BY <4>1, <4>4, <4>5, <4>6
    <3> QED
      BY <2>1, <3>1, <3>2, <3>3 DEF Advances, Follows
  <2>2. CASE Fails
    BY <1>0, <2>2 DEF Fails, Failures, ReadInv, Through, Succeeding, Succeeded
  <2>3. CASE Deliver \/ ReleaseExecution \/ ObserveRemoteState \/ Finish
    <3>1. UNCHANGED <<bound, approved, wire, fate>> /\ pc' \in Ending
      BY <2>3 DEF Deliver, ReleaseExecution, ObserveRemoteState, Finish, gateVars, clientVars,
                  serverVars
    <3>2. session' = "closed" \/ (locks' = locks /\ session # "closed")
      BY <2>3 DEF Deliver, ReleaseExecution, ObserveRemoteState, Finish, serverVars
    <3>3. (ReadHolds => ReadHolds') /\ PositionsMatch' = PositionsMatch
      BY <2>0, <3>1, <3>2 DEF ReadHolds, PositionsMatch
    <3> QED
      BY <1>0, <2>0, <3>1, <3>3 DEF ReadInv, Through
  <2> QED
    BY <1>2, <2>1, <2>2, <2>3, ControlFlow
<1>3. CASE Environment
  <2>1. UNCHANGED <<entry, nav, bound, approved, pc, err, out, fate>>
    BY <1>3, EnvironmentKeeps DEF gateVars, clientVars
  <2>2. Succeeding' = Succeeding
    BY <2>1 DEF Succeeding, Succeeded
  <2>3. CASE ServerParse
    <3>1. wire = "flight" /\ wire' \in {"running", "errored"}
      BY <2>3 DEF ServerParse
    <3>2. ~Through(Checking)
      BY <3>1 DEF ReadInv
    <3>3. Through({"read"}) /\ wire' = "running" => ReadHolds'
      BY <2>3, <3>2, ParseHolds DEF Through
    <3> QED
      BY <2>1, <2>2, <3>1, <3>2, <3>3 DEF ReadInv, Through
  <2>4. CASE ~ServerParse
    <3>1. /\ UNCHANGED parsed
          /\ locks' = locks \/ session' = "closed"
          /\ session = "closed" => session' = "closed"
          /\ wire' \in {"running", "done"} => wire \in {"running", "done"}
          /\ wire = "done" => wire' = "done"
      BY <1>3, <2>4 DEF Environment, DDL, Cancel, Tick, ConnectionBreaks, ServerNotices,
         ServerCleanup, BytesLost, ServerFinish, ServerError, ServerTimeout, ServerMoves, serverVars
    <3>2. (ReadHolds => ReadHolds') /\ PositionsMatch' = PositionsMatch
      BY <2>1, <3>1 DEF ReadHolds, PositionsMatch
    <3> QED
      BY <2>1, <2>2, <3>1, <3>2 DEF ReadInv, Through
  <2> QED
    BY <2>3, <2>4
<1> QED
  BY <1>1, <1>2, <1>3, StepCases

-----------------------------------------------------------------------------
(* The inductive invariant holds.                                          *)

LEMMA InitInv == Init => AttemptInv
<1> SUFFICES ASSUME Init PROVE AttemptInv
  OBVIOUS
<1> USE DEF Init
<1>1. StatementInv
  BY PGConstants DEF StatementInv
<1>2. NamesInv
  BY DEF NamesInv, Through, Succeeding, Succeeded
<1>3. LocksInv
  BY DEF LocksInv, Bound
<1>4. PlanInv /\ ReadInv
  BY DEF PlanInv, ReadInv, Through, Succeeding, Succeeded
<1>5. FateInv /\ ErrorInv /\ OutcomeInv
  BY DEF FateInv, ErrorInv, OutcomeInv, Succeeded
<1> QED
  BY <1>1, <1>2, <1>3, <1>4, <1>5 DEF AttemptInv

LEMMA StutterInv == AttemptInv /\ UNCHANGED vars => AttemptInv'
<1> SUFFICES ASSUME AttemptInv, UNCHANGED vars PROVE AttemptInv'
  OBVIOUS
<1>1. UNCHANGED <<catalog, entry, nav, pc, stage, ref, found, bound, approved, win, plan, tx,
                  described, fate, err, out, session, locks, wire, crossed, parsed>>
  BY DEF vars, catalogVars, gateVars, planVars, clientVars, serverVars
<1>2. BindList' = BindList /\ Succeeding' = Succeeding /\ Succeeded' = Succeeded /\ Page' = Page
  BY <1>1 DEF BindList, Succeeding, Succeeded, Page, Fetched
<1>3. StatementInv' /\ NamesInv' /\ FateInv' /\ ErrorInv'
  BY <1>1, <1>2 DEF AttemptInv, StatementInv, NamesInv, FateInv, ErrorInv, Through, StageOf
<1>4. LocksInv'
  BY <1>1 DEF AttemptInv, LocksInv, AttributesHold, KeyHolds, ForeignKey, Bound
<1>5. PlanInv'
  BY <1>1, <1>2, PlanKept DEF AttemptInv, PlanInv, Through
<1>6. ReadInv'
  BY <1>1, <1>2 DEF AttemptInv, ReadInv, ReadHolds, PositionsMatch, Through
<1>7. OutcomeInv'
  BY <1>1, <1>2 DEF AttemptInv, OutcomeInv, Tells, AttemptStatus, UserSQLSent
<1> QED
  BY <1>3, <1>4, <1>5, <1>6, <1>7 DEF AttemptInv

(* The inductive invariant of the attempt, its server and the other        *)
(* sessions.                                                               *)
THEOREM AttemptIsSound == Spec => []AttemptInv
<1>1. AttemptInv /\ [Next]_vars => AttemptInv'
  <2>1. AttemptInv /\ Next => AttemptInv'
    BY StatementStep, NamesStep, LocksStep, PlanStep, ReadStep, FateStep, ErrorStep, OutcomeStep
       DEF AttemptInv
  <2> QED
    BY <2>1, StutterInv
<1> QED
  BY <1>1, InitInv, PTL DEF Spec

-----------------------------------------------------------------------------
(* What is delivered was bound.                                            *)

LEMMA PositionTypes ==
    ASSUME StatementInv
    PROVE  /\ DOMAIN Positions = 1..(2 * Len(entry.refs))
           /\ \A p \in DOMAIN Positions :
                /\ Positions[p].ref \in 1..Len(entry.refs)
                /\ Positions[p].attnum \in {1, 2}
<1>1. Len(entry.refs) \in Nat
  BY DEF StatementInv, Entry
<1>2. \A n \in Nat : \A p \in 1..(2 * n) : (p + 1) \div 2 \in 1..n /\ 2 - (p % 2) \in {1, 2}
  OBVIOUS
<1> QED
  BY <1>1, <1>2 DEF Positions

LEMMA DeliveredSucceeded ==
    ASSUME OutcomeInv, Delivered
    PROVE  /\ Succeeded /\ Succeeding /\ Tells(out.evidence)
           /\ out.result = [modes |-> plan, page |-> Page]
BY DEF OutcomeInv, Delivered, Succeeded, Succeeding, NoOutcome

(* Whatever other sessions do to the catalog between any two statements, a *)
(* delivered result was read from the relations that were bound, scanned   *)
(* only approved ones, and has each column disclosed as the policy of the  *)
(* column the server really read says.                                     *)
THEOREM DeliveredIsBound == Spec => []DeliveredWhatWasBound
<1>1. ASSUME AttemptInv, Delivered
      PROVE  /\ \A i \in 1..Len(entry.refs) : parsed.oids[i] = bound[i].oid
             /\ parsed.scanned \subseteq approved
             /\ \A p \in DOMAIN Positions :
                  LET n == entry.refs[Positions[p].ref]
                      key == <<n[1], n[2], parsed.cols[Positions[p].ref][Positions[p].attnum]>>
                  IN  key \in DOMAIN Policy /\ out.result.modes[p] = Policy[key]
             /\ nav # None => parsed.fk = nav
  <2>1. Succeeding /\ out.result = [modes |-> plan, page |-> Page]
    BY <1>1, DeliveredSucceeded DEF AttemptInv
  <2>2. ReadHolds /\ PositionsMatch /\ parsed.scanned \subseteq approved /\ PlanHolds
    BY <1>1, <2>1 DEF AttemptInv, ReadInv, PlanInv, Through
  <2>3. Len(bound) = Len(BindList) /\ StatementInv /\ NamesInv
    BY <1>1, <2>1 DEF AttemptInv, NamesInv, Through
  <2>4. ASSUME NEW p \in DOMAIN Positions
        PROVE  LET n == entry.refs[Positions[p].ref]
                   key == <<n[1], n[2], parsed.cols[Positions[p].ref][Positions[p].attnum]>>
               IN  key \in DOMAIN Policy /\ out.result.modes[p] = Policy[key]
    <3> DEFINE i == Positions[p].ref
               n == entry.refs[i]
               key == <<n[1], n[2], parsed.cols[i][Positions[p].attnum]>>
    <3>1. i \in 1..Len(entry.refs) /\ i \in 1..Len(bound) /\ entry.refs[i] = BindList[i]
      BY <2>3, <2>4, PositionTypes, BindListType
    <3>2. entry.refs[i] = <<bound[i].schema, bound[i].object>>
      BY <2>3, <3>1 DEF NamesInv
    <3>3. parsed.cols[i] = bound[i].cols
      BY <2>2, <3>1 DEF ReadHolds, PositionsMatch
    <3>4. key = PolicyKey(p)
      BY <3>2, <3>3 DEF PolicyKey
    <3>5. PolicyKey(p) \in DOMAIN Policy /\ plan[p] = Policy[PolicyKey(p)]
      BY <2>2, <2>4 DEF PlanHolds
    <3> QED
      BY <2>1, <3>4, <3>5
  <2> QED
    BY <2>2, <2>4 DEF ReadHolds, PositionsMatch
<1>2. AttemptInv => DeliveredWhatWasBound
  BY <1>1 DEF DeliveredWhatWasBound
<1> QED
  BY <1>2, AttemptIsSound, PTL

-----------------------------------------------------------------------------
(* The page.                                                               *)

(* How many rows the user may walk through. *)
Browsable(w) == IF w.limit = None THEN w.maxRows ELSE MinOf(w.maxRows, w.limit)

LEMMA WindowFacts ==
    ASSUME entry \in Entry, WindowHolds
    PROVE  LET w == entry.page
               b == Browsable(w)
               start == (w.page - 1) * w.size
           IN  /\ w \in PageRequest /\ b \in Nat /\ b <= w.maxRows /\ start \in Nat
               /\ start + w.size = w.page * w.size
               /\ start <= b
               /\ win.start = start /\ win.browsable = b /\ win.offset = w.offset + start
               /\ win.rowLimit = MinOf(w.size, b - start)
               /\ win.fetch = MinOf(w.size + 1, b - start)
               /\ win.limited = (w.limit = None \/ w.limit > w.maxRows)
<1> DEFINE w == entry.page
           b == Browsable(w)
           start == (w.page - 1) * w.size
<1>1. w \in PageRequest
  BY DEF Entry
<1>2. /\ w.page \in Nat \ {0} /\ w.size \in Nat \ {0} /\ w.maxRows \in Nat
      /\ w.limit \in Nat \cup {None}
  BY <1>1 DEF PageRequest
<1>3. b \in Nat /\ b <= w.maxRows
  BY <1>2 DEF Browsable, MinOf
<1>4. \A x, y \in Nat \ {0} : (x - 1) * y \in Nat /\ (x - 1) * y + y = x * y /\ (x = 1 => (x - 1) * y = 0)
  OBVIOUS
<1>5. /\ start \in Nat /\ start + w.size = w.page * w.size
      /\ w.page = 1 => start = 0
  BY <1>2, <1>4
<1>6. IF b = 0 THEN w.page = 1 ELSE ~(start >= b)
  BY DEF WindowHolds, OutOfRange, Browsable
<1>7. start <= b
  BY <1>3, <1>5, <1>6
<1>8. win = Window(w)
  BY DEF WindowHolds
<1> QED
  BY <1>1, <1>3, <1>5, <1>7, <1>8 DEF Window, Browsable

(* Rows are numbered: the rows of a window, and a slice of them. *)
Numbered(from, n) == [i \in 1..n |-> from + i]
Slice(from, n, k, e) == SubSeq(Numbered(from, n), k + 1, e)

LEMMA NumberedType ==
    ASSUME NEW from \in Nat, NEW n \in Nat
    PROVE  /\ Numbered(from, n) \in Seq(Nat) /\ Len(Numbered(from, n)) = n
           /\ \A i \in 1..n : Numbered(from, n)[i] = from + i
BY DEF Numbered

LEMMA SliceIsNumbered ==
    ASSUME NEW from \in Nat, NEW n \in Nat, NEW k \in Nat, NEW e \in Nat, k <= e, e <= n
    PROVE  Slice(from, n, k, e) = Numbered(from + k, e - k)
<1> DEFINE s == Numbered(from, n)
           t == SubSeq(s, k + 1, e)
           u == Numbered(from + k, e - k)
<1>1. s \in Seq(Nat) /\ Len(s) = n /\ \A i \in 1..n : s[i] = from + i
  BY NumberedType
<1>2. u \in Seq(Nat) /\ Len(u) = e - k /\ \A i \in 1..(e - k) : u[i] = from + k + i
  BY DEF Numbered
<1>3. Slice(from, n, k, e) = t
  BY DEF Slice
<1> HIDE DEF s, u
<1>4. /\ t \in Seq(Nat)
      /\ Len(t) = (IF k + 1 <= e THEN e - (k + 1) + 1 ELSE 0)
      /\ \A i \in 1..(e - (k + 1) + 1) : t[i] = s[(k + 1) + i - 1]
  <2>1. k + 1 \in 1..(Len(s) + 1) /\ e \in ((k + 1) - 1)..Len(s)
    BY <1>1
  <2> QED
    BY <1>1, <2>1, SubSeqProperties
<1> HIDE DEF t
<1>5. Len(t) = e - k
  BY <1>4
<1>i. ASSUME NEW i \in 1..(e - k)
      PROVE  t[i] = u[i]
  <2>1. i \in 1..(e - (k + 1) + 1) /\ (k + 1) + i - 1 = k + i /\ k + i \in 1..n
    OBVIOUS
  <2>2. t[i] = s[k + i]
    BY <1>4, <2>1
  <2>3. s[k + i] = from + (k + i)
    BY <1>1, <2>1
  <2> QED
    BY <1>2, <2>2, <2>3
<1>6. t = u
  BY <1>2, <1>4, <1>5, <1>i, SeqEqual
<1> QED
  BY <1>3, <1>6 DEF u

LEMMA SliceIsEmpty ==
    ASSUME NEW from \in Nat, NEW n \in Nat, NEW k \in Nat, NEW e \in Nat, e <= k
    PROVE  Slice(from, n, k, e) = <<>>
<1>1. k + 1 \in Int /\ e \in Int /\ e < k + 1
  OBVIOUS
<1> QED
  BY <1>1, SubSeqEmpty DEF Slice

(* A prefix of the rows fetched from the start of a page is a slice of all *)
(* the rows.                                                               *)
LEMMA PrefixIsSlice ==
    ASSUME NEW off \in Nat, NEW start \in Nat, NEW from \in Nat, from = off + start,
           NEW n \in Nat, NEW shown \in Nat, shown <= n,
           NEW all \in Nat, NEW e \in Nat,
           all <= start => e <= start /\ shown = 0,
           start < all => start <= e /\ e <= all /\ shown = e - start
    PROVE  /\ Slice(from, n, 0, shown) = Slice(off, all, start, e)
           /\ Slice(from, n, 0, shown) \in Seq(Nat)
<1>1. Slice(from, n, 0, shown) = Numbered(from, shown)
  <2> DEFINE z == 0
  <2>0. z \in Nat /\ z <= shown
    OBVIOUS
  <2> HIDE DEF z
  <2>1. Slice(from, n, z, shown) = Numbered(from + z, shown - z)
    BY <2>0, SliceIsNumbered
  <2>2. from + z = from /\ shown - z = shown
    BY DEF z
  <2> QED
    BY <2>1, <2>2 DEF z
<1>2. Numbered(from, shown) \in Seq(Nat)
  BY NumberedType
<1>3. CASE all <= start
  <2>1. Slice(off, all, start, e) = <<>>
    BY <1>3, SliceIsEmpty
  <2>2. Numbered(from, shown) = <<>>
    BY <1>3 DEF Numbered
  <2> QED
    BY <1>1, <1>2, <2>1, <2>2
<1>4. CASE start < all
  <2>1. Slice(off, all, start, e) = Numbered(off + start, e - start)
    BY <1>4, SliceIsNumbered
  <2> QED
    BY <1>1, <1>2, <1>4, <2>1
<1> QED
  BY <1>3, <1>4

(* The page that is computed, in terms of the user's own window. *)
LEMMA PageFacts ==
    ASSUME entry \in Entry, WindowHolds
    PROVE  LET w == entry.page
               last == w.page * w.size
           IN  /\ Page.rows = SubSeq(UsersRows, last - w.size + 1, MinOf(last, Len(UsersRows)))
               /\ Page.hasMore <=> Len(UsersRows) > last
               /\ Page.budgetReached => Len(UsersRows) = w.maxRows
               /\ Page \in [rows : Seq(Nat), hasMore : BOOLEAN, budgetReached : BOOLEAN]
<1> DEFINE w == entry.page
           b == Browsable(w)
           start == (w.page - 1) * w.size
           last == w.page * w.size
           T == IF entry.total > w.offset THEN entry.total - w.offset ELSE 0
           N == MinOf(T, b)
           avail == IF entry.total > win.offset THEN entry.total - win.offset ELSE 0
           n == MinOf(win.fetch, avail)
           shown == MinOf(n, win.rowLimit)
           e == MinOf(last, N)
           off == w.offset
           from == w.offset + start
<1>1. /\ b \in Nat /\ b <= w.maxRows /\ start \in Nat /\ start + w.size = last /\ start <= b
      /\ win.start = start /\ win.browsable = b /\ win.offset = w.offset + start
      /\ win.rowLimit = MinOf(w.size, b - start)
      /\ win.fetch = MinOf(w.size + 1, b - start)
      /\ win.limited = (w.limit = None \/ w.limit > w.maxRows)
  BY WindowFacts
<1>2. /\ w.size \in Nat \ {0} /\ w.offset \in Nat /\ w.maxRows \in Nat \ {0}
      /\ w.limit \in Nat \cup {None} /\ entry.total \in Nat
  BY DEF Entry, PageRequest
<1>3. UsersRows = Numbered(w.offset, N)
  <2>1. (IF w.limit = None THEN w.maxRows ELSE MinOf(w.limit, w.maxRows)) = b
    BY <1>2 DEF Browsable, MinOf
  <2> QED
    BY <2>1 DEF UsersRows, Numbered
<1>4. Fetched = Numbered(w.offset + start, n)
  BY <1>1 DEF Fetched, Numbered
<1>d. /\ T = (IF entry.total > w.offset THEN entry.total - w.offset ELSE 0)
      /\ avail = (IF entry.total > w.offset + start THEN entry.total - (w.offset + start) ELSE 0)
      /\ N = MinOf(T, b) /\ n = MinOf(win.fetch, avail) /\ shown = MinOf(n, win.rowLimit)
      /\ e = MinOf(last, N)
  BY <1>1
<1>s. Page.rows = SubSeq(Fetched, 1, MinOf(Len(Fetched), win.rowLimit))
  BY DEF Page
<1>m. win.limited => b = w.maxRows
  BY <1>1, <1>2 DEF Browsable, MinOf
<1>e. off = w.offset /\ from = w.offset + start
  OBVIOUS
<1> HIDE DEF b, start, last, T, N, avail, n, shown, e, off, from
<1>5. /\ T \in Nat /\ N \in Nat /\ avail \in Nat /\ n \in Nat /\ shown \in Nat /\ e \in Nat
      /\ last \in Nat /\ off \in Nat /\ from \in Nat /\ start \in Nat /\ from = off + start
  BY <1>1, <1>2, <1>d, <1>e DEF MinOf
<1>6. Len(UsersRows) = N /\ Len(Fetched) = n /\ Fetched \in Seq(Nat)
  <2>1. Numbered(off, N) \in Seq(Nat) /\ Len(Numbered(off, N)) = N
    BY <1>5, NumberedType
  <2>2. Numbered(from, n) \in Seq(Nat) /\ Len(Numbered(from, n)) = n
    BY <1>5, NumberedType
  <2>3. UsersRows = Numbered(off, N) /\ Fetched = Numbered(from, n)
    BY <1>3, <1>4, <1>e
  <2> QED
    BY <2>1, <2>2, <2>3
<1>7. Page.rows = Slice(from, n, 0, shown)
  <2>0. 0 + 1 = 1 /\ MinOf(Len(Fetched), win.rowLimit) = shown
    BY <1>6, <1>d
  <2>1. Page.rows = SubSeq(Fetched, 0 + 1, shown)
    BY <1>s, <2>0
  <2>2. Fetched = Numbered(from, n)
    BY <1>4, <1>e
  <2> QED
    BY <2>1, <2>2 DEF Slice
<1>8. /\ shown <= n
      /\ N <= start => e <= start /\ shown = 0
      /\ start < N => start <= e /\ e <= N /\ shown = e - start
  BY <1>1, <1>2, <1>5, <1>d DEF MinOf
<1>9. Page.rows = Slice(off, N, start, e) /\ Page.rows \in Seq(Nat)
  <2>1. /\ Slice(from, n, 0, shown) = Slice(off, N, start, e)
        /\ Slice(from, n, 0, shown) \in Seq(Nat)
    BY <1>5, <1>8, PrefixIsSlice
  <2> QED
    BY <1>7, <2>1
<1>10. Page.hasMore <=> N > last
  <2>1. Page.hasMore <=> n > win.rowLimit
    BY <1>6 DEF Page
  <2> QED
    BY <1>1, <1>2, <1>5, <2>1, <1>d DEF MinOf
<1>11. Page.budgetReached => N = w.maxRows
  <2>1. Page.budgetReached => /\ win.limited /\ win.rowLimit > 0
                              /\ win.start + win.rowLimit = win.browsable /\ n >= win.rowLimit
    BY <1>6 DEF Page
  <2>2. SUFFICES ASSUME Page.budgetReached
                 PROVE  N = b
    BY <1>m, <2>1
  <2>r. win.rowLimit \in Nat
    BY <1>1, <1>2 DEF MinOf
  <2>c. /\ win.rowLimit > 0 /\ n >= win.rowLimit
        /\ win.start + win.rowLimit = win.browsable
    BY <2>1, <2>2
  <2>3. win.rowLimit = b - start /\ win.rowLimit > 0 /\ n >= win.rowLimit
    BY <1>1, <2>r, <2>c
  <2>4. avail >= b - start
    BY <1>1, <1>5, <2>3, <1>d DEF MinOf
  <2>5. T >= b
    BY <1>1, <1>2, <1>5, <2>3, <2>4, <1>d
  <2> QED
    BY <1>1, <1>5, <2>5, <1>d DEF MinOf
<1>12. Page \in [rows : Seq(Nat), hasMore : BOOLEAN, budgetReached : BOOLEAN]
  <2>1. Page.rows \in Seq(Nat)
    BY <1>9
  <2>2. Page = [rows |-> Page.rows, hasMore |-> Page.hasMore, budgetReached |-> Page.budgetReached]
    BY DEF Page
  <2>3. Page.hasMore \in BOOLEAN /\ Page.budgetReached \in BOOLEAN
    BY <1>1 DEF Page
  <2> QED
    BY <2>1, <2>2, <2>3
<1>13. last - w.size + 1 = start + 1
  BY <1>1, <1>2
<1>14. Page.rows = SubSeq(UsersRows, last - w.size + 1, MinOf(last, Len(UsersRows)))
  <2>1. Page.rows = SubSeq(Numbered(off, N), start + 1, e)
    BY <1>9 DEF Slice
  <2>2. UsersRows = Numbered(off, N)
    BY <1>3, <1>e
  <2>3. e = MinOf(last, Len(UsersRows))
    BY <1>6, <1>d
  <2> QED
    BY <1>13, <2>1, <2>2, <2>3
<1> QED
  BY <1>6, <1>10, <1>11, <1>12, <1>14 DEF last

LEMMA DeliveredPage ==
    ASSUME AttemptInv, Succeeding
    PROVE  entry \in Entry /\ WindowHolds /\ PlanHolds
BY DEF AttemptInv, StatementInv, PlanInv, Through

(* A delivered page is that page of the user's own window, it promises a   *)
(* further page exactly when the window has further rows, and it reports   *)
(* the row budget only when the budget cut the window.                     *)
THEOREM PagesAreTheUsers == Spec => []PageIsTheUsersSlice
<1>1. ASSUME AttemptInv, Delivered
      PROVE  LET w == entry.page
                 page == out.result.page
                 last == w.page * w.size
             IN  /\ page.rows = SubSeq(UsersRows, last - w.size + 1, MinOf(last, Len(UsersRows)))
                 /\ page.hasMore <=> Len(UsersRows) > last
                 /\ page.budgetReached => Len(UsersRows) = w.maxRows
  <2>1. Succeeding /\ out.result = [modes |-> plan, page |-> Page]
    BY <1>1, DeliveredSucceeded DEF AttemptInv
  <2>2. out.result.page = Page
    BY <2>1
  <2>3. entry \in Entry /\ WindowHolds
    BY <1>1, <2>1, DeliveredPage
  <2> QED
    BY <2>2, <2>3, PageFacts
<1>2. AttemptInv => PageIsTheUsersSlice
  BY <1>1 DEF PageIsTheUsersSlice
<1> QED
  BY <1>2, AttemptIsSound, PTL

(* A result is never the value that stands for its absence. *)
LEMMA ResultIsThere ==
    ASSUME AttemptInv, Succeeding
    PROVE  [modes |-> plan, page |-> Page] # None
<1>1. entry \in Entry /\ WindowHolds /\ PlanHolds /\ StatementInv
  BY DeliveredPage DEF AttemptInv
<1>2. Page \in [rows : Seq(Nat), hasMore : BOOLEAN, budgetReached : BOOLEAN]
  BY <1>1, PageFacts
<1>3. plan \in Seq(Modes)
  <2> DEFINE n == 2 * Len(entry.refs)
  <2>1. n \in Nat /\ DOMAIN Positions = 1..n
    BY <1>1, PositionTypes DEF Entry
  <2>2. \A p \in 1..n : Policy[PolicyKey(p)] \in Modes
    BY <1>1, <2>1, PGConstants DEF PlanHolds
  <2>3. plan = [p \in 1..n |-> Policy[PolicyKey(p)]]
    BY <1>1, <2>1 DEF PlanHolds
  <2> HIDE DEF n
  <2> QED
    BY <2>1, <2>2, <2>3
<1> QED
  BY <1>2, <1>3, PGConstants DEF Results

(* The evidence never claims more than happened: what it says of the       *)
(* statement at the server, of user text having crossed, of the stage and  *)
(* of the result is so, and a result means that the transaction is gone    *)
(* and holds nothing.                                                      *)
THEOREM EvidenceHolds == Spec => []EvidenceIsTrue
<1>1. ASSUME AttemptInv, pc = "end", out.evidence # None
      PROVE  LET ev == out.evidence
             IN  /\ ev.remote = "completed" => wire = "done"
                 /\ ev.remote = "none" => wire = "none"
                 /\ ~ev.sent => ~crossed
                 /\ ev.stage \in {"input", "guard", "connect", "identity", "bind",
                                  "rewrite", "preflight"} => ~crossed
                 /\ (ev.status = "success") <=> Delivered
                 /\ Delivered => ev.remote = "completed" /\ locks = {} /\ session = "closed"
  <2> DEFINE ev == out.evidence
  <2>1. /\ out # NoOutcome /\ Tells(ev)
        /\ out.result = IF err = "none" THEN [modes |-> plan, page |-> Page] ELSE None
    BY <1>1 DEF AttemptInv, OutcomeInv, NoOutcome
  <2>2. FateInv /\ ErrorInv /\ ReadInv
    BY <1>1 DEF AttemptInv
  <2>3. /\ ev.remote = "completed" => wire = "done"
        /\ ev.remote = "none" => wire = "none"
    BY <2>1, <2>2 DEF FateInv, Tells
  <2>4. ~ev.sent => ~crossed
    BY <2>1, <2>2 DEF FateInv, Tells, UserSQLSent
  <2>5. ev.stage \in {"input", "guard", "connect", "identity", "bind",
                      "rewrite", "preflight"} => ~crossed
    BY <2>1, <2>2 DEF FateInv, Tells
  <2>6. ev.status = "success" <=> err = "none"
    BY <2>1, <2>2 DEF ErrorInv, Tells, AttemptStatus
  <2>7. err = "none" => Succeeded /\ Succeeding
    BY <1>1, <2>1 DEF Succeeded, Succeeding
  <2>8. err = "none" => Delivered
    BY <1>1, <2>1, <2>7, ResultIsThere DEF Delivered
  <2>9. Delivered => err = "none"
    BY <2>1 DEF Delivered
  <2>10. err = "none" => ev.remote = "completed" /\ locks = {} /\ session = "closed"
    BY <2>1, <2>2, <2>7 DEF ReadInv, Through, ErrorInv, Tells
  <2> QED
    BY <2>3, <2>4, <2>5, <2>6, <2>8, <2>9, <2>10
<1>2. AttemptInv => EvidenceIsTrue
  BY <1>1 DEF EvidenceIsTrue
<1> QED
  BY <1>2, AttemptIsSound, PTL
=============================================================================
