---------------------------- MODULE GuardProofs ----------------------------
(***************************************************************************)
(* Proofs about what the executor lets through: the access rules, the      *)
(* guards of a statement and of a call, the token a SQL engine is reached  *)
(* with, and what every handler decides, records and leaves out.           *)
(***************************************************************************)
EXTENDS AccessRules, SqlGuard, HttpGuard, Requests, FiniteSetTheorems, SequenceTheorems, TLAPS

-----------------------------------------------------------------------------
(* No rule that applies is left out of the denials that count, whatever    *)
(* the others allow.                                                       *)
LEMMA DenialsAddUp ==
    ASSUME NEW rules, NEW held
    PROVE  ForRoles(rules, held).deny = UNION {rule.deny : rule \in Applied(rules, held)}
  BY DEF ForRoles, EffectiveOf

(* Of what any rules withhold from any caller, Check lets through only     *)
(* what is written in other letters than the denial, where letters count,  *)
(* and a star on a table which the denial leaves open (for_roles and check *)
(* of access.py, forRoles and Check of access.go).                         *)
THEOREM DenialAlways == RulesSpec => []DenialStands
<1>1. impl \in Impls => DenialStands
  <2>1. SUFFICES ASSUME impl \in Impls, Check(ruling.rules, ruling.held, ruling.reads),
                        NEW denial \in WithheldFrom(ruling)
                 PROVE  /\ \A column \in ruling.reads.columns :
                               Withholds(denial, column.table, column.name) =>
                                   impl = "py" /\ denial.case # column.case
                        /\ \A star \in ruling.reads.star, name \in Names :
                               Withholds(denial, star.table, name) =>
                                   denial.table = AnyTable \/ denial.case # star.case
    BY DEF DenialStands
  <2>2. denial \in ForRoles(ruling.rules, ruling.held).deny
    BY <2>1, DenialsAddUp DEF WithheldFrom
  <2> QED BY <2>1, <2>2 DEF Check, StarHit, Matches, Withholds, Impls
<1>2. RulesSpec => [](impl \in Impls)
  <2>1. BaseInit /\ RulesInit => impl \in Impls
    BY DEF BaseInit
  <2>2. impl \in Impls /\ [RulesNext]_<<impl, now, ruling>> => (impl \in Impls)'
    BY DEF RulesNext
  <2> QED BY <2>1, <2>2, PTL DEF RulesSpec
<1> QED BY <1>1, <1>2, PTL

-----------------------------------------------------------------------------
LimitKinds == {"absent", "percent", "other", "count"}

(* What a guard reads off a statement's tree. *)
StatementType ==
    statement \in [defect : Defects \cup {NoName}, refs : SUBSET Refs, ctes : SUBSET TableNames,
                   reads : SUBSET ColumnReads, limit : [is : LimitKinds, n : Nat],
                   takesTop : BOOLEAN, asked : Int]
GuardInv == StatementType /\ impl \in Impls

LEMMA GuardInvInit == BaseInit /\ GuardInit => GuardInv
  BY DEF BaseInit, GuardInit, GuardInv, StatementType, NoStatement, Limit, LimitKinds, Defects

LEMMA GuardInvNext == GuardInv /\ [GuardNext]_<<impl, now, statement>> => GuardInv'
<1> SUFFICES ASSUME GuardInv, [GuardNext]_<<impl, now, statement>> PROVE GuardInv'
  OBVIOUS
<1>1. CASE Submit /\ UNCHANGED impl
  <2>0. PICK defect \in Defects \cup {NoName}, refs \in Selects, ctes \in SUBSET TableNames :
             \E read \in ColumnReads, limit \in Limits, top \in BOOLEAN, asked \in -1 .. MaxRows :
                /\ top => limit.is = "absent"
                /\ statement' = [defect |-> defect, refs |-> refs, ctes |-> ctes, reads |-> {read},
                                 limit |-> limit, takesTop |-> top, asked |-> asked]
    BY <1>1 DEF Submit
  <2>1. PICK read \in ColumnReads, limit \in Limits, top \in BOOLEAN, asked \in -1 .. MaxRows :
             statement' = [defect |-> defect, refs |-> refs, ctes |-> ctes, reads |-> {read},
                           limit |-> limit, takesTop |-> top, asked |-> asked]
    BY <2>0
  <2>2. limit \in [is : LimitKinds, n : Nat]
    BY GuardAssumption DEF Limits, Limit, LimitKinds
  <2>3. refs \in SUBSET Refs /\ asked \in Int
    BY GuardAssumption DEF Selects
  <2>4. {read} \in SUBSET ColumnReads
    OBVIOUS
  <2>5. StatementType'
    BY <2>1, <2>2, <2>3, <2>4 DEF StatementType
  <2> QED BY <1>1, <2>5 DEF GuardInv
<1>2. CASE Answered /\ UNCHANGED impl
  BY <1>2 DEF Answered, GuardInv, StatementType, NoStatement, Limit, LimitKinds, Defects
<1>3. CASE UNCHANGED <<impl, now, statement>>
  BY <1>3 DEF GuardInv, StatementType
<1> QED BY <1>1, <1>2, <1>3 DEF GuardNext

(* The ceiling is never above the deployment's, in Go never below one row. *)
LEMMA CeilingBound ==
    ASSUME impl \in Impls, NEW asked \in Int
    PROVE  /\ Ceiling(asked) \in Int
           /\ Ceiling(asked) <= MaxRows
           /\ impl = "go" => Ceiling(asked) > 0
  BY GuardAssumption DEF Ceiling, Impls

(* The limit put on a statement is a number of the ceiling's at most; on a *)
(* statement that already has it, it is the same one.                      *)
LEMMA LimitStands ==
    ASSUME GuardInv, Accepted(statement, Cap)
    PROVE  LET limit == RowLimit(statement, Cap) IN
           /\ limit \in 0 .. MaxRows
           /\ ReadBack(statement, limit) = Limit("count", limit)
           /\ \A s : s.limit = Limit("count", limit) => RowLimit(s, Cap) = limit
<1> DEFINE limit == RowLimit(statement, Cap)
<1>1. /\ Cap \in Int /\ Cap <= MaxRows
      /\ impl = "go" => Cap > 0
  BY CeilingBound DEF Cap, GuardInv, StatementType
<1>2. statement.limit.n \in Nat /\ MaxRows \in Nat /\ impl \in Impls
  BY GuardAssumption DEF GuardInv, StatementType
<1>3. /\ limit \in Int /\ limit <= Cap
      /\ impl = "go" => limit > 0
  BY <1>1, <1>2 DEF RowLimit, OwnLimit
<1>4. ReadBack(statement, limit) = Limit("count", limit)
  BY DEF Accepted, CeilingSurvived
<1>5. limit >= 0
  BY <1>3, <1>4 DEF ReadBack, Limit
<1>6. ASSUME NEW s, s.limit = Limit("count", limit) PROVE RowLimit(s, Cap) = limit
  <2>1. s.limit.is = "count" /\ s.limit.n = limit
    BY <1>6 DEF Limit
  <2>2. OwnLimit(s) = limit
    BY <1>2, <1>3, <2>1 DEF OwnLimit, Impls
  <2> QED BY <1>3, <2>2 DEF RowLimit
<1>7. limit \in 0 .. MaxRows
  BY <1>1, <1>2, <1>3, <1>5
<1> QED BY <1>4, <1>6, <1>7

(* Nothing but its limit is rewritten. *)
LEMMA OnlyTheLimit ==
    ASSUME GuardInv, NEW cap
    PROVE  LET run == Rewritten(statement, cap) IN
           /\ run.limit = ReadBack(statement, RowLimit(statement, cap))
           /\ TablesRead(run) = TablesRead(statement)
           /\ ColumnsRead(run) = ColumnsRead(statement)
<1> DEFINE run == Rewritten(statement, cap)
<1>1. /\ run.limit = ReadBack(statement, RowLimit(statement, cap))
      /\ run.refs = statement.refs /\ run.ctes = statement.ctes /\ run.reads = statement.reads
  BY DEF Rewritten, GuardInv, StatementType
<1>2. Bases(run) = Bases(statement)
  BY <1>1 DEF Bases
<1>3. TablesRead(run) = TablesRead(statement)
  BY <1>2 DEF TablesRead
<1>4. \A read : Targets(run, read) = Targets(statement, read)
  BY <1>2, <1>3 DEF Targets, ByAlias
<1>5. ColumnsRead(run) = ColumnsRead(statement)
  BY <1>1, <1>4 DEF ColumnsRead
<1> QED BY <1>1, <1>3, <1>5

(* A statement the guard lets through is capped, where the engine reads    *)
(* the cap, by a number of the deployment's at most, and guarded again it  *)
(* is the same statement (_apply_limit and _verify_ceiling_survived of     *)
(* sqlguard.py, applyCeiling and verifyCeilingSurvived of sqlguard.go).    *)
THEOREM JudgedAlways == GuardSpec => []JudgedOnce
<1>1. GuardInv => JudgedOnce
  <2> SUFFICES ASSUME GuardInv, Accepted(statement, Cap)
               PROVE  LET run == Rewritten(statement, Cap) IN
                      /\ run.limit.is = "count"
                      /\ run.limit.n \in 0 .. MaxRows
                      /\ RowLimit(run, Cap) = run.limit.n
                      /\ TablesRead(run) = TablesRead(statement)
                      /\ ColumnsRead(run) = ColumnsRead(statement)
    BY DEF JudgedOnce
  <2> DEFINE run == Rewritten(statement, Cap)
             limit == RowLimit(statement, Cap)
  <2>1. run.limit = Limit("count", limit)
    BY LimitStands, OnlyTheLimit
  <2>2. run.limit.is = "count" /\ run.limit.n = limit
    BY <2>1 DEF Limit
  <2> QED BY <2>1, <2>2, LimitStands, OnlyTheLimit
<1> QED BY <1>1, GuardInvInit, GuardInvNext, PTL DEF GuardSpec

(* Every column of every table a statement may read is one the access      *)
(* rules are asked about, where no table written with its schema has the   *)
(* name of a CTE (_columns_read of sqlguard.py, columnsRead of             *)
(* sqlguard.go).                                                           *)
THEOREM ReadsAlwaysReported == GuardSpec => []ReadsReported
<1>1. GuardInv => ReadsReported
  <2> SUFFICES ASSUME GuardInv,
                      \A r \in statement.refs : r.schema # NoName => r.name \notin statement.ctes,
                      NEW read \in statement.reads, NEW t \in MayBeOf(statement, read)
               PROVE  /\ t \in TablesRead(statement)
                      /\ [table |-> t, name |-> read.name] \in ColumnsRead(statement)
    BY DEF ReadsReported
  <2>1. PICK r \in statement.refs :
            /\ t = [schema |-> r.schema, name |-> r.name]
            /\ read.qualifier \in {r.alias, NoName}
            /\ r.schema # NoName \/ r.name \notin statement.ctes
    BY DEF MayBeOf
  <2>2. r \in Bases(statement)
    BY <2>1 DEF Bases
  <2>3. t \in TablesRead(statement)
    BY <2>1, <2>2 DEF TablesRead
  <2>4. \A q \in Bases(statement) : q.alias # NoName
    BY GuardAssumption DEF GuardInv, StatementType, Bases, Refs
  <2>5. t \in Targets(statement, read)
    <3>1. CASE read.qualifier = r.alias
      <4>1. t \in ByAlias(statement, read.qualifier)
        BY <2>1, <2>2, <3>1 DEF ByAlias
      <4> QED BY <4>1 DEF Targets
    <3>2. CASE read.qualifier = NoName
      <4>1. ByAlias(statement, read.qualifier) = {}
        BY <2>4, <3>2 DEF ByAlias
      <4> QED BY <2>3, <4>1 DEF Targets
    <3> QED BY <2>1, <3>1, <3>2
  <2> QED BY <2>3, <2>5 DEF ColumnsRead
<1> QED BY <1>1, GuardInvInit, GuardInvNext, PTL DEF GuardSpec


-----------------------------------------------------------------------------
HttpInv ==
    /\ call.value \in Supplied
    /\ \E depth \in Nat : call.schema \in [1 .. depth -> Nodes]

LEMMA HttpInvInit == CallInit => HttpInv
<1> SUFFICES ASSUME CallInit PROVE HttpInv
  OBVIOUS
<1>1. call.value \in Supplied /\ call.schema = <<>>
  BY DEF CallInit, NoCall, Supplied
<1>2. <<>> \in [1 .. 0 -> Nodes]
  OBVIOUS
<1> QED BY <1>1, <1>2 DEF HttpInv

LEMMA HttpInvNext == HttpInv /\ [HttpNext]_<<impl, now, call>> => HttpInv'
<1> SUFFICES ASSUME HttpInv, [HttpNext]_<<impl, now, call>> PROVE HttpInv'
  OBVIOUS
<1>0. <<>> \in [1 .. 0 -> Nodes]
  OBVIOUS
<1>1. ASSUME NEW method, NEW readOnly, NEW queryable, NEW fits, NEW undeclared, NEW p,
             NEW value \in Supplied, Call(method, readOnly, queryable, undeclared, fits, p, value, <<>>)
      PROVE  HttpInv'
  <2>1. call'.value = value /\ call'.schema = <<>>
    BY <1>1 DEF Call
  <2> QED BY <1>0, <2>1 DEF HttpInv
<1>2. ASSUME NEW schema \in NodePaths,
             Call("get", TRUE, TRUE, {}, TRUE, NoCall.parameter, Text("absent"), schema)
      PROVE  HttpInv'
  <2>1. call'.value = Text("absent") /\ call'.schema = schema
    BY <1>2 DEF Call
  <2>2. PICK depth \in 0 .. MaxNesting : schema \in [1 .. depth -> Nodes]
    BY <1>2 DEF NodePaths, BoundedSeq, SeqOf
  <2>3. depth \in Nat
    BY <2>2, HttpAssumption
  <2> QED BY <2>1, <2>2, <2>3 DEF HttpInv, Supplied
<1>3. CASE call # NoCall /\ call' = NoCall
  <2>1. call'.value \in Supplied /\ call'.schema = <<>>
    BY <1>3 DEF NoCall, Supplied
  <2> QED BY <1>0, <2>1 DEF HttpInv
<1>4. CASE UNCHANGED <<impl, now, call>>
  BY <1>4 DEF HttpInv
<1> QED BY <1>1, <1>2, <1>3, <1>4 DEF HttpNext

(* The call sent is the call authorised: no path parameter is empty or     *)
(* left out, the page is a size within the deployment's, nothing           *)
(* undeclared is sent (guard of httpguard.py, GuardHTTP of httpguard.go).  *)
THEOREM CallAlwaysAsAuthorised == HttpSpec => []CallAsAuthorised
<1>1. HttpInv => CallAsAuthorised
  <2> SUFFICES ASSUME HttpInv, LetThrough(call)
               PROVE  LET sent == Sent(call.parameter, call.value) IN
                      /\ call.parameter.in = "path" => sent.is \notin {"empty", "absent"}
                      /\ call.parameter.page => sent.n \in 1 .. MaxItems
                      /\ call.undeclared = {}
    BY DEF CallAsAuthorised
  <2> DEFINE sent == Sent(call.parameter, call.value)
  <2>1. ASSUME call.parameter.in = "path" PROVE sent.is \notin {"empty", "absent"}
    <3>1. Given(call.value) /\ sent.is # "empty"
      BY <2>1 DEF LetThrough
    <3> QED BY <3>1 DEF Sent, Given, Number
  <2>2. PageSize(call.value) \in 1 .. MaxItems
    <3>1. call.value.is = "number" => call.value.n \in Int
      BY HttpAssumption DEF HttpInv, Supplied, Number, Text
    <3> QED BY <3>1, HttpAssumption DEF PageSize
  <2>3. ASSUME call.parameter.page PROVE sent.n \in 1 .. MaxItems
    BY <2>2, <2>3 DEF Sent, Number
  <2>4. call.undeclared = {}
    BY DEF LetThrough
  <2> QED BY <2>1, <2>3, <2>4
<1> QED BY <1>1, HttpInvInit, HttpInvNext, PTL DEF HttpSpec

(* The walk of a response is at most one level deeper than that of its     *)
(* schema: it passes no references and at most one list the schema lacks.  *)
LEMMA OneDeeperAtMost ==
    ASSUME NEW depth \in Nat, NEW schema \in [1 .. depth -> Nodes], NEW i \in 1 .. depth
    PROVE  DepthOf(schema, i) \in Nat /\ DepthOf(schema, i) <= i
<1> DEFINE before == 1 .. i - 1
           passed == {j \in before : schema[j] # "ref"}
<1>1. IsFiniteSet(before) /\ Cardinality(before) = i - 1
  BY FS_Interval
<1>2. /\ IsFiniteSet(passed)
      /\ Cardinality(passed) <= Cardinality(before)
  BY <1>1, FS_Subset
<1>3. Cardinality(passed) \in Nat
  BY <1>2, FS_CardinalityType
<1> HIDE DEF before
<1> QED BY <1>1, <1>2, <1>3 DEF DepthOf, before

(* A field the document names can be removed from any response, however    *)
(* deep the schema, if the filter looks one level deeper than the names go *)
(* (_schema_fields and filter_response of httpguard.py, schemaFields and   *)
(* FilterResponse of httpguard.go).                                        *)
THEOREM NamedFieldsAlwaysGo == HttpSpec => []NamedFieldsGo
<1>1. HttpInv => NamedFieldsGo
  <2> SUFFICES ASSUME HttpInv, NEW i \in NamedFields(call.schema)
               PROVE  i \in Removed(call.schema)
    BY DEF NamedFieldsGo
  <2>1. PICK depth \in Nat : call.schema \in [1 .. depth -> Nodes]
    BY DEF HttpInv
  <2>2. i \in 1 .. depth /\ call.schema[i] = "object" /\ i - 1 <= SchemaDepth
    BY <2>1 DEF NamedFields
  <2>3. DepthOf(call.schema, i) \in Nat /\ DepthOf(call.schema, i) <= i
    BY <2>1, <2>2, OneDeeperAtMost
  <2>4. DepthOf(call.schema, i) <= FilterDepth
    BY <2>2, <2>3, HttpAssumption
  <2> QED BY <2>1, <2>2, <2>4 DEF Removed, FilterReaches
<1> QED BY <1>1, HttpInvInit, HttpInvNext, PTL DEF HttpSpec

(* Both: what was decided holds on the way out and on the way back.        *)
THEOREM CallAlwaysGuarded == HttpSpec => []CallGuarded
  BY CallAlwaysAsAuthorised, NamedFieldsAlwaysGo, PTL DEF CallGuarded


-----------------------------------------------------------------------------
(* A handler is a list of steps, and the one before a SQL engine is asked  *)
(* is the one that gets the token.                                         *)
IsStep(step) == step = Step(step.asks, step.ends)
TokenFirst(handler) ==
    /\ Len(handler) \in Nat \ {0}
    /\ DOMAIN handler = 1 .. Len(handler)
    /\ \A k \in DOMAIN handler : IsStep(handler[k])
    /\ \A k \in DOMAIN handler : handler[k].asks = "engine" => k > 1 /\ handler[k - 1].asks = "token"

LEMMA StepIsStep == \A asks, ends : /\ IsStep(Step(asks, ends))
                                    /\ Step(asks, ends).asks = asks
  BY DEF IsStep, Step

LEMMA PyTokenFirst == \A op \in Ops : TokenFirst(PyRest(op))
<1>1. /\ IsStep(Principal) /\ Principal.asks = "caller"
      /\ IsStep(Source) /\ Source.asks = "source"
      /\ IsStep(OfSurface) /\ OfSurface.asks = "surface"
      /\ IsStep(Guard) /\ Guard.asks = "guard"
  BY StepIsStep DEF Principal, Source, OfSurface, Guard
<1>2. /\ IsStep(PyRules) /\ PyRules.asks = "rules"
      /\ IsStep(PyFilter) /\ PyFilter.asks = "filter"
      /\ IsStep(PyTokenTried) /\ PyTokenTried.asks = "token"
      /\ IsStep(PyToken) /\ PyToken.asks = "token"
      /\ IsStep(Bots) /\ Bots.asks = "bots"
  BY StepIsStep DEF PyRules, PyFilter, PyTokenTried, PyToken, Bots
<1>3. \A missing : IsStep(PyEngine(missing)) /\ PyEngine(missing).asks = "engine"
  BY StepIsStep DEF PyEngine
<1>4. TokenFirst(PyListTables)
  BY <1>1, <1>2, <1>3 DEF PyListTables, TokenFirst
<1>5. TokenFirst(PyDescribeTable)
  BY <1>1, <1>2, <1>3 DEF PyDescribeTable, TokenFirst
<1>6. TokenFirst(PyRunQuery)
  BY <1>1, <1>2, <1>3 DEF PyRunQuery, TokenFirst
<1>7. TokenFirst(PyListOperations)
  BY <1>1, <1>2, StepIsStep DEF PyListOperations, TokenFirst
<1>8. TokenFirst(PyDescribeOperation)
  BY <1>1, <1>2, StepIsStep DEF PyDescribeOperation, TokenFirst
<1>9. TokenFirst(PyCallOperation)
  BY <1>1, <1>2, StepIsStep DEF PyCallOperation, TokenFirst
<1>10. TokenFirst(Candidates) /\ TokenFirst(PyCatalog)
  BY <1>1, <1>2, StepIsStep DEF Candidates, PyCatalog, TokenFirst
<1> QED BY <1>4, <1>5, <1>6, <1>7, <1>8, <1>9, <1>10
        DEF PyRest, Ops, SqlOps, HttpOps, McpOnly


(* The dispatcher of the tools changes how a step ends, not what it asks. *)
LEMMA ToolsAskTheSame ==
    ASSUME NEW step, IsStep(step)
    PROVE  /\ IsStep(ReAudited(step)) /\ ReAudited(step).asks = step.asks
           /\ IsStep(DispatchedSql(step)) /\ DispatchedSql(step).asks = step.asks
<1>1. ASSUME NEW ends PROVE [step EXCEPT !.ends = ends] = Step(step.asks, ends)
  BY DEF IsStep, Step
<1>2. IsStep(ReAudited(step)) /\ ReAudited(step).asks = step.asks
  BY <1>1, StepIsStep DEF ReAudited
<1>3. ASSUME NEW end PROVE /\ IsStep([step EXCEPT !.ends["unavailable"] = end])
                           /\ [step EXCEPT !.ends["unavailable"] = end].asks = step.asks
  BY StepIsStep DEF IsStep, Step
<1>4. IsStep(DispatchedSql(step)) /\ DispatchedSql(step).asks = step.asks
  <2>1. CASE step.asks = "source"
    BY <1>2, <2>1 DEF DispatchedSql
  <2>2. CASE step.asks \in {"rules", "filter"}
    <3>1. DispatchedSql(step) = [step EXCEPT !.ends["unavailable"] = End(500, <<"error">>)]
      BY <2>2 DEF DispatchedSql
    <3> QED BY <1>3, <3>1
  <2>3. CASE step.asks = "engine"
    <3> DEFINE ends == [o \in DOMAIN step.ends |->
                           CASE o = "missing" -> End(404, Silent)
                             [] o = "forbidden" -> End(502, <<"error">>)
                             [] OTHER -> step.ends[o]]
    <3>1. DispatchedSql(step) = [step EXCEPT !.ends = ends]
      BY <2>3 DEF DispatchedSql
    <3> HIDE DEF ends
    <3> QED BY <1>1, <3>1, StepIsStep
  <2>4. CASE step.asks \notin {"source", "rules", "filter", "engine"}
    BY <2>4 DEF DispatchedSql
  <2> QED BY <2>1, <2>2, <2>3, <2>4
<1> QED BY <1>2, <1>4

LEMMA DispatchTokenFirst == \A op \in Ops : TokenFirst(PyDispatch(op))
<1> SUFFICES ASSUME NEW op \in Ops PROVE TokenFirst(PyDispatch(op))
  OBVIOUS
<1>1. TokenFirst(PyRest(op))
  BY PyTokenFirst
<1>2. CASE op \in McpOnly
  BY <1>1, <1>2 DEF PyDispatch
<1>3. CASE op \notin McpOnly
  <2> DEFINE base == PyRest(op)
             tool(step) == IF op \in HttpOps THEN ReAudited(step) ELSE DispatchedSql(step)
             dispatched == [k \in DOMAIN base |-> tool(base[k])]
  <2>1. PyDispatch(op) = dispatched
    BY <1>3 DEF PyDispatch
  <2>2. \A k \in DOMAIN base : IsStep(tool(base[k])) /\ tool(base[k]).asks = base[k].asks
    BY <1>1, ToolsAskTheSame DEF TokenFirst
  <2> HIDE DEF base, tool
  <2>3. \A k \in DOMAIN base : IsStep(dispatched[k]) /\ dispatched[k].asks = base[k].asks
    BY <2>2
  <2>4. DOMAIN dispatched = 1 .. Len(base) /\ Len(base) \in Nat \ {0}
    BY <1>1 DEF TokenFirst, base
  <2>5. dispatched \in Seq({tool(base[k]) : k \in DOMAIN base})
    BY <2>4, SeqDef
  <2>6. Len(dispatched) = Len(base)
    <3>1. Len(dispatched) \in Nat /\ DOMAIN dispatched = 1 .. Len(dispatched)
      BY <2>5, LenProperties
    <3> QED BY <3>1, <2>4
  <2>7. \A k \in DOMAIN base : base[k].asks = "engine" => k > 1 /\ base[k - 1].asks = "token"
    BY <1>1 DEF TokenFirst, base
  <2>8. DOMAIN dispatched = DOMAIN base
    OBVIOUS
  <2> HIDE DEF dispatched
  <2>9. \A k \in DOMAIN dispatched :
            dispatched[k].asks = "engine" => k > 1 /\ dispatched[k - 1].asks = "token"
    BY <2>3, <2>4, <2>7, <2>8
  <2> QED BY <2>1, <2>3, <2>4, <2>6, <2>8, <2>9 DEF TokenFirst
<1> QED BY <1>2, <1>3

LEMMA GoTokenFirst == \A op \in Ops, s \in Surfaces : TokenFirst(GoHandler(op, s))
<1>1. /\ IsStep(Principal) /\ Principal.asks = "caller"
      /\ IsStep(Source) /\ Source.asks = "source"
      /\ IsStep(OfSurface) /\ OfSurface.asks = "surface"
      /\ IsStep(Guard) /\ Guard.asks = "guard"
  BY StepIsStep DEF Principal, Source, OfSurface, Guard
<1>2. /\ IsStep(GoRules) /\ GoRules.asks = "rules"
      /\ IsStep(GoFilter) /\ GoFilter.asks = "filter"
      /\ IsStep(GoToken) /\ GoToken.asks = "token"
      /\ IsStep(Bots) /\ Bots.asks = "bots"
  BY StepIsStep DEF GoRules, GoFilter, GoToken, Bots
<1>3. \A missing, line : IsStep(GoEngine(missing, line)) /\ GoEngine(missing, line).asks = "engine"
  BY StepIsStep DEF GoEngine
<1>4. \A s \in Surfaces : TokenFirst(GoListTables(s))
  BY <1>1, <1>2, <1>3 DEF GoListTables, TokenFirst
<1>5. TokenFirst(GoDescribe)
  BY <1>1, <1>2, <1>3 DEF GoDescribe, TokenFirst
<1>6. TokenFirst(GoRunQuery)
  BY <1>1, <1>2, <1>3 DEF GoRunQuery, TokenFirst
<1>7. TokenFirst(GoListOperations)
  BY <1>1, <1>2, StepIsStep DEF GoListOperations, TokenFirst
<1>8. TokenFirst(GoDescribeOperation)
  BY <1>1, <1>2, StepIsStep DEF GoDescribeOperation, TokenFirst
<1>9. TokenFirst(GoCallOperation)
  BY <1>1, <1>2, StepIsStep DEF GoCallOperation, TokenFirst
<1>10. TokenFirst(Candidates) /\ TokenFirst(GoCatalog)
  BY <1>1, <1>2, StepIsStep DEF Candidates, GoCatalog, TokenFirst
<1> QED BY <1>4, <1>5, <1>6, <1>7, <1>8, <1>9, <1>10
        DEF GoHandler, Ops, SqlOps, HttpOps, McpOnly

LEMMA HandlersTokenFirst ==
    ASSUME impl \in Impls, NEW op \in Ops, NEW s \in Surfaces
    PROVE  TokenFirst(Handler(op, s))
  BY PyTokenFirst, DispatchTokenFirst, GoTokenFirst DEF Handler, Handlers, Impls, Surfaces


(* The step a request is at is one of its handler's; and if it has just    *)
(* got a token, no time has passed in which the token could have expired.  *)
HasJustTheToken ==
    /\ request.at > 1
    /\ Steps[request.at - 1].asks = "token"
    /\ request.since = now
TokenInv ==
    /\ impl \in Impls
    /\ now \in Nat
    /\ DOMAIN request = DOMAIN NoRequest
    /\ request.op \in Ops \cup {Never}
    /\ request.surface \in Surfaces
    /\ request.since \in Nat /\ request.since <= now
    /\ request.at \in Nat
    /\ Serving => /\ request.at \in DOMAIN Steps
                  /\ HasJustTheToken => request.exp > now

LEMMA TokenInvInit == BaseInit /\ RequestsInit => TokenInv
  BY DEF BaseInit, RequestsInit, TokenInv, NoRequest, Serving, Surfaces

LEMMA TokenInvAccept ==
    ASSUME TokenInv, NEW op \in Ops, NEW s \in Surfaces, Accept(op, s),
           UNCHANGED <<impl, now>>
    PROVE  TokenInv'
<1>1. /\ DOMAIN request' = DOMAIN NoRequest
      /\ request'.op = op /\ request'.surface = s
      /\ request'.at = 1 /\ request'.since = now
  BY DEF Accept, NoRequest
<1>2. Steps' = Handler(op, s) /\ TokenFirst(Handler(op, s))
  BY <1>1, HandlersTokenFirst DEF TokenInv, Steps, Handler
<1>3. 1 \in DOMAIN Steps'
  BY <1>2 DEF TokenFirst
<1>4. ~HasJustTheToken'
  BY <1>1 DEF HasJustTheToken
<1> QED BY <1>1, <1>3, <1>4 DEF TokenInv

LEMMA TokenInvGoOn ==
    ASSUME TokenInv, GoOn, UNCHANGED <<impl, now>>
    PROVE  TokenInv'
<1> DEFINE asks == This.asks
<1>1. /\ DOMAIN request' = DOMAIN NoRequest
      /\ request'.op = request.op /\ request'.surface = request.surface
      /\ request'.at = request.at + 1 /\ request'.since = now
      /\ request'.exp = IF asks = "token" THEN now + TokenLeft ELSE request.exp
      /\ request'.end = IF request.at = Len(Steps) THEN End(200, <<"ok">>) ELSE request.end
  BY DEF GoOn, TokenInv, NoRequest
<1>2. request.op \in Ops /\ request.at \in DOMAIN Steps
  BY DEF GoOn, TokenInv, Serving
<1>3. Steps' = Steps /\ TokenFirst(Steps)
  BY <1>1, <1>2, HandlersTokenFirst DEF TokenInv, Steps, Handler
<1>4. ASSUME Serving' PROVE request'.at \in DOMAIN Steps'
  <2>1. request.at # Len(Steps)
    BY <1>1, <1>4 DEF Serving, NoEnd, End
  <2> QED BY <1>1, <1>2, <1>3, <2>1 DEF TokenFirst
<1>5. HasJustTheToken' => request'.exp > now'
  <2>1. HasJustTheToken' => asks = "token"
    BY <1>1, <1>3 DEF HasJustTheToken, This, TokenInv
  <2> QED BY <1>1, <2>1, TokenAssumption DEF TokenInv
<1> QED BY <1>1, <1>4, <1>5 DEF TokenInv

LEMMA TokenInvNext == TokenInv /\ [RequestsNext]_<<impl, now, request>> => TokenInv'
<1> SUFFICES ASSUME TokenInv, [RequestsNext]_<<impl, now, request>> PROVE TokenInv'
  OBVIOUS
<1>1. ASSUME NEW op \in Ops, NEW s \in Surfaces, Accept(op, s), UNCHANGED <<impl, now>>
      PROVE  TokenInv'
  BY <1>1, TokenInvAccept
<1>2. CASE GoOn /\ UNCHANGED <<impl, now>>
  BY <1>2, TokenInvGoOn
<1>3. CASE Stop /\ UNCHANGED <<impl, now>>
  <2>1. /\ DOMAIN request' = DOMAIN NoRequest
        /\ request'.op = request.op /\ request'.surface = request.surface
        /\ request'.at = request.at /\ request'.since = request.since
        /\ request'.exp = request.exp
    BY <1>3 DEF Stop, TokenInv, NoRequest
  <2>2. Steps' = Steps
    BY <1>3, <2>1 DEF Steps, Handler
  <2>3. Serving
    BY <1>3 DEF Stop
  <2> QED BY <1>3, <2>1, <2>2, <2>3 DEF TokenInv, HasJustTheToken
<1>4. CASE Reply /\ UNCHANGED <<impl, now>>
  BY <1>4 DEF Reply, TokenInv, NoRequest, Serving, Surfaces
<1>5. CASE Tick /\ UNCHANGED request
  <2>1. now' = now + 1 /\ UNCHANGED <<impl, request>>
    BY <1>5 DEF Tick
  <2>2. Steps' = Steps /\ Serving' = Serving
    BY <2>1 DEF Steps, Handler, Serving
  <2>3. ~HasJustTheToken'
    BY <2>1 DEF HasJustTheToken, TokenInv
  <2> QED BY <2>1, <2>2, <2>3 DEF TokenInv
<1>6. CASE UNCHANGED <<impl, now, request>>
  <2>1. Steps' = Steps /\ Serving' = Serving
    BY <1>6 DEF Steps, Handler, Serving
  <2> QED BY <1>6, <2>1 DEF TokenInv, HasJustTheToken
<1> QED BY <1>1, <1>2, <1>3, <1>4, <1>5, <1>6 DEF RequestsNext

(* In both executors, over every route and tool, a SQL engine is reached   *)
(* with a token that is alive, whatever the guard, the rules and the       *)
(* exchange took (app.py; main.go, http_routes.go and mcp.go).              *)
THEOREM TokenAlwaysLive == RequestsSpec => []TokenLiveAtEngine
<1>1. TokenInv => TokenLiveAtEngine
  <2> SUFFICES ASSUME TokenInv, Serving, This.asks = "engine", request.since = now
               PROVE  request.exp > now
    BY DEF TokenLiveAtEngine
  <2>1. request.op \in Ops /\ request.at \in DOMAIN Steps
    BY DEF TokenInv, Serving
  <2>2. TokenFirst(Steps)
    BY <2>1, HandlersTokenFirst DEF TokenInv, Steps
  <2>3. HasJustTheToken
    BY <2>1, <2>2 DEF TokenFirst, HasJustTheToken, This
  <2> QED BY <2>3 DEF TokenInv
<1> QED BY <1>1, TokenInvInit, TokenInvNext, PTL DEF RequestsSpec

-----------------------------------------------------------------------------
(* How a step may end: never as an answer does, and what is decided not    *)
(* without a line.                                                         *)
Decisions == {"guard", "rules", "engine", "api", "gate", "bots"}
Lines == {"denied", "blocked", "error", "unavailable"}
Failures == {400, 401, 403, 404, 500, 502, 503}
Refusals == {400, 401, 403}
EndTold(end, asks, decided) ==
    /\ end.status \in Failures
    /\ end.lines \in Seq(Lines)
    /\ end.status \in Refusals /\ asks \in decided => end.lines # Silent
StepTold(step, decided) == \A o \in DOMAIN step.ends : EndTold(step.ends[o], step.asks, decided)
HandlerTold(handler, decided) == \A k \in DOMAIN handler : StepTold(handler[k], decided)

LEMMA EndParts == \A status, lines : /\ End(status, lines).status = status
                                     /\ End(status, lines).lines = lines
  BY DEF End

LEMMA StepParts == \A asks, ends : Step(asks, ends).asks = asks /\ Step(asks, ends).ends = ends
  BY DEF Step

LEMMA LinedEnd ==
  ASSUME NEW status \in Failures, NEW line \in Lines, NEW asks, NEW decided
  PROVE  EndTold(End(status, <<line>>), asks, decided)
<1>1. <<line>> \in Seq(Lines) /\ <<line>> # Silent
  BY DEF Silent
<1>2. End(status, <<line>>).status = status /\ End(status, <<line>>).lines = <<line>>
  BY EndParts
<1> QED BY <1>1, <1>2 DEF EndTold

LEMMA SilentEnd ==
  ASSUME NEW status \in Failures, NEW asks, NEW decided,
         status \notin Refusals \/ asks \notin decided
  PROVE  EndTold(End(status, Silent), asks, decided)
<1>1. Silent \in Seq(Lines)
  BY DEF Silent
<1>2. End(status, Silent).status = status /\ End(status, Silent).lines = Silent
  BY EndParts
<1> QED BY <1>1, <1>2 DEF EndTold

(* A step of a table of ends, each of which is told.                       *)
LEMMA ToldStep ==
  ASSUME NEW asks, NEW ends, NEW decided,
         \A o \in DOMAIN ends : EndTold(ends[o], asks, decided)
  PROVE  StepTold(Step(asks, ends), decided)
  BY StepParts DEF StepTold

LEMMA EndsTold ==
  /\ \A asks : \A status \in Failures, line \in Lines :
        EndTold(End(status, <<line>>), asks, Decisions)
  /\ \A asks : \A status \in Failures : status \notin Refusals \/ asks \notin Decisions =>
        EndTold(End(status, Silent), asks, Decisions)
  BY SilentEnd, LinedEnd

LEMMA CommonStepsTold ==
  /\ StepTold(Principal, Decisions) /\ StepTold(Source, Decisions)
  /\ StepTold(OfSurface, Decisions) /\ StepTold(Guard, Decisions) /\ StepTold(Bots, Decisions)
<1>1. StepTold(Principal, Decisions)
  BY EndsTold, ToldStep DEF Principal, Decisions, Refusals, Failures, Lines
<1>2. StepTold(Source, Decisions)
  BY EndsTold, ToldStep DEF Source, Decisions, Refusals, Failures, Lines
<1>3. StepTold(OfSurface, Decisions)
  BY EndsTold, ToldStep DEF OfSurface, Decisions, Refusals, Failures, Lines
<1>4. StepTold(Guard, Decisions)
  BY EndsTold, ToldStep DEF Guard, Failures, Lines
<1>5. StepTold(Bots, Decisions)
  BY EndsTold, ToldStep DEF Bots, Failures, Lines
<1> QED BY <1>1, <1>2, <1>3, <1>4, <1>5

LEMMA PyStepsTold ==
  /\ StepTold(PyRules, Decisions) /\ StepTold(PyFilter, Decisions)
  /\ StepTold(PyTokenTried, Decisions) /\ StepTold(PyToken, Decisions)
  /\ StepTold(PyEngine(End(502, <<"error">>)), Decisions)
  /\ StepTold(PyEngine(End(404, Silent)), Decisions)
<1>1. StepTold(PyRules, Decisions)
  BY EndsTold, ToldStep DEF PyRules, Refusals, Failures, Lines
<1>2. StepTold(PyFilter, Decisions)
  BY EndsTold, ToldStep DEF PyFilter, Refusals, Failures
<1>3. StepTold(PyTokenTried, Decisions)
  BY EndsTold, ToldStep DEF PyTokenTried, Failures, Lines
<1>4. StepTold(PyToken, Decisions)
  BY EndsTold, ToldStep DEF PyToken, Refusals, Failures
<1>5. ASSUME NEW missing, EndTold(missing, "engine", Decisions)
      PROVE  StepTold(PyEngine(missing), Decisions)
  BY <1>5, EndsTold, ToldStep DEF PyEngine, Failures, Lines
<1>6. /\ EndTold(End(502, <<"error">>), "engine", Decisions)
      /\ EndTold(End(404, Silent), "engine", Decisions)
  BY EndsTold DEF Refusals, Failures, Lines
<1> QED BY <1>1, <1>2, <1>3, <1>4, <1>5, <1>6

LEMMA PyRestTold == \A op \in Ops : HandlerTold(PyRest(op), Decisions)
<1>1. HandlerTold(PyListTables, Decisions) /\ HandlerTold(PyDescribeTable, Decisions)
  BY CommonStepsTold, PyStepsTold DEF HandlerTold, PyListTables, PyDescribeTable
<1>2. HandlerTold(PyRunQuery, Decisions)
  BY CommonStepsTold, PyStepsTold DEF HandlerTold, PyRunQuery
<1>3. HandlerTold(PyListOperations, Decisions)
  <2> DEFINE spec == Step("spec", [broken |-> End(502, <<"error">>)])
  <2>1. StepTold(spec, Decisions)
    BY EndsTold, ToldStep DEF Failures, Lines
  <2> QED BY <2>1, CommonStepsTold, PyStepsTold DEF HandlerTold, PyListOperations
<1>4. HandlerTold(PyDescribeOperation, Decisions)
  <2> DEFINE spec == Step("spec", [missing |-> End(404, Silent), forbidden |-> End(403, <<"denied">>),
                                   broken |-> End(500, Silent)])
  <2>1. StepTold(spec, Decisions)
    BY EndsTold, ToldStep DEF Refusals, Failures, Lines
  <2> QED BY <2>1, CommonStepsTold, PyStepsTold DEF HandlerTold, PyDescribeOperation
<1>5. HandlerTold(PyCallOperation, Decisions)
  <2> DEFINE spec == Step("spec", [missing |-> End(400, <<"blocked">>),
                                   forbidden |-> End(400, <<"blocked">>), broken |-> End(500, Silent)])
             api == Step("api", [tooLarge |-> End(400, <<"blocked">>),
                                 denied |-> End(403, <<"denied">>), broken |-> End(502, <<"error">>)])
  <2>1. StepTold(spec, Decisions) /\ StepTold(api, Decisions)
    BY EndsTold, ToldStep DEF Refusals, Failures, Lines
  <2> QED BY <2>1, CommonStepsTold, PyStepsTold DEF HandlerTold, PyCallOperation
<1>6. HandlerTold(Candidates, Decisions) /\ HandlerTold(PyCatalog, Decisions)
  <2> DEFINE gate == Step("gate", [denied |-> End(403, <<"denied">>)])
             catalog == Step("catalog", [unreachable |-> End(500, Silent)])
  <2>1. StepTold(gate, Decisions) /\ StepTold(catalog, Decisions)
    BY EndsTold, ToldStep DEF Refusals, Failures, Lines
  <2> QED BY <2>1, CommonStepsTold DEF HandlerTold, Candidates, PyCatalog
<1> QED BY <1>1, <1>2, <1>3, <1>4, <1>5, <1>6 DEF PyRest, Ops, SqlOps, HttpOps, McpOnly

(* What the dispatcher of the tools changes keeps every end told: it only  *)
(* adds lines, but for a SQL engine's table, which it replaces.            *)
LEMMA DispatchedTold ==
  ASSUME NEW step, IsStep(step), StepTold(step, Decisions)
  PROVE  StepTold(ReAudited(step), Decisions) /\ StepTold(DispatchedSql(step), Decisions)
<1>1. StepTold(ReAudited(step), Decisions)
  <2>1. CASE step.asks = "caller"
    BY <2>1 DEF ReAudited
  <2>2. CASE step.asks # "caller"
    <3> DEFINE again == [o \in DOMAIN step.ends |->
                   End(step.ends[o].status, Append(step.ends[o].lines, OuterLine(step.ends[o].status)))]
    <3>1. ReAudited(step) = Step(step.asks, again)
      BY <2>2 DEF ReAudited, IsStep, Step
    <3>2. ASSUME NEW o \in DOMAIN step.ends PROVE EndTold(again[o], step.asks, Decisions)
      <4>1. PICK lines \in Seq(Lines) : lines = step.ends[o].lines
        BY DEF StepTold, EndTold
      <4>2. PICK line \in Lines : line = OuterLine(step.ends[o].status)
        BY DEF OuterLine, Lines
      <4>3. Append(lines, line) \in Seq(Lines) /\ Append(lines, line) # Silent
        BY AppendProperties, EmptySeq DEF Silent
      <4>4. again[o].status = step.ends[o].status /\ again[o].lines = Append(lines, line)
        BY <4>1, <4>2, EndParts
      <4>5. step.ends[o].status \in Failures
        BY DEF StepTold, EndTold
      <4> QED BY <4>3, <4>4, <4>5 DEF EndTold
    <3> HIDE DEF again
    <3>3. DOMAIN again = DOMAIN step.ends
      BY DEF again
    <3> QED BY <3>1, <3>2, <3>3, ToldStep
  <2> QED BY <2>1, <2>2
<1>2. StepTold(DispatchedSql(step), Decisions)
  <2>1. CASE step.asks = "source"
    BY <1>1, <2>1 DEF DispatchedSql
  <2>2. CASE step.asks \in {"rules", "filter"}
    <3> DEFINE ends == [step.ends EXCEPT !["unavailable"] = End(500, <<"error">>)]
    <3>1. DispatchedSql(step) = Step(step.asks, ends)
      BY <2>2 DEF DispatchedSql, IsStep, Step
    <3>2. EndTold(End(500, <<"error">>), step.asks, Decisions)
      BY EndsTold DEF Failures, Lines
    <3>3. \A o \in DOMAIN ends : EndTold(ends[o], step.asks, Decisions)
      BY <3>2 DEF StepTold
    <3> HIDE DEF ends
    <3> QED BY <3>1, <3>3, ToldStep
  <2>3. CASE step.asks = "engine"
    <3> DEFINE ends == [o \in DOMAIN step.ends |->
                           CASE o = "missing" -> End(404, Silent)
                             [] o = "forbidden" -> End(502, <<"error">>)
                             [] OTHER -> step.ends[o]]
    <3>1. DispatchedSql(step) = Step(step.asks, ends)
      BY <2>3 DEF DispatchedSql, IsStep, Step
    <3>2. /\ EndTold(End(404, Silent), step.asks, Decisions)
          /\ EndTold(End(502, <<"error">>), step.asks, Decisions)
      BY EndsTold DEF Refusals, Failures, Lines
    <3>3. \A o \in DOMAIN ends : EndTold(ends[o], step.asks, Decisions)
      BY <3>2 DEF StepTold
    <3> HIDE DEF ends
    <3> QED BY <3>1, <3>3, ToldStep
  <2>4. CASE step.asks \notin {"source", "rules", "filter", "engine"}
    BY <2>4 DEF DispatchedSql
  <2> QED BY <2>1, <2>2, <2>3, <2>4
<1> QED BY <1>1, <1>2

LEMMA PyDispatchTold == \A op \in Ops : HandlerTold(PyDispatch(op), Decisions)
<1> SUFFICES ASSUME NEW op \in Ops PROVE HandlerTold(PyDispatch(op), Decisions)
  OBVIOUS
<1>1. HandlerTold(PyRest(op), Decisions) /\ TokenFirst(PyRest(op))
  BY PyRestTold, PyTokenFirst
<1>2. CASE op \in McpOnly
  BY <1>1, <1>2 DEF PyDispatch
<1>3. CASE op \notin McpOnly
  <2> DEFINE base == PyRest(op)
             tool(step) == IF op \in HttpOps THEN ReAudited(step) ELSE DispatchedSql(step)
             dispatched == [k \in DOMAIN base |-> tool(base[k])]
  <2>1. PyDispatch(op) = dispatched
    BY <1>3 DEF PyDispatch
  <2>2. \A k \in DOMAIN base : StepTold(tool(base[k]), Decisions)
    BY <1>1, DispatchedTold DEF HandlerTold, TokenFirst
  <2> HIDE DEF base, tool
  <2> QED BY <2>1, <2>2 DEF HandlerTold
<1> QED BY <1>2, <1>3

LEMMA GoStepsTold ==
  /\ StepTold(GoRules, Decisions) /\ StepTold(GoFilter, Decisions) /\ StepTold(GoToken, Decisions)
  /\ StepTold(GoEngine(End(502, <<"error">>), Audited), Decisions)
  /\ StepTold(GoEngine(End(404, Silent), Audited), Decisions)
  /\ StepTold(GoEngine(End(502, Silent), Unaudited), {})
<1>1. StepTold(GoRules, Decisions)
  BY EndsTold, ToldStep DEF GoRules, Failures, Lines
<1>2. StepTold(GoFilter, Decisions)
  BY ToldStep DEF GoFilter
<1>3. StepTold(GoToken, Decisions)
  BY EndsTold, ToldStep DEF GoToken, Refusals, Failures
<1>4. Audited["denied"] = <<"denied">> /\ Audited["error"] = <<"error">>
  BY DEF Audited
<1>5. ASSUME NEW missing, EndTold(missing, "engine", Decisions)
      PROVE  StepTold(GoEngine(missing, Audited), Decisions)
  BY <1>4, <1>5, EndsTold, ToldStep DEF GoEngine, Failures, Lines
<1>6. /\ EndTold(End(502, <<"error">>), "engine", Decisions)
      /\ EndTold(End(404, Silent), "engine", Decisions)
  BY EndsTold DEF Refusals, Failures, Lines
<1>7. Unaudited["denied"] = Silent /\ Unaudited["error"] = Silent
  BY DEF Unaudited
<1>8. StepTold(GoEngine(End(502, Silent), Unaudited), {})
  <2>1. \A status \in Failures : EndTold(End(status, Silent), "engine", {})
    BY SilentEnd
  <2> QED BY <1>7, <2>1, ToldStep DEF GoEngine, Failures
<1> QED BY <1>1, <1>2, <1>3, <1>5, <1>6, <1>8

(* The one that audits no refusal of the engine: the tool list_tables. *)
MustTell(i, op, s) == IF i = "go" /\ op = "list_tables" /\ s = "mcp" THEN {} ELSE Decisions

LEMMA GoTold ==
  \A op \in Ops, s \in Surfaces : HandlerTold(GoHandler(op, s), MustTell("go", op, s))
<1>1. HandlerTold(GoListTables("rest"), Decisions)
  <2>1. Audited["error"] = <<"error">>
    BY DEF Audited
  <2> QED BY <2>1, CommonStepsTold, GoStepsTold DEF HandlerTold, GoListTables
<1>2. HandlerTold(GoListTables("mcp"), {})
  <2>1. Unaudited["error"] = Silent
    BY DEF Unaudited
  <2>2. \A step : StepTold(step, Decisions) => StepTold(step, {})
    BY DEF StepTold, EndTold
  <2> QED BY <2>1, <2>2, CommonStepsTold, GoStepsTold DEF HandlerTold, GoListTables
<1>3. HandlerTold(GoDescribe, Decisions) /\ HandlerTold(GoRunQuery, Decisions)
  BY CommonStepsTold, GoStepsTold DEF HandlerTold, GoDescribe, GoRunQuery
<1>4. HandlerTold(GoListOperations, Decisions)
  <2> DEFINE spec == Step("spec", [broken |-> End(502, <<"error">>)])
  <2>1. StepTold(spec, Decisions)
    BY EndsTold, ToldStep DEF Failures, Lines
  <2> QED BY <2>1, CommonStepsTold, GoStepsTold DEF HandlerTold, GoListOperations
<1>5. HandlerTold(GoDescribeOperation, Decisions)
  <2> DEFINE spec == Step("spec", [missing |-> End(404, <<"error">>), forbidden |-> End(403, <<"error">>),
                                   broken |-> End(502, <<"error">>)])
  <2>1. StepTold(spec, Decisions)
    BY EndsTold, ToldStep DEF Failures, Lines
  <2> QED BY <2>1, CommonStepsTold, GoStepsTold DEF HandlerTold, GoDescribeOperation
<1>6. HandlerTold(GoCallOperation, Decisions)
  <2> DEFINE spec == Step("spec", [missing |-> End(400, <<"blocked">>),
                                   forbidden |-> End(400, <<"blocked">>), broken |-> End(502, <<"error">>)])
             api == Step("api", [tooLarge |-> End(502, <<"error">>), broken |-> End(502, <<"error">>)])
  <2>1. StepTold(spec, Decisions) /\ StepTold(api, Decisions)
    BY EndsTold, ToldStep DEF Failures, Lines
  <2> QED BY <2>1, CommonStepsTold, GoStepsTold DEF HandlerTold, GoCallOperation
<1>7. HandlerTold(Candidates, Decisions)
  BY PyRestTold DEF PyRest, Ops, SqlOps, HttpOps, McpOnly
<1>8. HandlerTold(GoCatalog, Decisions)
  <2> DEFINE catalog == Step("catalog", [unreachable |-> End(502, <<"error">>)])
  <2>1. StepTold(catalog, Decisions)
    BY EndsTold, ToldStep DEF Failures, Lines
  <2> QED BY <2>1, CommonStepsTold DEF HandlerTold, GoCatalog
<1> QED BY <1>1, <1>2, <1>3, <1>4, <1>5, <1>6, <1>7, <1>8
        DEF GoHandler, MustTell, Surfaces, Ops, SqlOps, HttpOps, McpOnly

LEMMA HandlersTold ==
  ASSUME impl \in Impls, NEW op \in Ops, NEW s \in Surfaces
  PROVE  HandlerTold(Handler(op, s), MustTell(impl, op, s))
  BY PyRestTold, PyDispatchTold, GoTold DEF Handler, Handlers, Impls, Surfaces, MustTell

-----------------------------------------------------------------------------
(* The two surfaces of an operation ask the same in the same order, stop   *)
(* on the same answers, and but for two of a SQL engine's decide the same. *)
ToldApart(o, asks) == asks = "engine" /\ o \in {"forbidden", "missing"}
StepsAgree(a, b) ==
    /\ a.asks = b.asks
    /\ DOMAIN a.ends = DOMAIN b.ends
    /\ \A o \in DOMAIN a.ends : ~ToldApart(o, a.asks) => a.ends[o].status = b.ends[o].status
HandlersAgree(g, h) == DOMAIN g = DOMAIN h /\ \A k \in DOMAIN g : StepsAgree(g[k], h[k])

(* In Python it is a failure of the server not to know the tags.           *)
Unknowing(step) == step.asks \in {"rules", "filter"} => step.ends["unavailable"].status = 500

LEMMA PyUnknowing == \A op \in Ops : \A k \in DOMAIN PyRest(op) : Unknowing(PyRest(op)[k])
<1> DEFINE Knows(h) == \A k \in DOMAIN h : Unknowing(h[k])
<1>1. /\ Unknowing(PyRules) /\ Unknowing(PyFilter)
  BY StepParts, EndParts DEF Unknowing, PyRules, PyFilter
<1>2. \A asks, ends : asks \notin {"rules", "filter"} => Unknowing(Step(asks, ends))
  BY StepParts DEF Unknowing
<1>3. /\ Unknowing(Principal) /\ Unknowing(Source) /\ Unknowing(OfSurface) /\ Unknowing(Guard)
      /\ Unknowing(Bots) /\ Unknowing(PyToken) /\ Unknowing(PyTokenTried)
      /\ \A missing : Unknowing(PyEngine(missing))
  BY <1>2 DEF Principal, Source, OfSurface, Guard, Bots, PyToken, PyTokenTried, PyEngine
<1> HIDE DEF Knows
<1>4. Knows(PyListTables) /\ Knows(PyDescribeTable) /\ Knows(PyRunQuery)
  BY <1>1, <1>3 DEF Knows, PyListTables, PyDescribeTable, PyRunQuery
<1>5. Knows(PyListOperations) /\ Knows(PyDescribeOperation) /\ Knows(PyCallOperation)
  BY <1>1, <1>2, <1>3 DEF Knows, PyListOperations, PyDescribeOperation, PyCallOperation
<1>6. Knows(Candidates) /\ Knows(PyCatalog)
  BY <1>2, <1>3 DEF Knows, Candidates, PyCatalog
<1>7. \A op \in Ops : Knows(PyRest(op))
  BY <1>4, <1>5, <1>6 DEF PyRest, Ops, SqlOps, HttpOps, McpOnly
<1> QED BY <1>7 DEF Knows

LEMMA ToolsAgree ==
  ASSUME NEW step, IsStep(step), Unknowing(step)
  PROVE  StepsAgree(step, ReAudited(step)) /\ StepsAgree(step, DispatchedSql(step))
<1>1. StepsAgree(step, ReAudited(step))
  <2>1. CASE step.asks = "caller"
    BY <2>1 DEF ReAudited, StepsAgree
  <2>2. CASE step.asks # "caller"
    <3> DEFINE again == [o \in DOMAIN step.ends |->
                   End(step.ends[o].status, Append(step.ends[o].lines, OuterLine(step.ends[o].status)))]
    <3>1. ReAudited(step) = Step(step.asks, again)
      BY <2>2 DEF ReAudited, IsStep, Step
    <3>2. \A o \in DOMAIN step.ends : again[o].status = step.ends[o].status
      BY EndParts
    <3>3. DOMAIN again = DOMAIN step.ends
      OBVIOUS
    <3> HIDE DEF again
    <3> QED BY <3>1, <3>2, <3>3, StepParts DEF StepsAgree
  <2> QED BY <2>1, <2>2
<1>2. StepsAgree(step, DispatchedSql(step))
  <2>1. CASE step.asks = "source"
    BY <1>1, <2>1 DEF DispatchedSql
  <2>2. CASE step.asks \in {"rules", "filter"}
    <3> DEFINE ends == [step.ends EXCEPT !["unavailable"] = End(500, <<"error">>)]
    <3>1. DispatchedSql(step) = Step(step.asks, ends)
      BY <2>2 DEF DispatchedSql, IsStep, Step
    <3>2. step.ends["unavailable"].status = 500
      BY <2>2 DEF Unknowing
    <3>3. \A o \in DOMAIN step.ends : ends[o].status = step.ends[o].status
      BY <3>2, EndParts
    <3>4. DOMAIN ends = DOMAIN step.ends
      OBVIOUS
    <3> HIDE DEF ends
    <3> QED BY <3>1, <3>3, <3>4, StepParts DEF StepsAgree
  <2>3. CASE step.asks = "engine"
    <3> DEFINE ends == [o \in DOMAIN step.ends |->
                           CASE o = "missing" -> End(404, Silent)
                             [] o = "forbidden" -> End(502, <<"error">>)
                             [] OTHER -> step.ends[o]]
    <3>1. DispatchedSql(step) = Step(step.asks, ends)
      BY <2>3 DEF DispatchedSql, IsStep, Step
    <3>2. \A o \in DOMAIN step.ends : ~ToldApart(o, step.asks) => ends[o] = step.ends[o]
      BY <2>3 DEF ToldApart
    <3>3. DOMAIN ends = DOMAIN step.ends
      OBVIOUS
    <3> HIDE DEF ends
    <3> QED BY <3>1, <3>2, <3>3, StepParts DEF StepsAgree
  <2>4. CASE step.asks \notin {"source", "rules", "filter", "engine"}
    BY <2>4 DEF DispatchedSql, StepsAgree
  <2> QED BY <2>1, <2>2, <2>3, <2>4
<1> QED BY <1>1, <1>2

LEMMA PyAgree == \A op \in Ops \ McpOnly : HandlersAgree(PyRest(op), PyDispatch(op))
<1> SUFFICES ASSUME NEW op \in Ops \ McpOnly PROVE HandlersAgree(PyRest(op), PyDispatch(op))
  OBVIOUS
<1> DEFINE base == PyRest(op)
           tool(step) == IF op \in HttpOps THEN ReAudited(step) ELSE DispatchedSql(step)
           dispatched == [k \in DOMAIN base |-> tool(base[k])]
<1>1. PyDispatch(op) = dispatched
  BY DEF PyDispatch
<1>2. \A k \in DOMAIN base : StepsAgree(base[k], tool(base[k]))
  BY PyTokenFirst, PyUnknowing, ToolsAgree DEF TokenFirst
<1> HIDE DEF tool
<1> QED BY <1>1, <1>2 DEF HandlersAgree

LEMMA GoAgree ==
  \A op \in Ops : HandlersAgree(GoHandler(op, "rest"), GoHandler(op, "mcp"))
<1>1. HandlersAgree(GoListTables("rest"), GoListTables("mcp"))
  <2>1. \A step : StepsAgree(step, step)
    BY DEF StepsAgree
  <2>2. StepsAgree(GoEngine(End(502, Audited["error"]), Audited),
                   GoEngine(End(502, Unaudited["error"]), Unaudited))
    BY StepParts, EndParts DEF GoEngine, StepsAgree
  <2> QED BY <2>1, <2>2 DEF HandlersAgree, GoListTables
<1>2. \A op \in Ops : op # "list_tables" => GoHandler(op, "rest") = GoHandler(op, "mcp")
  BY DEF GoHandler, Ops, SqlOps, HttpOps, McpOnly
<1>3. \A h : HandlersAgree(h, h)
  BY DEF HandlersAgree, StepsAgree
<1>4. GoHandler("list_tables", "rest") = GoListTables("rest")
      /\ GoHandler("list_tables", "mcp") = GoListTables("mcp")
  BY DEF GoHandler
<1> QED BY <1>1, <1>2, <1>3, <1>4

LEMMA AllAgree ==
  ASSUME impl \in Impls, NEW op \in Ops \ McpOnly, NEW r \in Surfaces, NEW s \in Surfaces
  PROVE  HandlersAgree(Handler(op, r), Handler(op, s))
<1>1. \A g, h : HandlersAgree(g, h) => HandlersAgree(h, g)
  BY DEF HandlersAgree, StepsAgree
<1>2. \A h : HandlersAgree(h, h)
  BY DEF HandlersAgree, StepsAgree
<1> QED BY <1>1, <1>2, PyAgree, GoAgree DEF Handler, Handlers, Impls, Surfaces

-----------------------------------------------------------------------------
(* The operations that filter what they describe or return. *)
Filtering == {"describe_table", "list_operations", "describe_operation", "call_operation"}
Filters(h) == \E k \in DOMAIN h : h[k].asks = "filter"

LEMMA PyFilters == \A op \in Ops : Filters(PyRest(op)) <=> op \in Filtering
<1>1. /\ Principal.asks = "caller" /\ Source.asks = "source" /\ OfSurface.asks = "surface"
      /\ Guard.asks = "guard" /\ Bots.asks = "bots" /\ PyRules.asks = "rules"
      /\ PyFilter.asks = "filter" /\ PyToken.asks = "token" /\ PyTokenTried.asks = "token"
      /\ \A missing : PyEngine(missing).asks = "engine"
  BY StepParts DEF Principal, Source, OfSurface, Guard, Bots, PyRules, PyFilter, PyToken,
                   PyTokenTried, PyEngine
<1>2. ~Filters(PyListTables) /\ ~Filters(PyRunQuery)
  BY <1>1 DEF Filters, PyListTables, PyRunQuery
<1>3. Filters(PyDescribeTable) /\ Filters(PyListOperations)
  <2>1. PyDescribeTable[6].asks = "filter" /\ 6 \in DOMAIN PyDescribeTable
    BY <1>1 DEF PyDescribeTable
  <2>2. PyListOperations[6].asks = "filter" /\ 6 \in DOMAIN PyListOperations
    BY <1>1 DEF PyListOperations
  <2> QED BY <2>1, <2>2 DEF Filters
<1>4. Filters(PyDescribeOperation) /\ Filters(PyCallOperation)
  <2>1. PyDescribeOperation[7].asks = "filter" /\ 7 \in DOMAIN PyDescribeOperation
    BY <1>1 DEF PyDescribeOperation
  <2>2. PyCallOperation[8].asks = "filter" /\ 8 \in DOMAIN PyCallOperation
    BY <1>1 DEF PyCallOperation
  <2> QED BY <2>1, <2>2 DEF Filters
<1>5. ~Filters(Candidates) /\ ~Filters(PyCatalog)
  BY <1>1, StepParts DEF Filters, Candidates, PyCatalog
<1> QED BY <1>2, <1>3, <1>4, <1>5 DEF PyRest, Filtering, Ops, SqlOps, HttpOps, McpOnly

LEMMA PyDispatchFilters == \A op \in Ops : Filters(PyDispatch(op)) <=> op \in Filtering
<1> SUFFICES ASSUME NEW op \in Ops PROVE Filters(PyDispatch(op)) <=> op \in Filtering
  OBVIOUS
<1>1. CASE op \in McpOnly
  BY <1>1, PyFilters DEF PyDispatch
<1>2. CASE op \notin McpOnly
  <2>1. HandlersAgree(PyRest(op), PyDispatch(op))
    BY <1>2, PyAgree
  <2>2. Filters(PyRest(op)) <=> Filters(PyDispatch(op))
    BY <2>1 DEF Filters, HandlersAgree, StepsAgree
  <2> QED BY <2>2, PyFilters
<1> QED BY <1>1, <1>2

LEMMA GoFilters ==
  \A op \in Ops, s \in Surfaces :
      Filters(GoHandler(op, s)) <=> op \in Filtering \ {"describe_operation"}
<1>1. /\ Principal.asks = "caller" /\ Source.asks = "source" /\ OfSurface.asks = "surface"
      /\ Guard.asks = "guard" /\ Bots.asks = "bots" /\ GoRules.asks = "rules"
      /\ GoFilter.asks = "filter" /\ GoToken.asks = "token"
      /\ \A missing, line : GoEngine(missing, line).asks = "engine"
  BY StepParts DEF Principal, Source, OfSurface, Guard, Bots, GoRules, GoFilter, GoToken, GoEngine
<1>2. \A s \in Surfaces : ~Filters(GoListTables(s))
  BY <1>1 DEF Filters, GoListTables
<1>3. ~Filters(GoRunQuery) /\ ~Filters(GoDescribeOperation)
  BY <1>1, StepParts DEF Filters, GoRunQuery, GoDescribeOperation
<1>4. Filters(GoDescribe) /\ Filters(GoListOperations) /\ Filters(GoCallOperation)
  <2>1. GoDescribe[5].asks = "filter" /\ 5 \in DOMAIN GoDescribe
    BY <1>1 DEF GoDescribe
  <2>2. GoListOperations[6].asks = "filter" /\ 6 \in DOMAIN GoListOperations
    BY <1>1 DEF GoListOperations
  <2>3. GoCallOperation[8].asks = "filter" /\ 8 \in DOMAIN GoCallOperation
    BY <1>1 DEF GoCallOperation
  <2> QED BY <2>1, <2>2, <2>3 DEF Filters
<1>5. ~Filters(Candidates) /\ ~Filters(GoCatalog)
  BY <1>1, StepParts DEF Filters, Candidates, GoCatalog
<1> QED BY <1>2, <1>3, <1>4, <1>5 DEF GoHandler, Filtering, Ops, SqlOps, HttpOps, McpOnly

(* Who asks the filter: nobody for another operation, everybody for these  *)
(* but the Go executor where it describes an operation.                    *)
LEMMA WhoFilters ==
  ASSUME NEW i \in Impls, NEW op \in Ops, NEW s \in Surfaces
  PROVE  Filters(Handlers[i][op][s]) <=>
             op \in Filtering /\ ~(i = "go" /\ op = "describe_operation")
<1>1. op \in Filtering <=> Filters(PyRest(op))
  BY PyFilters
<1>2. op \in Filtering <=> Filters(PyDispatch(op))
  BY PyDispatchFilters
<1>3. op \in Filtering \ {"describe_operation"} <=> Filters(GoHandler(op, s))
  BY GoFilters
<1> QED BY <1>1, <1>2, <1>3 DEF Handlers, Impls, Surfaces

LEMMA OnlyAskedWrong ==
  ASSUME NEW op \in Ops, NEW w \in Worlds[op]
  PROVE  "filter" \in DOMAIN w => op \in Filtering
<1> SUFFICES ASSUME "filter" \in DOMAIN w PROVE op \in Filtering
  OBVIOUS
<1>1. PICK asked \in SUBSET Asked(op) :
          w \in {v \in [asked -> UNION {Answers[a] : a \in asked}] :
                    \A a \in asked : v[a] \in Answers[a]}
  BY DEF Worlds
<1>2. "filter" \in Asked(op)
  BY <1>1
<1>3. PICK i \in Impls, s \in Surfaces :
          "filter" \in {step.asks : step \in ToSet(Handlers[i][op][s])}
  BY <1>2 DEF Asked
<1>4. Filters(Handlers[i][op][s])
  BY <1>3 DEF ToSet, Filters
<1> QED BY <1>4, WhoFilters

(* A request has been through the steps before the one it is at: none of   *)
(* them ended it, and the filter among them hid what it denies.  It has    *)
(* ended where it stopped, or after the last step.                         *)
StopsAt(step, world) == step.asks \in DOMAIN world /\ world[step.asks] \in DOMAIN step.ends
Passed(step) == /\ ~StopsAt(step, request.world)
                /\ step.asks = "filter" /\ IsDeniedItem => request.hidden
CameThrough == request.end = End(200, <<"ok">>) /\ request.at = Len(Steps) + 1
Stopped == /\ request.at \in DOMAIN Steps
           /\ StopsAt(This, request.world)
           /\ request.end = This.ends[request.world[This.asks]]
RequestInv ==
    /\ TokenInv
    /\ request.op # Never =>
           /\ request.world \in Worlds[request.op]
           /\ \A k \in DOMAIN Steps : k < request.at => Passed(Steps[k])
           /\ request.end = NoEnd \/ CameThrough \/ Stopped

LEMMA RequestInvInit == BaseInit /\ RequestsInit => RequestInv
<1> SUFFICES ASSUME BaseInit, RequestsInit PROVE RequestInv
  OBVIOUS
<1>1. request.op = Never
  BY DEF RequestsInit, NoRequest
<1> QED BY <1>1, TokenInvInit DEF RequestInv

LEMMA RequestInvAccept ==
  ASSUME RequestInv, NEW op \in Ops, NEW s \in Surfaces, Accept(op, s),
         UNCHANGED <<impl, now>>
  PROVE  RequestInv'
<1>1. TokenInv'
  BY TokenInvAccept DEF RequestInv
<1>2. /\ request'.op = op /\ request'.surface = s /\ request'.world \in Worlds[op]
      /\ request'.at = 1 /\ request'.end = NoEnd
  BY DEF Accept, NoRequest
<1>3. Steps' = Handler(op, s) /\ DOMAIN Handler(op, s) = 1 .. Len(Handler(op, s))
  BY <1>2, HandlersTokenFirst DEF RequestInv, TokenInv, TokenFirst, Steps, Handler
<1>4. \A k \in DOMAIN Steps' : ~(k < request'.at)
  BY <1>2, <1>3, HandlersTokenFirst DEF RequestInv, TokenInv, TokenFirst
<1> QED BY <1>1, <1>2, <1>4 DEF RequestInv, NoEnd

LEMMA RequestInvGoOn ==
  ASSUME RequestInv, GoOn, UNCHANGED <<impl, now>>
  PROVE  RequestInv'
<1> DEFINE asks == This.asks
           answer == IF asks \in DOMAIN request.world THEN request.world[asks] ELSE "ok"
<1>1. TokenInv' /\ TokenInv /\ request.op # Never /\ request.end = NoEnd
  BY TokenInvGoOn DEF RequestInv, GoOn, Serving
<1>2. /\ request'.op = request.op /\ request'.surface = request.surface
      /\ request'.world = request.world /\ request'.at = request.at + 1
      /\ request'.hidden = (request.hidden \/ (asks = "filter" /\ answer # "ok"))
      /\ request'.end = IF request.at = Len(Steps) THEN End(200, <<"ok">>) ELSE request.end
      /\ answer \notin DOMAIN This.ends
  BY <1>1 DEF GoOn, TokenInv, NoRequest
<1>3. request.op \in Ops /\ request.at \in DOMAIN Steps /\ request.at \in Nat
  BY <1>1 DEF GoOn, TokenInv
<1>4. Steps' = Steps /\ DOMAIN Steps = 1 .. Len(Steps) /\ Len(Steps) \in Nat
  BY <1>1, <1>2, <1>3, HandlersTokenFirst DEF TokenInv, TokenFirst, Steps, Handler
<1>5. ~StopsAt(This, request.world)
  BY <1>2 DEF StopsAt
<1>6. asks = "filter" /\ IsDeniedItem => request'.hidden
  BY <1>2 DEF IsDeniedItem
<1>7. IsDeniedItem' = IsDeniedItem /\ (request.hidden => request'.hidden)
  BY <1>2 DEF IsDeniedItem
<1>8. ASSUME NEW k \in DOMAIN Steps', k < request'.at PROVE Passed(Steps[k])'
  <2>1. CASE k = request.at
    BY <1>2, <1>4, <1>5, <1>6, <1>7, <2>1 DEF Passed, This
  <2>2. CASE k # request.at
    <3>1. k < request.at /\ k \in DOMAIN Steps
      BY <1>2, <1>3, <1>4, <1>8, <2>2
    <3>2. Passed(Steps[k])
      BY <1>1, <3>1 DEF RequestInv
    <3> QED BY <1>2, <1>4, <1>7, <3>2 DEF Passed
  <2> QED BY <2>1, <2>2
<1>9. request'.end = NoEnd \/ CameThrough'
  BY <1>1, <1>2, <1>4 DEF CameThrough
<1>10. request'.world \in Worlds[request'.op]
  BY <1>1, <1>2 DEF RequestInv
<1> QED BY <1>1, <1>8, <1>9, <1>10 DEF RequestInv, NoEnd

LEMMA RequestInvStop ==
  ASSUME RequestInv, Stop, UNCHANGED <<impl, now>>
  PROVE  RequestInv'
<1>1. TokenInv' /\ TokenInv /\ request.op # Never
  BY TokenInvNext DEF RequestInv, Stop, Serving, RequestsNext
<1>2. /\ request'.op = request.op /\ request'.surface = request.surface
      /\ request'.world = request.world /\ request'.at = request.at
      /\ request'.hidden = request.hidden
      /\ request'.end = This.ends[request.world[This.asks]]
      /\ StopsAt(This, request.world)
  BY <1>1 DEF Stop, StopsAt, TokenInv, NoRequest
<1>3. Steps' = Steps /\ This' = This /\ IsDeniedItem' = IsDeniedItem
  BY <1>2 DEF Steps, Handler, This, IsDeniedItem
<1>4. request.at \in DOMAIN Steps
  BY <1>1 DEF Stop, TokenInv
<1>5. Stopped'
  BY <1>2, <1>3, <1>4 DEF Stopped
<1>6. \A k \in DOMAIN Steps' : k < request'.at => Passed(Steps[k])'
  BY <1>1, <1>2, <1>3 DEF RequestInv, Passed
<1>7. request'.world \in Worlds[request'.op]
  BY <1>1, <1>2 DEF RequestInv
<1> QED BY <1>1, <1>5, <1>6, <1>7 DEF RequestInv

LEMMA RequestInvNext == RequestInv /\ [RequestsNext]_<<impl, now, request>> => RequestInv'
<1> SUFFICES ASSUME RequestInv, [RequestsNext]_<<impl, now, request>> PROVE RequestInv'
  OBVIOUS
<1>1. ASSUME NEW op \in Ops, NEW s \in Surfaces, Accept(op, s),
             UNCHANGED <<impl, now>>
      PROVE  RequestInv'
  BY <1>1, RequestInvAccept
<1>2. CASE GoOn /\ UNCHANGED <<impl, now>>
  BY <1>2, RequestInvGoOn
<1>3. CASE Stop /\ UNCHANGED <<impl, now>>
  BY <1>3, RequestInvStop
<1>4. CASE Reply /\ UNCHANGED <<impl, now>>
  <2>1. TokenInv'
    BY <1>4, TokenInvNext DEF RequestInv, RequestsNext
  <2>2. request'.op = Never
    BY <1>4 DEF Reply, NoRequest
  <2> QED BY <2>1, <2>2 DEF RequestInv
<1>5. CASE UNCHANGED <<impl, request>>
  <2>1. TokenInv'
    BY TokenInvNext DEF RequestInv
  <2>2. Steps' = Steps /\ This' = This /\ IsDeniedItem' = IsDeniedItem
    BY <1>5 DEF Steps, Handler, This, IsDeniedItem
  <2> QED BY <1>5, <2>1, <2>2 DEF RequestInv, Passed, CameThrough, Stopped
<1> QED BY <1>1, <1>2, <1>3, <1>4, <1>5 DEF RequestsNext, Tick

LEMMA RequestAlways == RequestsSpec => []RequestInv
  BY RequestInvInit, RequestInvNext, PTL DEF RequestsSpec

(* What a request that has ended is known to have ended as. *)
LEMMA EndedTold ==
  ASSUME RequestInv, Done
  PROVE  /\ request.op \in Ops /\ request.surface \in Surfaces /\ impl \in Impls
         /\ DOMAIN Steps = 1 .. Len(Steps) /\ Len(Steps) \in Nat
         /\ \/ CameThrough
            \/ Stopped /\ EndTold(request.end, This.asks, MustTell(impl, request.op, request.surface))
<1>1. request.op \in Ops /\ request.surface \in Surfaces /\ impl \in Impls /\ request.op # Never
  BY DEF RequestInv, TokenInv, Done
<1>2. DOMAIN Steps = 1 .. Len(Steps) /\ Len(Steps) \in Nat
  BY <1>1, HandlersTokenFirst DEF TokenFirst, Steps
<1>3. CameThrough \/ Stopped
  BY <1>1 DEF RequestInv, Done, Serving
<1>4. ASSUME Stopped
      PROVE  EndTold(request.end, This.asks, MustTell(impl, request.op, request.surface))
  <2>1. HandlerTold(Steps, MustTell(impl, request.op, request.surface))
    BY <1>1, HandlersTold DEF Steps
  <2> QED BY <1>4, <2>1 DEF Stopped, StopsAt, HandlerTold, StepTold, This
<1> QED BY <1>1, <1>2, <1>3, <1>4

(* Every answer leaves the one line that says so and nothing else does;    *)
(* every refusal of the guard, the rules, the engine, the API or the gate  *)
(* leaves a line, through every route and tool but the one excused (the    *)
(* audit calls of app.py and mcp_server.py, main.go, http_routes.go and    *)
(* mcp.go).                                                                *)
THEOREM DecisionAlwaysRecorded == RequestsSpec => []DecisionRecorded
<1>1. RequestInv => DecisionRecorded
  <2> SUFFICES ASSUME RequestInv, Done PROVE DecisionRecorded
    BY DEF DecisionRecorded
  <2>1. CASE CameThrough
    <3>1. request.end.status = 200 /\ request.end.lines = <<"ok">>
      BY <2>1, EndParts DEF CameThrough
    <3> QED BY <3>1 DEF DecisionRecorded, Class
  <2>2. CASE ~CameThrough
    <3>1. EndTold(request.end, This.asks, MustTell(impl, request.op, request.surface))
      BY <2>2, EndedTold
    <3>2. request.end.status \in Failures /\ request.end.status # 200
      BY <3>1 DEF EndTold, Failures
    <3>3. "ok" \notin ToSet(request.end.lines) /\ request.end.lines # <<"ok">>
      <4>1. PICK lines \in Seq(Lines) : lines = request.end.lines
        BY <3>1 DEF EndTold
      <4>2. \A k \in DOMAIN lines : lines[k] \in Lines
        BY <4>1, ElementOfSeq, LenProperties
      <4>3. "ok" \notin Lines
        BY DEF Lines
      <4>4. "ok" \notin ToSet(lines)
        BY <4>2, <4>3 DEF ToSet
      <4>5. lines # <<"ok">>
        <5>1. 1 \in DOMAIN <<"ok">> /\ <<"ok">>[1] = "ok"
          OBVIOUS
        <5> QED BY <4>2, <4>3, <5>1
      <4> QED BY <4>1, <4>4, <4>5
    <3>4. ASSUME Class(request.end.status) = "refused", This.asks \in Decisions,
                 ~(impl = "go" /\ request.op = "list_tables" /\ request.surface = "mcp")
          PROVE  request.end.lines # Silent
      <4>1. request.end.status \in Refusals
        BY <3>2, <3>4 DEF Class, Failures, Refusals
      <4>2. MustTell(impl, request.op, request.surface) = Decisions
        BY <3>4 DEF MustTell
      <4> QED BY <3>1, <3>4, <4>1, <4>2 DEF EndTold
    <3> QED BY <3>2, <3>3, <3>4 DEF DecisionRecorded, Decisions
  <2> QED BY <2>1, <2>2
<1> QED BY <1>1, RequestAlways, PTL

(* What is denied to the caller has been left out of whatever is answered  *)
(* (the filters of app.py and http_routes.py, main.go and http_routes.go). *)
THEOREM AnswerAlwaysWithholds == RequestsSpec => []AnswerWithholds
<1>1. RequestInv => AnswerWithholds
  <2> SUFFICES ASSUME RequestInv, Done, request.end.status = 200, IsDeniedItem,
                      ~(impl = "go" /\ request.op = "describe_operation")
               PROVE  request.hidden
    BY DEF AnswerWithholds, DescribeWithholds
  <2>1. CameThrough
    BY EndedTold DEF EndTold, Failures
  <2>2. request.world \in Worlds[request.op] /\ "filter" \in DOMAIN request.world
    BY DEF RequestInv, Done, IsDeniedItem
  <2>3. request.op \in Filtering
    BY <2>2, EndedTold, OnlyAskedWrong
  <2>4. Filters(Steps)
    BY <2>3, EndedTold, WhoFilters DEF Steps, Handler
  <2>5. PICK k \in DOMAIN Steps : Steps[k].asks = "filter"
    BY <2>4 DEF Filters
  <2>6. k < request.at
    BY <2>1, EndedTold DEF CameThrough
  <2>7. Passed(Steps[k])
    BY <2>6 DEF RequestInv, Done
  <2> QED BY <2>5, <2>7 DEF Passed
<1> QED BY <1>1, RequestAlways, PTL

(* Both surfaces of an executor decide the same of the same request (the   *)
(* routes and the tools of app.py and mcp_server.py, of main.go,           *)
(* http_routes.go and mcp.go).                                             *)
THEOREM SurfacesAlwaysAgree == RequestsSpec => []SurfacesAgree
<1>1. RequestInv => SurfacesAgree
  <2> SUFFICES ASSUME RequestInv, Done, request.op \notin McpOnly,
                      ~("engine" \in DOMAIN request.world
                            /\ request.world["engine"] \in {"forbidden", "missing"}),
                      NEW s \in Surfaces
               PROVE  EndOf(request.op, s) = request.end.status
    BY DEF SurfacesAgree
  <2> DEFINE h == Handler(request.op, s)
             stops == {i \in DOMAIN h : /\ h[i].asks \in DOMAIN request.world
                                        /\ request.world[h[i].asks] \in DOMAIN h[i].ends}
             first == CHOOSE i \in stops : \A j \in stops : i <= j
  <2>1. EndOf(request.op, s) = IF stops = {} THEN 200
                               ELSE h[first].ends[request.world[h[first].asks]].status
    BY DEF EndOf
  <2>2. HandlersAgree(Steps, h)
    BY EndedTold, AllAgree DEF Steps
  <2>3. stops = {k \in DOMAIN Steps : StopsAt(Steps[k], request.world)}
    BY <2>2 DEF HandlersAgree, StepsAgree, StopsAt
  <2> HIDE DEF h, stops
  <2>4. \A k \in stops : k \in DOMAIN Steps /\ k >= request.at
    <3>1. \A k \in DOMAIN Steps : k < request.at => ~StopsAt(Steps[k], request.world)
      BY DEF RequestInv, Done, Passed
    <3>2. request.at \in Nat /\ DOMAIN Steps \subseteq Nat
      BY EndedTold DEF RequestInv, TokenInv
    <3> QED BY <2>3, <3>1, <3>2
  <2>5. CASE CameThrough
    <3>1. stops = {}
      BY <2>4, <2>5, EndedTold DEF CameThrough
    <3>2. request.end.status = 200
      BY <2>5, EndParts DEF CameThrough
    <3> QED BY <2>1, <3>1, <3>2
  <2>6. CASE Stopped
    <3>1. request.at \in stops
      BY <2>3, <2>6 DEF Stopped, This
    <3>2. request.at \in Nat /\ \A k \in stops : k \in Nat
      BY <2>4, EndedTold DEF RequestInv, TokenInv
    <3>3. first = request.at
      <4>1. \A k \in stops : request.at <= k
        BY <2>4, <3>2
      <4>2. first \in stops /\ \A k \in stops : first <= k
        BY <3>1, <4>1
      <4> HIDE DEF first
      <4> QED BY <3>1, <3>2, <4>1, <4>2
    <3> HIDE DEF first
    <3>4. StepsAgree(This, h[request.at])
      BY <2>2, <2>6 DEF HandlersAgree, Stopped, This
    <3> DEFINE o == request.world[This.asks]
    <3>5. ~ToldApart(o, This.asks) /\ o \in DOMAIN This.ends
      BY <2>6 DEF ToldApart, Stopped, StopsAt
    <3>6. This.ends[o].status = h[request.at].ends[o].status /\ h[request.at].asks = This.asks
      BY <3>4, <3>5 DEF StepsAgree
    <3>7. request.end.status = This.ends[o].status
      BY <2>6 DEF Stopped
    <3>8. stops # {}
      BY <3>1
    <3> QED BY <2>1, <3>3, <3>6, <3>7, <3>8
  <2> QED BY <2>5, <2>6, EndedTold
<1> QED BY <1>1, RequestAlways, PTL
=============================================================================
