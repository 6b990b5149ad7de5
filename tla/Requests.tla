------------------------------ MODULE Requests ------------------------------
(***************************************************************************)
(* One request to the executor, from the caller's token to the reply.  A   *)
(* handler is the steps it takes in order, each with how it ends on an     *)
(* answer it does not go on from: the status, and the audit lines written. *)
(* A tool's text is given the status whose meaning it has.  What keys,     *)
(* roles, tags and tokens promise a request is checked in TokenKeys,       *)
(* RoleResolver, TagIndex and Credential.                                  *)
(***************************************************************************)
EXTENDS ExecutorBase, SequencesExt

CONSTANTS TokenLeft,  \* the life a token has left at least when it is handed over
          MaxWrong    \* how many things go wrong in the world of one request

ASSUME TokenAssumption == TokenLeft \in Nat \ {0} /\ MaxWrong \in Nat

VARIABLES request

Surfaces == {"rest", "mcp"}
SqlOps == {"list_tables", "describe_table", "run_query"}
HttpOps == {"list_operations", "describe_operation", "call_operation"}
McpOnly == {"list_dashboard_candidates", "catalog"}
Ops == SqlOps \cup HttpOps \cup McpOnly

(* How each thing asked can go other than well. *)
Answers == [caller |-> {"unsigned", "unscoped", "client"},
            source |-> {"absent", "unnamed"},
            surface |-> {"wrong"},
            token |-> {"refused", "unreachable"},
            guard |-> {"denied"},
            rules |-> {"denied", "unavailable"},
            spec |-> {"missing", "forbidden", "broken"},
            filter |-> {"denied", "unavailable"},
            engine |-> {"denied", "forbidden", "missing", "broken"},
            api |-> {"tooLarge", "denied", "broken"},
            gate |-> {"denied"},
            bots |-> {"unconfigured", "noRole", "vault"},
            catalog |-> {"unreachable"}]

End(status, lines) == [status |-> status, lines |-> lines]
Step(asks, ends) == [asks |-> asks, ends |-> ends]

Silent == <<>>

-----------------------------------------------------------------------------
(* The same in both implementations: whose request, about which source. *)
Principal == Step("caller", [unsigned |-> End(401, Silent), unscoped |-> End(403, Silent),
                             client |-> End(403, <<"denied">>)])
Source == Step("source", [absent |-> End(404, Silent), unnamed |-> End(400, Silent)])
OfSurface == Step("surface", [wrong |-> End(400, Silent)])
Guard == Step("guard", [denied |-> End(400, <<"blocked">>)])

(* Python: no answer about the tags is an exception nobody catches, as is  *)
(* a token endpoint that does not answer, outside a try.                   *)
PyRules == Step("rules", [denied |-> End(403, <<"denied">>), unavailable |-> End(500, Silent)])
PyFilter == Step("filter", [unavailable |-> End(500, Silent)])
PyTokenTried == Step("token", [o \in Answers.token |-> End(502, <<"error">>)])
PyToken == Step("token", [refused |-> End(502, Silent), unreachable |-> End(500, Silent)])
PyEngine(missing) ==
    Step("engine", [missing |-> missing, denied |-> End(403, <<"denied">>),
                    forbidden |-> End(403, <<"denied">>), broken |-> End(502, <<"error">>)])

PyListTables == <<Principal, Source, OfSurface, PyTokenTried, PyEngine(End(502, <<"error">>))>>
PyDescribeTable_Unfiltered ==
    <<Principal, Source, OfSurface, PyTokenTried, PyEngine(End(404, Silent))>>
PyDescribeTable ==
    <<Principal, Source, OfSurface, PyTokenTried, PyEngine(End(404, Silent)), PyFilter>>
PyRunQuery_TokenFirst == <<Principal, Source, OfSurface, PyTokenTried, Guard, PyRules,
                           PyEngine(End(502, <<"error">>))>>
PyRunQuery == <<Principal, Source, OfSurface, Guard, PyRules, PyTokenTried,
                PyEngine(End(502, <<"error">>))>>
PyListOperations ==
    <<Principal, Source, OfSurface, PyToken,
      Step("spec", [broken |-> End(502, <<"error">>)]), PyFilter>>
PyDescribeOperation ==
    <<Principal, Source, OfSurface, PyToken,
      Step("spec", [missing |-> End(404, Silent), forbidden |-> End(403, <<"denied">>),
                    broken |-> End(500, Silent)]),
      PyRules, PyFilter>>
PyCallOperation ==
    <<Principal, Source, OfSurface, PyToken,
      Step("spec", [missing |-> End(400, <<"blocked">>), forbidden |-> End(400, <<"blocked">>),
                    broken |-> End(500, Silent)]),
      Guard, PyRules, PyFilter,
      Step("api", [tooLarge |-> End(400, <<"blocked">>), denied |-> End(403, <<"denied">>),
                   broken |-> End(502, <<"error">>)])>>
Candidates == <<Principal, Step("gate", [denied |-> End(403, <<"denied">>)])>>
Bots == Step("bots", [unconfigured |-> End(503, <<"unavailable">>),
                      noRole |-> End(403, <<"denied">>), vault |-> End(503, <<"error">>)])
PyCatalog == <<Principal, Bots, Step("catalog", [unreachable |-> End(500, Silent)])>>

(* A tool call's exceptions are caught and audited once more, as what was  *)
(* raised: an HTTPException by its status, a lookup not at all, anything   *)
(* else as an error, an engine's PermissionError too if its words are not  *)
(* those of a denial.                                                      *)
OuterLine(status) == IF status \in {401, 403} THEN "denied" ELSE "error"
ReAudited(step) ==
    IF step.asks = "caller" THEN step
    ELSE [step EXCEPT !.ends = [o \in DOMAIN step.ends |->
             End(step.ends[o].status,
                 Append(step.ends[o].lines, OuterLine(step.ends[o].status)))]]
DispatchedSql(step) ==
    CASE step.asks = "source" -> ReAudited(step)
      [] step.asks \in {"rules", "filter"} ->
             [step EXCEPT !.ends["unavailable"] = End(500, <<"error">>)]
      [] step.asks = "engine" ->
             [step EXCEPT !.ends = [o \in DOMAIN step.ends |->
                 CASE o = "missing" -> End(404, Silent)
                   [] o = "forbidden" -> End(502, <<"error">>)
                   [] OTHER -> step.ends[o]]]
      [] OTHER -> step

PyRest(op) == CASE op = "list_tables" -> PyListTables
                [] op = "describe_table" -> PyDescribeTable
                [] op = "run_query" -> PyRunQuery
                [] op = "list_operations" -> PyListOperations
                [] op = "describe_operation" -> PyDescribeOperation
                [] op = "call_operation" -> PyCallOperation
                [] op = "list_dashboard_candidates" -> Candidates
                [] op = "catalog" -> PyCatalog
PyDispatch_AnySurface(op) ==
    LET tool(step) == IF op \in HttpOps THEN ReAudited(step) ELSE DispatchedSql(step)
        steps == SelectSeq(PyRest(op), LAMBDA step : op \in HttpOps \/ step.asks # "surface") IN
    IF op \in McpOnly THEN PyRest(op) ELSE [i \in DOMAIN steps |-> tool(steps[i])]
PyDispatch(op) ==
    LET tool(step) == IF op \in HttpOps THEN ReAudited(step) ELSE DispatchedSql(step) IN
    IF op \in McpOnly THEN PyRest(op)
    ELSE [i \in DOMAIN PyRest(op) |-> tool(PyRest(op)[i])]

-----------------------------------------------------------------------------
(* Go: rules that cannot be known deny; a failed exchange is not audited;  *)
(* a SQL operation does not ask which surface the source has.              *)
GoRules == Step("rules", [o \in Answers.rules |-> End(403, <<"denied">>)])
GoFilter == Step("filter", [o \in {} |-> End(0, Silent)])
GoToken == Step("token", [o \in Answers.token |-> End(502, Silent)])
GoEngine(missing, line) ==
    Step("engine", [missing |-> missing, denied |-> End(403, line["denied"]),
                    forbidden |-> End(502, line["error"]), broken |-> End(502, line["error"])])
Audited == [recorded \in {"denied", "error"} |-> <<recorded>>]
Unaudited == [recorded \in {"denied", "error"} |-> Silent]

GoListTables(s) ==
    LET line == IF s = "rest" THEN Audited ELSE Unaudited IN
    <<Principal, Source, GoToken, GoEngine(End(502, line["error"]), line)>>
GoDescribe == <<Principal, Source, GoToken, GoEngine(End(404, Silent), Audited), GoFilter>>
GoRunQuery_Unaudited == <<Principal, Source, Guard, GoRules, GoToken,
                          GoEngine(End(502, <<"error">>), Unaudited)>>
GoRunQuery == <<Principal, Source, Guard, GoRules, GoToken,
                GoEngine(End(502, <<"error">>), Audited)>>
GoListOperations == <<Principal, Source, OfSurface, GoToken,
                      Step("spec", [broken |-> End(502, <<"error">>)]), GoFilter>>
GoDescribeOperation ==
    <<Principal, Source, OfSurface, GoToken,
      Step("spec", [missing |-> End(404, <<"error">>), forbidden |-> End(403, <<"error">>),
                    broken |-> End(502, <<"error">>)]),
      GoRules>>

(* The status of the API's answer is not looked at: a refusal with a       *)
(* document for a body is what the call answers.                           *)
GoCallOperation ==
    <<Principal, Source, OfSurface, GoToken,
      Step("spec", [missing |-> End(400, <<"blocked">>), forbidden |-> End(400, <<"blocked">>),
                    broken |-> End(502, <<"error">>)]),
      Guard, GoRules, GoFilter,
      Step("api", [tooLarge |-> End(502, <<"error">>), broken |-> End(502, <<"error">>)])>>
GoCatalog == <<Principal, Bots, Step("catalog", [unreachable |-> End(502, <<"error">>)])>>

GoHandler(op, s) == CASE op = "list_tables" -> GoListTables(s)
                      [] op = "describe_table" -> GoDescribe
                      [] op = "run_query" -> GoRunQuery
                      [] op = "list_operations" -> GoListOperations
                      [] op = "describe_operation" -> GoDescribeOperation
                      [] op = "call_operation" -> GoCallOperation
                      [] op = "list_dashboard_candidates" -> Candidates
                      [] op = "catalog" -> GoCatalog

Handlers == [i \in Impls |-> [op \in Ops |-> [s \in Surfaces |->
                IF i = "go" THEN GoHandler(op, s)
                ELSE IF s = "mcp" THEN PyDispatch(op) ELSE PyRest(op)]]]
Handler(op, s) == Handlers[impl][op][s]

-----------------------------------------------------------------------------
(* What goes other than well in the world of one request, of what either   *)
(* implementation would ask about on either surface.                       *)
Asked(op) == UNION {{step.asks : step \in ToSet(Handlers[i][op][s])} : i \in Impls, s \in Surfaces}
Worlds == [op \in Ops |->
    UNION {{w \in [wrong -> UNION {Answers[a] : a \in wrong}] :
                \A a \in wrong : w[a] \in Answers[a]} :
           wrong \in {asked \in SUBSET Asked(op) : Cardinality(asked) <= MaxWrong}}]

NoEnd == End(0, Silent)
NothingWrong == [a \in {} |-> "ok"]
NoRequest == [op |-> Never, surface |-> "rest", world |-> NothingWrong, at |-> 0,
              since |-> 0, exp |-> Never, hidden |-> FALSE, end |-> NoEnd]

RequestsType ==
    /\ request.op \in Ops \cup {Never}
    /\ request.surface \in Surfaces
    /\ request.at \in Nat
    /\ request.hidden \in BOOLEAN
    /\ request.exp \in Nat \cup {Never}

RequestsInit == request = NoRequest

Steps == Handler(request.op, request.surface)
Serving == request.op # Never /\ request.end = NoEnd
This == Steps[request.at]

Accept(op, s) ==
    /\ request.op = Never
    /\ op \in McpOnly => s = "mcp"
    /\ \E w \in Worlds[op] :
          request' = [NoRequest EXCEPT !.op = op, !.surface = s, !.world = w, !.at = 1,
                                       !.since = now]

(* What a step asks is answered well, or in a way the handler goes on from. *)
GoOn ==
    /\ Serving
    /\ LET asks == This.asks
           answer == IF asks \in DOMAIN request.world THEN request.world[asks] ELSE "ok" IN
       /\ answer \notin DOMAIN This.ends
       /\ request' = [request EXCEPT
              !.at = @ + 1, !.since = now,
              !.exp = IF asks = "token" THEN now + TokenLeft ELSE @,
              !.hidden = @ \/ (asks = "filter" /\ answer # "ok"),
              !.end = IF request.at = Len(Steps) THEN End(200, <<"ok">>) ELSE @]

Stop ==
    /\ Serving
    /\ This.asks \in DOMAIN request.world
    /\ request.world[This.asks] \in DOMAIN This.ends
    /\ request' = [request EXCEPT !.end = This.ends[request.world[This.asks]]]

Reply == /\ request.op # Never
         /\ ~Serving
         /\ request' = NoRequest

(* Every step but the guard calls out of the process, or may. *)
RequestsMayTick == Serving /\ This.asks # "guard" /\ now - request.since < CallMax

RequestsNext ==
    \/ /\ \/ \E op \in Ops, s \in Surfaces : Accept(op, s)
          \/ GoOn \/ Stop \/ Reply
       /\ UNCHANGED <<impl, now>>
    \/ Tick /\ RequestsMayTick /\ UNCHANGED request

RequestsSpec == BaseInit /\ RequestsInit /\ [][RequestsNext]_<<impl, now, request>>

-----------------------------------------------------------------------------
Done == request.op # Never /\ ~Serving
Class(status) == CASE status = 200 -> "answered"
                   [] status \in {400, 401, 403} -> "refused"
                   [] status = 404 -> "missing"
                   [] OTHER -> "failed"
IsDeniedItem == "filter" \in DOMAIN request.world /\ request.world["filter"] = "denied"

(* An answer is recorded as one, once, and nothing else is; whatever the   *)
(* guard or the access rules refuse leaves a line, on every path through   *)
(* either implementation.                                                  *)
DecisionRecorded ==
    Done => /\ request.end.status = 200 <=> request.end.lines = <<"ok">>
            /\ request.end.status # 200 => "ok" \notin ToSet(request.end.lines)
            /\ /\ Class(request.end.status) = "refused"
               /\ This.asks \in {"guard", "rules", "engine", "api", "gate", "bots"}
               /\ ~(impl = "go" /\ request.op = "list_tables" /\ request.surface = "mcp")
               => request.end.lines # Silent

(* Asked the same of the same world, the routes and the tools decide the   *)
(* same.  Left out is Python's engine refusal without a denial's words,    *)
(* and a lookup that fails where nothing was looked up by name.            *)
EndOf(op, s) ==
    LET h == Handler(op, s)
        stops == {i \in DOMAIN h : /\ h[i].asks \in DOMAIN request.world
                                   /\ request.world[h[i].asks] \in DOMAIN h[i].ends} IN
    IF stops = {} THEN 200
    ELSE LET first == CHOOSE i \in stops : \A j \in stops : i <= j IN
         h[first].ends[request.world[h[first].asks]].status

SurfacesAgree ==
    /\ Done
    /\ request.op \notin McpOnly
    /\ ~("engine" \in DOMAIN request.world /\ request.world["engine"] \in {"forbidden", "missing"})
    => \A s \in Surfaces : Class(EndOf(request.op, s)) = Class(request.end.status)

(* A SQL engine is reached with a token that is alive: it is asked for     *)
(* last, after the guard and the rules have taken their time.              *)
TokenLiveAtEngine ==
    Serving /\ This.asks = "engine" /\ request.since = now => request.exp > now

(* Whatever describes or returns columns or fields leaves out those the    *)
(* caller may not read.                                                    *)
DescribeWithholds ==
    Done /\ request.end.status = 200 /\ IsDeniedItem => request.hidden

(* The same but for the one handler of the Go executor that does not.      *)
AnswerWithholds ==
    ~(impl = "go" /\ request.op = "describe_operation") => DescribeWithholds
=============================================================================
