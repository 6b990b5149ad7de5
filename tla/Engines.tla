------------------------------ MODULE Engines ------------------------------
(***************************************************************************)
(* The SQL adapters of one source, under concurrent requests: whose        *)
(* connection a statement runs on, how long a connection lives and whose   *)
(* rows an answer holds.  In Go sources.go, sources_postgres.go,           *)
(* sources_databricks.go and sources_duckdb.go, in Python sources.py.  Go  *)
(* keeps pools of connections, Python connects for each request to a       *)
(* server and shares one connection to a file; Databricks is HTTP.         *)
(***************************************************************************)
EXTENDS ExecutorBase

CONSTANTS Tokens,      \* tokens an engine may be reached with
          Shared,      \* the key of a pool that all share
          MaxRows,     \* the ceiling of one answer
          PoolsKept,   \* 256: the pools a TdsBackend keeps at most
          MaxPools     \* bound: pools and connections opened

ASSUME EnginesAssumption == /\ Shared \notin Tokens
                            /\ Never \notin Threads
                            /\ MaxRows \in Nat \ {0}
                            /\ PoolsKept \in Nat \ {0}
                            /\ MaxPools \in Nat \ {0}

VARIABLES engine,      \* the source's adapter and tier
          pools,       \* every pool or connection there has been
          kept,        \* b.pools, _connections: the one kept for a key
          shared,      \* Python's DuckDB connection: the result it holds
          requests     \* one thread's request

engineVars == <<engine, pools, kept, shared, requests>>

NoPool == 0
Keys == Tokens \cup {Shared}
Pools == 1 .. MaxPools
NoThread == Never
Unused == [state |-> "unused", token |-> Shared]
NoResult == [of |-> NoThread, rows |-> 0]
NoRequest == [pc |-> "idle", op |-> "run", token |-> Shared, listed |-> TRUE, pool |-> NoPool,
              step |-> "rows", had |-> 0, rows |-> 0, from |-> {}, end |-> "none"]

EnginesType ==
    /\ engine \in [adapter : {"tds", "postgres", "duckdb", "databricks"}, tier : {"user", "service"}]
    /\ pools \in [Pools -> [state : {"unused", "open", "closed"}, token : Keys]]
    /\ kept \in [Keys -> Pools \cup {NoPool}]
    /\ shared \in [of : Threads \cup {NoThread}, rows : Nat]
    /\ requests \in [Threads -> [pc : {"idle", "schema", "pool", "made", "query", "fetch", "done"},
                                 op : {"list", "describe", "run"}, token : Keys, listed : BOOLEAN,
                                 pool : Pools \cup {NoPool}, step : {"rows", "keys"}, had : Nat,
                                 rows : Nat, from : SUBSET Threads,
                                 end : {"none", "ok", "denied", "missing", "broken"}]]

EnginesInit ==
    /\ engine \in {e \in [adapter : {"tds", "postgres", "duckdb", "databricks"},
                          tier : {"user", "service"}] : e.adapter = "duckdb" => e.tier = "service"}
    /\ pools = [p \in Pools |-> Unused]
    /\ kept = [k \in Keys |-> NoPool]
    /\ shared = NoResult
    /\ requests = [t \in Threads |-> NoRequest]

Engine(a) == engine.adapter = a
Connects == impl = "py" /\ engine.adapter \in {"tds", "postgres"}
SharesConnection == impl = "py" /\ Engine("duckdb")

(* A pool is of one token, but where the engine cannot tell its callers    *)
(* apart: a PostgreSQL reached as the service, a file.                     *)
Key_Source(token) == Shared
Key(token) == IF Engine("duckdb") \/ (Engine("postgres") /\ engine.tier = "service")
              THEN Shared ELSE token

RequestAt(t, pc) == requests[t].pc = pc
Request(t) == requests[t]
To(t, r) == requests' = [requests EXCEPT ![t] = r]
End(t, end) == [Request(t) EXCEPT !.pc = "done", !.end = end]

(* A schema outside the allow-list is refused before the source is looked  *)
(* at; the Go adapter for DuckDB opens the file first.                     *)
PoolFirst == impl = "go" /\ Engine("duckdb")

(* Go knows an engine's denial by its wording, and this refusal has none   *)
(* of the words.                                                           *)
Refusal == IF impl = "go" THEN "broken" ELSE "denied"

BeginRequest(t, op, token, listed) ==
    /\ RequestAt(t, "idle")
    /\ op = "describe" \/ listed
    /\ To(t, [NoRequest EXCEPT !.pc = IF op = "describe" /\ ~PoolFirst THEN "schema" ELSE "pool",
                               !.op = op, !.token = token, !.listed = listed])
    /\ UNCHANGED <<engine, pools, kept, shared>>

Schema(t) ==
    /\ RequestAt(t, "schema")
    /\ IF Request(t).listed
       THEN To(t, [Request(t) EXCEPT !.pc = IF PoolFirst THEN "query" ELSE "pool"])
       ELSE To(t, End(t, Refusal))
    /\ UNCHANGED <<engine, pools, kept, shared>>

-----------------------------------------------------------------------------
Ready(t, pool) ==
    [Request(t) EXCEPT !.pool = pool,
                       !.pc = IF Request(t).op = "describe" /\ PoolFirst THEN "schema" ELSE "query"]
Fresh(p) == p \in Pools /\ pools[p].state = "unused" /\ \A q \in 1 .. p - 1 : pools[q].state # "unused"
Opened(p, token) == [pools EXCEPT ![p] = [state |-> "open", token |-> token]]
Closed(p) == [pools EXCEPT ![p].state = "closed"]

(* No connection: the token goes with the statement. *)
Direct(t) ==
    /\ RequestAt(t, "pool")
    /\ Engine("databricks")
    /\ To(t, Ready(t, NoPool))
    /\ UNCHANGED <<engine, pools, kept, shared>>

OpenConnection(t) ==
    /\ RequestAt(t, "pool")
    /\ Connects
    /\ \E p \in Pools : /\ Fresh(p)
                        /\ pools' = Opened(p, Request(t).token)
                        /\ To(t, Ready(t, p))
    /\ UNCHANGED <<engine, kept, shared>>

(* The one connection to a file is looked for and opened under the lock. *)
OpenFile(t) ==
    /\ RequestAt(t, "pool")
    /\ Engine("duckdb")
    /\ \/ /\ kept[Shared] # NoPool
          /\ To(t, Ready(t, kept[Shared]))
          /\ UNCHANGED <<pools, kept>>
       \/ /\ kept[Shared] = NoPool
          /\ \E p \in Pools : /\ Fresh(p)
                              /\ pools' = Opened(p, Shared)
                              /\ kept' = [kept EXCEPT ![Shared] = p]
                              /\ To(t, Ready(t, p))
    /\ UNCHANGED <<engine, shared>>

(* The lock is not held while a pool is made. *)
Pool(t) ==
    /\ RequestAt(t, "pool")
    /\ impl = "go" /\ engine.adapter \in {"tds", "postgres"}
    /\ LET found == kept[Key(Request(t).token)] IN
       \/ /\ found # NoPool
          /\ To(t, Ready(t, found))
          /\ UNCHANGED pools
       \/ /\ found = NoPool
          /\ \E p \in Pools : /\ Fresh(p)
                              /\ pools' = Opened(p, Key(Request(t).token))
                              /\ To(t, [Request(t) EXCEPT !.pc = "made", !.pool = p])
    /\ UNCHANGED <<engine, kept, shared>>

KeptPools == {k \in Keys : kept[k] # NoPool}

(* One of the others, whichever the map yields first, is closed. *)
Overflows(k) == Engine("tds") /\ Cardinality(KeptPools \cup {k}) > PoolsKept

Store_Replaces(t) ==
    /\ RequestAt(t, "made")
    /\ LET own == Request(t).pool
           k == Key(Request(t).token) IN
       /\ kept' = [kept EXCEPT ![k] = own]
       /\ To(t, Ready(t, own))
    /\ UNCHANGED <<engine, pools, shared>>
Store(t) ==
    /\ RequestAt(t, "made")
    /\ LET own == Request(t).pool
           k == Key(Request(t).token) IN
       \/ /\ kept[k] # NoPool
          /\ pools' = Closed(own)
          /\ To(t, Ready(t, kept[k]))
          /\ UNCHANGED kept
       \/ /\ kept[k] = NoPool
          /\ To(t, Ready(t, own))
          /\ IF Overflows(k)
             THEN \E old \in KeptPools \ {k} :
                      /\ pools' = Closed(kept[old])
                      /\ kept' = [kept EXCEPT ![k] = own, ![old] = NoPool]
             ELSE kept' = [kept EXCEPT ![k] = own] /\ UNCHANGED pools
    /\ UNCHANGED <<engine, shared>>

-----------------------------------------------------------------------------
(* What a statement yields up to the ceiling; a catalog read has none. *)
Ceiling(t, n) == IF Request(t).op = "run" /\ n > MaxRows THEN MaxRows ELSE n
Truncated_AboveOnly(t) == Request(t).rows > MaxRows
Truncated(t) == Request(t).rows >= MaxRows

(* The columns of a table are read, then its keys, from the servers'       *)
(* catalogs; Databricks is not asked for keys.                             *)
RowsTaken(t, n, from) ==
    LET r == [Request(t) EXCEPT !.rows = IF Request(t).step = "rows" THEN Ceiling(t, n) ELSE @,
                                !.from = @ \cup {from}] IN
    IF r.op = "describe" /\ r.step = "rows"
    THEN IF n = 0 THEN [r EXCEPT !.pc = "done", !.end = "missing"]
         ELSE IF Engine("databricks") THEN [r EXCEPT !.pc = "done", !.end = "ok"]
         ELSE [r EXCEPT !.pc = "query", !.step = "keys"]
    ELSE [r EXCEPT !.pc = "done", !.end = "ok"]

PoolUsable(t) == Request(t).pool \in {NoPool} \cup {p \in Pools : pools[p].state = "open"}

(* A statement's n rows.  The result of Python's shared connection is read *)
(* in a second step; a statement that Databricks has not finished has had  *)
(* none.                                                                   *)
Query(t, n) ==
    /\ RequestAt(t, "query")
    /\ PoolUsable(t)
    /\ LET had == [Request(t) EXCEPT !.had = IF Request(t).step = "rows" THEN n ELSE @] IN
       IF SharesConnection
       THEN /\ shared' = [of |-> t, rows |-> n]
            /\ To(t, [had EXCEPT !.pc = "fetch"])
       ELSE /\ To(t, [RowsTaken(t, n, t) EXCEPT !.had = had.had])
            /\ UNCHANGED shared
    /\ UNCHANGED <<engine, pools, kept>>

Fetch(t) ==
    /\ RequestAt(t, "fetch")
    /\ shared.of # NoThread
    /\ LET taken == Ceiling(t, shared.rows) IN
       /\ To(t, RowsTaken(t, taken, shared.of))
       /\ shared' = [shared EXCEPT !.rows = @ - taken]
    /\ UNCHANGED <<engine, pools, kept>>

(* Keys are optional to TDS and to Go. *)
KeysOptional == impl = "go" \/ Engine("tds")

QueryFails(t) ==
    /\ requests[t].pc \in {"query", "fetch"}
    /\ To(t, End(t, IF Request(t).step = "keys" /\ KeysOptional THEN "ok" ELSE "broken"))
    /\ UNCHANGED <<engine, pools, kept, shared>>

EngineDenies(t) ==
    /\ RequestAt(t, "query")
    /\ Request(t).step = "rows"
    /\ To(t, End(t, "denied"))
    /\ UNCHANGED <<engine, pools, kept, shared>>

(* What Python opened for the request it closes with it. *)
Return(t) ==
    /\ RequestAt(t, "done")
    /\ pools' = IF Connects /\ Request(t).pool # NoPool THEN Closed(Request(t).pool) ELSE pools
    /\ To(t, NoRequest)
    /\ UNCHANGED <<engine, kept, shared>>

RequestStep(t) ==
    \/ \E op \in {"list", "describe", "run"}, token \in Tokens, listed \in BOOLEAN :
           BeginRequest(t, op, token, listed)
    \/ Schema(t) \/ Direct(t) \/ OpenConnection(t) \/ OpenFile(t) \/ Pool(t) \/ Store(t)
    \/ \E n \in 0 .. MaxRows + 1 : Query(t, n)
    \/ Fetch(t) \/ QueryFails(t) \/ EngineDenies(t) \/ Return(t)

(* Every pool the bound allows for has been opened. *)
Exhausted == /\ \A p \in Pools : pools[p].state # "unused"
             /\ UNCHANGED engineVars

EnginesNext == /\ Exhausted \/ \E t \in Threads : RequestStep(t)
               /\ UNCHANGED <<impl, now>>

EnginesSpec == BaseInit /\ EnginesInit /\ [][EnginesNext]_<<impl, now, engineVars>>

-----------------------------------------------------------------------------
(* Wherever the engine sees users, a statement runs on a connection made   *)
(* with its asker's own token.                                             *)
RunsAsAsker ==
    engine.tier = "user" =>
        \A t \in Threads :
            requests[t].pc \in {"query", "fetch"} /\ Request(t).pool # NoPool
                => pools[Request(t).pool].token = Request(t).token

(* No pool is forgotten: one that is open is kept for its key, or a thread *)
(* is about to keep it, or it is a request's own.                          *)
OpenIsHeld ==
    \A p \in Pools : pools[p].state = "open" =>
        \/ kept[pools[p].token] = p
        \/ \E t \in Threads : Request(t).pool = p /\ (RequestAt(t, "made") \/ Connects)

(* A TdsBackend keeps no more pools than it may, whatever threads make at  *)
(* the same time.                                                          *)
PoolsBounded == Engine("tds") => Cardinality(KeptPools) <= PoolsKept

(* A statement finds its pool closed only if pools had to go for others:   *)
(* not for a race between two threads to make the same one.                *)
ClosedForOthers ==
    \A t \in Threads :
        RequestAt(t, "query") /\ ~PoolUsable(t) => Engine("tds") /\ Cardinality(KeptPools) = PoolsKept

(* Every pool is somebody's, and there are no more than there may be.      *)
PoolsAccounted == OpenIsHeld /\ PoolsBounded /\ ClosedForOthers

(* No adapter describes a table outside the allow-list, or says whether it *)
(* is there.                                                               *)
AllowListFirst ==
    \A t \in Threads :
        RequestAt(t, "done") /\ ~Request(t).listed => Request(t).end \in {"denied", "broken"}
                                               /\ Request(t).from = {}

(* run_query (app.py): "Run one read-only SELECT and return rows".  An     *)
(* answer has the rows of its own statement, and all of them if it does    *)
(* not say that it was cut off.                                            *)
OwnRows ==
    \A t \in Threads :
        RequestAt(t, "done") /\ Request(t).end = "ok" =>
            /\ Request(t).from = {t}
            /\ Request(t).op = "run" /\ ~Truncated(t) => Request(t).rows = Request(t).had

(* So it is wherever requests do not share a connection; and no answer     *)
(* goes past the allow-list.                                               *)
AnswerWhole == AllowListFirst /\ (~SharesConnection => OwnRows)
=============================================================================
