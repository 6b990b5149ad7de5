# Verification of data-agent-service

TLA+ models of the services in this repository, the TLC runs that check them on
small instances, and TLAPS proofs of what matters most for every instance.
Source paths below are relative to the repository root (`src/` here).

- [The system](#the-system)
- [Modules](#modules)
- [The ask service](#the-ask-service)
- [The executor](#the-executor)
- [Data sources](#data-sources)
- [What asks the executor](#what-asks-the-executor)
- [Composition](#composition)
- [Runs](#runs)
- [Fairness](#fairness)
- [Proofs](#proofs)
- [Where the code and its documents disagree](#where-the-code-and-its-documents-disagree)
- [Not modelled](#not-modelled)
- [Plan](#plan)

## The system

A user asks a question in words; an agent answers it from governed data, acting
as that user all the way down. The parts, the state each keeps and what makes
each one correct:

| Part | State | Operations | Hard behaviour | What must hold |
|---|---|---|---|---|
| Ask service `agent/server.py` | conversations, tickets with their retained events, a run thread per ticket | open, ask, cancel, state, event stream, the run, the reaper | HTTP threads, run threads and the reaper over two dictionaries and a condition per ticket; dead sockets; resumed streams | one run per conversation; lossless streams; one terminal event, then `done`; nothing forgotten early or kept for ever |
| Agent loop `agent/agent.py` | one run's calls, hops, stop reason | a hop: model turn, then its tool calls in a pool | a turn's calls in parallel, cancel between hops, exceptions half-way | results in the order asked; a refusal is never smoothed over; the ceiling ends it |
| MCP client `agent/mcp_client.py` | session id and request id per server, shared by the pool | connect, call | error classes: which become results, which exceptions | one failing call does not lose its siblings |
| Grounding `agent/grounding.py` | schema text per subject and sources | prefetch | partial failure cached | what is cached is what the tools would return |
| Harness token `agent/identity.py` | the token of a user, the supplied one | token_for | a token's expiry is in it or assumed | what is handed over is alive |
| Executor `services/warehouse-query-py/app.py`, `services/warehouse-query-go/main.go` | none of its own but the caches below | list, describe, query, call, MCP framing | two implementations of one contract, two surfaces of each | no statement runs before identity, guard and rules have passed; every decision is audited; the surfaces decide alike |
| Access `access.py`, `access.go`, `tagindex.go` | role cache, tag index | roles of a caller, columns a tag withholds, the decision | threads refreshing caches, a catalog or a directory that is down | not knowing is never taken for nothing being tagged; a change is seen within a bounded time; a held role is not lost |
| Credentials `credential.py`, `credential.go`, `vaultref.py` | tokens per audience and user, the secrets read from the vault | on-behalf-of exchange, resolving a reference | expiry, transient vault failure, rotation | a token is the asking user's; a transient failure is not for ever; a process settles on one version of a secret |
| Data sources `sources.py`, `sources_*.go`, `backend_router.go` | the configured sources, an API's document, connections and their pools | load, list, describe, query, call | threads that fetch and keep documents and pools at once; two implementations of one configuration | a statement runs as its asker, an answer has its own rows, an API is called by the document it was checked against |
| Token keys `token.go`, `app.py` | the key document | verify | rotation | a withdrawn key stops being accepted |
| SQL and HTTP guards | none | decide on a parse tree | pure | only a single read-only statement over what is allowed |
| Promoter `promoter/` | one window's counts | build, release, write to the catalog; the same for terms nobody found | a batch job that may end anywhere and is run again; slugs that collide | no template and no term with fewer than k users leaves |
| Publisher `publisher/`, `publisher-go/` | artefacts in the targets, lineage in the catalog | publish, evaluate, compare, record | external calls failing between steps; find-then-create | lineage is recorded only of what agreed |

Interaction: a client opens a conversation and asks (HTTP); the ask service
starts a run thread, which calls the agent loop; the loop calls the model and,
over MCP through the gateway, the executor; the executor checks and calls a data
source with the user's own token and writes an audit line. The promoter reads
those audit lines in batches and writes candidates to the catalog; the publisher
takes a released candidate and makes dashboards of it. Readers of an ask follow
its event stream, share nothing with its run but the ticket, and may come and go.

The hazards this gives are listed in `PROJECT.json`, each at the line where it
bites, with the properties that watch it.

## Modules

| Module | What it is |
|---|---|
| `AskService` | the ask service, with the agent loop as the service sees it |
| `AskContract` | the abstract promise about tickets that `AskService` implements |
| `MCAskService` | the symmetry set for TLC |
| `ExecutorBase` | what the parts of the executor share: the implementation, request threads, time |
| `TagIndex` | the index of tagged columns and its refresh |
| `RoleResolver` | the roles of a caller, from claims, cache and directory |
| `TokenKeys` | the published signing keys, cached |
| `Credential` | the on-behalf-of exchange and its caches |
| `Requests` | every handler of both executors as its steps, what it answers and audits |
| `AccessRules` | the decision over rules, roles and what is read |
| `SqlGuard` | the guard of a statement and the rewrite of its limit |
| `HttpGuard` | the guard of a call to an API, the names and the filter of its fields |
| `MCExecutor` | the parts of the executor in one instance for TLC |
| `Sources` | an entry of `DAS_SOURCES`: what starts, what serves it, what the audit line says |
| `SpecCache` | the OpenAPI document of an HTTP source, fetched once and kept |
| `VaultRef` | a reference to a secret, resolved once and kept |
| `Engines` | the SQL adapters' connections, ceilings and answers |
| `AgentLoop` | one question: turns, tool calls, transcript, the MCP server object |
| `Grounding` | the schema cache all asks share |
| `HarnessToken` | the token the command line and the evaluations ask with |
| `Promoter` | the promoter's two jobs |
| `Publisher` | the publisher's job |
| `MCAround` | these five and the four of the data sources in one instance for TLC |
| `AskServiceProofs` | theorems of `AskService`: types, one run per conversation, the reaper |
| `AskStreamProofs` | theorems of `AskService`: what a run tells, what readers get, the refinement of `AskContract` |
| `AgentLoopProofs` | theorems of `AgentLoop`: transcript, counts, the pool |
| `AccessProofs` | theorems of `TagIndex` and `RoleResolver` |
| `IdentityProofs` | theorems of `TokenKeys` and `Credential` |
| `GuardProofs` | theorems of `AccessRules`, `SqlGuard`, `HttpGuard` and `Requests` |
| `SourceProofs` | theorems of `Sources`, `SpecCache`, `VaultRef` and `Engines` |
| `ClientProofs` | theorems of `Grounding`, `HarnessToken`, `Publisher` and `Promoter` |

A definition named `X_Something`, standing before `X`, is `X` with a plausible
bug. No specification uses it: replacing `X` by it must break the property named
beside it in `PROJECT.json`, which shows that the property can fail.

## The ask service

State and code:

| Variable | Code |
|---|---|
| `conversations`, `tickets` | the keys of `STORE.conversations`, `STORE.tickets` |
| `conv[c]` | the `Conversation` object: `oid`, `turns`, `running`, `history` (the turn numbers answered), and `idle`, the age of `touched` |
| `ticket[t]` | the `Ticket` object: `log` is every event ever emitted, so an event's seq is its index; `kept` the seqs still in `Ticket.events`; `finished` and `age` are `finished_at`; `cancel` the event. `told` is whether the 202 was written, `cancelledAt` is history |
| `run[t]` | the run thread: its place in `run` and in `agent.ask`, the turn's calls still to be told, what the calls so far were, the stop reason, and the `prompt` it copied from the history |
| `ask[h]` | a handler thread inside `POST .../asks`: before the second lock, after it, after the 202 |
| `stream[s]` | a client of a ticket: the handler thread inside `_events` with its snapshot, and what the client `got` |

Objects outlive their place in the dictionaries: a reaped conversation still has
its record, because handlers and runs hold references to it. Ids are given once
and never again, so `c \in conversations` may become false and never true again.

Every action is what one thread does between two points at which another can
come in: a lock, a condition, an emit (atomic under the ticket's condition), a
write to a socket, a call out. So `POST .../asks` is `AskLookup` (first lock),
`AskNoQuestion`, `AskConflict` or `AskAdmit` (second lock), `AskRespond` or
`AskRespondFails` (the 202), `AskStart`; a run is `RunAccept`, `RunOpenBranch`,
`RunAsk`, then `RunPoll`, `RunTurn`, `RunStep`, `RunMilestone` per hop, then
`RunCloseBranch`, `RunTerminal`, `RunRemember`, `RunDone`, `RunAudit`,
`RunRelease`, with `RunRaises` wherever a call out may raise; a stream is
`StreamOpen`, `StreamLook` (snapshot under the condition), `StreamWake` (the
wait, ended by a notify or after `KEEPALIVE_S`), `StreamEmpty` (the second read
of `finished`, after the condition), `StreamSend` per frame, `StreamTail`,
`StreamBreak`. The state endpoint answers from one moment under the ticket's
condition and changes nothing: it is the operator `State`, asked in every state.
`Tick` and `Reap` are the clock and the reaper.

What is abstracted. An event is its type, a branch's state, whether a step was
refused, an error's kind, and `done`'s count of steps. A tool call is its
outcome: a statement that ran (`query`), an operation or catalog read
(`operation`, `lookup`: neither is a statement, both have a milestone), a
listing without a milestone, or a refused call (`failed`). A conversation's
history is the sequence of the turns answered in it. Time is a tick; ages stop
counting one past the TTL, where the reaper can no longer tell them apart. A
frame counts as received when it is written. `_terminal` cannot itself raise
with what either executor returns, so a run's branch is closed once; the model's
`RunRaises` comes before it.

`AskContract` forgets all of that. A ticket's stream is a phase (silent,
accepted, working, closed, decided, done), a conversation admits an ask when all
the earlier ones are done, and a ticket may be forgotten when it is done.
`AskService!ImplementsContract` reads the phase off the last event of the log.

## The executor

Two programs implement one contract: `services/warehouse-query-py` and
`services/warehouse-query-go`. Every module of the executor models both:
`impl`, chosen once, says which is deployed, and where the two differ a
definition says how. `now` is the clock. Time passes (`Tick`) only while some
thread waits for a call out of the process and none has waited as long as its
timeout, `CallMax`; a step between two calls takes none. What the world does
(a steward tags, an administrator grants, an authority rotates) happens between
any two steps.

| Module | Variable | Code |
|---|---|---|
| `TagIndex` | `index` | `TagIndex._by_tag` and `_at`, as the time each page of the catalog's listing was read: a set of pages shows a column as tagged when its page was read after it was tagged |
| | `tags[t]` | one thread inside `resolve`: look, fetch page by page, store, read back |
| | `catalogPages`, `taggedAt` | the catalog: how long its listing is, when a steward tagged a column |
| `RoleResolver` | `roleSource`, `claims` | `DAS_ROLE_SOURCE`, and what the caller's token claims |
| | `roleCache`, `roleNames` | the caller's entry in `_cache`, and `_role_names` |
| | `lookups[t]` | one thread inside `roles_for`, with the calls to the directory still to make |
| | `definedAt`, `grants` | the directory |
| `TokenKeys` | `keys`, `keysAt` | `_JWKS` and `_JWKS_AT`, `TokenVerifier.keys` and `fetched` |
| | `verifies[t]` | one thread verifying a token signed with a key |
| | `keyTimes` | the authority: from when to when it publishes a key |
| `Credential` | `obo`, `identity`, `secret` | the cached tokens per user and source, the service's own, the client secret |
| | `exchanges[t]` | one thread inside `on_behalf_of` and the call it is waiting for |
| | `world`, `faults` | whether the authority takes a federated assertion and the vault holds a secret; how many calls failed |
| `Requests` | `request` | one request: operation, surface, its world, its step, the reply |
| `AccessRules` | `ruling` | the rules, the caller's roles and what is read |
| `SqlGuard`, `HttpGuard` | `statement`, `call` | the input of a guard |

Actions and code. `TagsLook`, `TagsPage`, `TagsFail`, `TagsStore`, `TagsRead`
and `TagsReturn` are `resolve` between its two uses of the lock, the fetch
outside it. `RolesFor` is the part of `roles_for` before the directory is asked;
`Lookup`, `LookupFails` and `LookupDone` are the calls and what is kept of them;
two lookups that both read the names of the roles each store what was defined at
some moment of theirs (`NamesRead`), and the later store stands.
`Verify`, `KeysRead`, `KeysFail`, `KeysSet`, `KeysStamp` are `_jwks` and its
caller: Python assigns the document and its time in two steps that threads
interleave, Go under its lock. `OnBehalfOf`, `Identified`, `Issued`, `Arrived`,
`NotFederated`, `SecretRead`, `SecretMissing`, `CallFails` are the exchange: one
action per answer of a call out.

`Requests` has the handlers as data: `Handlers[impl, op, surface]` is the
sequence of the steps a handler takes, and a step is what it asks and, for every
answer it does not go on from, the status and the audit lines it ends with.
`GoOn`, `Stop` and `Reply` run any of them. A request's world says of what is
asked which answers are other than good. A tool's reply has no status; it is
given the one with the meaning of its text.

The guards and the rules keep no state. Their modules have one action that
submits any input of a small set, and the decision is operators over it; what
is checked is how several operators fit together (`JudgedOnce`: the guard
run again on its own rewrite; `NamedFieldsGo`: two walks bounded differently;
`ReadsReported`: what the guard reports against what the statement can read).
The parsers that build the trees are external: which defect a statement has is
an input.

Facts the model shows of one implementation only, and which the properties say
so: in Go a failed vault read counts as "no secret" until the process ends, and
a key once known is accepted for as long as it runs; Go's `list_tables` tool
does not audit what the engine denies.

## Data sources

| Module | Variable | Code |
|---|---|---|
| `Sources` | `duckDBSupported` | whether the Go executor is built with `-tags duckdb` |
| | `source` | one entry of `DAS_SOURCES`, as `load_sources` and `LoadSources` read it |
| | `answer` | one request about it: what the engine was reached with, what was audited |
| `SpecCache` | `spec` | `_specs`, `specs`: the document kept for the source |
| | `calls[t]` | one thread inside a call: what it read, the operations it goes by, the address |
| | `published`, `named` | the API's document of the moment, whether the source has a `base_url` |
| `VaultRef` | `cache`, `resolves[t]` | `_CACHE` and `vaultRefCache`, one thread inside `resolve` |
| | `version`, `handedOut` | the vault; history |
| `Engines` | `engine` | the adapter and the tier of the source |
| | `kept` | `pools` of the Go backends and `_connections` of the Python DuckDB: which pool is kept for a key |
| | `pools` | every pool or connection there has been, open or closed, with whose it is |
| | `shared` | the one result Python's DuckDB connection holds |
| | `requests[t]` | one thread inside `list_tables`, `describe` or `run` |

`Sources` decides as the code does, place by place: `EntryRefused` is what start-up
refuses, `Adapter` the router, `PrincipalToken` whom the request is made as,
`Reached` what the engine then sees, `CredentialKind` the word in the audit line.
An entry is any combination of what the code looks at; where the two executors
compare a kind differently (Python as written, Go ignoring case and, in the router
only, blanks), take a password from a DSN's parameters or a scope from the entry differently,
so does the model.

`LookSpec`, `FetchSpec`, `StoreSpec` and `LoadSpec` are the steps of `_spec` and
`operations`, with the lock of Go around each but the fetch; `PolicyOf` reads the
address. `Resolve`, `ManagedIdentityToken`, `GetSecret` and `KeepSecret` are `resolve`
and `resolveRef`: neither holds a lock across them. In `Engines`, `Schema` is the
allow-list, `OpenConnection` Python's connection per request, `OpenFile` the one
connection to a DuckDB file, `Pool` and `Store` Go's two uses of its lock with the
pool made between them, `Query` a statement and what it yields, `Fetch` the second
read of Python's shared result. Drivers, catalog queries and row conversion are
reduced to how many rows come back, and of whose statement.

## What asks the executor

| Module | Variable | Code |
|---|---|---|
| `AgentLoop` | `backend` | `DAS_LLM_PROTOCOL`, `DAS_LLM_ACCEPT_DEGRADED` |
| | `ask` | the loop of `agent.ask`: where it is, steps, turns counted, calls counted, results not yet given, why it ended |
| | `transcript` | `Conversation._messages` of the protocol in use |
| | `pool` | the calls of the turn, in the order asked for: queued, in the lock, sent, returned, raised, dropped |
| | `server` | `McpServer._id` and `_mu` |
| `Grounding` | `schemaCache`, `prefetch[a]`, `clock` | `_CACHE`, one ask inside `schema_text`, time |
| `HarnessToken` | `supplied`, `cached`, `handed`, `mode`, `time` | `DAS_TOKEN_<UPN>`, `_CACHE`, what `token_for` returns, `DAS_HARNESS_AUTH` |
| `Promoter` | `audited`, `abstained` | the executor's and the agent's log, as how often a line is in it |
| | `names`, `settings` | the catalog's column names, the deployment |
| | `job`, `products`, `drafts` | the job that runs, and what it and earlier ones wrote |
| `Publisher` | `publication` | the job: candidate, target, part, what was compared |
| | `items`, `entries` | what the dashboard tools hold by part and name, and the catalog's dashboards |

`AgentLoop` is the loop in full, where `AskService` has only what its events
show: `Hop` polls the cancel and sends the question or the last turn's results,
`UsesTools` hands a turn to the pool, `StartCall`, `Lock`, `Send`,
`CallReturns` are a worker, `Read` takes the results in the order asked for,
`Raise` waits for the siblings of a call that raised, as leaving the executor's
`with` does. `Promoter` and `Publisher` jobs may end at every call to another
service and are started again; of a publisher's call the answer alone may be lost
(`WrittenUnseen`). Superset's dashboard is found or created first, then its chart is written
with the dashboard in it, and last the dashboard is put again so that it holds the chart: the
attachment is a part of its own (`attachment`), put even where the dashboard was kept. A template is what canonicalisation makes of a statement, a
title a word with or without a mark that no name may have, so that two titles
share a slug.

## Composition

`MCExecutor` and `MCAround` extend the modules of their side; a behaviour moves
one part while the others rest. That is enough because the parts share no
variable but `impl` and `now`: whatever interleaving of parts the process can
have, each part sees its own steps, others' steps that change nothing of it, and
ticks that its own `MayTick` allows (no call of any part outlasts `CallMax`). So
every behaviour of the whole, projected to a part, is a behaviour of that part's
specification, which is the one the theorems are about.

What the parts promise each other is stated on one side and assumed on the other.
`Requests` takes the outcome of the key document, the roles, the tags and the
token as answers in its world, and the token with `TokenLeft` to live: that it is
alive when handed over is `TokenHanded` of `Credential`, that an unknown
catalog is `unavailable` and not "nothing tagged" is half of `TagsInTime` of
`TagIndex`. `Engines` is given the token `Sources` says an engine is reached with, so
`RunsAsAsker` and `ServedAsConfigured` together say whose rights a statement has. `AskService` takes from `AgentLoop` that a run's calls are over when
the run is (`CallsEndWithTurn`) and why it ended.

## Runs

Each `.cfg` gives the constants. The runs named `ask_` are of `MCAskService`.

| Run | Question | Bounds |
|---|---|---|
| `ask_store` | do asks, runs and the reaper keep a conversation consistent, and does it all implement the contract? | 1 conversation, 3 asks, 2 connections, TTL 0, two hops of one call |
| `ask_streams` | what does a ticket's list keep, and what do its readers get? | 1 ask, 1 reader, two hops of one call, a list of 4 events, cancel at any moment |
| `ask_live` | does everything that starts come to an end? | 1 ask, 1 reader, one hop, cancel |
| `ask_stream_cut_off`, `ask_lost_202`, `ask_steps_lost`, `ask_cancel_leaks` | one documented promise each, that the code does not keep | the smallest instance that shows it |
| `executor` (`MCExecutor`) | do both executors keep what they promise about tags, roles, keys, tokens, requests and guards? | 2 threads, calls of 1 tick, lifetimes of 1 (a token 3, its margin 2), clock to 2, 3 or 4 by part; the rest below |
| `describe_leak` (`Requests`) | does every description withhold what the caller may not read? | one request |
| `engine_rows` (`Engines`) | does an answer have its own statement's rows where a connection is shared? | 2 threads on every adapter |
| `around` (`MCAround`) | do a question, the schema cache, the harness token, the promoter and the publisher keep what they promise, and is a source served as configured, by one document, one secret and the asker's own connection, with whole answers? | 3 steps of up to 3 calls, 2 workers; 2 asks, subjects and tables; 2 jobs of each kind, thresholds of 2 people and 3 runs; every entry; 2 threads, 3 documents, 4 versions, 2 tokens, a ceiling of 1 row, 1 pool kept of 4 opened |
| `candidate_beside` (`Promoter`) | does running the promoter again update a candidate? | 2 lines of the log, 2 jobs |

Why the bounds suffice.

In `ask_store` three asks are one finished and
remembered, one running and one being admitted; two connections are needed for
two handlers to pass the first lock together; two hops let a run make a statement
and answer from it; with TTL 0 an age is within the limit or past it. One
identity is enough there: a conversation and its tickets are only ever reached
with the identity that made them, and the theorems hold for any number. In `ask_streams` the list of 4 overflows at the
fifth event while a run emits up to nine, with steps to drop and, later,
none; one reader is enough since readers never write what another reads.
`ask_streams` and `ask_live` write every 202; `ask_store` also loses them and
fails audit lines.

In `executor` two threads are what an overlap of refreshes takes (the threads
share one entry, and a third could only store over what a second can); with calls
and lifetimes of one tick, `Horizon` gives each part time for an answer to be
read, to be stored late and to be looked at after its life. The listing grows to
three pages of which two are followed, and one of the two columns is on the page
that is not. Two events let the administrator move a role from one part of the
directory to the other, with one role, since roles share nothing but the list of
names. Two keys are the least that can rotate. Two users of two sources with a scope
each are what a cache's key could confuse; two exchanges let the second meet what
the first left, one fault hits either. A request meets two things that go wrong (`MaxWrong`):
the one that ends it and one before or after it; the theorems hold for any number. The rules are one of everyone's and one of a role's; a statement reads one column
of at most two tables, which is all `Targets` can tell apart; a schema nests to
8, past both depths the guards stop at (`SchemaDepth`, and `FilterDepth` is the
code's 8).

In the data sources of `around` two threads are a race to be the first: to
fetch a document, to resolve a reference, to make a pool. Three documents are one for
each of two threads and one published after both; four versions are one more than two threads and a
later one can have. One row is at the ceiling and two are past it (`Query` yields up to
`MaxRows + 1`); with one pool kept and two tokens the second pool must close the
first, while its owner may hold it, and four pools let each thread make one twice. An entry is
not bounded: all 9,990 that differ in what the code looks at are tried in
both executors.

In the rest of `around` three steps are two that ask for tools and one that answers, or a
pause between them; three calls on two workers leave one queued when another
raises. Two asks of two subjects overlap in the schema cache and two tables are
one too many. The token lives 3 ticks of a clock to 6, so it expires twice. Two
people and three runs are at the thresholds, so that people alone do not reach the second; four
lines of the log leave room for the
same person twice or three times. Two jobs of one candidate are one that fails and one that
finds what it left, of the same title or another. The run (943,455 states) starts in one part or another, and a
part has the same pair of interchangeable values as its tables, its people, its titles or its tokens. Parts
of it come to their end at these bounds (an
ask is answered, jobs and log lines are used up, the clocks stop), so its
configuration, and that of `candidate_beside`, do not check for deadlock.

Named bounds. Of the ask service: `MAX_EVENTS`, `MAX_STEPS` and `TTL` are the code's settings, made
small; `MaxCalls` bounds a turn's tool calls; `Cancellable` the tickets that may
be cancelled; `Cids` and `Tids` the ids there are to give. Deadlock is checked:
the clock never stops, so a state without successors would be an error of the
model. Of the executor: `MaxNow` and `Horizon` (the clock), `CatalogMax`,
`RoleEvents`, `MaxExchanges`, `MaxFaults`, `MaxNesting`; when every exchange is
asked for `AllAsked` keeps the state. Of the data sources: `MaxSpecs`, `MaxVersions`
and `MaxPools` (when all pools are opened `Exhausted` keeps the state). Of the rest: `MaxCalls`, `Horizon`,
`LastTime`, `MaxLines`, `MaxJobs`, `MaxCandidates`, `MaxPublications`. The code's
own limits (`MAX_PAGES`, `MAX_STEPS`, `TOOL_CONCURRENCY`, `MAX_TABLES`,
`MaxRows`, `MaxItems`, the lifetimes) are made small.

What each property says is in the comment above it. In short:

- `OneRunPerConversation`, `ReapSparesRuns`, `PromptHoldsEarlierAnswers`: two
  locks in `_ask`, an unlocked append in `run` and the reaper together keep one
  live ask in a conversation, never lose it under that ask, and hand every
  answered turn to the next prompt.
- `EndStaysVisible`: overflow costs steps and nothing else (`OnlyStepsDropped`); the
  state endpoint shows a finished ticket with its one terminal event and its `done`, and no
  other with a `done` (`StateShowsTheEnd`); and the `done` of a run that did not raise counts
  all steps (`DoneCountsReturned`). What it says of one that raised is `ask_steps_lost`.
- `CancelOutlivesOneTurn`, `RefusalNeverSmoothed`: what a cancel bounds, which is
  less than what is documented of it (`ask_cancel_leaks`), and that one refused call anywhere in the run decides the outcome.
- `ReaderLossless`: across breaks, resumes and trimming a reader misses dropped
  steps and nothing else, up to the last frame it has, and a response is closed
  only after the run has finished.
- `RunsFinish`, `StreamsEnd`, `StoreDrains`: liveness.
- `TagsInTime`: a catalog that cannot be read is not one without tags
  (`NeverUnknowing`); a tagged column is withheld one refresh and one fetch later,
  although an older fetch may be stored over a newer (`TaggedInTime`).
- `RolesInTime`: a withdrawn role is used for one cached life and one lookup
  (`RevokedInTime`); a role that is held is never lost, not by a cached answer and
  not while it moves from group to application role (`HeldRoleKept`).
- `KeysInTime`: a withdrawn key is refused (Python) and a published one accepted
  (both) within one life of the document and one read.
- `TokenHanded` (`TokenOfAsker`, `AliveWhenHanded`), `OwnFailureOnly`: a source is reached as the
  user who asks, with a live token; in Python no failure is remembered.
- `DecisionRecorded`, `SurfacesAgree`, `TokenLiveAtEngine`, `AnswerWithholds`:
  every decision leaves a line on every path; routes and tools decide alike; the
  token outlives the guard and the rules; denied names are left out of answers.
- `DenialStands`, `JudgedOnce`, `ReadsReported`, `CallGuarded`
  (`CallAsAuthorised`, `NamedFieldsGo`): no allowance of whatever role outweighs a denial, read in
  the denial's letters or, by a star, of the denial's table (the rest is
  [below](#where-the-code-and-its-documents-disagree)); the guard's rewrite passes the
  guard unchanged; every column a statement may read is asked about, unless a table written with
  its schema has a CTE's name; a call
  reaches the operation that was authorised; a field that can be denied can be
  removed.
- `TranscriptAnswered`, `AnswerAccounts`, `CallsEndWithTurn`: whatever pauses,
  tools and refusals come, the model is sent a transcript it takes; the counts
  are of every turn and call; no call outlives its run.
- `SchemaOfCaller`, `HandedAlive`: caches hand over what is the caller's own and
  not too old.
- `ThresholdHolds`: nothing below the thresholds, of people and of runs, is ever in the catalog.
- `PublishedWhole` (`RecordedProven`, `SuccessIsWhole`): a dashboard in the catalog answered what
  the executor answers; a job that reports success has left every target whole,
  the chart on its dashboard, after whatever an earlier job left half-made.
- `ServedAsConfigured`: where an engine saw the user, a stored secret or this service's identity,
  the audit line says so, and a line of Python's that says the user is of an engine that
  saw them (`AuditTellsCredential`, `UserMeansAsker`); a source is answered for on
  one surface, and a PostgreSQL gets one password. What the line says of a DSN's own user or of a
  file is not part of it. `ImplementationsAgree`: the same
  entry means the same to both executors.
- `CallsGuarded`, `SpecSettles`: a call has a document to be checked against, and once one
  is kept and nobody is reading another it stays, and checks and address are both of it.
- `HandedOutBounded`: a process goes on with no more versions of a secret than
  threads set out to read it at once, however often it is rotated.
- `RunsAsAsker`, `PoolsAccounted`: where the engine sees users, a statement is on a connection of
  its asker's token; no pool is lost to a race, too many are not kept, and one is closed under
  a statement only where others need the room.
- `AnswerWhole`: nothing outside the allow-list is described, and an answer has its own
  statement's rows, all of them or marked as cut off, but on the one adapter `engine_rows` is about.

## Fairness

`Fairness` in `AskService` is weak fairness of what the operating system and
timeouts guarantee: a run thread goes on (model and tool calls return or raise),
a handler that has admitted an ask goes on to its end, a stream handler goes on
(its wait is bounded by `KEEPALIVE_S`), the reaper and the clock go on. Clients
owe nothing: opening, asking, sending a body, reading, cancelling, and breaking a
connection have no fairness. Within a run no choice is fair to anything: the
model may pause or ask for tools at every hop, and what ends the run is the
ceiling. `StoreDrains` is checked with `ClientMayVanish` and `AuditMayFail` off:
with either the code does keep a conversation for ever, which `ask_lost_202`
shows for the first.

## Proofs

TLAPS checks these for every value of the constants: any number of identities,
threads, asks, columns, roles, keys, users, sources, people and candidates, and
any bounds that satisfy the named assumptions of the modules. Each is `Spec =>
[]P` of its component's specification for the property named, but for
`ReapSparesRuns`, `SpecSettles` and `KeptForGood`, which are properties of steps, and
`ImplementsContract`, which is the specification of `AskContract`.

| Module | Theorem | Property |
|---|---|---|
| `AskServiceProofs` | `TypeCorrect` | `TypeInv` |
| | `OneRun` | `OneRunPerConversation` |
| | `ReaperSparesRuns` | `ReapSparesRuns` |
| `AskStreamProofs` | `KeepsContract` | `ImplementsContract` |
| | `ReadersLoseNothing` | `ReaderLossless` |
| | `LaterAsksKnowEarlierAnswers` | `PromptHoldsEarlierAnswers` |
| | `EndNeverLost` | `EndStaysVisible`, from `OverflowDropsSteps` and `StateTellsTheEnd` |
| | `CancelBounded` | `CancelOutlivesOneTurn` |
| | `RefusalsStand` | `RefusalNeverSmoothed` |
| `AgentLoopProofs` | `CallsEnd` | `CallsEndWithTurn` |
| | `AlwaysAnswered` | `TranscriptAnswered` |
| | `AlwaysAccounted` | `AnswerAccounts` |
| `ClientProofs` | `SchemaBelongsToCaller` | `SchemaOfCaller` |
| | `TokenHandedAlive` | `HandedAlive` |
| | `PublishedMeansWhole` | `PublishedWhole`, from `OnlyProvenRecorded` and `SuccessMeansAll` |
| | `PublisherTyped` | `PublisherType` |
| | `ThresholdAlways` | `ThresholdHolds` |
| `AccessProofs` | `TagsKnownInTime` | `TagsInTime`, from `NeverUnknowingAlways` and `TaggedColumnsWithheld` |
| | `RolesTyped` | `RolesType` |
| | `RolesFollowInTime` | `RolesInTime`, from `RevocationTakesEffect` and `HeldRolesServe` |
| `IdentityProofs` | `RotationsSeenInTime` | `KeysInTime` |
| | `LiveTokenOfAsker` | `TokenHanded`, from `SourceReachedAsAsker` and `TokenAliveWhenHanded` |
| | `FailsByItself` | `OwnFailureOnly` |
| `GuardProofs` | `DenialAlways` | `DenialStands` |
| | `JudgedAlways` | `JudgedOnce` |
| | `ReadsAlwaysReported` | `ReadsReported` |
| | `CallAlwaysGuarded` | `CallGuarded`, from `CallAlwaysAsAuthorised` and `NamedFieldsAlwaysGo` |
| | `TokenAlwaysLive` | `TokenLiveAtEngine` |
| | `DecisionAlwaysRecorded` | `DecisionRecorded` |
| | `SurfacesAlwaysAgree` | `SurfacesAgree` |
| | `AnswerAlwaysWithholds` | `AnswerWithholds` |
| `SourceProofs` | `AlwaysServedAsConfigured` | `ServedAsConfigured` |
| | `ExecutorsAgree` | `ImplementationsAgree` |
| | `CallsAlwaysGuarded` | `CallsGuarded` |
| | `DocumentSettles` | `SpecSettles` |
| | `VersionsBounded` | `HandedOutBounded` |
| | `SecretSettles` | `KeptForGood` |
| | `StatementsRunAsAsker` | `RunsAsAsker` |
| | `PoolsAlwaysAccounted` | `PoolsAccounted` |
| | `AnswersWhole` | `AnswerWhole` |

Assumptions. Sizes, times and bounds are natural numbers (those the code divides
a thing by or starts from are not 0), sentinels such as `None` and `Never` are
not of the sets they stand beside (the word for "no table named", `NoName`, is no
alias), `PageOf` and `ScopeOf` are functions on their sets, `Tables` and `People` are
finite, so are the `Threads` that share a secret, and there is a subject. Four more say something about the code's own numbers.
`CredentialAssumption` has `CallMax < Life` and `CallMax <= Margin`: in the code a
call takes 30 s at most, a token lives an hour and a cached one must have 60 s
left. Without the second, a cached token could be handed over dead. `HttpAssumption`
has `SchemaDepth < FilterDepth`: the field list follows a schema to depth 6, the
filter a response to depth 8, and with equal depths a response put in a list
would hide the deepest field. `TokenAssumption` of `Requests` has `TokenLeft > 0`,
which is `TokenHanded` on the other side. TLC evaluates every assumption.

The arguments:

- Ask service, one run. `TypeInv` is inductive with three parts that are more than types
  (`RunReady`, `AskReady`, `StreamReady`: what a thread's next step dereferences
  is there). `OneRunPerConversation` is not inductive: nothing in it says why the
  second lock may trust `conv.running`. `AskInv` adds `Marked` (an active ask's
  conversation has `running` set to exactly that ticket, so two active asks of
  one conversation would be one ticket) and `HeldOnce` (a ticket held by a
  handler has no run yet and no second handler). `ReapSparesRuns` follows from
  `Marked`: the reaper spares a conversation whose `running` is set, and no other
  step takes one out of the store.
- Ask service, one ticket. `StoryInv` says for each place a run can be at what its
  log holds by then (`Spoken`), how it ends (`Ends`), what has been counted
  (`Counted`), what a cancel still allows (`Bounded`) and what the list has kept
  (`KeptWhole`). `OverflowDropsSteps`, `StateTellsTheEnd`, `CancelBounded` and
  `RefusalsStand` are read off it.
- Ask service, prompts. `Owned` is `Marked` for the whole life of a run, up to the
  release: as long as a ticket's thread has not ended, its conversation is its own, so the unlocked append
  meets no other. `InTurnOrder` says what the histories then are.
- Ask service, readers. `Following` relates a reader's snapshot, its cursor and what it `got`
  to the ticket's list as it was: the list only loses steps, and only gains at its end.
- The refinement. `KeepsContract` takes each action to the step of `AskContract` it is,
  or to a stutter: an emit is a step by its last event alone (`PhaseAppended`), and
  `StoryInv` has the phase before it. The reaper's step needs `Marked`.
- Agent loop. `LoopInv` counts: ids already sent are at most the server's
  counter, the thread in the lock has the next one (`IdsCounted`), and the calls
  that run are no more than the workers of the pool; a run leaves the pool when none
  runs. `TalkInv` says of every message but the last that it is `Settled` (its uses
  are answered directly after it, in order), and of the last one who owes its answers: the calls in the pool, or
  the hop that has them (`Owed`). `CountInv` has the counters as the number of
  the transcript's turns and uses.
- Grounding. What is cached for a subject was described to it within one
  prefetch of the entry's time, and its tables are within the bound (`CacheOwn`).
- Harness token. What the cache takes a readable token to live is not past what
  the token names (`CacheHonest`).
- Tag index. `TagsInv` says of the shared index, and of what a thread is about to
  store, that it is a whole read (`Whole`: a column on a page it lacks was tagged
  after every page of it was read, since a listing only grows) and was
  read within one fetch (`ReadSince`, `IndexSound`). The age of an index is counted
  from when it was stored, so one that an older fetch has replaced is one fetch
  older than it seems, and never more: that is the `CallMax` in `TaggedInTime`.
- Roles. `RolesInv` measures an answer twice: every role in it was still given at a time
  (`Backed`), and every role held since that time is in it, or the read that
  will find it is still to come (`Given`). The order of the reads (`Orderly`) is why a role that moves between the parts
  is not missed. A cached answer is as good as the lookup that made it
  (`AnswerSound`); what the administrator does takes effect now, so it makes no
  answer worse than it was (`TakesEffectNow`). A role counts as held only if it
  was defined when the process started (`Standing`): names are read by the first lookups, all of which
  find such a role, and the code may never learn of one defined later.
- Token keys. A set of keys is as of a time when what it holds was not withdrawn
  before it and what it lacks was not published before it (`AsOf`). `KeysInv` has the shared document
  as of `keysAt - CallMax`, also between Python's two assignments: no time passes
  between them, so a thread that comes in between sees a document newer than its time.
- Credential. Every cached token is of its key's user, and `until` is past `exp`
  by one call at most; hence the assumption on `Margin`. A thread that fails in
  Python has failed a call, or has been refused by the authority and found the
  vault empty (`Relies`).
- Rules and guards. They keep no state, so the invariant is the type of what is submitted (`GuardInv`, `HttpInv`) and
  the work is in lemmas about the operators: a limit that is let through is a count within the cap, whichever of the limit's forms
  was rewritten; what `Targets` lists covers whatever an alias or a CTE can stand
  for; the filter meets a field's object at most one level deeper than the schema's walk does.
- Requests. The handlers are data, so what they promise is proved of the data, handler by
  handler, and carried through a request by an invariant. Of the data: the step before
  `engine` is `token` (`TokenFirst`); no end is an answer's, and a refusal by whoever decides
  has a line, but for the one handler excused (`HandlersTold`); the two surfaces of an
  operation ask the same in the same order, stop on the same answers and, but for the two
  answers of an engine the property leaves out, decide the same (`AllAgree`; the tools' dispatcher is
  taken through `ToolsAgree` and `DispatchedTold`); an operation that filters on one
  side filters on every side, but for Go's `describe_operation` (`WhoFilters`).
  `TokenInv` has that no time passes between the token and the engine, `RequestInv` that no step
  behind a request would have ended it, that a filter behind it has hidden what it denies, and
  that one that has ended stopped where it is or came past its last step.
- Publisher. From the comparison that agreed until the dashboard is recorded, what
  was shown is the question (`PublisherInv`), and nothing else writes an entry.
  For `SuccessIsWhole`, `JobRelies` has, for the target a job is at, the parts up to
  its own held, and, as long as every comparison agreed, the targets before it
  settled. What an earlier job left half-made satisfies it, since a part is found or written again by its name.
- Promoter. The two logs only grow (`LogsGrow`), so what a job carries on towards
  the catalog stays past both thresholds once it is (`MorePeople`, `MoreRuns`,
  `PromoterInv`), wherever the job ends.

- Configuration. `ConfigInv` has that a loaded entry was not refused and that the
  answer is what the decisions make of it; `ServedRight` takes those apart by adapter,
  `OtherSurfaceFails` has that an adapter is of one surface.
- An API's document. `CallRelies` says what a thread has where it is: one that found the
  document `settled` (kept, with nobody reading another) has operations and address of it, for
  nobody reads again once one is kept; in Python what is stored is a document the API has published.
- Secrets. Each version handed out beyond the first was being read when the first was
  kept, so `HandedOutBounded` counts those still reading with those handed out; a thread
  moves from the one to the other (`FewerResolve`).
- SQL adapters. `EnginesInv` ties the dictionary of pools, the pools and the requests:
  what is kept is open and under its own key (`KeptOpen`), what is open is held
  (`OpenIsHeld`), one just made is its maker's alone (`OwnPools`), there are no more
  than the limit (`PoolsFew`), a request that has a pool has one of its key's, usable unless the limit
  is reached (`PoolRelies`), and rows are counted against the statement they came
  from (`RowsRely`).

By the [composition](#composition) the theorems of a part hold of the process.

Only model-checked:

- `RunsFinish`, `StreamsEnd`, `StoreDrains`: liveness under fairness, and
  `ENABLED` with it, are outside what the prover does.

## Where the code and its documents disagree

Each is a run that TLC must find violated, with the lines quoted in
`PROJECT.json` under `findings`:

- `ask_stream_cut_off`: `_events` reads `finished` after it lets the condition
  go, so a stream can close without the terminal event and `done`.
- `ask_lost_202`: a socket that dies under the 202 leaves a ticket nothing runs
  and a conversation nothing releases or reaps.
- `ask_steps_lost`: the `done` of a run that raised counts no steps, although steps were told
  (`server.py:188`, `193`); `agent/contract/events.schema.json:227` has it equal the number of
  step events emitted.
- `ask_cancel_leaks`: a cancel is polled between hops (`agent.py:559`), so what the turn in flight
  does is still told, and a last turn is still answered; `docs/20-ask-service.md:140` promises
  nothing but `error` and `done`.
- `describe_leak`: `describe_operation` of the Go executor lists every field the
  document names, also those denied to the caller;
  `docs/15-http-sources.md:336` says that it reports only the fields the caller may read.
- `candidate_beside`: a candidate is stored under a slug of its title, and the
  title depends on what the catalog calls the column when the job runs; a comment in
  `promoter/publish_candidates.py` has it that running the promoter again updates
  a candidate.
- `engine_rows`: the Python executor gives every request the one DuckDB connection of
  a source, and a second statement replaces the result the first has yet to fetch
  (`sources.py:559`): an answer has the rows of another caller's statement.

Others are visible in the models and have no run of their own.

- `done` is streamed before the conversation is released, so an ask posted on it
  may be refused with 409.
- The reaper can take a conversation between the two locks of `_ask`, whose run
  then works in a conversation that answers 404.
- The outcome compares the raw stop reason with one provider's word for a refusal
  (`server.py:233`), so a turn another provider filtered ends as an abstention or an answer
  (`ModelRefusalIsError`; `agent/model.py:134` has the raw reason for readers of logs only).
- A star is not refused where the denial leaves the table open (`*.ssn`): neither executor expands it
  for the test (`access.py:376`). `docs/05-authorization.md:89-92` and `access.py:218-220` say that
  `SELECT *` cannot be used to reach a withheld column. `StarReachesNothing` says so and is false.
- Python compares a column with a denial as both are written (`fnmatch`, `access.py:387`), Go in one case;
  and both compare a star's table with a denial's as written. `DenialStands` names both exceptions.
- A rule that names no role is everyone's to Python (`access.py:308`) and nobody's to Go (`access.go:105`).
- A table written with its schema that has the name of one of the statement's CTEs is taken for the CTE, and
  no rule is asked about it; `docs/16-go-parity.md:136-141` has every table reported
  (`TablesReported`, which is false).
- An artefact that disagrees with the executor stays live, under the entry an earlier job
  recorded; only the job's exit says so (`publisher/run.py:141`).
- A describe that fails while a schema is prefetched leaves its table out of that text for the cache's life.
- The answers of a turn's other calls are lost with the one that raises.
- A stored credential of a scheme nobody knows starts, and fails at the first
  request; `docs/09-adding-a-source.md:94` lists it among what is refused at start-up.
- The audit line says `identity` of a PostgreSQL reached as its DSN says and of a file
  nobody is asked for; `docs/09-adding-a-source.md:102` has it say what the engine saw
  (`LineSaysWhatWasSeen`, which is false).
- The Go executor compares a kind at start-up as written and in the router without its blanks
  (`sources.go:121`): a padded `duckdb` of tier `user` starts, and its line says `user`.
- The Go executor leaves a `?password=` in the DSN of a `user` source, where the driver takes it before the
  token (`sources_postgres.go:58-72`): the line says `user`, the engine saw the DSN's own.
  `UserMeansAsker` is of Python's lines for these two.
- The Go executor asks a token for the deployment's scope whatever the source's own is
  (`main.go:308`, against `sources.py:86`).
- `keyvault:` with no name after it is refused by Go, while Python asks the vault for it (`vaultref.py:74-84`).
- A PostgreSQL DSN of key=value pairs is one the Python executor connects with and the Go one
  does not (`sources_postgres.go:54`).
- While two threads read an API's document and it changes, a call may be checked against one and sent
  by the other; and the Go executor keeps a refusal with a JSON body as the document
  (`sources_rest.go:77`). `CallsGuarded` claims what holds beside these.
- The Go executor answers its own refusal of a schema with 502 (`main.go:516`), which
  `http_routes.go:226` calls a mistake when it was made of operations.

## Not modelled

`PROJECT.json` lists every component with its status. What is left out, and why:

- Drivers, catalog queries and row conversion of the data sources, and what an API
  answers: in `Engines` how many rows come back, in `Requests` an outcome.
- The shape of a Databricks response: `Engines` has the documented one, with all its rows; from the emulator's
  the adapter reads none (`docs/09-adding-a-source.md:143`).
- The parsers under the guards, external; which trees count as which defect
  is an input of `SqlGuard`, and the wrap it gives the ceiling of a set operation is left out.
- Authentication of a caller of the ask service beyond its key document
  (`TokenKeys`) and the harness token: single tests of claims.
- JSON-RPC framing, message translation, prompts, rendering, token usage:
  formatting.
- The noise on the promoter's published counts: no decision reads it.
- Two publishers at once: whether a dashboard tool accepts a second item of a name
  is not in this repository. The publisher's plan in Go is a second
  implementation of a pure function that `Publisher` takes as an input.
- Skills and the command line, the language model stub, the evaluation, load
  and end-to-end harnesses, seeding, provisioning, deployment declarations,
  scripts and the site: sequential set-up, test code and builds.

## Plan

What is left, in the order of what it would add:

1. The run in `AskService` as an abstraction of `AgentLoop`, by a refinement
   mapping from the pool to the calls still to be told.
2. Two publishers at once, when the tools' rules for names are pinned down.
