----------------------------- MODULE AgentLoop -----------------------------
(***************************************************************************)
(* One question: the loop of model turns and tool calls (ask of agent.py), *)
(* the transcript as each protocol keeps it (models/), the pool a turn's   *)
(* calls run in, and the server object they share (mcp_client.py).         *)
(***************************************************************************)
EXTENDS Integers, Sequences, FiniteSets

CONSTANTS MAX_STEPS,
          TOOL_CONCURRENCY,
          MaxCalls           \* bound: the tool calls of one turn

ASSUME LoopAssumption == /\ MAX_STEPS \in Nat \ {0}
                         /\ TOOL_CONCURRENCY \in Nat \ {0}
                         /\ MaxCalls \in Nat \ {0}

VARIABLES backend,           \* DAS_LLM_PROTOCOL and DAS_LLM_ACCEPT_DEGRADED
          ask,               \* the loop: where it is, what it has counted
          transcript,        \* Conversation._messages, the history aside
          pool,              \* the turn's calls, in the order they were asked for
          server             \* McpServer: _id, and who holds _mu
loopVars == <<backend, ask, transcript, pool, server>>

Slots == 1 .. MaxCalls
Free == 0

Message(role, ids) == [role |-> role, ids |-> ids]
CallStates == {"queued", "locking", "counting", "sent", "result", "raised", "dropped"}
NoCalls == <<>>

LoopType ==
    /\ backend \in [protocol : {"anthropic", "openai"}, accepts : BOOLEAN]
    /\ ask \in [pc : {"connect", "start", "hop", "model", "tools", "raising", "finished", "raised"},
                steps : 0 .. MAX_STEPS, turns : 0 .. MAX_STEPS, hops : 0 .. MAX_STEPS,
                calls : Nat, read : 0 .. MaxCalls, asked : BOOLEAN,
                pending : Seq((1 .. MAX_STEPS) \X Slots),
                cancelled : BOOLEAN, reason : STRING]
    /\ transcript \in Seq([role : {"question", "assistant", "partial", "results"},
                           ids : Seq((1 .. MAX_STEPS) \X Slots)])
    /\ pool \in Seq([state : CallStates, id : Nat])
    /\ server \in [id : Nat, mu : Slots \cup {Free}]

LoopInit ==
    /\ backend \in [protocol : {"anthropic", "openai"}, accepts : BOOLEAN]
    /\ ask = [pc |-> "connect", steps |-> 0, turns |-> 0, hops |-> 0, calls |-> 0, read |-> 0,
              asked |-> FALSE, pending |-> <<>>, cancelled |-> FALSE, reason |-> ""]
    /\ transcript = <<>>
    /\ pool = NoCalls
    /\ server = [id |-> 0, mu |-> Free]

-----------------------------------------------------------------------------
(* The model seam: what a backend can do, what it adds to its transcript.  *)
REQUIRED == {"tool_use"}
WANTED == {"prompt_caching", "cache_usage", "effort", "server_fallback", "refusal"}
Capabilities(protocol) == IF protocol = "anthropic" THEN REQUIRED \cup WANTED
                                                    ELSE {"tool_use", "refusal"}
Usable(b) == /\ REQUIRED \subseteq Capabilities(b.protocol)
             /\ WANTED \subseteq Capabilities(b.protocol) \/ b.accepts

(* give: one message of blocks, or a message for each result; none for none. *)
AnthropicGive(results) == IF results = <<>> THEN <<>> ELSE <<Message("results", results)>>
OpenAIGive(results) == [i \in DOMAIN results |-> Message("results", << results[i] >>)]
Give(results) == IF backend.protocol = "anthropic" THEN AnthropicGive(results) ELSE OpenAIGive(results)

(* A turn as the two protocols tell it; only one of them pauses. *)
Turns == {"answer", "refusal", "tool_use"} \cup (IF backend.protocol = "anthropic" THEN {"paused"} ELSE {})

-----------------------------------------------------------------------------
Goes(pc) == ask' = [ask EXCEPT !.pc = pc]
Ends(pc, reason) == ask' = [ask EXCEPT !.pc = pc, !.reason = reason]

(* initialize, initialized and tools/list, of every server in turn. *)
Connect == /\ ask.pc = "connect"
           /\ server' = [server EXCEPT !.id = 3]
           /\ Goes("start")
           /\ UNCHANGED <<backend, transcript, pool>>
ConnectFails == /\ ask.pc = "connect"
                /\ Ends("raised", "unreachable")
                /\ UNCHANGED <<backend, transcript, pool, server>>

Require == /\ ask.pc = "start"
           /\ IF Usable(backend) THEN Goes("hop") ELSE Ends("raised", "unsupported")
           /\ UNCHANGED <<backend, transcript, pool, server>>

Cancel == /\ ~ask.cancelled
          /\ ask.pc \in {"hop", "model", "tools", "raising"}
          /\ ask' = [ask EXCEPT !.cancelled = TRUE]
          /\ UNCHANGED <<backend, transcript, pool, server>>

StepsLeft == ask.steps < MAX_STEPS

PendingOnceGiven_Kept == ask.pending
PendingOnceGiven == <<>>

(* The top of a step: the cancel is polled, then the model is asked with   *)
(* the question or given what the last turn's tools returned, once.        *)
Hop ==
    /\ ask.pc = "hop"
    /\ UNCHANGED <<backend, pool, server>>
    /\ CASE ~StepsLeft -> Ends("finished", "max_steps") /\ UNCHANGED transcript
         [] StepsLeft /\ ask.cancelled -> Ends("finished", "cancelled") /\ UNCHANGED transcript
         [] OTHER ->
              /\ transcript' = transcript \o
                     IF ask.asked THEN Give(ask.pending) ELSE <<Message("question", <<>>)>>
              /\ ask' = [ask EXCEPT !.pc = "model", !.steps = @ + 1, !.asked = TRUE,
                                     !.pending = PendingOnceGiven]

Accounted(a) == [a EXCEPT !.hops = @ + 1]
Uncounted(a) == [a EXCEPT !.turns = @ + 1]

ModelRaises == /\ ask.pc = "model"
               /\ Ends("raised", "model")
               /\ UNCHANGED <<backend, transcript, pool, server>>

(* A turn that ends the run, or is to be resumed. *)
Refused == /\ ask.pc = "model"
           /\ "refusal" \in Turns
           /\ ask' = [Accounted(Uncounted(ask)) EXCEPT !.pc = "finished", !.reason = "refusal"]
           /\ UNCHANGED <<backend, transcript, pool, server>>
Answered == /\ ask.pc = "model"
            /\ "answer" \in Turns
            /\ ask' = [Accounted(Uncounted(ask)) EXCEPT !.pc = "finished", !.reason = "answer"]
            /\ UNCHANGED <<backend, transcript, pool, server>>
Paused_Unaccounted ==
          /\ ask.pc = "model"
          /\ "paused" \in Turns
          /\ transcript' = Append(transcript, Message("partial", <<>>))
          /\ ask' = [Uncounted(ask) EXCEPT !.pc = "hop"]
          /\ UNCHANGED <<backend, pool, server>>
Paused == /\ ask.pc = "model"
          /\ "paused" \in Turns
          /\ transcript' = Append(transcript, Message("partial", <<>>))
          /\ ask' = [Accounted(Uncounted(ask)) EXCEPT !.pc = "hop"]
          /\ UNCHANGED <<backend, pool, server>>

UsesTools(n) ==
    /\ ask.pc = "model"
    /\ transcript' = Append(transcript, Message("assistant", [i \in 1 .. n |-> <<ask.steps, i>>]))
    /\ pool' = [i \in 1 .. n |-> [state |-> "queued", id |-> 0]]
    /\ ask' = [Uncounted(ask) EXCEPT !.pc = "tools", !.read = 0]
    /\ UNCHANGED <<backend, server>>

-----------------------------------------------------------------------------
(* The pool: calls start in order as a worker is free.  One call, or one   *)
(* worker, is no pool: a call that raises is the last.                     *)
Running == {i \in DOMAIN pool : pool[i].state \in {"locking", "counting", "sent"}}
Alone == Len(pool) < 2 \/ TOOL_CONCURRENCY = 1
Workers == IF Alone THEN 1 ELSE IF TOOL_CONCURRENCY < Len(pool) THEN TOOL_CONCURRENCY ELSE Len(pool)

Moves(i, state) == pool' = [pool EXCEPT ![i].state = state]

StartCall(i) ==
    /\ ask.pc \in {"tools", "raising"}
    /\ pool[i].state = "queued"
    /\ \A j \in 1 .. i - 1 : pool[j].state # "queued"
    /\ Cardinality(Running) < Workers
    /\ Alone => \A j \in 1 .. i - 1 : pool[j].state # "raised"
    /\ Moves(i, "locking")
    /\ UNCHANGED <<backend, ask, transcript, server>>

(* The request's id is counted under the server's lock. *)
LockFree_Ignored == TRUE
LockFree == server.mu = Free

Lock(i) == /\ pool[i].state = "locking"
           /\ LockFree
           /\ server' = [server EXCEPT !.mu = i]
           /\ pool' = [pool EXCEPT ![i].state = "counting", ![i].id = server.id + 1]
           /\ UNCHANGED <<backend, ask, transcript>>
Send(i) == /\ pool[i].state = "counting"
           /\ server' = [id |-> pool[i].id, mu |-> Free]
           /\ Moves(i, "sent")
           /\ UNCHANGED <<backend, ask, transcript>>

(* A result, be it an answer, a refusal or an answer that is an error;     *)
(* anything else that goes wrong is raised.  A tool of no server has the   *)
(* result that it is unknown, without a request.                           *)
CallReturns(i) == /\ pool[i].state = "sent"
                  /\ \E state \in {"result", "raised"} : Moves(i, state)
                  /\ UNCHANGED <<backend, ask, transcript, server>>
UnknownServer(i) == /\ pool[i].state = "locking"
                    /\ Moves(i, "result")
                    /\ UNCHANGED <<backend, ask, transcript, server>>

(* Results are read in the order asked for; one that was raised drops what *)
(* has not started.                                                        *)
Read == /\ ask.pc = "tools"
        /\ ask.read < Len(pool)
        /\ LET next == pool[ask.read + 1].state IN
           \/ /\ next = "result"
              /\ ask' = [ask EXCEPT !.read = @ + 1]
              /\ UNCHANGED pool
           \/ /\ next = "raised"
              /\ Goes("raising")
              /\ pool' = [i \in DOMAIN pool |->
                     IF pool[i].state = "queued" THEN [pool[i] EXCEPT !.state = "dropped"] ELSE pool[i]]
        /\ UNCHANGED <<backend, transcript, server>>

(* The pool is left when no call is running. *)
Raise_AtOnce == /\ ask.pc = "raising"
                /\ Ends("raised", "tool")
                /\ UNCHANGED <<backend, transcript, pool, server>>
Raise == /\ ask.pc = "raising"
         /\ Running = {}
         /\ Ends("raised", "tool")
         /\ UNCHANGED <<backend, transcript, pool, server>>

Collect ==
    /\ ask.pc = "tools"
    /\ ask.read = Len(pool)
    /\ ask' = [Accounted(ask) EXCEPT !.pc = "hop", !.calls = @ + Len(pool),
                                     !.pending = [i \in DOMAIN pool |-> <<ask.steps, i>>]]
    /\ pool' = NoCalls
    /\ UNCHANGED <<backend, transcript, server>>

Over == /\ ask.pc \in {"finished", "raised"}
        /\ UNCHANGED loopVars

CallStep(i) == StartCall(i) \/ Lock(i) \/ Send(i) \/ CallReturns(i) \/ UnknownServer(i)

LoopNext == \/ Connect \/ ConnectFails \/ Require \/ Cancel \/ Hop
            \/ ModelRaises \/ Refused \/ Answered \/ Paused
            \/ \E n \in Slots : UsesTools(n)
            \/ \E i \in DOMAIN pool : CallStep(i)
            \/ Read \/ Raise \/ Collect \/ Over

LoopSpec == LoopInit /\ [][LoopNext]_loopVars

-----------------------------------------------------------------------------
(* Whatever the model is sent is a transcript it takes: the question once, *)
(* and directly after each of its turns that asked for tools a result for  *)
(* each of the uses, in order, and no other; not again after a pause, and  *)
(* no message that is empty.                                               *)
ResultsAfter(k) == {j \in k + 1 .. Len(transcript) :
                        \A i \in k + 1 .. j : transcript[i].role = "results"}
PlacesAfter(k) == UNION {{j} \X DOMAIN transcript[j].ids : j \in ResultsAfter(k)}
Before(p, q) == p[1] < q[1] \/ (p[1] = q[1] /\ p[2] < q[2])

AnsweredInOrder(k) ==
    \E place \in [DOMAIN transcript[k].ids -> PlacesAfter(k)] :
        /\ PlacesAfter(k) = {place[u] : u \in DOMAIN transcript[k].ids}
        /\ \A u, v \in DOMAIN transcript[k].ids : u < v => Before(place[u], place[v])
        /\ \A u \in DOMAIN transcript[k].ids :
               transcript[place[u][1]].ids[place[u][2]] = transcript[k].ids[u]

TranscriptAnswered ==
    ask.pc = "model" =>
        /\ {k \in DOMAIN transcript : transcript[k].role = "question"} = {1}
        /\ \A k \in DOMAIN transcript :
               /\ transcript[k].role # "results" => AnsweredInOrder(k)
               /\ transcript[k].role = "results" => transcript[k].ids # <<>>

(* Every turn the model took is counted once, the paused and the refused   *)
(* too, and every call of a turn that was gone on from.                    *)
UsesAsked == UNION {{k} \X DOMAIN transcript[k].ids :
                        k \in {k \in DOMAIN transcript : transcript[k].role = "assistant"}}

AnswerAccounts ==
    ask.pc = "finished" =>
        /\ ask.hops = ask.turns
        /\ ask.turns = ask.steps
        /\ ask.calls = Cardinality(UsesAsked)

(* No call goes on when the run is over, not even after a sibling raised;  *)
(* no more run at once than the gateway is to see; and no two requests to  *)
(* one server carry the same id.                                           *)
CallsEndWithTurn ==
    /\ ask.pc \notin {"tools", "raising"} => Running = {}
    /\ Cardinality(Running) <= TOOL_CONCURRENCY
    /\ \A i, j \in DOMAIN pool :
           pool[i].state = "sent" /\ pool[j].state = "sent" /\ i # j => pool[i].id # pool[j].id
=============================================================================
