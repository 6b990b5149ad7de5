--------------------------- MODULE AgentLoopProofs ---------------------------
(* What TLAPS proves of the agent loop: for any number of steps, of calls a  *)
(* turn asks for, and of calls the pool lets run at once.                    *)
EXTENDS AgentLoop, FiniteSetTheorems, SequenceTheorems, TLAPS

AskFields == {"pc", "steps", "turns", "hops", "calls", "read", "asked", "pending",
              "cancelled", "reason"}
Calls == [state : CallStates, id : Nat]

(* One call at most counts, it holds the lock, and its id is the next; every *)
(* id that was sent is counted.                                              *)
IdsCounted(p, s) ==
    /\ \A i \in DOMAIN p : p[i].state = "counting" => s.mu = i /\ p[i].id = s.id + 1
    /\ \A i \in DOMAIN p : p[i].state = "sent" => p[i].id <= s.id
    /\ \A i, j \in DOMAIN p :
           p[i].state = "sent" /\ p[j].state = "sent" /\ i # j => p[i].id # p[j].id

LoopInv ==
    /\ DOMAIN ask = AskFields
    /\ pool \in Seq(Calls)
    /\ server \in [id : Nat, mu : Nat]
    /\ ask.pc \notin {"tools", "raising"} => Running = {}
    /\ IsFiniteSet(Running) /\ Cardinality(Running) <= TOOL_CONCURRENCY
    /\ IdsCounted(pool, server)

LEMMA LoopStart == LoopInit => LoopInv
<1> SUFFICES ASSUME LoopInit PROVE LoopInv
  OBVIOUS
<1>0. pool = <<>>
  BY DEF LoopInit, NoCalls
<1>1. DOMAIN pool = {} /\ pool \in Seq(Calls)
  BY <1>0
<1>2. Running = {}
  BY <1>1 DEF Running
<1>3. DOMAIN ask = AskFields
  BY DEF LoopInit, AskFields
<1>4. server \in [id : Nat, mu : Nat]
  BY DEF LoopInit, Free
<1>5. IsFiniteSet(Running) /\ Cardinality(Running) <= TOOL_CONCURRENCY
  BY <1>2, FS_EmptySet, LoopAssumption
<1> QED BY <1>1, <1>2, <1>3, <1>4, <1>5 DEF LoopInv, IdsCounted

(* A step after which no call runs that did not run before.                  *)
LEMMA NoMoreRun ==
  ASSUME LoopInv, DOMAIN ask' = AskFields, pool' \in Seq(Calls),
         server' \in [id : Nat, mu : Nat],
         Running' \subseteq Running,
         ask'.pc \notin {"tools", "raising"} => Running' = {},
         IdsCounted(pool', server')
  PROVE  LoopInv'
<1>1. IsFiniteSet(Running') /\ Cardinality(Running') <= Cardinality(Running)
  BY FS_Subset DEF LoopInv
<1>2. Cardinality(Running') \in Nat /\ Cardinality(Running) \in Nat /\ TOOL_CONCURRENCY \in Nat
  BY <1>1, FS_CardinalityType, LoopAssumption DEF LoopInv
<1>3. IdsCounted(pool, server)'
  BY DEF IdsCounted
<1> QED BY <1>1, <1>2, <1>3 DEF LoopInv

(* The loop's own step: the calls and the server are left alone.             *)
LEMMA LoopMoves ==
  ASSUME LoopInv, DOMAIN ask' = AskFields, UNCHANGED <<pool, server>>,
         ask'.pc \notin {"tools", "raising"} =>
             ask.pc \notin {"tools", "raising"} \/ Running = {}
  PROVE  LoopInv'
<1>1. Running' = Running
  BY DEF Running
<1> QED BY <1>1, NoMoreRun DEF LoopInv

LEMMA ProceedKeeps ==
  ASSUME LoopInv,
         \/ ConnectFails \/ Require \/ Cancel \/ Hop \/ ModelRaises \/ Refused \/ Answered
         \/ Paused \/ Raise
  PROVE  LoopInv'
<1>1. UNCHANGED <<pool, server>>
  BY DEF ConnectFails, Require, Cancel, Hop, ModelRaises, Refused, Answered, Paused, Raise
<1>2. ASSUME NEW pc, Goes(pc)
      PROVE  DOMAIN ask' = AskFields
  BY <1>2 DEF Goes, LoopInv, AskFields
<1>3. ASSUME NEW pc, NEW reason, Ends(pc, reason)
      PROVE  DOMAIN ask' = AskFields
  BY <1>3 DEF Ends, LoopInv, AskFields
<1>4. CASE ConnectFails \/ Require \/ ModelRaises \/ Raise
  <2>1. DOMAIN ask' = AskFields
    BY <1>2, <1>3, <1>4 DEF ConnectFails, Require, ModelRaises, Raise
  <2>2. ask.pc \notin {"tools", "raising"} \/ Running = {}
    BY <1>4 DEF ConnectFails, Require, ModelRaises, Raise
  <2> QED BY <1>1, <2>1, <2>2, LoopMoves
<1>5. CASE Cancel
  <2>1. DOMAIN ask' = AskFields /\ ask'.pc = ask.pc
    BY <1>5 DEF Cancel, LoopInv, AskFields
  <2> QED BY <1>1, <2>1, LoopMoves
<1>6. CASE Refused \/ Answered \/ Paused
  <2>1. DOMAIN ask' = AskFields
    BY <1>6 DEF Refused, Answered, Paused, Accounted, Uncounted, LoopInv, AskFields
  <2>2. ask.pc = "model"
    BY <1>6 DEF Refused, Answered, Paused
  <2> QED BY <1>1, <2>1, <2>2, LoopMoves
<1>7. CASE Hop
  <2>1. \/ Ends("finished", "max_steps") \/ Ends("finished", "cancelled")
        \/ ask' = [ask EXCEPT !.pc = "model", !.steps = @ + 1, !.asked = TRUE,
                              !.pending = PendingOnceGiven]
    BY <1>7 DEF Hop
  <2>2. DOMAIN ask' = AskFields
    BY <1>3, <2>1 DEF LoopInv, AskFields
  <2>3. ask.pc = "hop"
    BY <1>7 DEF Hop
  <2> QED BY <1>1, <2>2, <2>3, LoopMoves
<1> QED BY <1>4, <1>5, <1>6, <1>7

LEMMA ConnectKeeps ==
  ASSUME LoopInv, Connect
  PROVE  LoopInv'
<1>1. /\ ask' = [ask EXCEPT !.pc = "start"] /\ ask.pc = "connect"
      /\ server' = [server EXCEPT !.id = 3] /\ pool' = pool
  BY DEF Connect, Goes
<1>2. DOMAIN ask' = AskFields /\ server' \in [id : Nat, mu : Nat]
  BY <1>1 DEF LoopInv, AskFields
<1>3. Running = {} /\ Running' = {}
  BY <1>1 DEF LoopInv, Running
<1>4. IdsCounted(pool', server')
  BY <1>1, <1>3 DEF Running, IdsCounted
<1> QED BY <1>1, <1>2, <1>3, <1>4, NoMoreRun DEF LoopInv

LEMMA TurnKeeps ==
  ASSUME LoopInv, NEW n \in Slots, UsesTools(n)
  PROVE  LoopInv'
<1>1. n \in Nat
  BY LoopAssumption DEF Slots
<1>2. DOMAIN ask' = AskFields
  BY DEF UsesTools, Uncounted, LoopInv, AskFields
<1>3. /\ pool' = [i \in 1 .. n |-> [state |-> "queued", id |-> 0]]
      /\ server' = server
  BY DEF UsesTools
<1>4. pool' \in Seq(Calls)
  BY <1>1, <1>3 DEF Calls, CallStates
<1>5. \A i \in DOMAIN pool' : pool'[i].state = "queued"
  BY <1>3
<1>6. Running' = {} /\ IdsCounted(pool', server')
  BY <1>5 DEF Running, IdsCounted
<1> QED BY <1>2, <1>3, <1>4, <1>6, NoMoreRun DEF LoopInv

LEMMA CollectKeeps ==
  ASSUME LoopInv, Collect
  PROVE  LoopInv'
<1>1. DOMAIN ask' = AskFields
  BY DEF Collect, Accounted, LoopInv, AskFields
<1>2. pool' = <<>> /\ server' = server /\ DOMAIN <<>> = {}
  BY DEF Collect, NoCalls
<1>3. Running' = {} /\ IdsCounted(pool', server') /\ pool' \in Seq(Calls)
  BY <1>2 DEF Running, IdsCounted
<1> QED BY <1>1, <1>2, <1>3, NoMoreRun DEF LoopInv

LEMMA AsSeq ==
  ASSUME NEW n \in Nat, NEW p \in [1 .. n -> Calls]
  PROVE  p \in Seq(Calls)
OBVIOUS

(* One call's step that leaves the loop where it is.                         *)
LEMMA CallMoves ==
  ASSUME LoopInv, NEW i \in DOMAIN pool, NEW state \in CallStates, NEW id \in Nat,
         pool' = [pool EXCEPT ![i].state = state, ![i].id = id]
  PROVE  /\ pool' \in Seq(Calls) /\ DOMAIN pool' = DOMAIN pool
         /\ pool'[i].state = state /\ pool'[i].id = id
         /\ \A j \in DOMAIN pool : j # i => pool'[j] = pool[j]
<1>1. pool \in Seq(Calls) /\ pool[i] \in Calls
  BY DEF LoopInv
<1> DEFINE c == [pool[i] EXCEPT !.state = state, !.id = id]
<1>2. c \in Calls /\ c.state = state /\ c.id = id
  BY <1>1 DEF Calls
<1>3. pool' = [pool EXCEPT ![i] = c]
  BY <1>1
<1> HIDE DEF c
<1>4. DOMAIN pool = 1 .. Len(pool)
  BY <1>1
<1>5. pool' \in Seq(Calls) /\ DOMAIN pool' = DOMAIN pool
  <2>1. Len(pool) \in Nat /\ pool \in [1 .. Len(pool) -> Calls]
    BY <1>1
  <2>2. pool' \in [1 .. Len(pool) -> Calls]
    BY <1>2, <1>3, <1>4, <2>1
  <2>3. DOMAIN pool' = DOMAIN pool
    BY <1>4, <2>2
  <2>4. pool' \in Seq(Calls)
    BY <2>1, <2>2, AsSeq
  <2> QED BY <2>3, <2>4
<1> QED BY <1>2, <1>3, <1>4, <1>5

(* A call that ends, or was not sent and is not to be.                       *)
LEMMA CallEnds ==
  ASSUME LoopInv, NEW i \in DOMAIN pool, NEW state \in CallStates \ {"locking", "counting", "sent"},
         Moves(i, state), UNCHANGED <<ask, server>>
  PROVE  LoopInv'
<1>1. pool[i] \in Calls
  BY DEF LoopInv
<1>2. pool' = [pool EXCEPT ![i].state = state, ![i].id = pool[i].id]
  BY <1>1 DEF Moves, Calls, LoopInv
<1>3. /\ pool' \in Seq(Calls) /\ DOMAIN pool' = DOMAIN pool
      /\ pool'[i].state = state /\ pool'[i].id = pool[i].id
      /\ \A j \in DOMAIN pool : j # i => pool'[j] = pool[j]
  BY <1>1, <1>2, CallMoves DEF Calls
<1>4. Running' \subseteq Running
  BY <1>3 DEF Running
<1>5. IdsCounted(pool', server')
  <2>1. \A j \in DOMAIN pool' : pool'[j].state \in {"counting", "sent"} => j # i /\ pool'[j] = pool[j]
    BY <1>3
  <2> QED BY <1>3, <2>1 DEF LoopInv, IdsCounted
<1> QED BY <1>3, <1>4, <1>5, NoMoreRun DEF LoopInv

LEMMA StartKeeps ==
  ASSUME LoopInv, NEW i \in DOMAIN pool, StartCall(i)
  PROVE  LoopInv'
<1>1. /\ pool[i] \in Calls /\ pool[i].state = "queued" /\ Moves(i, "locking")
      /\ Cardinality(Running) < Workers /\ UNCHANGED <<ask, server>>
      /\ ask.pc \in {"tools", "raising"}
  BY DEF StartCall, LoopInv
<1>2. pool' = [pool EXCEPT ![i].state = "locking", ![i].id = pool[i].id]
  BY <1>1 DEF Moves, Calls, LoopInv
<1>3. /\ pool' \in Seq(Calls) /\ DOMAIN pool' = DOMAIN pool
      /\ pool'[i].state = "locking" /\ pool'[i].id = pool[i].id
      /\ \A j \in DOMAIN pool : j # i => pool'[j] = pool[j]
  BY <1>1, <1>2, CallMoves DEF Calls, CallStates
<1>4. Running' = Running \cup {i}
  BY <1>3 DEF Running
<1>5. Len(pool) \in Nat /\ TOOL_CONCURRENCY \in Nat \ {0}
  BY LoopAssumption DEF LoopInv
<1>6. Workers \in Nat /\ Workers <= TOOL_CONCURRENCY
  BY <1>5 DEF Workers
<1>7. Cardinality(Running) \in Nat /\ IsFiniteSet(Running)
  BY FS_CardinalityType DEF LoopInv
<1>8. IsFiniteSet(Running') /\ Cardinality(Running') <= Cardinality(Running) + 1
  BY <1>4, <1>7, FS_AddElement
<1>9. Cardinality(Running') <= TOOL_CONCURRENCY
  <2>1. Cardinality(Running') \in Nat
    BY <1>8, FS_CardinalityType
  <2> QED BY <1>1, <1>5, <1>6, <1>7, <1>8, <2>1
<1>10. IdsCounted(pool, server)'
  BY <1>1, <1>3 DEF LoopInv, IdsCounted
<1> QED BY <1>1, <1>3, <1>8, <1>9, <1>10 DEF LoopInv

LEMMA LockKeeps ==
  ASSUME LoopInv, NEW i \in DOMAIN pool, Lock(i)
  PROVE  LoopInv'
<1>1. /\ pool[i] \in Calls /\ pool[i].state = "locking" /\ server.mu = 0 /\ ask' = ask
      /\ server' = [server EXCEPT !.mu = i]
      /\ pool' = [pool EXCEPT ![i].state = "counting", ![i].id = server.id + 1]
  BY DEF Lock, LockFree, Free, LoopInv
<1>2. server.id \in Nat /\ DOMAIN pool = 1 .. Len(pool) /\ i \in Nat \ {0} /\ Len(pool) \in Nat
  BY DEF LoopInv
<1>3. /\ pool' \in Seq(Calls) /\ DOMAIN pool' = DOMAIN pool
      /\ pool'[i].state = "counting" /\ pool'[i].id = server.id + 1
      /\ \A j \in DOMAIN pool : j # i => pool'[j] = pool[j]
  <2>1. server.id + 1 \in Nat /\ "counting" \in CallStates
    BY <1>2 DEF CallStates
  <2> QED BY <1>1, <2>1, CallMoves
<1>4. server' \in [id : Nat, mu : Nat] /\ server'.id = server.id /\ server'.mu = i
  BY <1>1, <1>2 DEF LoopInv
<1>5. Running' \subseteq Running
  BY <1>1, <1>3 DEF Running
<1>6. \A j \in DOMAIN pool : pool[j].state # "counting"
  BY <1>1, <1>2 DEF LoopInv, IdsCounted
<1>7. IdsCounted(pool', server')
  <2>1. \A j \in DOMAIN pool' : pool'[j].state = "sent" => j # i /\ pool'[j] = pool[j]
    BY <1>3
  <2>2. \A j \in DOMAIN pool' : pool'[j].state = "counting" => j = i
    BY <1>3, <1>6
  <2> QED BY <1>3, <1>4, <2>1, <2>2 DEF LoopInv, IdsCounted
<1> QED BY <1>1, <1>3, <1>4, <1>5, <1>7, NoMoreRun DEF LoopInv

LEMMA SendKeeps ==
  ASSUME LoopInv, NEW i \in DOMAIN pool, Send(i)
  PROVE  LoopInv'
<1>1. /\ pool[i] \in Calls /\ pool[i].state = "counting" /\ Moves(i, "sent") /\ ask' = ask
      /\ server' = [id |-> pool[i].id, mu |-> Free]
  BY DEF Send, LoopInv
<1>2. pool' = [pool EXCEPT ![i].state = "sent", ![i].id = pool[i].id]
  BY <1>1 DEF Moves, Calls, LoopInv
<1>3. /\ pool' \in Seq(Calls) /\ DOMAIN pool' = DOMAIN pool
      /\ pool'[i].state = "sent" /\ pool'[i].id = pool[i].id
      /\ \A j \in DOMAIN pool : j # i => pool'[j] = pool[j]
  BY <1>1, <1>2, CallMoves DEF Calls, CallStates
<1>4. server' \in [id : Nat, mu : Nat] /\ server'.id = pool[i].id
  BY <1>1 DEF Calls, Free
<1>5. Running' \subseteq Running
  BY <1>1, <1>3 DEF Running
<1>6. /\ pool[i].id = server.id + 1 /\ server.id \in Nat
      /\ \A j \in DOMAIN pool : j # i => pool[j].state # "counting"
      /\ \A j \in DOMAIN pool : pool[j].state = "sent" => pool[j].id \in Nat /\ pool[j].id <= server.id
  <2>1. \A j \in DOMAIN pool : pool[j] \in Calls
    BY DEF LoopInv
  <2> QED BY <1>1, <2>1 DEF LoopInv, IdsCounted, Calls
<1>7. IdsCounted(pool', server')
  <2>1. \A j \in DOMAIN pool' : pool'[j].state # "counting"
    BY <1>3, <1>6
  <2>2. \A j \in DOMAIN pool' : pool'[j].state = "sent" => pool'[j].id <= server'.id
    BY <1>3, <1>4, <1>6
  <2>3. \A j, k \in DOMAIN pool' :
            pool'[j].state = "sent" /\ pool'[k].state = "sent" /\ j # k => pool'[j].id # pool'[k].id
    BY <1>3, <1>6 DEF LoopInv, IdsCounted
  <2> QED BY <2>1, <2>2, <2>3 DEF IdsCounted
<1> QED BY <1>1, <1>3, <1>4, <1>5, <1>7, NoMoreRun DEF LoopInv

LEMMA CallKeeps ==
  ASSUME LoopInv, NEW i \in DOMAIN pool, CallStep(i)
  PROVE  LoopInv'
<1>1. CASE CallReturns(i) \/ UnknownServer(i)
  <2>1. PICK state \in {"result", "raised"} : Moves(i, state)
    BY <1>1 DEF CallReturns, UnknownServer
  <2>2. UNCHANGED <<ask, server>>
    BY <1>1 DEF CallReturns, UnknownServer
  <2> QED BY <2>1, <2>2, CallEnds DEF CallStates
<1> QED BY <1>1, StartKeeps, LockKeeps, SendKeeps DEF CallStep

LEMMA ReadKeeps ==
  ASSUME LoopInv, Read
  PROVE  LoopInv'
<1> DEFINE dropped == [i \in DOMAIN pool |->
               IF pool[i].state = "queued" THEN [pool[i] EXCEPT !.state = "dropped"] ELSE pool[i]]
<1>1. /\ ask.pc = "tools" /\ server' = server
      /\ \/ ask' = [ask EXCEPT !.read = @ + 1] /\ pool' = pool
         \/ ask' = [ask EXCEPT !.pc = "raising"] /\ pool' = dropped
  BY DEF Read, Goes
<1>2. DOMAIN ask' = AskFields /\ ask'.pc \in {"tools", "raising"}
  BY <1>1 DEF LoopInv, AskFields
<1>3. CASE pool' = pool
  <2>1. Running' = Running
    BY <1>3 DEF Running
  <2> QED BY <1>1, <1>2, <1>3, <2>1, NoMoreRun DEF LoopInv
<1>4. CASE pool' = dropped
  <2>1. DOMAIN pool = 1 .. Len(pool) /\ Len(pool) \in Nat /\ \A i \in DOMAIN pool : pool[i] \in Calls
    BY DEF LoopInv
  <2>2. \A i \in DOMAIN pool : /\ dropped[i] \in Calls
                                /\ (dropped[i] = pool[i] \/ dropped[i].state = "dropped")
    BY <2>1 DEF Calls, CallStates
  <2>3. DOMAIN pool' = DOMAIN pool
    BY <1>4
  <2> HIDE DEF dropped
  <2>4. pool' \in [1 .. Len(pool) -> Calls]
    <3> USE DEF dropped
    <3> QED BY <1>4, <2>1, <2>2
  <2>5. pool' \in Seq(Calls)
    BY <2>1, <2>4
  <2>6. Running' \subseteq Running
    BY <1>4, <2>2, <2>3 DEF Running
  <2>7. IdsCounted(pool', server')
    BY <1>1, <1>4, <2>2, <2>3 DEF LoopInv, IdsCounted
  <2> QED BY <1>1, <1>2, <2>5, <2>6, <2>7, NoMoreRun DEF LoopInv
<1> QED BY <1>1, <1>3, <1>4

LEMMA LoopSteps == LoopInv /\ [LoopNext]_loopVars => LoopInv'
<1> SUFFICES ASSUME LoopInv, [LoopNext]_loopVars PROVE LoopInv'
  OBVIOUS
<1>1. CASE UNCHANGED loopVars
  BY <1>1 DEF loopVars, LoopInv, IdsCounted, Running
<1>2. CASE Over
  BY <1>2 DEF Over, loopVars, LoopInv, IdsCounted, Running
<1>3. ASSUME NEW n \in Slots, UsesTools(n)
      PROVE  LoopInv'
  BY <1>3, TurnKeeps
<1>4. ASSUME NEW i \in DOMAIN pool, CallStep(i)
      PROVE  LoopInv'
  BY <1>4, CallKeeps
<1> QED BY <1>1, <1>2, <1>3, <1>4, ProceedKeeps, ConnectKeeps, ReadKeeps, CollectKeeps DEF LoopNext

(* The calls of a turn are over when the run is, a raised one's siblings     *)
(* too; the gateway sees at most so many at once, whatever a turn asks for;  *)
(* and requests in flight to one server have ids of their own                *)
(* (_run_tool_calls of agent.py, McpServer of mcp_client.py).                *)
THEOREM CallsEnd == LoopSpec => []CallsEndWithTurn
<1>1. LoopInv => CallsEndWithTurn
  BY DEF LoopInv, IdsCounted, CallsEndWithTurn
<1> QED BY <1>1, LoopStart, LoopSteps, PTL DEF LoopSpec


-----------------------------------------------------------------------------
(* What the model is sent.  A transcript is a sequence of messages, each     *)
(* with the uses it asks for or answers.                                     *)
Uses == Nat \X Nat
Messages == [role : {"question", "assistant", "partial", "results"}, ids : Seq(Uses)]

GivenBy(protocol, results) ==
    IF protocol = "anthropic" THEN AnthropicGive(results) ELSE OpenAIGive(results)

(* The messages after the k-th are what its uses are answered by, no more.   *)
Settled(protocol, t, k) ==
    LET given == GivenBy(protocol, t[k].ids) IN
    /\ \A j \in DOMAIN given : k + j \in DOMAIN t /\ t[k + j] = given[j]
    /\ k + Len(given) + 1 \in DOMAIN t => t[k + Len(given) + 1].role # "results"

(* The last turn's uses are not answered yet: they run, or wait for the hop. *)
Owed(a, t, p, k) ==
    /\ k = Len(t)
    /\ t[k].role = "assistant"
    /\ a.pc \in {"tools", "raising"} => t[k].ids = [i \in DOMAIN p |-> <<a.steps, i>>]
    /\ a.pc = "hop" => t[k].ids = a.pending
    /\ a.pc \in {"tools", "raising", "hop", "finished", "raised"}

Owes(a) == a.pc \in {"tools", "raising"} \/ (a.pc = "hop" /\ a.pending # <<>>)

Told(protocol, a, t, p) ==
    /\ \A k \in DOMAIN t :
           /\ t[k].role = "question" <=> k = 1
           /\ t[k].role \in {"results", "assistant"} => t[k].ids # <<>>
           /\ t[k].role # "results" => Settled(protocol, t, k) \/ Owed(a, t, p, k)
    /\ Owes(a) => a.asked /\ Owed(a, t, p, Len(t))

TalkInv ==
    /\ transcript \in Seq(Messages)
    /\ ask.steps \in Nat
    /\ ask.asked \in BOOLEAN
    /\ ask.asked <=> transcript # <<>>
    /\ ask.pc \in {"model", "tools", "raising"} => ask.asked
    /\ ask.pc \in {"connect", "start", "model", "tools"} => ask.pending = <<>>
    /\ Told(backend.protocol, ask, transcript, pool)

LEMMA GivenShape ==
  ASSUME NEW protocol, NEW ids \in Seq(Uses)
  PROVE  /\ GivenBy(protocol, ids) \in Seq(Messages)
         /\ \A j \in DOMAIN GivenBy(protocol, ids) :
                /\ GivenBy(protocol, ids)[j].role = "results"
                /\ GivenBy(protocol, ids)[j].ids # <<>>
         /\ GivenBy(protocol, ids) = <<>> <=> ids = <<>>
<1>1. /\ Len(ids) \in Nat /\ DOMAIN ids = 1 .. Len(ids)
      /\ \A i \in DOMAIN ids : ids[i] \in Uses
  OBVIOUS
<1>2. CASE ids = <<>>
  <2>1. DOMAIN ids = {}
    BY <1>2
  <2>2. OpenAIGive(ids) = <<>> /\ AnthropicGive(ids) = <<>>
    BY <1>2, <2>1 DEF OpenAIGive, AnthropicGive
  <2>3. GivenBy(protocol, ids) = <<>>
    BY <2>2 DEF GivenBy
  <2>4. <<>> \in Seq(Messages) /\ DOMAIN <<>> = {}
    OBVIOUS
  <2> QED BY <1>2, <2>3, <2>4
<1>3. CASE ids # <<>> /\ protocol = "anthropic"
  <2>1. GivenBy(protocol, ids) = <<Message("results", ids)>>
    BY <1>3 DEF GivenBy, AnthropicGive
  <2>2. Message("results", ids) \in Messages
    BY DEF Message, Messages
  <2> DEFINE m == Message("results", ids)
  <2>3. m \in Messages /\ m.role = "results" /\ m.ids # <<>>
    BY <1>3, <2>2 DEF Message
  <2> HIDE DEF m
  <2>4. /\ <<m>> \in Seq(Messages) /\ <<m>> # <<>>
        /\ \A j \in DOMAIN <<m>> : <<m>>[j] = m
    BY <2>3
  <2>5. GivenBy(protocol, ids) = <<m>>
    BY <2>1 DEF m
  <2> QED BY <1>3, <2>3, <2>4, <2>5
<1>4. CASE ids # <<>> /\ protocol # "anthropic"
  <2> DEFINE given == [i \in DOMAIN ids |-> Message("results", <<ids[i]>>)]
  <2>1. GivenBy(protocol, ids) = given
    BY <1>4 DEF GivenBy, OpenAIGive
  <2>2. \A i \in DOMAIN ids : /\ given[i] \in Messages
                              /\ given[i].role = "results" /\ given[i].ids = <<ids[i]>>
    BY <1>1 DEF Message, Messages
  <2>3. given \in Seq(Messages)
    <3>1. given \in [1 .. Len(ids) -> Messages]
      BY <1>1, <2>2
    <3> QED BY <1>1, <3>1, SeqDef
  <2>4. 1 \in DOMAIN given
    BY <1>1, <1>4
  <2>5. DOMAIN given = DOMAIN ids
    OBVIOUS
  <2> HIDE DEF given
  <2>6. given # <<>>
    BY <2>4
  <2>7. \A i \in DOMAIN ids : <<ids[i]>> # <<>>
    OBVIOUS
  <2>8. \A i \in DOMAIN given : given[i].role = "results" /\ given[i].ids # <<>>
    BY <2>2, <2>5, <2>7
  <2> QED BY <1>4, <2>1, <2>3, <2>6, <2>8
<1> QED BY <1>2, <1>3, <1>4

LEMMA OneMoreMessage ==
  ASSUME NEW t \in Seq(Messages), NEW m \in Messages
  PROVE  /\ Append(t, m) \in Seq(Messages)
         /\ Len(Append(t, m)) = Len(t) + 1
         /\ DOMAIN Append(t, m) = 1 .. Len(t) + 1
         /\ \A k \in DOMAIN t : k \in 1 .. Len(t) /\ Append(t, m)[k] = t[k]
         /\ Append(t, m)[Len(t) + 1] = m
OBVIOUS

(* A message that is no result settles nothing and unsettles nothing.        *)
LEMMA AppendSettles ==
  ASSUME NEW protocol, NEW t \in Seq(Messages), NEW m \in Messages, m.role # "results",
         NEW k \in DOMAIN t, Settled(protocol, t, k)
  PROVE  Settled(protocol, Append(t, m), k)
<1> DEFINE given == GivenBy(protocol, t[k].ids)
           s == Append(t, m)
<1>1. /\ s \in Seq(Messages) /\ DOMAIN s = 1 .. Len(t) + 1 /\ DOMAIN t = 1 .. Len(t)
      /\ Len(t) \in Nat /\ k \in Nat
      /\ \A i \in DOMAIN t : s[i] = t[i]
      /\ s[Len(t) + 1] = m
  BY OneMoreMessage
<1>2. t[k].ids \in Seq(Uses) /\ s[k] = t[k]
  <2>1. t[k] \in Messages
    OBVIOUS
  <2> QED BY <1>1, <2>1 DEF Messages
<1>3. given \in Seq(Messages) /\ Len(given) \in Nat
  BY <1>2, GivenShape
<1>4. /\ \A j \in DOMAIN given : k + j \in DOMAIN t /\ t[k + j] = given[j]
      /\ k + Len(given) + 1 \in DOMAIN t => t[k + Len(given) + 1].role # "results"
  BY DEF Settled
<1> HIDE DEF given, s
<1>5. \A j \in DOMAIN given : k + j \in DOMAIN s /\ s[k + j] = given[j]
  BY <1>1, <1>4
<1>6. k + Len(given) + 1 \in DOMAIN s => s[k + Len(given) + 1].role # "results"
  BY <1>1, <1>3, <1>4
<1> QED BY <1>2, <1>5, <1>6 DEF Settled, given, s

LEMMA MoreMessages ==
  ASSUME NEW t \in Seq(Messages), NEW g \in Seq(Messages)
  PROVE  /\ t \o g \in Seq(Messages)
         /\ Len(t \o g) = Len(t) + Len(g)
         /\ DOMAIN (t \o g) = 1 .. Len(t) + Len(g)
         /\ \A k \in DOMAIN t : k \in 1 .. Len(t) /\ (t \o g)[k] = t[k]
         /\ \A j \in DOMAIN g : j \in 1 .. Len(g) /\ (t \o g)[Len(t) + j] = g[j]
OBVIOUS

(* What the last turn asked for is settled by what it is given, and nothing  *)
(* before it is unsettled.                                                   *)
LEMMA GiveSettles ==
  ASSUME NEW protocol, NEW t \in Seq(Messages), t # <<>>, t[Len(t)].role # "results",
         NEW k \in DOMAIN t, k # Len(t) => Settled(protocol, t, k)
  PROVE  Settled(protocol, t \o GivenBy(protocol, t[Len(t)].ids), k)
<1> DEFINE g == GivenBy(protocol, t[Len(t)].ids)
           given == GivenBy(protocol, t[k].ids)
           s == t \o g
<1>1. /\ Len(t) \in Nat \ {0} /\ DOMAIN t = 1 .. Len(t) /\ k \in 1 .. Len(t)
      /\ t[k].ids \in Seq(Uses) /\ t[Len(t)].ids \in Seq(Uses)
  <2>1. /\ Len(t) \in Nat \ {0} /\ DOMAIN t = 1 .. Len(t) /\ k \in 1 .. Len(t)
        /\ \A i \in DOMAIN t : t[i] \in Messages
    OBVIOUS
  <2> QED BY <2>1 DEF Messages
<1>2. g \in Seq(Messages)
  BY <1>1, GivenShape
<1>3. given \in Seq(Messages) /\ \A j \in DOMAIN given : given[j].role = "results"
  BY <1>1, GivenShape
<1>4. /\ DOMAIN s = 1 .. Len(t) + Len(g) /\ Len(g) \in Nat
      /\ \A i \in DOMAIN t : s[i] = t[i]
      /\ \A j \in DOMAIN g : s[Len(t) + j] = g[j]
  BY <1>2, MoreMessages
<1>5. DOMAIN g = 1 .. Len(g) /\ DOMAIN given = 1 .. Len(given) /\ Len(given) \in Nat
  BY <1>2, <1>3
<1>6. s[k] = t[k]
  BY <1>1, <1>4
<1> SUFFICES /\ \A j \in DOMAIN given : k + j \in DOMAIN s /\ s[k + j] = given[j]
             /\ k + Len(given) + 1 \in DOMAIN s => s[k + Len(given) + 1].role # "results"
  BY <1>6 DEF Settled
<1>7. CASE k = Len(t)
  <2>1. given = g
    BY <1>7
  <2> HIDE DEF given, g, s
  <2> QED BY <1>1, <1>4, <1>5, <1>7, <2>1
<1>8. CASE k # Len(t)
  <2>1. /\ \A j \in DOMAIN given : k + j \in DOMAIN t /\ t[k + j] = given[j]
        /\ k + Len(given) + 1 \in DOMAIN t => t[k + Len(given) + 1].role # "results"
    BY <1>8 DEF Settled
  <2> HIDE DEF given, g, s
  <2>2. k + Len(given) # Len(t)
    <3>1. CASE Len(given) = 0
      BY <1>1, <1>8, <3>1
    <3>2. CASE Len(given) # 0
      <4>1. Len(given) \in DOMAIN given
        BY <1>5, <3>2
      <4> QED BY <1>3, <2>1, <4>1
    <3> QED BY <3>1, <3>2
  <2>3. k + Len(given) + 1 \in DOMAIN t
    <3>1. CASE Len(given) = 0
      BY <1>1, <1>8, <3>1
    <3>2. CASE Len(given) # 0
      <4>1. k + Len(given) \in DOMAIN t
        BY <1>5, <2>1, <3>2
      <4> QED BY <1>1, <1>5, <2>2, <4>1
    <3> QED BY <3>1, <3>2
  <2> QED BY <1>1, <1>4, <1>5, <2>1, <2>3
<1> QED BY <1>7, <1>8


(* A settled turn is answered: each use once, in order, and nothing else.    *)
LEMMA SettledAnswers ==
  ASSUME transcript \in Seq(Messages), NEW k \in DOMAIN transcript,
         Settled(backend.protocol, transcript, k)
  PROVE  AnsweredInOrder(k)
<1> DEFINE ids == transcript[k].ids
           given == GivenBy(backend.protocol, ids)
<1>1. /\ Len(transcript) \in Nat /\ DOMAIN transcript = 1 .. Len(transcript)
      /\ k \in Nat /\ k >= 1
      /\ transcript[k] \in Messages
  OBVIOUS
<1>2. ids \in Seq(Uses) /\ Len(ids) \in Nat /\ DOMAIN ids = 1 .. Len(ids)
  <2>1. ids \in Seq(Uses)
    BY <1>1 DEF Messages
  <2> QED BY <2>1
<1>3. /\ given \in Seq(Messages)
      /\ \A j \in DOMAIN given : given[j].role = "results"
      /\ given = <<>> <=> ids = <<>>
  BY <1>2, GivenShape
<1>4. /\ Len(given) \in Nat /\ DOMAIN given = 1 .. Len(given)
  BY <1>3
<1>5. /\ \A j \in DOMAIN given : k + j \in DOMAIN transcript /\ transcript[k + j] = given[j]
      /\ k + Len(given) + 1 \in DOMAIN transcript
            => transcript[k + Len(given) + 1].role # "results"
  BY DEF Settled
<1>6. ResultsAfter(k) = {k + j : j \in DOMAIN given}
  <2> HIDE DEF given
  <2>1. ASSUME NEW j \in DOMAIN given PROVE k + j \in ResultsAfter(k)
    <3>1. k + j \in k + 1 .. Len(transcript)
      BY <1>1, <1>4, <1>5
    <3>2. ASSUME NEW i \in k + 1 .. k + j PROVE transcript[i].role = "results"
      <4>1. i - k \in DOMAIN given /\ k + (i - k) = i
        BY <1>1, <1>4, <3>2
      <4> QED BY <1>3, <1>5, <4>1
    <3> QED BY <3>1, <3>2 DEF ResultsAfter
  <2>2. ASSUME NEW i \in ResultsAfter(k) PROVE \E j \in DOMAIN given : i = k + j
    <3>1. i \in k + 1 .. Len(transcript) /\ \A n \in k + 1 .. i : transcript[n].role = "results"
      BY DEF ResultsAfter
    <3>2. i <= k + Len(given)
      <4> SUFFICES ASSUME i > k + Len(given) PROVE FALSE
        BY <1>1, <1>4, <3>1
      <4>1. k + Len(given) + 1 \in DOMAIN transcript /\ k + Len(given) + 1 \in k + 1 .. i
        BY <1>1, <1>4, <3>1
      <4> QED BY <1>5, <3>1, <4>1
    <3>3. i - k \in DOMAIN given /\ i = k + (i - k)
      BY <1>1, <1>4, <3>1, <3>2
    <3> QED BY <3>3
  <2> QED BY <2>1, <2>2
<1>7. \A p : p \in PlacesAfter(k)
          <=> \E j \in DOMAIN given : \E q \in DOMAIN given[j].ids : p = <<k + j, q>>
  <2> HIDE DEF given
  <2>1. PlacesAfter(k) = UNION {{i} \X DOMAIN transcript[i].ids : i \in {k + j : j \in DOMAIN given}}
    BY <1>6 DEF PlacesAfter
  <2> QED BY <1>5, <2>1
<1>8. CASE backend.protocol = "anthropic"
  <2> DEFINE place == [u \in DOMAIN ids |-> <<k + 1, u>>]
  <2>1. ASSUME ids # <<>>
        PROVE  DOMAIN given = {1} /\ given[1].ids = ids /\ transcript[k + 1].ids = ids
    <3>1. given = <<Message("results", ids)>>
      BY <1>8, <2>1 DEF GivenBy, AnthropicGive
    <3>2. DOMAIN given = {1} /\ given[1].ids = ids
      BY <3>1 DEF Message
    <3> QED BY <1>5, <3>2
  <2>2. ids = <<>> => DOMAIN ids = {} /\ DOMAIN given = {}
    BY <1>2, <1>3, <1>4
  <2>3. \A p : p \in PlacesAfter(k) <=> \E u \in DOMAIN ids : p = <<k + 1, u>>
    <3> HIDE DEF given, ids
    <3> QED BY <1>7, <2>1, <2>2
  <2>4. /\ PlacesAfter(k) = {place[u] : u \in DOMAIN ids}
        /\ place \in [DOMAIN ids -> PlacesAfter(k)]
    <3> HIDE DEF ids, given
    <3> QED BY <2>3
  <2>5. \A u, v \in DOMAIN ids : u < v => Before(place[u], place[v])
    BY DEF Before
  <2>6. \A u \in DOMAIN ids : transcript[place[u][1]].ids[place[u][2]] = ids[u]
    <3>1. ASSUME NEW u \in DOMAIN ids PROVE transcript[k + 1].ids = ids
      BY <2>1, <2>2
    <3> HIDE DEF ids, given
    <3> QED BY <3>1
  <2> HIDE DEF place
  <2> QED BY <2>4, <2>5, <2>6 DEF AnsweredInOrder
<1>9. CASE backend.protocol # "anthropic"
  <2> DEFINE place == [u \in DOMAIN ids |-> <<k + u, 1>>]
  <2>1. DOMAIN given = DOMAIN ids /\ \A u \in DOMAIN ids : given[u].ids = <<ids[u]>>
    BY <1>9 DEF GivenBy, OpenAIGive, Message
  <2>2. \A u \in DOMAIN ids : DOMAIN given[u].ids = {1} /\ given[u].ids[1] = ids[u]
    <3>1. \A use : DOMAIN <<use>> = {1} /\ <<use>>[1] = use
      OBVIOUS
    <3> QED BY <2>1, <3>1
  <2>3. \A p : p \in PlacesAfter(k) <=> \E u \in DOMAIN ids : p = <<k + u, 1>>
    <3> HIDE DEF given, ids
    <3> QED BY <1>7, <2>1, <2>2
  <2>4. /\ PlacesAfter(k) = {place[u] : u \in DOMAIN ids}
        /\ place \in [DOMAIN ids -> PlacesAfter(k)]
    <3> HIDE DEF ids, given
    <3> QED BY <2>3
  <2>5. \A u, v \in DOMAIN ids : u < v => Before(place[u], place[v])
    <3> HIDE DEF ids, given
    <3> QED BY <1>1, <1>2 DEF Before
  <2>6. \A u \in DOMAIN ids : transcript[place[u][1]].ids[place[u][2]] = ids[u]
    <3> HIDE DEF ids, given
    <3>1. \A u \in DOMAIN ids : transcript[k + u].ids[1] = ids[u]
      BY <1>5, <2>1, <2>2
    <3> QED BY <3>1
  <2> HIDE DEF place
  <2> QED BY <2>4, <2>5, <2>6 DEF AnsweredInOrder
<1> QED BY <1>8, <1>9


LEMMA TalkStart == LoopInit => TalkInv
<1> SUFFICES ASSUME LoopInit PROVE TalkInv
  OBVIOUS
<1>1. transcript = <<>>
  BY DEF LoopInit
<1>2. transcript \in Seq(Messages) /\ DOMAIN transcript = {}
  BY <1>1
<1>3. ask.pc = "connect" /\ ask.steps = 0 /\ ask.asked = FALSE /\ ask.pending = <<>>
  BY Zenon DEF LoopInit
<1>4. ask.asked \in BOOLEAN /\ (ask.asked <=> transcript # <<>>)
  BY Zenon, <1>1, <1>3
<1>5. ask.steps \in Nat
  BY <1>3
<1>6. ~Owes(ask) /\ Told(backend.protocol, ask, transcript, pool)
  BY <1>2, <1>3 DEF Told, Owes
<1> QED BY <1>2, <1>3, <1>4, <1>5, <1>6 DEF TalkInv

(* A step that leaves the transcript alone, and what the last turn is owed.  *)
LEMMA TalkStays ==
  ASSUME TalkInv, UNCHANGED <<backend, transcript>>,
         ask'.steps = ask.steps, ask'.asked = ask.asked, ask'.pending = ask.pending,
         ask'.pc \in {"model", "tools", "raising"} => ask.asked,
         ask'.pc \in {"connect", "start", "model", "tools"} => ask.pending = <<>>,
         \A k \in DOMAIN transcript :
             Owed(ask, transcript, pool, k) => Owed(ask', transcript, pool', k),
         Owes(ask') => Owes(ask)
  PROVE  TalkInv'
<1>1. Owes(ask) => ask.asked /\ Owed(ask, transcript, pool, Len(transcript))
  BY DEF TalkInv, Told
<1>2. ask.asked => Len(transcript) \in DOMAIN transcript
  <2>1. transcript \in Seq(Messages) /\ (ask.asked => transcript # <<>>)
    BY DEF TalkInv
  <2> QED BY <2>1
<1>3. Owes(ask') => ask'.asked /\ Owed(ask', transcript, pool', Len(transcript))
  BY <1>1, <1>2
<1>4. Told(backend.protocol, ask', transcript, pool')
  BY <1>3 DEF TalkInv, Told
<1> QED BY <1>4 DEF TalkInv

LEMMA TalkMoves ==
  ASSUME LoopInv, TalkInv,
         Connect \/ ConnectFails \/ Require \/ Cancel \/ ModelRaises \/ Refused \/ Answered \/ Raise
  PROVE  TalkInv'
<1>1. /\ UNCHANGED <<backend, transcript, pool>>
      /\ ask'.steps = ask.steps /\ ask'.asked = ask.asked /\ ask'.pending = ask.pending
  BY DEF Connect, ConnectFails, Require, Cancel, ModelRaises, Refused, Answered, Raise,
         Goes, Ends, Accounted, Uncounted, LoopInv, AskFields
<1>2. \/ ask.pc = "connect" /\ ask'.pc \in {"start", "raised"}
      \/ ask.pc = "start" /\ ask'.pc \in {"hop", "raised"}
      \/ ask'.pc = ask.pc
      \/ ask.pc = "model" /\ ask'.pc \in {"finished", "raised"}
      \/ ask.pc = "raising" /\ ask'.pc = "raised"
  BY DEF Connect, ConnectFails, Require, Cancel, ModelRaises, Refused, Answered, Raise,
         Goes, Ends, Accounted, Uncounted, LoopInv, AskFields
<1>3. /\ ask'.pc \in {"model", "tools", "raising"} => ask.asked
      /\ ask'.pc \in {"connect", "start", "model", "tools"} => ask.pending = <<>>
  BY <1>2 DEF TalkInv
<1>4. \A k \in DOMAIN transcript :
          Owed(ask, transcript, pool, k) => Owed(ask', transcript, pool', k)
  BY <1>1, <1>2 DEF Owed
<1>5. Owes(ask') => Owes(ask)
  BY <1>1, <1>2 DEF Owes, TalkInv
<1> QED BY <1>1, <1>3, <1>4, <1>5, TalkStays

LEMMA TalkCalls ==
  ASSUME LoopInv, TalkInv, Read \/ \E i \in DOMAIN pool : CallStep(i)
  PROVE  TalkInv'
<1>1. UNCHANGED <<backend, transcript>>
  BY DEF Read, CallStep, StartCall, Lock, Send, CallReturns, UnknownServer
<1>2. DOMAIN pool' = DOMAIN pool
  BY DEF Read, CallStep, StartCall, Lock, Send, CallReturns, UnknownServer, Moves
<1>3. /\ ask'.steps = ask.steps /\ ask'.asked = ask.asked /\ ask'.pending = ask.pending
      /\ ask'.pc = ask.pc \/ (ask.pc = "tools" /\ ask'.pc = "raising")
  <2>1. CASE Read
    BY <2>1 DEF Read, Goes, LoopInv, AskFields
  <2>2. CASE \E i \in DOMAIN pool : CallStep(i)
    BY <2>2 DEF CallStep, StartCall, Lock, Send, CallReturns, UnknownServer
  <2> QED BY <2>1, <2>2
<1>4. \A k \in DOMAIN transcript :
          Owed(ask, transcript, pool, k) => Owed(ask', transcript, pool', k)
  BY <1>2, <1>3 DEF Owed
<1>5. Owes(ask') => Owes(ask)
  BY <1>3 DEF Owes
<1> QED BY <1>1, <1>3, <1>4, <1>5, TalkStays DEF TalkInv

(* A turn that the loop goes on from is put on the transcript.               *)
LEMMA TurnTold ==
  ASSUME LoopInv, TalkInv, ask.pc = "model", UNCHANGED backend,
         NEW m \in Messages, transcript' = Append(transcript, m),
         m.role \in {"assistant", "partial"}, m.role = "assistant" => m.ids # <<>>,
         m.role = "partial" => m.ids = <<>>,
         ask'.steps = ask.steps, ask'.asked = ask.asked, ask'.pending = ask.pending,
         ask'.pc = IF m.role = "assistant" THEN "tools" ELSE "hop",
         m.role = "assistant" => m.ids = [i \in DOMAIN pool' |-> <<ask.steps, i>>]
  PROVE  TalkInv'
<1> DEFINE t == transcript
           s == transcript'
<1>1. /\ t \in Seq(Messages) /\ Len(t) \in Nat /\ DOMAIN t = 1 .. Len(t)
      /\ ask.asked /\ t # <<>> /\ Len(t) >= 1 /\ ask.pending = <<>>
  <2>1. t \in Seq(Messages) /\ ask.asked /\ t # <<>> /\ ask.pending = <<>>
    BY DEF TalkInv
  <2> QED BY <2>1
<1>2. /\ s \in Seq(Messages) /\ Len(s) = Len(t) + 1 /\ DOMAIN s = 1 .. Len(t) + 1
      /\ \A k \in DOMAIN t : s[k] = t[k]
      /\ s[Len(t) + 1] = m /\ s # <<>>
  BY <1>1, OneMoreMessage
<1>3. \A k \in DOMAIN t : ~Owed(ask, t, pool, k)
  BY DEF Owed
<1>4. ASSUME NEW k \in DOMAIN t, t[k].role # "results"
      PROVE  Settled(backend.protocol, s, k)
  <2>1. Settled(backend.protocol, t, k)
    BY <1>3, <1>4 DEF TalkInv, Told
  <2>2. m.role # "results"
    OBVIOUS
  <2> QED BY <1>1, <1>4, <2>1, <2>2, AppendSettles
<1>5. m.role = "assistant" => Owed(ask', s, pool', Len(t) + 1)
  BY <1>2 DEF Owed
<1>6. m.role = "partial" => Settled(backend.protocol, s, Len(t) + 1)
  <2>1. SUFFICES ASSUME m.role = "partial" PROVE Settled(backend.protocol, s, Len(t) + 1)
    OBVIOUS
  <2>2. s[Len(t) + 1].ids = <<>> /\ <<>> \in Seq(Uses) /\ DOMAIN <<>> = {} /\ Len(<<>>) = 0
    BY <1>2, <2>1
  <2>3. GivenBy(backend.protocol, s[Len(t) + 1].ids) = <<>>
    <3>1. s[Len(t) + 1].ids \in Seq(Uses)
      BY <2>2
    <3> QED BY <2>2, <3>1, GivenShape
  <2>4. Len(t) + 1 + 0 + 1 \notin DOMAIN s
    BY <1>1, <1>2
  <2> QED BY <2>2, <2>3, <2>4 DEF Settled
<1>7. \A k \in DOMAIN s :
          /\ s[k].role = "question" <=> k = 1
          /\ s[k].role \in {"results", "assistant"} => s[k].ids # <<>>
          /\ s[k].role # "results" => Settled(backend.protocol, s, k) \/ Owed(ask', s, pool', k)
  <2> SUFFICES ASSUME NEW k \in DOMAIN s
               PROVE  /\ s[k].role = "question" <=> k = 1
                      /\ s[k].role \in {"results", "assistant"} => s[k].ids # <<>>
                      /\ s[k].role # "results" =>
                             Settled(backend.protocol, s, k) \/ Owed(ask', s, pool', k)
    OBVIOUS
  <2>1. CASE k \in DOMAIN t
    BY <1>2, <1>4, <2>1 DEF TalkInv, Told
  <2>2. CASE k = Len(t) + 1
    <3>1. k # 1 /\ s[k] = m
      BY <1>1, <1>2, <2>2
    <3> QED BY <1>5, <1>6, <2>2, <3>1
  <2> QED BY <1>1, <1>2, <2>1, <2>2
<1>8. Owes(ask') => m.role = "assistant"
  BY <1>1 DEF Owes
<1>9. Owes(ask') => ask'.asked /\ Owed(ask', s, pool', Len(s))
  BY <1>1, <1>2, <1>5, <1>8
<1>10. Told(backend'.protocol, ask', s, pool')
  BY <1>7, <1>9 DEF Told
<1>11. s \in Seq(Messages) /\ ask'.asked /\ s # <<>> /\ ask'.pending = <<>> /\ ask'.asked \in BOOLEAN
  BY <1>1, <1>2 DEF TalkInv
<1> QED BY <1>10, <1>11 DEF TalkInv

LEMMA TalkTurns ==
  ASSUME LoopInv, TalkInv, Paused \/ \E n \in Slots : UsesTools(n)
  PROVE  TalkInv'
<1>1. CASE Paused
  <2> DEFINE m == Message("partial", <<>>)
  <2>1. m \in Messages /\ m.role = "partial" /\ m.ids = <<>>
    BY DEF Message, Messages
  <2>2. /\ transcript' = Append(transcript, m) /\ ask.pc = "model" /\ UNCHANGED backend
        /\ ask'.pc = "hop" /\ ask'.steps = ask.steps /\ ask'.asked = ask.asked
        /\ ask'.pending = ask.pending
    BY <1>1 DEF Paused, Accounted, Uncounted, LoopInv, AskFields
  <2> HIDE DEF m
  <2> QED BY <2>1, <2>2, TurnTold
<1>2. ASSUME NEW n \in Slots, UsesTools(n) PROVE TalkInv'
  <2> DEFINE ids == [i \in 1 .. n |-> <<ask.steps, i>>]
             m == Message("assistant", ids)
  <2>1. n \in Nat /\ n >= 1 /\ ask.steps \in Nat
    BY LoopAssumption DEF Slots, TalkInv
  <2>2. ids \in [1 .. n -> Uses] /\ 1 \in DOMAIN ids
    BY <2>1 DEF Uses
  <2>3. ids \in Seq(Uses) /\ ids # <<>>
    <3>1. ids \in Seq(Uses)
      BY <2>1, <2>2, SeqDef
    <3>2. DOMAIN <<>> = {}
      OBVIOUS
    <3> HIDE DEF ids
    <3> QED BY <2>2, <3>1, <3>2
  <2>4. m \in Messages /\ m.role = "assistant" /\ m.ids = ids
    <3> HIDE DEF ids
    <3> QED BY <2>3 DEF Message, Messages
  <2>5. /\ transcript' = Append(transcript, m) /\ ask.pc = "model" /\ UNCHANGED backend
        /\ ask'.pc = "tools" /\ ask'.steps = ask.steps /\ ask'.asked = ask.asked
        /\ ask'.pending = ask.pending
        /\ DOMAIN pool' = 1 .. n
    BY <1>2 DEF UsesTools, Uncounted, LoopInv, AskFields
  <2>6. ids = [i \in DOMAIN pool' |-> <<ask.steps, i>>]
    BY <2>5
  <2> HIDE DEF m, ids
  <2> QED BY <2>3, <2>4, <2>5, <2>6, TurnTold
<1> QED BY <1>1, <1>2


(* The hop: what the last turn asked for is given, once.                     *)
LEMMA TalkAsked ==
  ASSUME LoopInv, TalkInv, ask.pc = "hop", UNCHANGED backend,
         transcript' = transcript \o
             IF ask.asked THEN Give(ask.pending) ELSE <<Message("question", <<>>)>>,
         ask'.pc = "model", ask'.steps = ask.steps + 1, ask'.asked = TRUE, ask'.pending = <<>>
  PROVE  TalkInv'
<1> DEFINE t == transcript
           s == transcript'
           protocol == backend.protocol
<1>1. /\ t \in Seq(Messages) /\ Len(t) \in Nat /\ DOMAIN t = 1 .. Len(t)
      /\ \A k \in DOMAIN t : t[k] \in Messages
  <2>1. t \in Seq(Messages)
    BY DEF TalkInv
  <2> QED BY <2>1
<1>2. ask'.steps \in Nat /\ ask'.asked /\ ask'.asked \in BOOLEAN
  <2>1. ask'.asked \in BOOLEAN
    BY Zenon
  <2> QED BY <2>1 DEF TalkInv
<1>3. SUFFICES /\ s \in Seq(Messages) /\ s # <<>>
               /\ \A k \in DOMAIN s :
                      /\ s[k].role = "question" <=> k = 1
                      /\ s[k].role \in {"results", "assistant"} => s[k].ids # <<>>
                      /\ s[k].role # "results" => Settled(protocol, s, k)
  <2>1. ~Owes(ask')
    BY DEF Owes
  <2>2. Told(backend'.protocol, ask', s, pool')
    BY <1>3, <2>1 DEF Told
  <2> QED BY <1>2, <1>3, <2>2 DEF TalkInv
<1>4. CASE ~ask.asked
  <2> DEFINE m == Message("question", <<>>)
  <2>1. m \in Messages /\ m.role = "question" /\ m.ids = <<>>
    BY DEF Message, Messages
  <2>2. t = <<>>
    BY <1>4 DEF TalkInv
  <2>3. s = t \o <<m>>
    BY <1>4
  <2> HIDE DEF m
  <2>4. s = <<m>>
    BY <2>1, <2>2, <2>3
  <2>5. s \in Seq(Messages) /\ s # <<>> /\ DOMAIN s = {1} /\ s[1] = m
    <3>1. <<m>> \in Seq(Messages) /\ <<m>> # <<>> /\ DOMAIN <<m>> = {1} /\ <<m>>[1] = m
      BY <2>1
    <3> HIDE DEF s
    <3> QED BY <2>4, <3>1
  <2>6. Settled(protocol, s, 1)
    <3>1. s[1].ids \in Seq(Uses) /\ s[1].ids = <<>>
      BY <2>1, <2>5
    <3>2. GivenBy(protocol, s[1].ids) = <<>>
      <4> HIDE DEF s, protocol
      <4> QED BY <3>1, GivenShape
    <3>3. DOMAIN <<>> = {} /\ Len(<<>>) = 0
      OBVIOUS
    <3>4. 1 + 0 + 1 \notin DOMAIN s
      BY <2>5
    <3> QED BY <3>2, <3>3, <3>4 DEF Settled
  <2> QED BY <2>1, <2>5, <2>6
<1>5. CASE ask.asked /\ ask.pending = <<>>
  <2>1. GivenBy(protocol, ask.pending) = <<>>
    <3>1. ask.pending \in Seq(Uses)
      BY <1>5
    <3> QED BY <1>5, <3>1, GivenShape
  <2>2. s = t \o <<>>
    BY <1>5, <2>1 DEF Give, GivenBy
  <2>3. s = t
    BY <1>1, <2>2
  <2>4. \A k \in DOMAIN t : ~Owed(ask, t, pool, k)
    <3> SUFFICES ASSUME NEW k \in DOMAIN t, Owed(ask, t, pool, k) PROVE FALSE
      OBVIOUS
    <3>1. t[k].ids = <<>> /\ t[k].role = "assistant"
      BY <1>5 DEF Owed
    <3> QED BY <3>1 DEF TalkInv, Told
  <2>5. s # <<>>
    BY <1>5, <2>3 DEF TalkInv
  <2> QED BY <1>1, <2>3, <2>4, <2>5 DEF TalkInv, Told
<1>6. CASE ask.asked /\ ask.pending # <<>>
  <2> DEFINE g == GivenBy(protocol, t[Len(t)].ids)
  <2>1. t # <<>> /\ Owed(ask, t, pool, Len(t))
    BY <1>6 DEF TalkInv, Told, Owes
  <2>2. /\ Len(t) \in DOMAIN t /\ t[Len(t)].role = "assistant"
        /\ t[Len(t)].ids = ask.pending
        /\ t[Len(t)].ids \in Seq(Uses)
    <3>1. Len(t) \in DOMAIN t
      BY <1>1, <2>1
    <3> QED BY <1>1, <2>1, <3>1 DEF Owed, Messages
  <2>3. s = t \o g
    BY <1>6, <2>2 DEF Give, GivenBy
  <2>4. /\ g \in Seq(Messages) /\ Len(g) \in Nat /\ DOMAIN g = 1 .. Len(g)
        /\ \A j \in DOMAIN g : g[j].role = "results" /\ g[j].ids # <<>>
    <3>1. /\ g \in Seq(Messages)
          /\ \A j \in DOMAIN g : g[j].role = "results" /\ g[j].ids # <<>>
      BY <2>2, GivenShape
    <3> QED BY <3>1
  <2>5. \A k \in DOMAIN t : t[k].role # "results" => Settled(protocol, s, k)
    <3> SUFFICES ASSUME NEW k \in DOMAIN t, t[k].role # "results"
                 PROVE  Settled(protocol, s, k)
      OBVIOUS
    <3>1. k # Len(t) => Settled(protocol, t, k)
      BY DEF TalkInv, Told, Owed
    <3>2. t[Len(t)].role # "results"
      BY <2>2
    <3> QED BY <1>1, <2>1, <2>3, <3>1, <3>2, GiveSettles
  <2> HIDE DEF g
  <2>6. /\ s \in Seq(Messages) /\ DOMAIN s = 1 .. Len(t) + Len(g)
        /\ \A k \in DOMAIN t : s[k] = t[k]
        /\ \A j \in DOMAIN g : s[Len(t) + j] = g[j]
    <3>1. /\ t \o g \in Seq(Messages) /\ DOMAIN (t \o g) = 1 .. Len(t) + Len(g)
          /\ \A k \in DOMAIN t : (t \o g)[k] = t[k]
          /\ \A j \in DOMAIN g : (t \o g)[Len(t) + j] = g[j]
      <4> HIDE DEF t
      <4> QED BY <1>1, <2>4, MoreMessages
    <3> HIDE DEF s, t
    <3> QED BY <2>3, <3>1
  <2>7. s # <<>>
    <3>1. Len(t) \in DOMAIN s /\ DOMAIN <<>> = {}
      BY <1>1, <2>2, <2>4, <2>6
    <3> HIDE DEF s
    <3> QED BY <3>1
  <2>8. ASSUME NEW k \in DOMAIN s
        PROVE  /\ s[k].role = "question" <=> k = 1
               /\ s[k].role \in {"results", "assistant"} => s[k].ids # <<>>
               /\ s[k].role # "results" => Settled(protocol, s, k)
    <3>1. CASE k \in DOMAIN t
      <4>1. /\ t[k].role = "question" <=> k = 1
            /\ t[k].role \in {"results", "assistant"} => t[k].ids # <<>>
        BY <3>1 DEF TalkInv, Told
      <4> QED BY <2>5, <2>6, <3>1, <4>1
    <3>2. CASE k \notin DOMAIN t
      <4>1. k - Len(t) \in DOMAIN g /\ k = Len(t) + (k - Len(t)) /\ k # 1
        BY <1>1, <2>2, <2>4, <2>6, <3>2
      <4>2. s[k].role = "results" /\ s[k].ids # <<>>
        BY <2>4, <2>6, <4>1
      <4> QED BY <4>1, <4>2
    <3> QED BY <3>1, <3>2
  <2> QED BY <2>6, <2>7, <2>8
<1> QED BY <1>4, <1>5, <1>6 DEF TalkInv

LEMMA TalkHop ==
  ASSUME LoopInv, TalkInv, Hop
  PROVE  TalkInv'
<1>1. ask.pc = "hop" /\ UNCHANGED <<backend, pool>>
  BY DEF Hop
<1>2. ASSUME NEW reason, Ends("finished", reason), UNCHANGED transcript
      PROVE  TalkInv'
  <2>1. /\ ask'.pc = "finished" /\ ask'.steps = ask.steps /\ ask'.asked = ask.asked
        /\ ask'.pending = ask.pending
    BY <1>2 DEF Ends, LoopInv, AskFields
  <2>2. \A k \in DOMAIN transcript :
            Owed(ask, transcript, pool, k) => Owed(ask', transcript, pool', k)
    BY <2>1 DEF Owed
  <2>3. ~Owes(ask')
    BY <2>1 DEF Owes
  <2> QED BY <1>1, <1>2, <2>1, <2>2, <2>3, TalkStays
<1>3. ASSUME transcript' = transcript \o
                 IF ask.asked THEN Give(ask.pending) ELSE <<Message("question", <<>>)>>,
             ask' = [ask EXCEPT !.pc = "model", !.steps = @ + 1, !.asked = TRUE,
                                !.pending = PendingOnceGiven]
      PROVE  TalkInv'
  <2>1. /\ ask'.pc = "model" /\ ask'.steps = ask.steps + 1 /\ ask'.asked = TRUE
        /\ ask'.pending = <<>>
    BY <1>3 DEF PendingOnceGiven, LoopInv, AskFields
  <2> QED BY <1>1, <1>3, <2>1, TalkAsked
<1> QED BY <1>2, <1>3 DEF Hop

LEMMA TalkCollect ==
  ASSUME LoopInv, TalkInv, Collect
  PROVE  TalkInv'
<1>1. /\ ask.pc = "tools" /\ UNCHANGED <<backend, transcript>>
      /\ ask'.pc = "hop" /\ ask'.steps = ask.steps /\ ask'.asked = ask.asked
      /\ ask'.pending = [i \in DOMAIN pool |-> <<ask.steps, i>>]
  BY DEF Collect, Accounted, LoopInv, AskFields
<1>2. ask.asked /\ Owed(ask, transcript, pool, Len(transcript))
  BY <1>1 DEF TalkInv, Told, Owes
<1>3. ASSUME NEW k, Owed(ask, transcript, pool, k) PROVE Owed(ask', transcript, pool', k)
  BY <1>1, <1>3 DEF Owed
<1>4. Told(backend.protocol, ask', transcript, pool')
  BY <1>1, <1>2, <1>3 DEF TalkInv, Told
<1> QED BY <1>1, <1>4 DEF TalkInv

LEMMA TalkSteps == LoopInv /\ TalkInv /\ [LoopNext]_loopVars => TalkInv'
<1> SUFFICES ASSUME LoopInv, TalkInv, [LoopNext]_loopVars PROVE TalkInv'
  OBVIOUS
<1>1. CASE UNCHANGED loopVars
  BY <1>1 DEF loopVars, TalkInv
<1>2. CASE Over
  BY <1>2 DEF Over, loopVars, TalkInv
<1> QED BY <1>1, <1>2, TalkMoves, TalkCalls, TalkTurns, TalkHop, TalkCollect DEF LoopNext

(* Whatever the model is asked with is a transcript it takes: the question   *)
(* once, each turn's uses answered in order right after it and no others,    *)
(* and none again after a pause, for any number of steps and calls and       *)
(* either protocol (ask of agent.py, give and turn of models/).              *)
THEOREM AlwaysAnswered == LoopSpec => []TranscriptAnswered
<1>1. LoopInv /\ TalkInv => TranscriptAnswered
  <2> SUFFICES ASSUME TalkInv, ask.pc = "model"
               PROVE  /\ {k \in DOMAIN transcript : transcript[k].role = "question"} = {1}
                      /\ \A k \in DOMAIN transcript :
                             /\ transcript[k].role # "results" => AnsweredInOrder(k)
                             /\ transcript[k].role = "results" => transcript[k].ids # <<>>
    BY DEF TranscriptAnswered
  <2>1. transcript \in Seq(Messages) /\ transcript # <<>>
    BY DEF TalkInv
  <2>2. 1 \in DOMAIN transcript
    BY <2>1
  <2>3. /\ \A k \in DOMAIN transcript :
               /\ transcript[k].role = "question" <=> k = 1
               /\ transcript[k].role = "results" => transcript[k].ids # <<>>
               /\ transcript[k].role # "results" => Settled(backend.protocol, transcript, k)
    BY DEF TalkInv, Told, Owed
  <2> QED BY <2>1, <2>2, <2>3, SettledAnswers
<1>2. LoopInit => LoopInv /\ TalkInv
  BY LoopStart, TalkStart
<1>3. LoopInv /\ TalkInv /\ [LoopNext]_loopVars => LoopInv' /\ TalkInv'
  BY LoopSteps, TalkSteps
<1> QED BY <1>1, <1>2, <1>3, PTL DEF LoopSpec


-----------------------------------------------------------------------------
(* What an answer accounts for.                                              *)
UsesOf(t) == UNION {{k} \X DOMAIN t[k].ids : k \in {k \in DOMAIN t : t[k].role = "assistant"}}

(* Calls are counted when a turn's results are collected, steps when the     *)
(* model is asked, hops and turns when it has answered.                      *)
Counted(a, t, p) ==
    /\ a.steps \in Nat /\ a.turns \in Nat /\ a.hops \in Nat /\ a.calls \in Nat
    /\ IsFiniteSet(UsesOf(t))
    /\ a.pc \in {"connect", "start", "hop", "finished"} => a.hops = a.turns /\ a.turns = a.steps
    /\ a.pc = "model" => a.hops = a.turns /\ a.turns + 1 = a.steps
    /\ a.pc = "tools" => a.hops + 1 = a.turns /\ a.turns = a.steps
    /\ a.pc \in {"connect", "start", "hop", "model", "finished"} => Cardinality(UsesOf(t)) = a.calls
    /\ a.pc = "tools" => Cardinality(UsesOf(t)) = a.calls + Len(p)

CountInv == Counted(ask, transcript, pool)

LEMMA UsesOfAny ==
  ASSUME NEW t, NEW u
  PROVE  u \in UsesOf(t)
             <=> \E k \in DOMAIN t : t[k].role = "assistant" /\ \E i \in DOMAIN t[k].ids : u = <<k, i>>
  BY DEF UsesOf

(* Only a turn that uses tools adds uses.                                    *)
LEMMA NoMoreUses ==
  ASSUME NEW t \in Seq(Messages), NEW g \in Seq(Messages),
         \A j \in DOMAIN g : g[j].role # "assistant"
  PROVE  UsesOf(t \o g) = UsesOf(t)
<1> DEFINE s == t \o g
<1>1. /\ DOMAIN t = 1 .. Len(t) /\ DOMAIN g = 1 .. Len(g) /\ Len(t) \in Nat /\ Len(g) \in Nat
      /\ DOMAIN s = 1 .. Len(t) + Len(g)
      /\ \A k \in DOMAIN t : s[k] = t[k]
      /\ \A j \in DOMAIN g : s[Len(t) + j] = g[j]
  BY MoreMessages
<1> HIDE DEF s
<1>2. DOMAIN t \subseteq DOMAIN s
  BY <1>1
<1>3. ASSUME NEW k \in DOMAIN s, s[k].role = "assistant" PROVE k \in DOMAIN t
  <2> SUFFICES ASSUME k \notin DOMAIN t PROVE FALSE
    OBVIOUS
  <2>1. k - Len(t) \in DOMAIN g /\ k = Len(t) + (k - Len(t))
    BY <1>1
  <2> QED BY <1>1, <1>3, <2>1
<1>4. \A k : k \in DOMAIN s /\ s[k].role = "assistant" <=> k \in DOMAIN t /\ t[k].role = "assistant"
  BY <1>1, <1>2, <1>3
<1>5. \A k \in DOMAIN t : s[k].ids = t[k].ids
  BY <1>1
<1>6. ASSUME NEW u \in UsesOf(s) PROVE u \in UsesOf(t)
  <2>1. PICK k \in DOMAIN s : /\ s[k].role = "assistant"
                              /\ \E i \in DOMAIN s[k].ids : u = <<k, i>>
    BY UsesOfAny
  <2>2. k \in DOMAIN t /\ t[k].role = "assistant" /\ s[k].ids = t[k].ids
    BY <1>4, <1>5, <2>1
  <2> QED BY <2>1, <2>2, UsesOfAny
<1>7. ASSUME NEW u \in UsesOf(t) PROVE u \in UsesOf(s)
  <2>1. PICK k \in DOMAIN t : /\ t[k].role = "assistant"
                              /\ \E i \in DOMAIN t[k].ids : u = <<k, i>>
    BY UsesOfAny
  <2>2. k \in DOMAIN s /\ s[k].role = "assistant" /\ s[k].ids = t[k].ids
    BY <1>4, <1>5, <2>1
  <2> QED BY <2>1, <2>2, UsesOfAny
<1> QED BY <1>6, <1>7 DEF s

LEMMA SoManyMoreUses ==
  ASSUME NEW t \in Seq(Messages), IsFiniteSet(UsesOf(t)),
         NEW m \in Messages, m.role = "assistant",
         NEW n \in Nat, DOMAIN m.ids = 1 .. n
  PROVE  /\ IsFiniteSet(UsesOf(Append(t, m)))
         /\ Cardinality(UsesOf(Append(t, m))) = Cardinality(UsesOf(t)) + n
<1> DEFINE s == Append(t, m)
           more == {Len(t) + 1} \X (1 .. n)
<1>1. /\ Len(t) \in Nat /\ DOMAIN t = 1 .. Len(t) /\ DOMAIN s = 1 .. Len(t) + 1
      /\ \A k \in DOMAIN t : s[k] = t[k]
      /\ s[Len(t) + 1] = m
  BY OneMoreMessage
<1> HIDE DEF s
<1>2. UsesOf(s) = UsesOf(t) \cup more
  <2>1. ASSUME NEW u \in UsesOf(s) PROVE u \in UsesOf(t) \cup more
    <3>1. PICK k \in DOMAIN s : /\ s[k].role = "assistant"
                                /\ \E i \in DOMAIN s[k].ids : u = <<k, i>>
      BY UsesOfAny
    <3>2. CASE k \in DOMAIN t
      BY <1>1, <3>1, <3>2, UsesOfAny
    <3>3. CASE k \notin DOMAIN t
      <4>1. k = Len(t) + 1
        BY <1>1, <3>1, <3>3
      <4> QED BY <1>1, <3>1, <4>1
    <3> QED BY <3>2, <3>3
  <2>2. ASSUME NEW u \in UsesOf(t) PROVE u \in UsesOf(s)
    <3>1. PICK k \in DOMAIN t : /\ t[k].role = "assistant"
                                /\ \E i \in DOMAIN t[k].ids : u = <<k, i>>
      BY UsesOfAny
    <3>2. k \in DOMAIN s /\ s[k] = t[k]
      BY <1>1
    <3> QED BY <3>1, <3>2, UsesOfAny
  <2>3. ASSUME NEW u \in more PROVE u \in UsesOf(s)
    <3>1. PICK i \in 1 .. n : u = <<Len(t) + 1, i>>
      OBVIOUS
    <3>2. Len(t) + 1 \in DOMAIN s
      BY <1>1
    <3> QED BY <1>1, <3>1, <3>2, UsesOfAny
  <2> QED BY <2>1, <2>2, <2>3
<1>3. UsesOf(t) \cap more = {}
  <2> SUFFICES ASSUME NEW u \in UsesOf(t), u \in more PROVE FALSE
    OBVIOUS
  <2>1. PICK k \in DOMAIN t : \E i \in DOMAIN t[k].ids : u = <<k, i>>
    BY UsesOfAny
  <2>2. u[1] = k /\ u[1] = Len(t) + 1
    BY <2>1
  <2> QED BY <1>1, <2>2
<1>4. IsFiniteSet(more) /\ Cardinality(more) = n
  <2>1. IsFiniteSet({Len(t) + 1}) /\ Cardinality({Len(t) + 1}) = 1
    BY FS_Singleton
  <2>2. IsFiniteSet(1 .. n) /\ Cardinality(1 .. n) = n
    BY FS_Interval
  <2>3. \A S, T : IsFiniteSet(S) /\ IsFiniteSet(T) =>
                   /\ IsFiniteSet(S \X T)
                   /\ Cardinality(S \X T) = Cardinality(S) * Cardinality(T)
    BY FS_Product
  <2>4. IsFiniteSet(more) /\ Cardinality(more) = Cardinality({Len(t) + 1}) * Cardinality(1 .. n)
    BY Zenon, <2>1, <2>2, <2>3
  <2> QED BY <2>1, <2>2, <2>4
<1>5. Cardinality({}) = 0 /\ Cardinality(UsesOf(t)) \in Nat
  BY FS_EmptySet, FS_CardinalityType
<1> HIDE DEF more
<1>6. /\ IsFiniteSet(UsesOf(t) \cup more)
      /\ Cardinality(UsesOf(t) \cup more) = Cardinality(UsesOf(t)) + Cardinality(more) - 0
  BY <1>3, <1>4, <1>5, FS_Union
<1> QED BY <1>2, <1>4, <1>5, <1>6 DEF s

LEMMA CountStart == LoopInit => CountInv
<1> SUFFICES ASSUME LoopInit PROVE CountInv
  OBVIOUS
<1>1. UsesOf(transcript) = {}
  <2>1. transcript = <<>>
    BY DEF LoopInit
  <2>2. DOMAIN transcript = {}
    BY <2>1
  <2> QED BY <2>2 DEF UsesOf
<1>2. /\ ask.pc = "connect" /\ ask.steps = 0 /\ ask.turns = 0 /\ ask.hops = 0 /\ ask.calls = 0
  BY Zenon DEF LoopInit
<1>3. IsFiniteSet({}) /\ Cardinality({}) = 0
  BY FS_EmptySet
<1> QED BY <1>1, <1>2, <1>3 DEF CountInv, Counted

(* What a step does to the counters where no message is added.               *)
LEMMA CountMoves ==
  ASSUME LoopInv, CountInv,
         \/ Connect \/ ConnectFails \/ Require \/ Cancel \/ ModelRaises \/ Refused \/ Answered
         \/ Raise
  PROVE  CountInv'
<1>1. /\ UNCHANGED <<transcript, pool>>
      /\ ask'.steps = ask.steps /\ ask'.calls = ask.calls
      /\ \/ ask'.hops = ask.hops /\ ask'.turns = ask.turns
         \/ ask.pc = "model" /\ ask'.hops = ask.hops + 1 /\ ask'.turns = ask.turns + 1
            /\ ask'.pc = "finished"
  BY DEF Connect, ConnectFails, Require, Cancel, ModelRaises, Refused, Answered, Raise,
         Goes, Ends, Accounted, Uncounted, LoopInv, AskFields
<1>2. \/ ask.pc = "connect" /\ ask'.pc \in {"start", "raised"}
      \/ ask.pc = "start" /\ ask'.pc \in {"hop", "raised"}
      \/ ask'.pc = ask.pc
      \/ ask'.pc = "raised"
      \/ ask'.pc = "finished" /\ ask'.turns = ask.turns + 1
  BY DEF Connect, ConnectFails, Require, Cancel, ModelRaises, Refused, Answered, Raise,
         Goes, Ends, Accounted, Uncounted, LoopInv, AskFields
<1>3. ask.turns \in Nat /\ ask.hops \in Nat
  BY DEF CountInv, Counted
<1>4. ask'.pc = "finished" /\ ask.pc # "finished"
          => ask.pc = "model" /\ ask'.hops = ask.hops + 1 /\ ask'.turns = ask.turns + 1
  BY <1>1, <1>2, <1>3
<1> QED BY <1>1, <1>2, <1>4 DEF CountInv, Counted

LEMMA CountCalls ==
  ASSUME LoopInv, CountInv, Read \/ \E i \in DOMAIN pool : CallStep(i)
  PROVE  CountInv'
<1>1. UNCHANGED transcript
  BY DEF Read, CallStep, StartCall, Lock, Send, CallReturns, UnknownServer
<1>2. DOMAIN pool' = DOMAIN pool
  BY DEF Read, CallStep, StartCall, Lock, Send, CallReturns, UnknownServer, Moves
<1>3. Len(pool') = Len(pool)
  <2>1. pool \in Seq(Calls) /\ pool' \in Seq(Calls)
    BY CallKeeps, ReadKeeps DEF LoopInv
  <2>2. DOMAIN pool = 1 .. Len(pool) /\ DOMAIN pool' = 1 .. Len(pool')
        /\ Len(pool) \in Nat /\ Len(pool') \in Nat
    BY <2>1
  <2> QED BY <1>2, <2>2
<1>4. /\ ask'.steps = ask.steps /\ ask'.turns = ask.turns /\ ask'.hops = ask.hops
      /\ ask'.calls = ask.calls
      /\ ask'.pc = ask.pc \/ ask'.pc = "raising"
  <2>1. CASE Read
    BY <2>1 DEF Read, Goes, LoopInv, AskFields
  <2>2. CASE \E i \in DOMAIN pool : CallStep(i)
    BY <2>2 DEF CallStep, StartCall, Lock, Send, CallReturns, UnknownServer
  <2> QED BY <2>1, <2>2
<1> QED BY <1>1, <1>3, <1>4 DEF CountInv, Counted

LEMMA CountTurns ==
  ASSUME LoopInv, TalkInv, CountInv, Paused \/ \E n \in Slots : UsesTools(n)
  PROVE  CountInv'
<1>0. transcript \in Seq(Messages)
  BY DEF TalkInv
<1>1. CASE Paused
  <2> DEFINE m == Message("partial", <<>>)
  <2>1. m \in Messages /\ m.role = "partial"
    BY DEF Message, Messages
  <2>2. /\ transcript' = Append(transcript, m) /\ ask.pc = "model"
        /\ ask'.pc = "hop" /\ ask'.steps = ask.steps /\ ask'.calls = ask.calls
        /\ ask'.turns = ask.turns + 1 /\ ask'.hops = ask.hops + 1
    BY <1>1 DEF Paused, Accounted, Uncounted, LoopInv, AskFields
  <2> HIDE DEF m
  <2>3. UsesOf(transcript') = UsesOf(transcript)
    <3>1. Append(transcript, m) = transcript \o <<m>>
      BY <1>0, <2>1
    <3>2. <<m>> \in Seq(Messages) /\ \A j \in DOMAIN <<m>> : <<m>>[j] = m
      BY <2>1
    <3> QED BY <1>0, <2>1, <2>2, <3>1, <3>2, NoMoreUses
  <2> QED BY <2>2, <2>3 DEF CountInv, Counted
<1>2. ASSUME NEW n \in Slots, UsesTools(n) PROVE CountInv'
  <2> DEFINE ids == [i \in 1 .. n |-> <<ask.steps, i>>]
             m == Message("assistant", ids)
  <2>1. n \in Nat /\ ask.steps \in Nat
    BY LoopAssumption DEF Slots, TalkInv
  <2>2. ids \in Seq(Uses) /\ DOMAIN ids = 1 .. n
    <3>1. ids \in [1 .. n -> Uses]
      BY <2>1 DEF Uses
    <3> QED BY <2>1, <3>1, SeqDef
  <2>3. m \in Messages /\ m.role = "assistant" /\ DOMAIN m.ids = 1 .. n
    <3> HIDE DEF ids
    <3> QED BY <2>2 DEF Message, Messages
  <2>4. /\ transcript' = Append(transcript, m) /\ ask.pc = "model"
        /\ ask'.pc = "tools" /\ ask'.steps = ask.steps /\ ask'.calls = ask.calls
        /\ ask'.turns = ask.turns + 1 /\ ask'.hops = ask.hops
        /\ pool' = [i \in 1 .. n |-> [state |-> "queued", id |-> 0]]
    BY <1>2 DEF UsesTools, Uncounted, LoopInv, AskFields
  <2>5. Len(pool') = n
    <3>1. pool' \in Seq(Calls)
      BY <1>2, TurnKeeps DEF LoopInv
    <3>2. DOMAIN pool' = 1 .. n
      BY <2>4
    <3>3. DOMAIN pool' = 1 .. Len(pool') /\ Len(pool') \in Nat
      BY <3>1
    <3> QED BY <2>1, <3>2, <3>3
  <2> HIDE DEF m
  <2>6. /\ IsFiniteSet(UsesOf(transcript'))
        /\ Cardinality(UsesOf(transcript')) = Cardinality(UsesOf(transcript)) + n
    BY <1>0, <2>1, <2>3, <2>4, SoManyMoreUses DEF CountInv, Counted
  <2> QED BY <2>4, <2>5, <2>6 DEF CountInv, Counted
<1> QED BY <1>1, <1>2

LEMMA CountHop ==
  ASSUME LoopInv, TalkInv, CountInv, Hop
  PROVE  CountInv'
<1>0. transcript \in Seq(Messages) /\ ask.pc = "hop"
  BY DEF TalkInv, Hop
<1>1. ASSUME NEW reason, Ends("finished", reason), UNCHANGED transcript
      PROVE  CountInv'
  <2>1. /\ ask'.pc = "finished" /\ ask'.steps = ask.steps /\ ask'.turns = ask.turns
        /\ ask'.hops = ask.hops /\ ask'.calls = ask.calls
    BY <1>1 DEF Ends, LoopInv, AskFields
  <2> QED BY <1>0, <1>1, <2>1 DEF CountInv, Counted
<1>2. ASSUME transcript' = transcript \o
                 IF ask.asked THEN Give(ask.pending) ELSE <<Message("question", <<>>)>>,
             ask' = [ask EXCEPT !.pc = "model", !.steps = @ + 1, !.asked = TRUE,
                                !.pending = PendingOnceGiven]
      PROVE  CountInv'
  <2>1. /\ ask'.pc = "model" /\ ask'.steps = ask.steps + 1 /\ ask'.turns = ask.turns
        /\ ask'.hops = ask.hops /\ ask'.calls = ask.calls
    BY <1>2 DEF LoopInv, AskFields
  <2>2. ASSUME NEW g \in Seq(Messages), \A j \in DOMAIN g : g[j].role # "assistant",
               transcript' = transcript \o g
        PROVE  CountInv'
    <3>1. UsesOf(transcript') = UsesOf(transcript)
      BY <1>0, <2>2, NoMoreUses
    <3> QED BY <1>0, <2>1, <3>1 DEF CountInv, Counted
  <2>3. CASE ~ask.asked
    <3> DEFINE m == Message("question", <<>>)
    <3>1. m \in Messages /\ m.role = "question"
      BY DEF Message, Messages
    <3>2. transcript' = transcript \o <<m>>
      BY <1>2, <2>3
    <3> HIDE DEF m
    <3>3. <<m>> \in Seq(Messages) /\ \A j \in DOMAIN <<m>> : <<m>>[j] = m
      BY <3>1
    <3> QED BY <2>2, <3>1, <3>2, <3>3
  <2>4. CASE ask.asked
    <3>1. ask.pending \in Seq(Uses)
      <4>1. CASE ask.pending = <<>>
        BY <4>1
      <4>2. CASE ask.pending # <<>>
        <5>1. transcript # <<>> /\ Owed(ask, transcript, pool, Len(transcript))
          BY <1>0, <2>4, <4>2 DEF TalkInv, Told, Owes
        <5>2. transcript[Len(transcript)] \in Messages
          BY <1>0, <5>1
        <5> QED BY <1>0, <5>1, <5>2 DEF Owed, Messages
      <4> QED BY <4>1, <4>2
    <3>2. transcript' = transcript \o GivenBy(backend.protocol, ask.pending)
      BY <1>2, <2>4 DEF Give, GivenBy
    <3> QED BY <2>2, <3>1, <3>2, GivenShape
  <2> QED BY <2>3, <2>4
<1> QED BY <1>1, <1>2 DEF Hop

LEMMA CountCollect ==
  ASSUME LoopInv, CountInv, Collect
  PROVE  CountInv'
<1>1. /\ ask.pc = "tools" /\ UNCHANGED transcript
      /\ ask'.pc = "hop" /\ ask'.steps = ask.steps /\ ask'.turns = ask.turns
      /\ ask'.hops = ask.hops + 1 /\ ask'.calls = ask.calls + Len(pool)
  BY DEF Collect, Accounted, LoopInv, AskFields
<1>2. Len(pool) \in Nat
  BY DEF LoopInv
<1> QED BY <1>1, <1>2 DEF CountInv, Counted

LEMMA CountSteps == LoopInv /\ TalkInv /\ CountInv /\ [LoopNext]_loopVars => CountInv'
<1> SUFFICES ASSUME LoopInv, TalkInv, CountInv, [LoopNext]_loopVars PROVE CountInv'
  OBVIOUS
<1>1. CASE UNCHANGED loopVars
  BY <1>1 DEF loopVars, CountInv
<1>2. CASE Over
  BY <1>2 DEF Over, loopVars, CountInv
<1> QED BY <1>1, <1>2, CountMoves, CountCalls, CountTurns, CountHop, CountCollect DEF LoopNext

(* The answer that comes back counts every turn of the model once, the       *)
(* refused, the paused and the last too, and as many calls as the turns      *)
(* gone on from asked for (ask of agent.py).                                 *)
THEOREM AlwaysAccounted == LoopSpec => []AnswerAccounts
<1>1. CountInv => AnswerAccounts
  <2>1. UsesAsked = UsesOf(transcript)
    BY DEF UsesAsked, UsesOf
  <2> QED BY <2>1 DEF CountInv, Counted, AnswerAccounts
<1>2. LoopInit => LoopInv /\ TalkInv /\ CountInv
  BY LoopStart, TalkStart, CountStart
<1>3. LoopInv /\ TalkInv /\ CountInv /\ [LoopNext]_loopVars => LoopInv' /\ TalkInv' /\ CountInv'
  BY LoopSteps, TalkSteps, CountSteps
<1> QED BY <1>1, <1>2, <1>3, PTL DEF LoopSpec
=============================================================================
