----------------------------- MODULE AskService -----------------------------
(* The ask service, agent/server.py: HTTP handler threads, one run thread    *)
(* per ticket, the event streams that replay a ticket, and the reaper, over  *)
(* the two dictionaries STORE.conversations and STORE.tickets.  The agent    *)
(* loop a run drives (agent/agent.py) is here as far as the service sees it: *)
(* hops, the turn's tool calls with their outcomes, the reason it stopped.   *)
EXTENDS Integers, Sequences, FiniteSets

CONSTANTS
  Oids,            \* identities a bearer can carry
  Cids, Tids,      \* conversation and ticket ids the process can hand out
  Handlers,        \* connections that POST asks, one thread each
  Readers,         \* clients that follow a ticket's stream
  None,            \* Python's None, where an id is expected
  TTL,             \* DAS_ASK_TTL_S, in ticks
  MAX_EVENTS,      \* DAS_ASK_MAX_EVENTS
  MAX_STEPS,       \* DAS_MAX_STEPS: hops of the agent loop
  MaxCalls,        \* bound of the model: tool calls in one turn
  CallKinds,       \* what a tool call can turn out to be: a statement run, an
                   \* operation or a catalog read made, a listing, a refusal
  Cancellable,     \* bound of the model: tickets whose client may cancel
  RefusalReasons,  \* raw stop reasons of the backend's REFUSED turns
  ClientMayVanish, \* the socket of a 202 may be dead
  AuditMayFail     \* stdout may be closed when the audit line is printed

ASSUME SizesAssumption ==
  TTL \in Nat /\ MAX_EVENTS \in Nat /\ MAX_STEPS \in Nat /\ MaxCalls \in Nat
ASSUME CancellableAssumption == Cancellable \subseteq Tids
ASSUME NoneAssumption == None \notin Oids \cup Cids \cup Tids
ASSUME KindsAssumption ==
  CallKinds \subseteq {"query", "operation", "lookup", "listing", "failed"}
ASSUME RefusalAssumption == RefusalReasons \subseteq {"refusal", "content_filter"}
ASSUME FaultsAssumption == ClientMayVanish \in BOOLEAN /\ AuditMayFail \in BOOLEAN

VARIABLES
  conversations,   \* keys of STORE.conversations
  tickets,         \* keys of STORE.tickets
  conv,            \* the Conversation objects, live or orphaned
  ticket,          \* the Ticket objects, live or only referenced
  run,             \* the run thread of each ticket
  ask,             \* each handler thread, inside POST .../asks
  stream           \* each reader's GET .../events

vars == <<conversations, tickets, conv, ticket, run, ask, stream>>

-----------------------------------------------------------------------------
(* Events and the retained buffer.                                           *)

TERMINAL == {"answer", "abstention", "refusal", "error"}

EventTypes == TERMINAL \cup {"accepted", "branch", "step", "milestone", "done"}

\* What the properties tell apart in a payload: a branch's state, a refused
\* step, an error's kind, and done's count of tool calls.
Whats == {"", "is_error", "opened", "closed", "internal", "cancelled", "max_steps", "model"}

Events == [type : EventTypes, what : Whats, steps : Nat]

Event(type, what) == [type |-> type, what |-> what, steps |-> 0]

\* The code keeps the retained events in a list ordered by seq.  Here log is
\* every event emitted, so that seq is its length and an event's seq its
\* index, and kept is the set of the seqs still in the list.
StepsIn(log, kept) == {i \in kept : log[i].type = "step"}

Oldest(S, n) == {i \in S : Cardinality({j \in S : j < i}) < n}

Trim_RefusesNew(log, kept) ==
  {i \in kept : Cardinality({j \in kept : j < i}) < MAX_EVENTS}

\* `while len(events) > MAX_EVENTS: del` the oldest step, `break` without one.
Trim(log, kept) ==
  kept \ Oldest(StepsIn(log, kept), Cardinality(kept) - MAX_EVENTS)

Emitted(tk, event) ==
  LET log == Append(tk.log, event)
  IN [tk EXCEPT !.log = log,
                !.kept = Trim(log, @ \cup {Len(log)}),
                !.finished = @ \/ event.type = "done"]

\* Ticket.emit, atomic under the ticket's condition.
emit(t, event) == ticket' = [ticket EXCEPT ![t] = Emitted(@, event)]

\* Another identity's conversation or ticket does not exist.
FindConversation(c, oid) == c \in conversations /\ conv[c].oid = oid

FindTicket(t, oid) == t \in tickets /\ ticket[t].oid = oid

-----------------------------------------------------------------------------
(* States.                                                                   *)

NoConversation ==
  [oid |-> None, turns |-> 0, running |-> None, history |-> <<>>, idle |-> 0]

NoTicket ==
  [oid |-> None, conv |-> None, turn |-> 0, log |-> <<>>, kept |-> {},
   finished |-> FALSE, age |-> 0, cancel |-> FALSE, cancelledAt |-> 0,
   told |-> FALSE]

NoRun ==
  [pc |-> "none", hop |-> 0, calls |-> <<>>, steps |-> 0, ran |-> {},
   reason |-> "", prompt |-> <<>>]

NoAsk == [pc |-> "idle", conv |-> None, ticket |-> None]

NoStream ==
  [pc |-> "idle", ticket |-> None, sent |-> 0, pending |-> {}, got |-> {}]

Init ==
  /\ conversations = {} /\ tickets = {}
  /\ conv = [c \in Cids |-> NoConversation]
  /\ ticket = [t \in Tids |-> NoTicket]
  /\ run = [t \in Tids |-> NoRun]
  /\ ask = [h \in Handlers |-> NoAsk]
  /\ stream = [s \in Readers |-> NoStream]

-----------------------------------------------------------------------------
(* Conversations and asks.                                                   *)

\* POST /v1/conversations.
Open(c, oid) ==
  /\ conv[c].oid = None
  /\ conv' = [conv EXCEPT ![c].oid = oid]
  /\ conversations' = conversations \cup {c}
  /\ UNCHANGED <<tickets, ticket, run, ask, stream>>

\* POST .../asks, first lock: the conversation is found, and the lock is
\* released before the body is read.  Not found is a 404 and changes nothing.
AskLookup(h, c, oid) ==
  /\ ask[h].pc = "idle"
  /\ FindConversation(c, oid)
  /\ ask' = [ask EXCEPT ![h] = [pc |-> "found", conv |-> c, ticket |-> None]]
  /\ UNCHANGED <<conversations, tickets, conv, ticket, run, stream>>

\* 422: the body holds no question.
AskNoQuestion(h) ==
  /\ ask[h].pc = "found"
  /\ ask' = [ask EXCEPT ![h] = NoAsk]
  /\ UNCHANGED <<conversations, tickets, conv, ticket, run, stream>>

Busy_UntilTheTerminal(c) ==
  /\ conv[c].running # None
  /\ \A i \in DOMAIN ticket[conv[c].running].log :
       ticket[conv[c].running].log[i].type \notin TERMINAL

Busy(c) == conv[c].running # None

\* 409: an ask is already running in this conversation.
AskConflict(h) ==
  /\ ask[h].pc = "found"
  /\ Busy(ask[h].conv)
  /\ ask' = [ask EXCEPT ![h] = NoAsk]
  /\ UNCHANGED <<conversations, tickets, conv, ticket, run, stream>>

\* Second lock: the ticket is made and the conversation marked as running it.
\* The conversation is not looked up again.
AskAdmit(h, t) ==
  LET c == ask[h].conv
      turn == conv[c].turns + 1
  IN /\ ask[h].pc = "found"
     /\ ~Busy(c)
     /\ ticket[t].conv = None
     /\ conv' = [conv EXCEPT ![c].turns = turn, ![c].idle = 0, ![c].running = t]
     /\ ticket' = [ticket EXCEPT ![t].oid = conv[c].oid, ![t].conv = c, ![t].turn = turn]
     /\ tickets' = tickets \cup {t}
     /\ ask' = [ask EXCEPT ![h].pc = "admitted", ![h].ticket = t]
     /\ UNCHANGED <<conversations, run, stream>>

\* The 202 leaves before the run starts: from here the client knows the ticket.
AskRespond(h) ==
  /\ ask[h].pc = "admitted"
  /\ ticket' = [ticket EXCEPT ![ask[h].ticket].told = TRUE]
  /\ ask' = [ask EXCEPT ![h].pc = "told"]
  /\ UNCHANGED <<conversations, tickets, conv, run, stream>>

\* Writing the 202 raises: the handler thread ends and starts no run.
AskRespondFails(h) ==
  /\ ClientMayVanish
  /\ ask[h].pc = "admitted"
  /\ ask' = [ask EXCEPT ![h] = NoAsk]
  /\ UNCHANGED <<conversations, tickets, conv, ticket, run, stream>>

AskStart(h) ==
  /\ ask[h].pc = "told"
  /\ run' = [run EXCEPT ![ask[h].ticket].pc = "accept"]
  /\ ask' = [ask EXCEPT ![h] = NoAsk]
  /\ UNCHANGED <<conversations, tickets, conv, ticket, stream>>

\* POST .../cancel, by a client that was told the ticket.  Idempotent.
\* cancelledAt is history: the seq the first cancel found.
Cancel(t, oid) ==
  /\ ticket[t].told /\ FindTicket(t, oid)
  /\ ticket' = [ticket EXCEPT
       ![t].cancel = TRUE,
       ![t].cancelledAt = IF ticket[t].cancel THEN @ ELSE Len(ticket[t].log)]
  /\ UNCHANGED <<conversations, tickets, conv, run, ask, stream>>

-----------------------------------------------------------------------------
(* The run thread of ticket t.                                               *)

\* milestone_for: the tools that list sources and dashboards have no phase.
HasMilestone(kind) == kind # "listing"

Sequences1(S, n) == UNION {[1..k -> S] : k \in 1..n}

Goto(t, pc) == run' = [run EXCEPT ![t].pc = pc]

Quiet == UNCHANGED <<conversations, tickets, conv, ask, stream>>

RunAccept(t) ==
  /\ run[t].pc = "accept"
  /\ emit(t, Event("accepted", ""))
  /\ Goto(t, "open")
  /\ Quiet

RunOpenBranch(t) ==
  /\ run[t].pc = "open"
  /\ emit(t, Event("branch", "opened"))
  /\ Goto(t, "ask")
  /\ Quiet

\* agent.ask is entered with a copy of the history, and connects.
RunAsk(t) ==
  /\ run[t].pc = "ask"
  /\ run' = [run EXCEPT ![t].pc = "poll", ![t].prompt = conv[ticket[t].conv].history]
  /\ UNCHANGED ticket /\ Quiet

Stop_LeavesBranchOpen(t, reason) ==
  run' = [run EXCEPT ![t].pc = "terminal", ![t].reason = reason]

Stop_EndsThread(t, reason) ==
  run' = [run EXCEPT ![t].pc = "ended", ![t].reason = reason]

\* agent.ask is over: the branch is closed next, after an Answer and after an
\* exception alike.
Stop(t, reason) ==
  run' = [run EXCEPT ![t].pc = "close", ![t].reason = reason]

\* Connecting, the model call or a tool call raises: agent.ask returns nothing
\* and the service falls through to `except`.
RunRaises(t) ==
  /\ run[t].pc \in {"ask", "turn"}
  /\ Stop(t, "internal")
  /\ UNCHANGED ticket /\ Quiet

Cancelled_Ignored(t) == FALSE

Cancelled(t) == ticket[t].cancel

\* The top of the hop loop: the ceiling, then the poll for a cancel, and only
\* then another model turn.
RunPoll(t) ==
  /\ run[t].pc = "poll"
  /\ \/ /\ run[t].hop = MAX_STEPS
        /\ Stop(t, "max_steps")
     \/ /\ run[t].hop < MAX_STEPS
        /\ Cancelled(t)
        /\ Stop(t, "cancelled")
     \/ /\ run[t].hop < MAX_STEPS
        /\ ~Cancelled(t)
        /\ run' = [run EXCEPT ![t].pc = "turn", ![t].hop = @ + 1]
  /\ UNCHANGED ticket /\ Quiet

\* The model's turn ends the run, pauses, or asks for tools; nothing of the
\* tools shows before the whole turn's calls have returned.
RunTurn(t) ==
  /\ run[t].pc = "turn"
  /\ \/ \E reason \in RefusalReasons : Stop(t, reason)
     \/ Stop(t, "end_turn")
     \/ Goto(t, "poll")
     \/ \E calls \in Sequences1(CallKinds, MaxCalls) :
          run' = [run EXCEPT ![t].pc = "relay", ![t].calls = calls]
  /\ UNCHANGED ticket /\ Quiet

NextCall_AlwaysRelays(r) == [r EXCEPT !.calls = Tail(@), !.pc = "relay"]

NextCall(r) ==
  [r EXCEPT !.calls = Tail(@), !.pc = IF Len(r.calls) = 1 THEN "poll" ELSE "relay"]

\* The step of the turn's next call, in the order the model asked.
RunStep(t) ==
  LET kind == Head(run[t].calls)
      counted == [run[t] EXCEPT !.steps = @ + 1, !.ran = @ \cup {kind}]
  IN /\ run[t].pc = "relay"
     /\ emit(t, Event("step", IF kind = "failed" THEN "is_error" ELSE ""))
     /\ run' = [run EXCEPT ![t] = IF HasMilestone(kind)
                                  THEN [counted EXCEPT !.pc = "milestone"]
                                  ELSE NextCall(counted)]
     /\ Quiet

RunMilestone(t) ==
  /\ run[t].pc = "milestone"
  /\ emit(t, Event("milestone", ""))
  /\ run' = [run EXCEPT ![t] = NextCall(@)]
  /\ Quiet

RunCloseBranch(t) ==
  /\ run[t].pc = "close"
  /\ emit(t, Event("branch", "closed"))
  /\ Goto(t, "terminal")
  /\ Quiet

\* What Answer.sql and Answer.refused are after the calls made.
RanStatement(r) == "query" \in r.ran

Refused(r) == "failed" \in r.ran

Terminal_AbstainFirst(r) ==
  CASE r.reason = "internal"                      -> Event("error", "internal")
    [] r.reason \in {"cancelled", "max_steps"}    -> Event("error", r.reason)
    [] r.reason = "refusal"                       -> Event("error", "model")
    [] r.reason \in {"end_turn", "content_filter"} ->
         IF ~RanStatement(r) THEN Event("abstention", "")
         ELSE IF Refused(r) THEN Event("refusal", "") ELSE Event("answer", "")

\* _terminal: the one terminal event an Answer mechanically is; and `except`.
Terminal(r) ==
  CASE r.reason = "internal"                      -> Event("error", "internal")
    [] r.reason \in {"cancelled", "max_steps"}    -> Event("error", r.reason)
    [] r.reason = "refusal"                       -> Event("error", "model")
    [] r.reason \in {"end_turn", "content_filter"} ->
         IF Refused(r) THEN Event("refusal", "")
         ELSE IF RanStatement(r) THEN Event("answer", "") ELSE Event("abstention", "")

RunTerminal(t) ==
  /\ run[t].pc = "terminal"
  /\ emit(t, Terminal(run[t]))
  /\ Goto(t, IF Terminal(run[t]).type = "answer" THEN "remember" ELSE "done")
  /\ Quiet

Remembered_OnlyThis(history, turn) == <<turn>>

Remembered(history, turn) == Append(history, turn)

\* conv.history grows by this turn's question and answer, without a lock.
RunRemember(t) ==
  /\ run[t].pc = "remember"
  /\ conv' = [conv EXCEPT ![ticket[t].conv].history = Remembered(@, ticket[t].turn)]
  /\ Goto(t, "done")
  /\ UNCHANGED <<conversations, tickets, ticket, ask, stream>>

\* `answer or Answer("", [])`: after a raise there is no answer to count from.
StepsReported(r) == IF r.reason = "internal" THEN 0 ELSE r.steps

RunDone(t) ==
  /\ run[t].pc = "done"
  /\ emit(t, [type |-> "done", what |-> "", steps |-> StepsReported(run[t])])
  /\ Goto(t, "audit")
  /\ Quiet

\* The audit line is printed before the conversation is released; a print
\* that raises ends the thread there.
RunAudit(t) ==
  /\ run[t].pc = "audit"
  /\ \/ Goto(t, "release")
     \/ AuditMayFail /\ Goto(t, "ended")
  /\ UNCHANGED ticket /\ Quiet

RunRelease_OnlyTouches(t) ==
  /\ run[t].pc = "release"
  /\ conv' = [conv EXCEPT ![ticket[t].conv].idle = 0]
  /\ Goto(t, "ended")
  /\ UNCHANGED <<conversations, tickets, ticket, ask, stream>>

RunRelease(t) ==
  /\ run[t].pc = "release"
  /\ conv' = [conv EXCEPT ![ticket[t].conv].running = None, ![ticket[t].conv].idle = 0]
  /\ Goto(t, "ended")
  /\ UNCHANGED <<conversations, tickets, ticket, ask, stream>>

-----------------------------------------------------------------------------
(* Event streams.  A reader holds the Ticket object, so it outlives the      *)
(* ticket's place in the store.  Frames count as received when written: one  *)
(* lost in a dying socket is a write that failed earlier.                    *)

Pending_Inclusive(s) ==
  {i \in ticket[stream[s].ticket].kept : i >= stream[s].sent}

\* The retained events this reader has not been sent.
Pending(s) ==
  {i \in ticket[stream[s].ticket].kept : i > stream[s].sent}

Finished_OnlyAnswered(s) ==
  \E i \in DOMAIN ticket[stream[s].ticket].log :
    ticket[stream[s].ticket].log[i].type = "answer"

Finished(s) == ticket[stream[s].ticket].finished

Become(s, pc) == stream' = [stream EXCEPT ![s].pc = pc]

StoreUnchanged == UNCHANGED <<conversations, tickets, conv, ticket, run, ask>>

\* GET /v1/asks/{ticket}/events from the start, or after the last frame this
\* reader has of the same ticket (Last-Event-ID).
StreamOpen(s, t, oid) ==
  /\ stream[s].pc \in {"idle", "closed"}
  /\ ticket[t].told /\ FindTicket(t, oid)
  /\ \/ stream' = [stream EXCEPT ![s] = [NoStream EXCEPT !.pc = "look", !.ticket = t]]
     \/ /\ stream[s].ticket = t /\ stream[s].got # {}
        /\ Become(s, "look")
  /\ StoreUnchanged

Snapshot(s, none) ==
  stream' = [stream EXCEPT ![s].pending = Pending(s),
                           ![s].pc = IF Pending(s) = {} THEN none ELSE "send"]

\* Under the condition: take what is pending, or wait for an emit.
StreamLook(s) ==
  /\ stream[s].pc = "look"
  /\ Snapshot(s, IF Finished(s) THEN "empty" ELSE "wait")
  /\ StoreUnchanged

\* Notified, or KEEPALIVE_S have passed: take what is pending now.
StreamWake(s) ==
  /\ stream[s].pc = "wait"
  /\ Snapshot(s, "empty")
  /\ StoreUnchanged

\* Nothing was pending.  The condition is no longer held here: finished is
\* read again, after whatever the run did since.
StreamEmpty(s) ==
  /\ stream[s].pc = "empty"
  /\ Become(s, IF Finished(s) THEN "closed" ELSE "look")
  /\ StoreUnchanged

\* One frame, in seq order.
StreamSend(s) ==
  /\ stream[s].pc = "send"
  /\ \E i \in stream[s].pending :
       /\ \A j \in stream[s].pending : i <= j
       /\ stream' = [stream EXCEPT
            ![s].sent = i,
            ![s].got = @ \cup {i},
            ![s].pending = @ \ {i},
            ![s].pc = IF stream[s].pending = {i} THEN "tail" ELSE "send"]
  /\ StoreUnchanged

\* The batch is written: return after the last event, or look again.
StreamTail(s) ==
  /\ stream[s].pc = "tail"
  /\ Become(s, IF Finished(s) /\ stream[s].sent >= Len(ticket[stream[s].ticket].log)
               THEN "closed" ELSE "look")
  /\ StoreUnchanged

\* A frame or a keep-alive finds the client gone.
StreamBreak(s) ==
  /\ \/ stream[s].pc = "send"
     \/ stream[s].pc = "empty" /\ ~Finished(s)
  /\ stream' = [stream EXCEPT ![s].pc = "idle", ![s].pending = {}]
  /\ StoreUnchanged

\* GET /v1/asks/{ticket}, for clients without SSE: the status, and the terminal
\* event and the done that the retained list still has, all read and written
\* under the ticket's condition.  It changes nothing.
State(t) ==
  [status |-> IF ticket[t].finished THEN "finished" ELSE "running",
   end |-> {i \in ticket[t].kept : ticket[t].log[i].type \in TERMINAL \cup {"done"}}]

-----------------------------------------------------------------------------
(* Time and the reaper.  finished_at and touched are kept as ages, counted   *)
(* no further than the reaper can tell apart.                                *)

Older(age) == IF age <= TTL THEN age + 1 ELSE age

Tick ==
  /\ conv' = [c \in Cids |->
       [conv[c] EXCEPT !.idle = IF conv[c].oid # None THEN Older(@) ELSE @]]
  /\ ticket' = [t \in Tids |->
       [ticket[t] EXCEPT !.age = IF ticket[t].finished THEN Older(@) ELSE @]]
  /\ UNCHANGED <<conversations, tickets, run, ask, stream>>

TicketExpired(t) == ticket[t].finished /\ ticket[t].age > TTL

ConversationExpired_EvenRunning(c) == conv[c].idle > TTL

ConversationExpired(c) == conv[c].running = None /\ conv[c].idle > TTL

Reap ==
  /\ tickets' = {t \in tickets : ~TicketExpired(t)}
  /\ conversations' = {c \in conversations : ~ConversationExpired(c)}
  /\ UNCHANGED <<conv, ticket, run, ask, stream>>

-----------------------------------------------------------------------------
RunNext(t) ==
  \/ RunAccept(t) \/ RunOpenBranch(t) \/ RunAsk(t) \/ RunRaises(t)
  \/ RunPoll(t) \/ RunTurn(t) \/ RunStep(t) \/ RunMilestone(t)
  \/ RunCloseBranch(t) \/ RunTerminal(t) \/ RunRemember(t)
  \/ RunDone(t) \/ RunAudit(t) \/ RunRelease(t)

AskNext(h) ==
  \/ \E c \in Cids, oid \in Oids : AskLookup(h, c, oid)
  \/ AskNoQuestion(h) \/ AskConflict(h)
  \/ \E t \in Tids : AskAdmit(h, t)
  \/ AskRespond(h) \/ AskRespondFails(h) \/ AskStart(h)

StreamServe(s) ==
  \/ StreamLook(s) \/ StreamWake(s) \/ StreamEmpty(s)
  \/ StreamSend(s) \/ StreamTail(s)

StreamNext(s) ==
  \/ \E t \in Tids, oid \in Oids : StreamOpen(s, t, oid)
  \/ StreamServe(s) \/ StreamBreak(s)

Next ==
  \/ \E c \in Cids, oid \in Oids : Open(c, oid)
  \/ \E h \in Handlers : AskNext(h)
  \/ \E t \in Cancellable, oid \in Oids : Cancel(t, oid)
  \/ \E t \in Tids : RunNext(t)
  \/ \E s \in Readers : StreamNext(s)
  \/ Tick
  \/ Reap

Spec == Init /\ [][Next]_vars

\* Threads the operating system schedules, whose calls out return or raise
\* (every model and tool call has a timeout): the run threads, the end of the
\* ask handler, the stream handlers, whose wait is bounded by KEEPALIVE_S, the
\* reaper and the clock.  Clients owe nothing: none opens, asks, sends a body,
\* reads or cancels under any fairness.
Fairness ==
  /\ \A t \in Tids : WF_vars(RunNext(t))
  /\ \A h \in Handlers : WF_vars(AskRespond(h) \/ AskRespondFails(h) \/ AskStart(h))
  /\ \A s \in Readers : WF_vars(StreamServe(s))
  /\ WF_vars(Tick) /\ WF_vars(Reap)

FairSpec == Spec /\ Fairness

-----------------------------------------------------------------------------
(* Types.                                                                    *)

RunPcs == {"none", "accept", "open", "ask", "poll", "turn", "relay", "milestone",
           "close", "terminal", "remember", "done", "audit", "release", "ended"}

Reasons == {"", "internal", "cancelled", "max_steps", "end_turn"} \cup RefusalReasons

Conversations ==
  [oid : Oids \cup {None}, turns : Nat, running : Tids \cup {None},
   history : Seq(Nat), idle : Nat]

Tickets ==
  [oid : Oids \cup {None}, conv : Cids \cup {None}, turn : Nat,
   log : Seq(Events), kept : SUBSET Nat, finished : BOOLEAN, age : Nat,
   cancel : BOOLEAN, cancelledAt : Nat, told : BOOLEAN]

Runs ==
  [pc : RunPcs, hop : Nat, calls : Seq(CallKinds), steps : Nat,
   ran : SUBSET CallKinds, reason : Reasons, prompt : Seq(Nat)]

Asks ==
  [pc : {"idle", "found", "admitted", "told"}, conv : Cids \cup {None},
   ticket : Tids \cup {None}]

Streams ==
  [pc : {"idle", "look", "wait", "empty", "send", "tail", "closed"},
   ticket : Tids \cup {None}, sent : Nat, pending : SUBSET Nat, got : SUBSET Nat]

\* The references a thread's pc relies on are there: what it will index with
\* is never None.
RunReady(t) ==
  /\ run[t].pc # "none" => ticket[t].conv \in Cids
  /\ run[t].pc \in {"relay", "milestone"} => run[t].calls # <<>>
  /\ run[t].pc \in {"close", "terminal", "remember", "done"} => run[t].reason # ""

AskReady(h) ==
  /\ ask[h].pc # "idle" => ask[h].conv \in Cids
  /\ ask[h].pc \in {"admitted", "told"} =>
       ask[h].ticket \in Tids /\ ticket[ask[h].ticket].conv = ask[h].conv

StreamReady(s) ==
  /\ stream[s].pc # "idle" => stream[s].ticket \in Tids
  /\ stream[s].pc = "send" => stream[s].pending # {}

\* Every record is one the code can hold, the retained events are among those
\* emitted, and every thread has what its next step dereferences.
TypeInv ==
  /\ conversations \subseteq Cids /\ tickets \subseteq Tids
  /\ conv \in [Cids -> Conversations]
  /\ ticket \in [Tids -> Tickets]
  /\ run \in [Tids -> Runs]
  /\ ask \in [Handlers -> Asks]
  /\ stream \in [Readers -> Streams]
  /\ \A t \in Tids : ticket[t].kept \subseteq 1 .. Len(ticket[t].log)
  /\ \A t \in Tids : RunReady(t)
  /\ \A h \in Handlers : AskReady(h)
  /\ \A s \in Readers : StreamReady(s)

-----------------------------------------------------------------------------
(* Asks, runs and the store.                                                 *)

\* Ticket t is held by the handler that admitted it, until its run starts.
Held(t, h) == ask[h].pc \in {"admitted", "told"} /\ ask[h].ticket = t

\* An ask that still can, or does, run.
Active(t) ==
  \/ run[t].pc \notin {"none", "ended"}
  \/ \E h \in Handlers : Held(t, h)

\* One ask at a time per conversation (ask.openapi.json): two handlers that
\* found the same idle conversation, a run on its way out and an ask on its
\* way in never give it two live runs.
OneRunPerConversation ==
  \A t, u \in Tids :
    Active(t) /\ Active(u) /\ ticket[t].conv = ticket[u].conv => t = u

\* Answered(t): the run of t has told its readers an answer.
Answered(t) ==
  \E i \in DOMAIN ticket[t].log : ticket[t].log[i].type = "answer"

\* A later ask that reaches the model is prompted with every earlier turn of
\* its conversation that was answered, in turn order: the history append of
\* one thread is never behind, or lost to, the copy another thread takes.
PromptHoldsEarlierAnswers ==
  \A t, u \in Tids :
    LET prompt == run[u].prompt
    IN /\ \A i, j \in DOMAIN prompt : i < j => prompt[i] < prompt[j]
       /\ (/\ ticket[t].conv = ticket[u].conv /\ ticket[t].turn < ticket[u].turn
           /\ Answered(t) /\ run[u].hop > 0)
          => \E i \in DOMAIN prompt : prompt[i] = ticket[t].turn

\* The reaper never takes a conversation from under an ask that is live in
\* it, however long the client or the model takes: not between an ask's lock
\* and the start of its run, nor while the run is between done and release.
ReapSparesRuns ==
  [][\A t \in Tids :
       Active(t) /\ ticket[t].conv \in conversations
         => ticket[t].conv \in conversations']_vars

\* A started run comes to its done, whatever the model, the tools, the cancel
\* and the readers do.
RunsFinish == \A t \in Tids : run[t].pc = "accept" ~> ticket[t].finished

\* "In memory, reaped after TTL_S idle": every ticket and every conversation
\* leaves the store once its asks are over.
StoreDrains ==
  /\ \A t \in Tids : t \in tickets ~> t \notin tickets
  /\ \A c \in Cids : c \in conversations ~> c \notin conversations

-----------------------------------------------------------------------------
(* What a ticket's stream says.                                              *)

StepCount(log, from) == Cardinality({i \in from + 1 .. Len(log) : log[i].type = "step"})

\* Overflow costs diagnostics and nothing else: past MAX_EVENTS the list holds
\* no step, and no event that is not a step has ever left it.
OnlyStepsDropped ==
  \A t \in Tids :
    LET log == ticket[t].log kept == ticket[t].kept
    IN /\ \A i \in 1 .. Len(log) : log[i].type # "step" => i \in kept
       /\ Cardinality(kept) > MAX_EVENTS => StepsIn(log, kept) = {}

\* done.steps counts every step emitted, dropped or not, of a run that did not
\* raise.  What done says of one that raised is left to DoneCountsSteps.
DoneCountsReturned ==
  \A t \in Tids :
    LET log == ticket[t].log
    IN Event("error", "internal") \notin {log[i] : i \in DOMAIN log} =>
         \A i \in DOMAIN log : log[i].type = "done" => log[i].steps = StepCount(log, 0)

\* As documented, done.steps "equals the number of `step` events emitted,
\* before any overflow drop", whatever became of the run.
DoneCountsSteps ==
  \A t \in Tids :
    LET log == ticket[t].log
    IN \A i \in DOMAIN log : log[i].type = "done" => log[i].steps = StepCount(log, 0)

\* What a client without SSE is shown in one look: of a finished ticket its
\* one terminal event and its done, of a running one no done.
StateShowsTheEnd ==
  \A t \in Tids :
    LET done == {i \in State(t).end : ticket[t].log[i].type = "done"}
    IN IF State(t).status = "finished"
       THEN Cardinality(done) = 1 /\ Cardinality(State(t).end \ done) = 1
       ELSE done = {}

\* However far a run overflows, its end is shown; and, unless it raised, with
\* the number of the steps the client may have missed.
EndStaysVisible == OnlyStepsDropped /\ StateShowsTheEnd /\ DoneCountsReturned

\* What a cancel does bound, and less than documented (CancelSilences): the
\* turn in flight tells at most its own calls, and no later turn tells any.
CancelOutlivesOneTurn ==
  \A t \in Tids :
    ticket[t].cancel => StepCount(ticket[t].log, ticket[t].cancelledAt) <= MaxCalls

\* As documented, after a cancel nothing but error{cancelled} and done is
\* emitted: a cancelled run neither tells more of its work nor comes to another
\* outcome.  The stream's frame, accepted and the branch, is let pass, and so
\* is an error of another kind.
CancelSilences ==
  \A t \in Tids :
    LET log == ticket[t].log
    IN ticket[t].cancel =>
         \A i \in ticket[t].cancelledAt + 1 .. Len(log) :
           log[i].type \in {"accepted", "branch", "error", "done"}

\* A refused tool call anywhere in the run is never smoothed into an answer
\* or an abstention.
RefusalNeverSmoothed ==
  \A t \in Tids :
    LET log == ticket[t].log
    IN (\E i \in DOMAIN log : log[i].what = "is_error")
         => \A i \in DOMAIN log : log[i].type \notin {"answer", "abstention"}

\* As documented, a model error is an `error`: so is a turn the provider
\* refused, whatever its raw stop reason is called.
ModelRefusalIsError ==
  \A t \in Tids : run[t].reason \in {"refusal", "content_filter"} =>
    \A i \in DOMAIN ticket[t].log :
      ticket[t].log[i].type \notin {"answer", "abstention", "refusal"}

-----------------------------------------------------------------------------
(* What a reader gets.                                                       *)

\* The server closes a stream on its own account only after the run's done.
ClosedAfterFinish ==
  \A s \in Readers : stream[s].pc = "closed" => ticket[stream[s].ticket].finished

\* Across drops, disconnects and resumes, a reader has every event up to the
\* last frame it got, each once and in order, but for dropped steps; and the
\* server leaves it only when there is no more to come.
ReaderLossless ==
  /\ \A s \in Readers :
       LET st == stream[s]
       IN /\ st.got \subseteq 1 .. st.sent
          /\ \A i \in 1 .. st.sent :
               i \in st.got \/ ticket[st.ticket].log[i].type = "step"
          /\ \A i \in st.pending : i > st.sent
  /\ ClosedAfterFinish

\* As documented, the stream closes after `done`: a reader that the server
\* hung up on has it.
ClosedAfterDone ==
  \A s \in Readers : stream[s].pc = "closed" =>
    \E i \in stream[s].got : ticket[stream[s].ticket].log[i].type = "done"

\* An open stream comes to its end: it is not kept alive for ever.
StreamsEnd ==
  \A s \in Readers :
    stream[s].pc \notin {"idle", "closed"} ~> stream[s].pc \in {"idle", "closed"}

-----------------------------------------------------------------------------
(* The contract this service implements.                                     *)

\* How far a stream has got is told by the last event it said.
Phase(log) ==
  IF log = <<>> THEN "silent"
  ELSE LET last == log[Len(log)]
       IN CASE last.type = "accepted" -> "accepted"
            [] last.type \in {"step", "milestone"} -> "working"
            [] last.type = "branch" -> IF last.what = "closed" THEN "closed" ELSE "working"
            [] last.type \in TERMINAL -> "decided"
            [] last.type = "done" -> "done"

Contract == INSTANCE AskContract WITH
  Conversations <- Cids,
  Tickets <- Tids,
  asked <- [c \in Cids |-> {t \in Tids : ticket[t].conv = c}],
  phase <- [t \in Tids |-> Phase(ticket[t].log)],
  stored <- tickets

\* Every behaviour of the threads is one the contract allows: the order of a
\* stream's events, one unfinished ask per conversation, and no ticket
\* forgotten unfinished.
ImplementsContract == Contract!Spec

=============================================================================
