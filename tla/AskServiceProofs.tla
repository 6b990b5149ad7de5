-------------------------- MODULE AskServiceProofs --------------------------
(* What TLAPS proves of AskService, for every set of identities,             *)
(* conversations, tickets, connections and readers, every bound and either   *)
(* value of the fault switches.                                              *)
EXTENDS AskService, TLAPS

-----------------------------------------------------------------------------
(* Types.                                                                    *)

LEMMA TypeInit == Init => TypeInv
<1> SUFFICES ASSUME Init PROVE TypeInv
  OBVIOUS
<1>1. conversations \subseteq Cids /\ tickets \subseteq Tids
  BY DEF Init
<1>2. conv \in [Cids -> Conversations]
  BY DEF Init, NoConversation, Conversations
<1>3. ticket \in [Tids -> Tickets]
  BY DEF Init, NoTicket, Tickets
<1>4. run \in [Tids -> Runs]
  <2>1. <<>> \in Seq(CallKinds) /\ <<>> \in Seq(Nat) /\ {} \in SUBSET CallKinds
    OBVIOUS
  <2>2. "none" \in RunPcs /\ "" \in Reasons
    BY DEF RunPcs, Reasons
  <2>3. NoRun \in Runs
    BY <2>1, <2>2 DEF NoRun, Runs
  <2> QED BY <2>3 DEF Init
<1>5. ask \in [Handlers -> Asks]
  BY DEF Init, NoAsk, Asks
<1>6. stream \in [Readers -> Streams]
  BY DEF Init, NoStream, Streams
<1>7. \A t \in Tids : ticket[t].kept \subseteq 1 .. Len(ticket[t].log)
  BY DEF Init, NoTicket
<1>8. \A t \in Tids : RunReady(t)
  BY DEF Init, NoRun, RunReady
<1>9. \A h \in Handlers : AskReady(h)
  BY DEF Init, NoAsk, AskReady
<1>10. \A s \in Readers : StreamReady(s)
  BY DEF Init, NoStream, StreamReady
<1> QED
  BY <1>1, <1>2, <1>3, <1>4, <1>5, <1>6, <1>7, <1>8, <1>9, <1>10 DEF TypeInv

\* A turn's calls are a sequence of call kinds, and there is at least one.
LEMMA SequencesOfCalls ==
  ASSUME NEW calls \in Sequences1(CallKinds, MaxCalls)
  PROVE  calls \in Seq(CallKinds) /\ calls # <<>> /\ Len(calls) >= 1
<1>1. PICK k \in 1 .. MaxCalls : calls \in [1 .. k -> CallKinds]
  BY DEF Sequences1
<1>2. k \in Nat /\ k >= 1
  BY <1>1, SizesAssumption
<1>3. calls \in Seq(CallKinds) /\ Len(calls) = k
  BY <1>1, <1>2
<1> QED BY <1>2, <1>3

\* Emitting keeps a ticket a ticket, and its retained seqs among its log's.
LEMMA EmittedType ==
  ASSUME NEW tk \in Tickets, tk.kept \subseteq 1 .. Len(tk.log), NEW event \in Events
  PROVE  /\ Emitted(tk, event) \in Tickets
         /\ Emitted(tk, event).kept \subseteq 1 .. Len(Emitted(tk, event).log)
         /\ Emitted(tk, event).conv = tk.conv
         /\ Emitted(tk, event).log = Append(tk.log, event)
<1> DEFINE log == Append(tk.log, event)
           kept == Trim(log, tk.kept \cup {Len(log)})
<1>1. log \in Seq(Events) /\ Len(log) = Len(tk.log) + 1 /\ Len(tk.log) \in Nat
  BY DEF Tickets
<1>2. kept \subseteq tk.kept \cup {Len(log)}
  BY DEF Trim
<1>3. kept \subseteq 1 .. Len(log) /\ kept \in SUBSET Nat
  <2> HIDE DEF log, kept
  <2> QED BY <1>1, <1>2
<1>4. (tk.finished \/ event.type = "done") \in BOOLEAN
  OBVIOUS
<1>5. Emitted(tk, event) = [tk EXCEPT !.log = log, !.kept = kept,
                                      !.finished = tk.finished \/ event.type = "done"]
  BY DEF Emitted
<1> HIDE DEF log, kept
<1>6. /\ Emitted(tk, event) \in Tickets
      /\ Emitted(tk, event).kept = kept /\ Emitted(tk, event).log = log
      /\ Emitted(tk, event).conv = tk.conv
  BY <1>1, <1>3, <1>4, <1>5 DEF Tickets
<1> QED BY <1>3, <1>6 DEF log

\* What an emit changes of the tickets.
LEMMA EmitType ==
  ASSUME TypeInv, NEW t \in Tids, NEW event \in Events, emit(t, event)
  PROVE  /\ ticket' \in [Tids -> Tickets]
         /\ \A u \in Tids : ticket'[u].kept \subseteq 1 .. Len(ticket'[u].log)
         /\ \A u \in Tids : ticket'[u].conv = ticket[u].conv
<1>1. ticket \in [Tids -> Tickets] /\ ticket[t] \in Tickets
  BY DEF TypeInv
<1>2. ticket[t].kept \subseteq 1 .. Len(ticket[t].log)
  BY DEF TypeInv
<1>3. /\ Emitted(ticket[t], event) \in Tickets
      /\ Emitted(ticket[t], event).kept \subseteq 1 .. Len(Emitted(ticket[t], event).log)
      /\ Emitted(ticket[t], event).conv = ticket[t].conv
  BY <1>1, <1>2, EmittedType
<1>4. ticket' = [ticket EXCEPT ![t] = Emitted(ticket[t], event)]
  BY DEF emit
<1>5. \A u \in Tids : ticket'[u] = IF u = t THEN Emitted(ticket[t], event) ELSE ticket[u]
  BY <1>1, <1>4
<1>6. ticket' \in [Tids -> Tickets]
  BY <1>1, <1>3, <1>4
<1>7. \A u \in Tids : ticket[u].kept \subseteq 1 .. Len(ticket[u].log)
  BY DEF TypeInv
<1> QED BY <1>3, <1>5, <1>6, <1>7

\* A step of one run thread that leaves it ready keeps every record typed.
LEMMA RunFrame ==
  ASSUME TypeInv, NEW t \in Tids, NEW r \in Runs,
         run' = [run EXCEPT ![t] = r], RunReady(t)',
         ticket' \in [Tids -> Tickets],
         \A u \in Tids : ticket'[u].kept \subseteq 1 .. Len(ticket'[u].log),
         \A u \in Tids : ticket'[u].conv = ticket[u].conv,
         conv' \in [Cids -> Conversations],
         UNCHANGED <<conversations, tickets, ask, stream>>
  PROVE  TypeInv'
<1>1. run \in [Tids -> Runs] /\ run' \in [Tids -> Runs]
  BY DEF TypeInv
<1>2. \A u \in Tids : RunReady(u)'
  <2> SUFFICES ASSUME NEW u \in Tids, u # t PROVE RunReady(u)'
    OBVIOUS
  <2>1. run'[u] = run[u] /\ ticket'[u].conv = ticket[u].conv /\ RunReady(u)
    BY <1>1 DEF TypeInv
  <2> QED BY <2>1 DEF RunReady
<1>3. \A h \in Handlers : AskReady(h)'
  BY DEF TypeInv, AskReady
<1>4. \A s \in Readers : StreamReady(s)'
  BY DEF TypeInv, StreamReady
<1> QED BY <1>1, <1>2, <1>3, <1>4 DEF TypeInv

LEMMA TerminalType ==
  ASSUME NEW r \in Runs, r.reason # ""
  PROVE  Terminal(r) \in Events /\ Terminal(r).type \in TERMINAL
<1>1. r.reason \in {"internal", "cancelled", "max_steps", "end_turn",
                    "refusal", "content_filter"}
  BY RefusalAssumption DEF Runs, Reasons
<1>2. \A what \in {"", "internal", "cancelled", "max_steps", "model"} :
        \A type \in {"answer", "abstention", "refusal", "error"} :
          Event(type, what) \in Events /\ Event(type, what).type \in TERMINAL
  BY DEF Event, Events, TERMINAL, EventTypes, Whats
<1>4. \/ Terminal(r) = Event("error", "internal")
      \/ Terminal(r) = Event("error", "cancelled")
      \/ Terminal(r) = Event("error", "max_steps")
      \/ Terminal(r) = Event("error", "model")
      \/ Terminal(r) = Event("refusal", "")
      \/ Terminal(r) = Event("answer", "")
      \/ Terminal(r) = Event("abstention", "")
  BY <1>1 DEF Terminal
<1> QED BY <1>2, <1>4

LEMMA NextCallType ==
  ASSUME NEW r \in Runs, r.calls # <<>>
  PROVE  /\ NextCall(r) \in Runs
         /\ NextCall(r).pc = "relay" => NextCall(r).calls # <<>>
         /\ NextCall(r).pc \in {"poll", "relay"}
<1>1. r.calls \in Seq(CallKinds) /\ Len(r.calls) \in Nat /\ Len(r.calls) >= 1
  BY DEF Runs
<1>2. /\ Tail(r.calls) \in Seq(CallKinds)
      /\ Len(Tail(r.calls)) = Len(r.calls) - 1
  BY <1>1
<1>3. Len(r.calls) # 1 => Tail(r.calls) # <<>>
  <2> SUFFICES ASSUME Len(r.calls) # 1, Tail(r.calls) = <<>> PROVE FALSE
    OBVIOUS
  <2>1. Len(Tail(r.calls)) = Len(<<>>)
    OBVIOUS
  <2>2. Len(<<>>) = 0
    OBVIOUS
  <2> QED BY <1>1, <1>2, <2>1, <2>2
<1>4. "poll" \in RunPcs /\ "relay" \in RunPcs
  BY DEF RunPcs
<1> QED BY <1>2, <1>3, <1>4 DEF NextCall, Runs

LEMMA RunStepType ==
  ASSUME TypeInv, NEW t \in Tids, RunNext(t)
  PROVE  TypeInv'
<1>1. /\ run \in [Tids -> Runs] /\ run[t] \in Runs /\ RunReady(t)
      /\ ticket \in [Tids -> Tickets] /\ ticket[t] \in Tickets
      /\ conv \in [Cids -> Conversations]
      /\ \A u \in Tids : ticket[u].kept \subseteq 1 .. Len(ticket[u].log)
  BY DEF TypeInv
<1>2. \A pc \in RunPcs : [run[t] EXCEPT !.pc = pc] \in Runs
  BY <1>1 DEF Runs
<1>3. \A pc \in RunPcs, reason \in Reasons :
        [run[t] EXCEPT !.pc = pc, !.reason = reason] \in Runs
  BY <1>1 DEF Runs
<1>4. /\ RunPcs = {"none", "accept", "open", "ask", "poll", "turn", "relay", "milestone",
                   "close", "terminal", "remember", "done", "audit", "release", "ended"}
      /\ \A reason \in {"internal", "cancelled", "max_steps", "end_turn"} \cup RefusalReasons :
           reason \in Reasons /\ reason # ""
  BY RefusalAssumption DEF RunPcs, Reasons
<1>5. /\ \A type \in {"accepted", "step", "milestone"} :
           \A what \in {"", "is_error"} : Event(type, what) \in Events
      /\ \A what \in {"opened", "closed"} : Event("branch", what) \in Events
  BY DEF Event, Events, EventTypes, Whats
<1>6. ASSUME run[t].pc # "none" PROVE ticket[t].conv \in Cids
  BY <1>1, <1>6 DEF RunReady
<1>7. CASE RunAccept(t)
  <2>1. /\ emit(t, Event("accepted", "")) /\ run[t].pc = "accept"
        /\ run' = [run EXCEPT ![t] = [run[t] EXCEPT !.pc = "open"]]
        /\ UNCHANGED <<conversations, tickets, conv, ask, stream>>
    BY <1>7 DEF RunAccept, Goto, Quiet
  <2>2. /\ ticket' \in [Tids -> Tickets]
        /\ \A u \in Tids : ticket'[u].kept \subseteq 1 .. Len(ticket'[u].log)
        /\ \A u \in Tids : ticket'[u].conv = ticket[u].conv
    BY <2>1, <1>5, EmitType
  <2>3. run'[t] = [run[t] EXCEPT !.pc = "open"] /\ run'[t].pc = "open"
    BY <2>1, <1>1 DEF Runs
  <2>4. RunReady(t)'
    BY <2>1, <2>2, <2>3, <1>6 DEF RunReady
  <2> QED BY <2>1, <2>2, <2>4, <1>1, <1>2, <1>4, RunFrame
<1>8. CASE RunOpenBranch(t)
  <2>1. /\ emit(t, Event("branch", "opened")) /\ run[t].pc = "open"
        /\ run' = [run EXCEPT ![t] = [run[t] EXCEPT !.pc = "ask"]]
        /\ UNCHANGED <<conversations, tickets, conv, ask, stream>>
    BY <1>8 DEF RunOpenBranch, Goto, Quiet
  <2>2. /\ ticket' \in [Tids -> Tickets]
        /\ \A u \in Tids : ticket'[u].kept \subseteq 1 .. Len(ticket'[u].log)
        /\ \A u \in Tids : ticket'[u].conv = ticket[u].conv
    BY <2>1, <1>5, EmitType
  <2>3. run'[t] = [run[t] EXCEPT !.pc = "ask"] /\ run'[t].pc = "ask"
        /\ run'[t].reason = run[t].reason
    BY <2>1, <1>1 DEF Runs
  <2>4. RunReady(t)'
    BY <2>1, <2>2, <2>3, <1>1, <1>6 DEF RunReady
  <2> QED BY <2>1, <2>2, <2>4, <1>1, <1>2, <1>4, RunFrame
<1>9. CASE RunCloseBranch(t)
  <2>1. /\ emit(t, Event("branch", "closed")) /\ run[t].pc = "close"
        /\ run' = [run EXCEPT ![t] = [run[t] EXCEPT !.pc = "terminal"]]
        /\ UNCHANGED <<conversations, tickets, conv, ask, stream>>
    BY <1>9 DEF RunCloseBranch, Goto, Quiet
  <2>2. /\ ticket' \in [Tids -> Tickets]
        /\ \A u \in Tids : ticket'[u].kept \subseteq 1 .. Len(ticket'[u].log)
        /\ \A u \in Tids : ticket'[u].conv = ticket[u].conv
    BY <2>1, <1>5, EmitType
  <2>3. run'[t] = [run[t] EXCEPT !.pc = "terminal"] /\ run'[t].pc = "terminal"
        /\ run'[t].reason = run[t].reason
    BY <2>1, <1>1 DEF Runs
  <2>4. RunReady(t)'
    BY <2>1, <2>2, <2>3, <1>1, <1>6 DEF RunReady
  <2> QED BY <2>1, <2>2, <2>4, <1>1, <1>2, <1>4, RunFrame
<1>10. CASE RunAsk(t)
  <2> DEFINE r == [run[t] EXCEPT !.pc = "poll", !.prompt = conv[ticket[t].conv].history]
  <2>1. /\ run[t].pc = "ask" /\ run' = [run EXCEPT ![t] = r]
        /\ UNCHANGED <<conversations, tickets, conv, ticket, ask, stream>>
    BY <1>10 DEF RunAsk, Quiet
  <2>2. ticket[t].conv \in Cids
    BY <2>1, <1>6
  <2>3. conv[ticket[t].conv].history \in Seq(Nat)
    BY <2>2, <1>1 DEF Conversations
  <2>4. r \in Runs /\ r.pc = "poll"
    BY <2>3, <1>1, <1>4 DEF Runs
  <2>5. RunReady(t)'
    BY <2>1, <2>2, <2>4, <1>1 DEF RunReady
  <2> HIDE DEF r
  <2> QED BY <2>1, <2>4, <2>5, <1>1, RunFrame
\* Every way agent.ask ends.
<1>11. ASSUME NEW reason \in {"internal", "cancelled", "max_steps", "end_turn"} \cup RefusalReasons,
             Stop(t, reason), UNCHANGED ticket, Quiet, run[t].pc # "none"
      PROVE  TypeInv'
  <2> DEFINE r == [run[t] EXCEPT !.pc = "close", !.reason = reason]
  <2>1. run' = [run EXCEPT ![t] = r] /\ UNCHANGED <<conversations, tickets, conv, ticket, ask, stream>>
    BY <1>11 DEF Stop, Quiet
  <2>2. r \in Runs /\ r.pc = "close" /\ r.reason # ""
    <3>1. "close" \in RunPcs /\ reason \in Reasons /\ reason # ""
      BY <1>4
    <3>2. r \in Runs
      BY <3>1, <1>3
    <3>3. r.pc = "close" /\ r.reason = reason
      BY <1>1 DEF Runs
    <3> QED BY <3>1, <3>2, <3>3
  <2>3. RunReady(t)'
    BY <2>1, <2>2, <1>1, <1>6, <1>11 DEF RunReady
  <2> HIDE DEF r
  <2> QED BY <2>1, <2>2, <2>3, <1>1, RunFrame
<1>12. CASE RunRaises(t)
  <2> QED BY <1>12, <1>11 DEF RunRaises
\* Every step that only moves the thread on.
<1>13. ASSUME NEW pc \in {"poll", "release", "ended"}, Goto(t, pc), UNCHANGED ticket, Quiet,
             run[t].pc # "none"
      PROVE  TypeInv'
  <2> DEFINE r == [run[t] EXCEPT !.pc = pc]
  <2>1. run' = [run EXCEPT ![t] = r] /\ UNCHANGED <<conversations, tickets, conv, ticket, ask, stream>>
    BY <1>13 DEF Goto, Quiet
  <2>2. r \in Runs /\ r.pc = pc
    <3>1. r \in Runs
      BY <1>2, <1>4
    <3>2. r.pc = pc
      BY <1>1 DEF Runs
    <3> QED BY <3>1, <3>2
  <2>3. RunReady(t)'
    BY <2>1, <2>2, <1>1, <1>6, <1>13 DEF RunReady
  <2> HIDE DEF r
  <2> QED BY <2>1, <2>2, <2>3, <1>1, RunFrame
<1>14. CASE RunPoll(t)
  <2>1. CASE Stop(t, "max_steps")
    BY <1>14, <2>1, <1>11 DEF RunPoll
  <2>2. CASE Stop(t, "cancelled")
    BY <1>14, <2>2, <1>11 DEF RunPoll
  <2>3. CASE run' = [run EXCEPT ![t].pc = "turn", ![t].hop = @ + 1]
    <3> DEFINE r == [run[t] EXCEPT !.pc = "turn", !.hop = @ + 1]
    <3>1. /\ run[t].pc = "poll" /\ run' = [run EXCEPT ![t] = r]
          /\ UNCHANGED <<conversations, tickets, conv, ticket, ask, stream>>
      BY <1>14, <2>3 DEF RunPoll, Quiet
    <3>2. r \in Runs /\ r.pc = "turn"
      <4>1. run[t].hop + 1 \in Nat
        BY <1>1 DEF Runs
      <4>2. "turn" \in RunPcs
        BY <1>4
      <4> QED BY <4>1, <4>2, <1>1 DEF Runs
    <3>3. RunReady(t)'
      BY <3>1, <3>2, <1>1, <1>6 DEF RunReady
    <3> HIDE DEF r
    <3> QED BY <3>1, <3>2, <3>3, <1>1, RunFrame
  <2> QED BY <1>14, <2>1, <2>2, <2>3 DEF RunPoll
<1>15. CASE RunTurn(t)
  <2>1. ASSUME NEW reason \in RefusalReasons, Stop(t, reason) PROVE TypeInv'
    BY <1>15, <2>1, <1>11 DEF RunTurn
  <2>2. CASE Stop(t, "end_turn")
    BY <1>15, <2>2, <1>11 DEF RunTurn
  <2>3. CASE Goto(t, "poll")
    BY <1>15, <2>3, <1>13 DEF RunTurn
  <2>4. ASSUME NEW calls \in Sequences1(CallKinds, MaxCalls),
               run' = [run EXCEPT ![t].pc = "relay", ![t].calls = calls]
        PROVE  TypeInv'
    <3> DEFINE r == [run[t] EXCEPT !.pc = "relay", !.calls = calls]
    <3>1. /\ run[t].pc = "turn" /\ run' = [run EXCEPT ![t] = r]
          /\ UNCHANGED <<conversations, tickets, conv, ticket, ask, stream>>
      BY <1>15, <2>4 DEF RunTurn, Quiet
    <3>2. r \in Runs /\ r.pc = "relay" /\ r.calls # <<>>
      BY <1>1, <1>4, SequencesOfCalls DEF Runs
    <3>3. RunReady(t)'
      BY <3>1, <3>2, <1>1, <1>6 DEF RunReady
    <3> HIDE DEF r
    <3> QED BY <3>1, <3>2, <3>3, <1>1, RunFrame
  <2> QED BY <1>15, <2>1, <2>2, <2>3, <2>4 DEF RunTurn
<1>16. CASE RunStep(t)
  <2> DEFINE kind == Head(run[t].calls)
             counted == [run[t] EXCEPT !.steps = @ + 1, !.ran = @ \cup {kind}]
             r == IF HasMilestone(kind) THEN [counted EXCEPT !.pc = "milestone"]
                  ELSE NextCall(counted)
             event == Event("step", IF kind = "failed" THEN "is_error" ELSE "")
  <2>1. /\ run[t].pc = "relay" /\ emit(t, event) /\ run' = [run EXCEPT ![t] = r]
        /\ UNCHANGED <<conversations, tickets, conv, ask, stream>>
    BY <1>16 DEF RunStep, Quiet
  <2>2. event \in Events
    BY <1>5
  <2>3. /\ ticket' \in [Tids -> Tickets]
        /\ \A u \in Tids : ticket'[u].kept \subseteq 1 .. Len(ticket'[u].log)
        /\ \A u \in Tids : ticket'[u].conv = ticket[u].conv
    <3> HIDE DEF event
    <3> QED BY <2>1, <2>2, EmitType
  <2>4. run[t].calls # <<>> /\ run[t].calls \in Seq(CallKinds) /\ kind \in CallKinds
    <3>1. run[t].calls # <<>>
      BY <2>1, <1>1 DEF RunReady
    <3>2. run[t].calls \in Seq(CallKinds)
      BY <1>1 DEF Runs
    <3> QED BY <3>1, <3>2
  <2>5. counted \in Runs /\ counted.calls # <<>> /\ counted.calls = run[t].calls
    <3> HIDE DEF kind
    <3>1. run[t].steps + 1 \in Nat /\ run[t].ran \cup {kind} \in SUBSET CallKinds
      BY <2>4, <1>1 DEF Runs
    <3>2. counted \in Runs
      BY <3>1, <1>1 DEF Runs
    <3>3. counted.calls = run[t].calls
      BY <1>1 DEF Runs
    <3> QED BY <3>2, <3>3, <2>4
  <2>6. /\ r \in Runs
        /\ r.pc \in {"milestone", "poll", "relay"}
        /\ r.pc \in {"milestone", "relay"} => r.calls # <<>>
    <3> HIDE DEF counted, kind
    <3>1. CASE HasMilestone(kind)
      BY <3>1, <2>5, <1>4 DEF Runs
    <3>2. CASE ~HasMilestone(kind)
      BY <3>2, <2>5, NextCallType
    <3> QED BY <3>1, <3>2
  <2>7. RunReady(t)'
    <3> HIDE DEF r, event
    <3>1. run'[t] = r /\ ticket'[t].conv \in Cids
      BY <2>1, <2>3, <1>1, <1>6
    <3> QED BY <3>1, <2>6 DEF RunReady
  <2> HIDE DEF r, event
  <2> QED BY <2>1, <2>3, <2>6, <2>7, <1>1, RunFrame
<1>17. CASE RunMilestone(t)
  <2>1. /\ run[t].pc = "milestone" /\ emit(t, Event("milestone", ""))
        /\ run' = [run EXCEPT ![t] = NextCall(run[t])]
        /\ UNCHANGED <<conversations, tickets, conv, ask, stream>>
    BY <1>17 DEF RunMilestone, Quiet
  <2>2. /\ ticket' \in [Tids -> Tickets]
        /\ \A u \in Tids : ticket'[u].kept \subseteq 1 .. Len(ticket'[u].log)
        /\ \A u \in Tids : ticket'[u].conv = ticket[u].conv
    BY <2>1, <1>5, EmitType
  <2>3. /\ NextCall(run[t]) \in Runs
        /\ NextCall(run[t]).pc \in {"poll", "relay"}
        /\ NextCall(run[t]).pc = "relay" => NextCall(run[t]).calls # <<>>
    BY <2>1, <1>1, NextCallType DEF RunReady
  <2>4. RunReady(t)'
    <3>1. run'[t] = NextCall(run[t]) /\ ticket'[t].conv \in Cids
      BY <2>1, <2>2, <1>1, <1>6
    <3> QED BY <3>1, <2>3 DEF RunReady
  <2> QED BY <2>1, <2>2, <2>3, <2>4, <1>1, RunFrame
<1>18. CASE RunTerminal(t)
  <2> DEFINE r == [run[t] EXCEPT !.pc = IF Terminal(run[t]).type = "answer"
                                       THEN "remember" ELSE "done"]
  <2>1. /\ run[t].pc = "terminal" /\ emit(t, Terminal(run[t])) /\ run' = [run EXCEPT ![t] = r]
        /\ UNCHANGED <<conversations, tickets, conv, ask, stream>>
    BY <1>18 DEF RunTerminal, Goto, Quiet
  <2>2. Terminal(run[t]) \in Events
    BY <2>1, <1>1, TerminalType DEF RunReady
  <2>3. /\ ticket' \in [Tids -> Tickets]
        /\ \A u \in Tids : ticket'[u].kept \subseteq 1 .. Len(ticket'[u].log)
        /\ \A u \in Tids : ticket'[u].conv = ticket[u].conv
    BY <2>1, <2>2, EmitType
  <2>4. r \in Runs /\ r.pc \in {"remember", "done"} /\ r.reason = run[t].reason
    BY <1>1, <1>4 DEF Runs
  <2>5. RunReady(t)'
    <3> HIDE DEF r
    <3>1. run'[t] = r /\ ticket'[t].conv \in Cids /\ run[t].reason # ""
      BY <2>1, <2>3, <1>1, <1>6 DEF RunReady
    <3> QED BY <3>1, <2>4 DEF RunReady
  <2> HIDE DEF r
  <2> QED BY <2>1, <2>3, <2>4, <2>5, <1>1, RunFrame
<1>19. CASE RunRemember(t)
  <2> DEFINE c == ticket[t].conv
             r == [run[t] EXCEPT !.pc = "done"]
  <2>1. /\ run[t].pc = "remember" /\ run' = [run EXCEPT ![t] = r]
        /\ conv' = [conv EXCEPT ![c] = [conv[c] EXCEPT !.history = Remembered(conv[c].history, ticket[t].turn)]]
        /\ UNCHANGED <<conversations, tickets, ticket, ask, stream>>
    BY <1>19 DEF RunRemember, Goto
  <2>2. c \in Cids /\ conv[c] \in Conversations /\ ticket[t].turn \in Nat
    BY <2>1, <1>1, <1>6 DEF Tickets
  <2>3. [conv[c] EXCEPT !.history = Remembered(conv[c].history, ticket[t].turn)] \in Conversations
    <3> HIDE DEF c
    <3>1. conv[c].history \in Seq(Nat)
      BY <2>2 DEF Conversations
    <3>2. Remembered(conv[c].history, ticket[t].turn) \in Seq(Nat)
      BY <3>1, <2>2 DEF Remembered
    <3> QED BY <3>2, <2>2 DEF Conversations
  <2>4. conv' \in [Cids -> Conversations]
    <3> HIDE DEF c
    <3> QED BY <2>1, <2>3, <1>1
  <2>5. r \in Runs /\ r.pc = "done" /\ r.reason = run[t].reason
    BY <1>1, <1>4 DEF Runs
  <2>6. RunReady(t)'
    <3> HIDE DEF r
    <3>1. run'[t] = r /\ ticket'[t].conv \in Cids
      BY <2>1, <2>2, <1>1
    <3> QED BY <3>1, <2>1, <2>5, <1>1 DEF RunReady
  <2> HIDE DEF r
  <2> QED BY <2>1, <2>4, <2>5, <2>6, <1>1, RunFrame
<1>20. CASE RunDone(t)
  <2> DEFINE event == [type |-> "done", what |-> "", steps |-> StepsReported(run[t])]
             r == [run[t] EXCEPT !.pc = "audit"]
  <2>1. /\ run[t].pc = "done" /\ emit(t, event) /\ run' = [run EXCEPT ![t] = r]
        /\ UNCHANGED <<conversations, tickets, conv, ask, stream>>
    BY <1>20 DEF RunDone, Goto, Quiet
  <2>2. event \in Events
    BY <1>1 DEF StepsReported, Events, EventTypes, Whats, Runs
  <2>3. /\ ticket' \in [Tids -> Tickets]
        /\ \A u \in Tids : ticket'[u].kept \subseteq 1 .. Len(ticket'[u].log)
        /\ \A u \in Tids : ticket'[u].conv = ticket[u].conv
    <3> HIDE DEF event
    <3> QED BY <2>1, <2>2, EmitType
  <2>4. r \in Runs /\ r.pc = "audit"
    BY <1>1, <1>4 DEF Runs
  <2>5. RunReady(t)'
    <3> HIDE DEF r
    <3>1. run'[t] = r /\ ticket'[t].conv \in Cids
      BY <2>1, <2>3, <1>1, <1>6
    <3> QED BY <3>1, <2>4 DEF RunReady
  <2> HIDE DEF r
  <2> QED BY <2>1, <2>3, <2>4, <2>5, <1>1, RunFrame
<1>21. CASE RunAudit(t)
  <2> QED BY <1>21, <1>13 DEF RunAudit
<1>22. CASE RunRelease(t)
  <2> DEFINE c == ticket[t].conv
             r == [run[t] EXCEPT !.pc = "ended"]
  <2>1. /\ run[t].pc = "release" /\ run' = [run EXCEPT ![t] = r]
        /\ conv' = [conv EXCEPT ![c] = [conv[c] EXCEPT !.running = None, !.idle = 0]]
        /\ UNCHANGED <<conversations, tickets, ticket, ask, stream>>
    BY <1>22 DEF RunRelease, Goto
  <2>2. c \in Cids /\ conv[c] \in Conversations /\ ticket[t].turn \in Nat
    BY <2>1, <1>1, <1>6 DEF Tickets
  <2>3. [conv[c] EXCEPT !.running = None, !.idle = 0] \in Conversations
    <3> HIDE DEF c
    <3> QED BY <2>2 DEF Conversations, Remembered
  <2>4. conv' \in [Cids -> Conversations]
    <3> HIDE DEF c
    <3> QED BY <2>1, <2>3, <1>1
  <2>5. r \in Runs /\ r.pc = "ended" /\ r.reason = run[t].reason
    BY <1>1, <1>4 DEF Runs
  <2>6. RunReady(t)'
    <3> HIDE DEF r
    <3>1. run'[t] = r /\ ticket'[t].conv \in Cids
      BY <2>1, <2>2, <1>1
    <3> QED BY <3>1, <2>1, <2>5, <1>1 DEF RunReady
  <2> HIDE DEF r
  <2> QED BY <2>1, <2>4, <2>5, <2>6, <1>1, RunFrame
<1> QED
  BY <1>7, <1>8, <1>9, <1>10, <1>12, <1>14, <1>15, <1>16, <1>17, <1>18, <1>19, <1>20, <1>21, <1>22 DEF RunNext

LEMMA AskStepType ==
  ASSUME TypeInv, NEW h \in Handlers, AskNext(h)
  PROVE  TypeInv'
<1>1. /\ ask \in [Handlers -> Asks] /\ ask[h] \in Asks /\ AskReady(h)
      /\ run \in [Tids -> Runs] /\ ticket \in [Tids -> Tickets]
      /\ conv \in [Cids -> Conversations]
      /\ conversations \subseteq Cids /\ tickets \subseteq Tids
      /\ stream \in [Readers -> Streams]
  BY DEF TypeInv
<1>2. /\ \A t \in Tids : ticket[t].kept \subseteq 1 .. Len(ticket[t].log)
      /\ \A t \in Tids : RunReady(t)
      /\ \A g \in Handlers : AskReady(g)
      /\ \A s \in Readers : StreamReady(s)
  BY DEF TypeInv
\* A handler that goes back to idle, or forward with what it needs, and
\* nothing else.
<1>3. ASSUME NEW a \in Asks, ask' = [ask EXCEPT ![h] = a],
             a.pc # "idle" => a.conv \in Cids,
             a.pc \in {"admitted", "told"} =>
               a.ticket \in Tids /\ ticket[a.ticket].conv = a.conv,
             UNCHANGED <<conversations, tickets, conv, ticket, run, stream>>
      PROVE  TypeInv'
  <2>1. ask' \in [Handlers -> Asks] /\ \A g \in Handlers : ask'[g] = IF g = h THEN a ELSE ask[g]
    BY <1>1, <1>3
  <2>2. \A g \in Handlers : AskReady(g)'
    BY <2>1, <1>2, <1>3 DEF AskReady
  <2>3. \A t \in Tids : RunReady(t)'
    BY <1>2, <1>3 DEF RunReady
  <2>4. \A s \in Readers : StreamReady(s)'
    BY <1>2, <1>3 DEF StreamReady
  <2> QED BY <1>1, <1>2, <1>3, <2>1, <2>2, <2>3, <2>4 DEF TypeInv
<1>4. NoAsk \in Asks /\ NoAsk.pc = "idle"
  BY DEF NoAsk, Asks
<1>5. ASSUME ask' = [ask EXCEPT ![h] = NoAsk],
             UNCHANGED <<conversations, tickets, conv, ticket, run, stream>>
      PROVE  TypeInv'
  BY <1>3, <1>4, <1>5
<1>6. ASSUME NEW c \in Cids, NEW oid \in Oids, AskLookup(h, c, oid) PROVE TypeInv'
  <2> DEFINE a == [pc |-> "found", conv |-> c, ticket |-> None]
  <2>1. a \in Asks /\ a.pc = "found" /\ a.conv = c
    BY DEF Asks
  <2>2. ask' = [ask EXCEPT ![h] = a]
        /\ UNCHANGED <<conversations, tickets, conv, ticket, run, stream>>
    BY <1>6 DEF AskLookup
  <2> HIDE DEF a
  <2> QED BY <1>3, <2>1, <2>2
<1>7. ASSUME AskNoQuestion(h) \/ AskConflict(h) \/ AskRespondFails(h) PROVE TypeInv'
  BY <1>5, <1>7 DEF AskNoQuestion, AskConflict, AskRespondFails
<1>8. ASSUME NEW t \in Tids, AskAdmit(h, t) PROVE TypeInv'
  <2> DEFINE c == ask[h].conv
             k == [conv[c] EXCEPT !.turns = conv[c].turns + 1, !.idle = 0, !.running = t]
             tk == [ticket[t] EXCEPT !.oid = conv[c].oid, !.conv = c,
                                     !.turn = conv[c].turns + 1]
             a == [ask[h] EXCEPT !.pc = "admitted", !.ticket = t]
  <2>1. /\ ask[h].pc = "found" /\ ticket[t].conv = None
        /\ conv' = [conv EXCEPT ![c] = k] /\ ticket' = [ticket EXCEPT ![t] = tk]
        /\ ask' = [ask EXCEPT ![h] = a] /\ tickets' = tickets \cup {t}
        /\ UNCHANGED <<conversations, run, stream>>
    BY <1>8 DEF AskAdmit
  <2>2. c \in Cids /\ conv[c] \in Conversations /\ ticket[t] \in Tickets
    BY <2>1, <1>1 DEF AskReady
  <2>3. conv[c].turns + 1 \in Nat /\ conv[c].oid \in Oids \cup {None}
    BY <2>2 DEF Conversations
  <2>4. k \in Conversations
    BY <2>2, <2>3 DEF Conversations
  <2>5. tk \in Tickets /\ tk.kept = ticket[t].kept /\ tk.log = ticket[t].log /\ tk.conv = c
    <3> HIDE DEF c
    <3> QED BY <2>2, <2>3 DEF Tickets
  <2>6. a \in Asks /\ a.pc = "admitted" /\ a.ticket = t /\ a.conv = c
    BY <1>1 DEF Asks
  <2> HIDE DEF c, k, tk, a
  <2>7. /\ conv' \in [Cids -> Conversations] /\ ticket' \in [Tids -> Tickets]
        /\ ask' \in [Handlers -> Asks] /\ tickets' \subseteq Tids
    BY <2>1, <2>4, <2>5, <2>6, <1>1
  <2>8. /\ \A u \in Tids : ticket'[u] = IF u = t THEN tk ELSE ticket[u]
        /\ \A g \in Handlers : ask'[g] = IF g = h THEN a ELSE ask[g]
    BY <2>1, <1>1
  <2>9. \A u \in Tids : ticket'[u].kept \subseteq 1 .. Len(ticket'[u].log)
    BY <2>5, <2>8, <1>2
  <2>10. \A u \in Tids : RunReady(u)'
    BY <2>1, <2>2, <2>5, <2>8, <1>2 DEF RunReady
  <2>11. \A g \in Handlers : AskReady(g)'
    <3> SUFFICES ASSUME NEW g \in Handlers PROVE AskReady(g)'
      OBVIOUS
    <3>1. CASE g = h
      BY <3>1, <2>2, <2>5, <2>6, <2>8 DEF AskReady
    <3>2. CASE g # h
      <4>1. ask'[g] = ask[g] /\ AskReady(g)
        BY <3>2, <2>8, <1>2
      <4>2. ask[g].pc \in {"admitted", "told"} => ask[g].ticket # t
        BY <4>1, <2>1, NoneAssumption DEF AskReady
      <4> QED BY <4>1, <4>2, <2>8 DEF AskReady
    <3> QED BY <3>1, <3>2
  <2>12. \A s \in Readers : StreamReady(s)'
    BY <2>1, <1>2 DEF StreamReady
  <2> QED BY <2>1, <2>7, <2>9, <2>10, <2>11, <2>12, <1>1 DEF TypeInv
<1>9. ASSUME AskRespond(h) PROVE TypeInv'
  <2> DEFINE t == ask[h].ticket
             tk == [ticket[t] EXCEPT !.told = TRUE]
             a == [ask[h] EXCEPT !.pc = "told"]
  <2>1. /\ ask[h].pc = "admitted" /\ ticket' = [ticket EXCEPT ![t] = tk]
        /\ ask' = [ask EXCEPT ![h] = a]
        /\ UNCHANGED <<conversations, tickets, conv, run, stream>>
    BY <1>9 DEF AskRespond
  <2>2. t \in Tids /\ ticket[t] \in Tickets /\ ticket[t].conv = ask[h].conv
    BY <2>1, <1>1 DEF AskReady
  <2>3. tk \in Tickets /\ tk.kept = ticket[t].kept /\ tk.log = ticket[t].log
        /\ tk.conv = ticket[t].conv
    <3> HIDE DEF t
    <3> QED BY <2>2 DEF Tickets
  <2>4. a \in Asks /\ a.pc = "told" /\ a.ticket = t /\ a.conv = ask[h].conv
    BY <1>1 DEF Asks
  <2> HIDE DEF t, tk, a
  <2>5. ticket' \in [Tids -> Tickets] /\ ask' \in [Handlers -> Asks]
    BY <2>1, <2>2, <2>3, <2>4, <1>1
  <2>6. /\ \A u \in Tids : ticket'[u] = IF u = t THEN tk ELSE ticket[u]
        /\ \A g \in Handlers : ask'[g] = IF g = h THEN a ELSE ask[g]
    BY <2>1, <2>2, <1>1
  <2>7. \A u \in Tids : /\ ticket'[u].kept \subseteq 1 .. Len(ticket'[u].log)
                        /\ ticket'[u].conv = ticket[u].conv
    BY <2>3, <2>6, <1>2
  <2>8. \A u \in Tids : RunReady(u)'
    BY <2>1, <2>7, <1>2 DEF RunReady
  <2>9. \A g \in Handlers : AskReady(g)'
    BY <2>1, <2>2, <2>4, <2>6, <2>7, <1>2 DEF AskReady
  <2>10. \A s \in Readers : StreamReady(s)'
    BY <2>1, <1>2 DEF StreamReady
  <2> QED BY <2>1, <2>5, <2>7, <2>8, <2>9, <2>10, <1>1 DEF TypeInv
<1>10. ASSUME AskStart(h) PROVE TypeInv'
  <2> DEFINE t == ask[h].ticket
             r == [run[t] EXCEPT !.pc = "accept"]
  <2>1. /\ ask[h].pc = "told" /\ run' = [run EXCEPT ![t] = r]
        /\ ask' = [ask EXCEPT ![h] = NoAsk]
        /\ UNCHANGED <<conversations, tickets, conv, ticket, stream>>
    BY <1>10 DEF AskStart
  <2>2. t \in Tids /\ ticket[t].conv = ask[h].conv /\ ask[h].conv \in Cids
    BY <2>1, <1>1 DEF AskReady
  <2>3. r \in Runs /\ r.pc = "accept"
    <3>1. run[t] \in Runs /\ "accept" \in RunPcs
      BY <2>2, <1>1 DEF RunPcs
    <3> HIDE DEF t
    <3> QED BY <3>1 DEF Runs
  <2> HIDE DEF t, r
  <2>4. run' \in [Tids -> Runs] /\ ask' \in [Handlers -> Asks]
    BY <2>1, <2>3, <1>1, <1>4
  <2>5. /\ \A u \in Tids : run'[u] = IF u = t THEN r ELSE run[u]
        /\ \A g \in Handlers : ask'[g] = IF g = h THEN NoAsk ELSE ask[g]
    BY <2>1, <1>1
  <2>6. \A u \in Tids : RunReady(u)'
    BY <2>1, <2>2, <2>3, <2>5, <1>2 DEF RunReady
  <2>7. \A g \in Handlers : AskReady(g)'
    BY <2>1, <2>5, <1>2, <1>4 DEF AskReady
  <2>8. \A s \in Readers : StreamReady(s)'
    BY <2>1, <1>2 DEF StreamReady
  <2> QED BY <2>1, <2>4, <2>6, <2>7, <2>8, <1>1, <1>2 DEF TypeInv
<1> QED BY <1>6, <1>7, <1>8, <1>9, <1>10 DEF AskNext

LEMMA StreamStepType ==
  ASSUME TypeInv, NEW s \in Readers, StreamNext(s)
  PROVE  TypeInv'
<1>1. /\ stream \in [Readers -> Streams] /\ stream[s] \in Streams /\ StreamReady(s)
      /\ \A t \in Tids : ticket[t].kept \in SUBSET Nat /\ Len(ticket[t].log) \in Nat
  BY DEF TypeInv, Tickets
<1>2. ASSUME NEW x \in Streams, stream' = [stream EXCEPT ![s] = x], StoreUnchanged,
             x.pc # "idle" => x.ticket \in Tids, x.pc = "send" => x.pending # {}
      PROVE  TypeInv'
  <2>1. /\ stream' \in [Readers -> Streams]
        /\ \A r \in Readers : stream'[r] = IF r = s THEN x ELSE stream[r]
    BY <1>1, <1>2
  <2>2. \A r \in Readers : StreamReady(r)'
    BY <2>1, <1>2 DEF StreamReady, TypeInv
  <2>3. /\ \A t \in Tids : RunReady(t)' /\ ticket'[t].kept \subseteq 1 .. Len(ticket'[t].log)
        /\ \A h \in Handlers : AskReady(h)'
    BY <1>2 DEF StoreUnchanged, TypeInv, RunReady, AskReady
  <2> QED BY <1>2, <2>1, <2>2, <2>3 DEF StoreUnchanged, TypeInv
<1>3. ASSUME NEW pc \in {"look", "closed"}, Become(s, pc), StoreUnchanged,
             stream[s].ticket \in Tids
      PROVE  TypeInv'
  <2> DEFINE x == [stream[s] EXCEPT !.pc = pc]
  <2>1. x \in Streams /\ x.pc = pc /\ x.ticket = stream[s].ticket
    BY <1>1 DEF Streams
  <2>2. stream' = [stream EXCEPT ![s] = x]
    BY <1>3 DEF Become
  <2> HIDE DEF x
  <2> QED BY <1>2, <1>3, <2>1, <2>2
<1>4. ASSUME NEW t \in Tids, NEW oid \in Oids, StreamOpen(s, t, oid) PROVE TypeInv'
  <2>1. CASE stream' = [stream EXCEPT ![s] = [NoStream EXCEPT !.pc = "look", !.ticket = t]]
    <3> DEFINE x == [NoStream EXCEPT !.pc = "look", !.ticket = t]
    <3>1. x \in Streams /\ x.pc = "look" /\ x.ticket = t
      BY DEF NoStream, Streams
    <3>2. StoreUnchanged
      BY <1>4 DEF StreamOpen
    <3>3. stream' = [stream EXCEPT ![s] = x]
      BY <2>1
    <3> HIDE DEF x
    <3> QED BY <1>2, <3>1, <3>2, <3>3
  <2>2. CASE stream[s].ticket = t /\ Become(s, "look")
    BY <1>3, <1>4, <2>2 DEF StreamOpen
  <2> QED BY <1>4, <2>1, <2>2 DEF StreamOpen
<1>5. ASSUME NEW none \in {"empty", "wait"}, Snapshot(s, none), StoreUnchanged,
             stream[s].ticket \in Tids
      PROVE  TypeInv'
  <2> DEFINE pc == IF Pending(s) = {} THEN none ELSE "send"
             x == [stream[s] EXCEPT !.pending = Pending(s), !.pc = pc]
  <2>1. Pending(s) \in SUBSET Nat
    BY <1>1, <1>5 DEF Pending
  <2>2. x \in Streams /\ x.pc = pc /\ x.ticket = stream[s].ticket /\ x.pending = Pending(s)
    <3> HIDE DEF Pending
    <3> QED BY <1>1, <2>1 DEF Streams
  <2>3. stream' = [stream EXCEPT ![s] = x]
    BY <1>5 DEF Snapshot
  <2>4. x.pc = "send" => x.pending # {}
    BY <2>2
  <2>5. StoreUnchanged /\ x.ticket \in Tids
    BY <1>5, <2>2
  <2>6. x \in Streams
    BY <2>2
  <2> HIDE DEF x, pc
  <2> QED BY <1>2, <2>3, <2>4, <2>5, <2>6
<1>6. ASSUME StreamLook(s) \/ StreamWake(s) PROVE TypeInv'
  <2>1. /\ stream[s].pc \in {"look", "wait"} /\ StoreUnchanged
        /\ \E none \in {"empty", "wait"} : Snapshot(s, none)
    BY <1>6 DEF StreamLook, StreamWake
  <2> QED BY <1>1, <1>5, <2>1 DEF StreamReady
<1>7. ASSUME StreamEmpty(s) \/ StreamTail(s) PROVE TypeInv'
  <2>1. /\ stream[s].pc \in {"empty", "tail"} /\ StoreUnchanged
        /\ \E pc \in {"look", "closed"} : Become(s, pc)
    BY <1>7 DEF StreamEmpty, StreamTail
  <2> QED BY <1>1, <1>3, <2>1 DEF StreamReady
<1>8. ASSUME StreamSend(s) PROVE TypeInv'
  <2>1. PICK i \in stream[s].pending :
          stream' = [stream EXCEPT
            ![s].sent = i, ![s].got = @ \cup {i}, ![s].pending = @ \ {i},
            ![s].pc = IF stream[s].pending = {i} THEN "tail" ELSE "send"]
    BY <1>8 DEF StreamSend
  <2> DEFINE pc == IF stream[s].pending = {i} THEN "tail" ELSE "send"
             x == [stream[s] EXCEPT !.sent = i, !.got = stream[s].got \cup {i},
                     !.pending = stream[s].pending \ {i}, !.pc = pc]
  <2>2. i \in Nat /\ stream[s].got \in SUBSET Nat /\ stream[s].pending \in SUBSET Nat
    BY <1>1 DEF Streams
  <2>3. /\ x \in Streams /\ x.pc = pc /\ x.ticket = stream[s].ticket
        /\ x.pending = stream[s].pending \ {i}
    BY <1>1, <2>2 DEF Streams
  <2>4. stream' = [stream EXCEPT ![s] = x]
    BY <2>1
  <2>5. x.pc = "send" => x.pending # {}
    BY <2>1, <2>3
  <2>6. stream[s].ticket \in Tids /\ StoreUnchanged
    BY <1>1, <1>8 DEF StreamSend, StreamReady
  <2> HIDE DEF x
  <2> QED BY <1>2, <2>3, <2>4, <2>5, <2>6
<1>9. ASSUME StreamBreak(s) PROVE TypeInv'
  <2> DEFINE x == [stream[s] EXCEPT !.pc = "idle", !.pending = {}]
  <2>1. x \in Streams /\ x.pc = "idle"
    BY <1>1 DEF Streams
  <2>2. stream' = [stream EXCEPT ![s] = x] /\ StoreUnchanged
    BY <1>9 DEF StreamBreak
  <2> HIDE DEF x
  <2> QED BY <1>2, <2>1, <2>2
<1> QED BY <1>4, <1>6, <1>7, <1>8, <1>9 DEF StreamNext, StreamServe

\* The steps that rewrite every conversation or ticket, and change of them
\* neither the references nor the events.
LEMMA StoreFrame ==
  ASSUME TypeInv, conversations' \subseteq Cids, tickets' \subseteq Tids,
         conv' \in [Cids -> Conversations], ticket' \in [Tids -> Tickets],
         \A t \in Tids : /\ ticket'[t].log = ticket[t].log
                         /\ ticket'[t].kept = ticket[t].kept
                         /\ ticket'[t].conv = ticket[t].conv,
         UNCHANGED <<run, ask, stream>>
  PROVE  TypeInv'
<1>1. \A t \in Tids : RunReady(t)' /\ ticket'[t].kept \subseteq 1 .. Len(ticket'[t].log)
  BY DEF TypeInv, RunReady
<1>2. \A h \in Handlers : AskReady(h)'
  BY DEF TypeInv, AskReady
<1>3. \A s \in Readers : StreamReady(s)'
  BY DEF TypeInv, StreamReady
<1> QED BY <1>1, <1>2, <1>3 DEF TypeInv

LEMMA OlderType == \A age \in Nat : Older(age) \in Nat
  BY SizesAssumption DEF Older

LEMMA TypeNext == TypeInv /\ [Next]_vars => TypeInv'
<1> SUFFICES ASSUME TypeInv, [Next]_vars PROVE TypeInv'
  OBVIOUS
<1>1. /\ conv \in [Cids -> Conversations] /\ ticket \in [Tids -> Tickets]
      /\ conversations \subseteq Cids /\ tickets \subseteq Tids
  BY DEF TypeInv
<1>2. ASSUME NEW c \in Cids, NEW oid \in Oids, Open(c, oid) PROVE TypeInv'
  <2>1. [conv[c] EXCEPT !.oid = oid] \in Conversations
    BY <1>1 DEF Conversations
  <2>2. conv' \in [Cids -> Conversations] /\ conversations' \subseteq Cids
    BY <1>1, <1>2, <2>1 DEF Open
  <2> QED BY <1>1, <1>2, <2>2, StoreFrame DEF Open
<1>3. ASSUME NEW t \in Tids, NEW oid \in Oids, Cancel(t, oid) PROVE TypeInv'
  <2> DEFINE at == IF ticket[t].cancel THEN ticket[t].cancelledAt ELSE Len(ticket[t].log)
             tk == [ticket[t] EXCEPT !.cancel = TRUE, !.cancelledAt = at]
  <2>1. /\ ticket' = [ticket EXCEPT ![t] = tk]
        /\ UNCHANGED <<conversations, tickets, conv, run, ask, stream>>
    BY <1>3 DEF Cancel
  <2>2. at \in Nat
    BY <1>1 DEF Tickets
  <2>3. /\ tk \in Tickets /\ tk.log = ticket[t].log /\ tk.kept = ticket[t].kept
        /\ tk.conv = ticket[t].conv
    <3> HIDE DEF at
    <3> QED BY <1>1, <2>2 DEF Tickets
  <2> HIDE DEF tk
  <2>4. /\ ticket' \in [Tids -> Tickets]
        /\ \A u \in Tids : ticket'[u] = IF u = t THEN tk ELSE ticket[u]
    BY <1>1, <2>1, <2>3
  <2> QED BY <1>1, <2>1, <2>3, <2>4, StoreFrame
<1>4. ASSUME Tick PROVE TypeInv'
  <2>1. ASSUME NEW c \in Cids
        PROVE  [conv[c] EXCEPT !.idle = IF conv[c].oid # None THEN Older(@) ELSE @]
                 \in Conversations
    <3>1. (IF conv[c].oid # None THEN Older(conv[c].idle) ELSE conv[c].idle) \in Nat
      BY <1>1, OlderType DEF Conversations
    <3> QED BY <1>1, <3>1 DEF Conversations
  <2>2. ASSUME NEW t \in Tids
        PROVE  LET tk == [ticket[t] EXCEPT !.age = IF ticket[t].finished THEN Older(@) ELSE @]
               IN /\ tk \in Tickets /\ tk.log = ticket[t].log
                  /\ tk.kept = ticket[t].kept /\ tk.conv = ticket[t].conv
    <3>1. (IF ticket[t].finished THEN Older(ticket[t].age) ELSE ticket[t].age) \in Nat
      BY <1>1, OlderType DEF Tickets
    <3> QED BY <1>1, <3>1 DEF Tickets
  <2>3. conv' \in [Cids -> Conversations]
    BY <1>4, <2>1 DEF Tick
  <2>4. /\ ticket' \in [Tids -> Tickets]
        /\ \A t \in Tids : /\ ticket'[t].log = ticket[t].log
                           /\ ticket'[t].kept = ticket[t].kept
                           /\ ticket'[t].conv = ticket[t].conv
    BY <1>4, <2>2 DEF Tick
  <2> QED BY <1>1, <1>4, <2>3, <2>4, StoreFrame DEF Tick
<1>5. ASSUME Reap PROVE TypeInv'
  BY <1>1, <1>5, StoreFrame DEF Reap
<1>6. CASE UNCHANGED vars
  BY <1>1, <1>6, StoreFrame DEF vars
<1> QED
  BY <1>2, <1>3, <1>4, <1>5, <1>6, RunStepType, AskStepType, StreamStepType,
     CancellableAssumption DEF Next

\* Every reachable state is well typed, and no thread ever reaches a step
\* whose conversation, ticket, call or frame is not there.
THEOREM TypeCorrect == Spec => []TypeInv
BY TypeInit, TypeNext, PTL DEF Spec

-----------------------------------------------------------------------------
(* One run per conversation.  Not inductive alone: the mark `running` that a *)
(* handler checks must be the live ask's own, and a ticket must have one     *)
(* handler, so that its run is started once and its release is its last.     *)

Marked == \A t \in Tids : Active(t) => conv[ticket[t].conv].running = t

HeldOnce ==
  \A h \in Handlers, t \in Tids : Held(t, h) =>
    /\ run[t].pc = "none"
    /\ \A g \in Handlers : Held(t, g) => g = h

AskInv == TypeInv /\ Marked /\ HeldOnce

LEMMA AskInit == Init => AskInv
<1> SUFFICES ASSUME Init PROVE Marked /\ HeldOnce
  BY TypeInit DEF AskInv
<1>1. \A t \in Tids : run[t].pc = "none"
  BY DEF Init, NoRun
<1>2. \A h \in Handlers, t \in Tids : ~Held(t, h)
  BY DEF Init, NoAsk, Held
<1> QED BY <1>1, <1>2 DEF Marked, HeldOnce, Active

\* An active ask has a conversation.
LEMMA ActiveHasConversation ==
  ASSUME TypeInv, NEW t \in Tids, Active(t)
  PROVE  ticket[t].conv \in Cids
BY DEF TypeInv, Active, Held, RunReady, AskReady

\* A step that starts no thread, and moves no mark or ticket.
LEMMA AskFrame ==
  ASSUME AskInv, TypeInv',
         \A c \in Cids : conv'[c].running = conv[c].running,
         \A t \in Tids : ticket'[t].conv = ticket[t].conv,
         \A t \in Tids : run[t].pc = "none" <=> run'[t].pc = "none",
         \A t \in Tids : run[t].pc = "ended" => run'[t].pc = "ended",
         \A h \in Handlers, t \in Tids : Held(t, h)' => Held(t, h)
  PROVE  AskInv'
<1>1. \A t \in Tids : Active(t)' => Active(t)
  BY DEF Active
<1>2. Marked'
  BY <1>1, ActiveHasConversation DEF AskInv, Marked
<1>3. HeldOnce'
  BY DEF AskInv, HeldOnce
<1> QED BY <1>2, <1>3 DEF AskInv

LEMMA RunStepAsk ==
  ASSUME AskInv, TypeInv', NEW t \in Tids, RunNext(t)
  PROVE  AskInv'
<1>1. /\ run \in [Tids -> Runs] /\ run[t] \in Runs /\ ticket \in [Tids -> Tickets]
      /\ ticket[t] \in Tickets /\ conv \in [Cids -> Conversations] /\ RunReady(t)
  BY DEF AskInv, TypeInv
<1>2. \A event : emit(t, event) => \A u \in Tids : ticket'[u].conv = ticket[u].conv
  <2> TAKE event
  <2> HAVE emit(t, event)
  <2>1. Emitted(ticket[t], event).conv = ticket[t].conv
    BY <1>1 DEF Emitted, Tickets
  <2>2. \A u \in Tids : ticket'[u] = IF u = t THEN Emitted(ticket[t], event) ELSE ticket[u]
    BY <1>1 DEF emit
  <2> QED BY <2>1, <2>2
<1>3. ASSUME NEW r \in Runs, run' = [run EXCEPT ![t] = r], run[t].pc \notin {"none", "ended"},
             r.pc # "none", \A u \in Tids : ticket'[u].conv = ticket[u].conv,
             UNCHANGED ask, \A c \in Cids : conv'[c].running = conv[c].running
      PROVE  AskInv'
  <2>1. \A u \in Tids : run'[u] = IF u = t THEN r ELSE run[u]
    BY <1>1, <1>3
  <2>2. \A h \in Handlers, u \in Tids : Held(u, h)' <=> Held(u, h)
    BY <1>3 DEF Held
  <2> QED BY <1>3, <2>1, <2>2, AskFrame
<1>4. ASSUME ~RunRelease(t) PROVE AskInv'
  <2>1. /\ run[t].pc \notin {"none", "ended"} /\ UNCHANGED ask
        /\ (\E event : emit(t, event)) \/ UNCHANGED ticket
    BY <1>4 DEF RunNext, RunAccept, RunOpenBranch, RunAsk, RunRaises, RunPoll, RunTurn, RunStep,
       RunMilestone, RunCloseBranch, RunTerminal, RunRemember, RunDone, RunAudit, Quiet
  <2>2. \A c \in Cids : conv'[c].running = conv[c].running
    <3>1. CASE RunRemember(t)
      <4>1. ticket[t].conv \in Cids
        BY <3>1, <1>1 DEF RunRemember, RunReady
      <4> QED BY <3>1, <4>1, <1>1 DEF RunRemember, Conversations
    <3>2. CASE ~RunRemember(t)
      BY <1>4, <3>2 DEF RunNext, RunAccept, RunOpenBranch, RunAsk, RunRaises, RunPoll, RunTurn,
         RunStep, RunMilestone, RunCloseBranch, RunTerminal, RunDone, RunAudit, Quiet
    <3> QED BY <3>1, <3>2
  <2>3. run' \in [Tids -> Runs] /\ run'[t] \in Runs
    BY DEF TypeInv
  <2>4. \A u \in Tids : u # t => run'[u] = run[u]
    BY <1>1, <1>4 DEF RunNext, RunAccept, RunOpenBranch, RunAsk, RunRaises, RunPoll, RunTurn,
       RunStep, RunMilestone, RunCloseBranch, RunTerminal, RunRemember, RunDone, RunAudit, Goto, Stop
  <2>5. run'[t].pc # "none"
    <3>1. CASE RunStep(t) \/ RunMilestone(t)
      <4> DEFINE kind == Head(run[t].calls)
                 counted == [run[t] EXCEPT !.steps = @ + 1, !.ran = @ \cup {kind}]
      <4>1. \A r : "pc" \in DOMAIN r => NextCall(r).pc \in {"poll", "relay"}
        BY DEF NextCall
      <4>2. "pc" \in DOMAIN run[t] /\ "pc" \in DOMAIN counted
        BY <1>1 DEF Runs
      <4>3. CASE RunMilestone(t)
        <5>1. run'[t] = NextCall(run[t])
          BY <4>3, <1>1 DEF RunMilestone
        <5> QED BY <5>1, <4>1, <4>2
      <4>4. CASE RunStep(t)
        <5>1. run'[t] = IF HasMilestone(kind) THEN [counted EXCEPT !.pc = "milestone"]
                        ELSE NextCall(counted)
          BY <4>4, <1>1 DEF RunStep
        <5> HIDE DEF counted, kind
        <5>2. NextCall(counted).pc # "none" /\ [counted EXCEPT !.pc = "milestone"].pc # "none"
          BY <4>1, <4>2
        <5> QED BY <5>1, <5>2
      <4> QED BY <3>1, <4>3, <4>4
    <3>2. CASE ~(RunStep(t) \/ RunMilestone(t))
      <4>1. /\ \A pc : Goto(t, pc) => run'[t].pc = pc
            /\ \A reason : Stop(t, reason) => run'[t].pc = "close"
        BY <1>1 DEF Goto, Stop, Runs
      <4>2. ASSUME RunAsk(t) PROVE run'[t].pc = "poll"
        BY <1>1, <4>2 DEF RunAsk, Runs
      <4>3. ASSUME RunPoll(t) PROVE run'[t].pc # "none"
        BY <1>1, <4>1, <4>3 DEF RunPoll, Runs
      <4>4. ASSUME RunTurn(t) PROVE run'[t].pc # "none"
        BY <1>1, <4>1, <4>4 DEF RunTurn, Runs
      <4> QED
        BY <1>4, <3>2, <4>1, <4>2, <4>3, <4>4 DEF RunNext, RunAccept, RunOpenBranch, RunRaises,
           RunCloseBranch, RunTerminal, RunRemember, RunDone, RunAudit
    <3> QED BY <3>1, <3>2
  <2>6. run' = [run EXCEPT ![t] = run'[t]]
    BY <2>3, <2>4, <1>1
  <2>7. \A u \in Tids : ticket'[u].conv = ticket[u].conv
    BY <2>1, <1>2
  <2> QED BY <1>3, <2>1, <2>2, <2>3, <2>5, <2>6, <2>7
<1>5. ASSUME RunRelease(t) PROVE AskInv'
  <2> DEFINE c == ticket[t].conv
  <2>1. /\ run[t].pc = "release" /\ run'[t].pc = "ended"
        /\ \A u \in Tids : u # t => run'[u] = run[u]
        /\ conv' = [conv EXCEPT ![c].running = None, ![c].idle = 0]
        /\ UNCHANGED <<ticket, ask>>
    BY <1>1, <1>5 DEF RunRelease, Goto, Runs
  <2>2. c \in Cids /\ Active(t) /\ conv[c].running = t
    BY <2>1, <1>1 DEF RunReady, Active, AskInv, Marked
  <2>3. \A h \in Handlers, u \in Tids : Held(u, h)' <=> Held(u, h)
    BY <2>1 DEF Held
  <2>4. \A h \in Handlers : ~Held(t, h)
    BY <2>1 DEF AskInv, HeldOnce
  <2>5. ASSUME NEW u \in Tids, Active(u)' PROVE conv'[ticket'[u].conv].running = u
    <3>1. u # t /\ Active(u)
      BY <2>1, <2>3, <2>4, <2>5 DEF Active
    <3>2. ticket[u].conv \in Cids /\ conv[ticket[u].conv].running = u
      BY <3>1, ActiveHasConversation DEF AskInv, Marked
    <3>3. ticket[u].conv # c
      BY <3>1, <3>2, <2>2
    <3> QED BY <3>2, <3>3, <2>1, <1>1
  <2>6. HeldOnce'
    BY <2>1, <2>3, <2>4 DEF AskInv, HeldOnce
  <2> QED BY <2>5, <2>6 DEF AskInv, Marked
<1> QED BY <1>4, <1>5

LEMMA AskStepAsk ==
  ASSUME AskInv, TypeInv', NEW h \in Handlers, AskNext(h)
  PROVE  AskInv'
<1>1. /\ ask \in [Handlers -> Asks] /\ ask[h] \in Asks /\ AskReady(h)
      /\ run \in [Tids -> Runs] /\ ticket \in [Tids -> Tickets]
      /\ conv \in [Cids -> Conversations]
      /\ \A t \in Tids : RunReady(t) /\ ticket[t] \in Tickets /\ run[t] \in Runs
      /\ \A g \in Handlers : AskReady(g)
  BY DEF AskInv, TypeInv
<1>2. ASSUME NEW a \in Asks, a.pc \in {"idle", "found"}, ask' = [ask EXCEPT ![h] = a],
             UNCHANGED <<conv, ticket, run>>
      PROVE  AskInv'
  <2>1. \A g \in Handlers, t \in Tids : Held(t, g)' => Held(t, g)
    BY <1>1, <1>2 DEF Held
  <2> QED BY <1>2, <2>1, AskFrame
<1>3. NoAsk \in Asks /\ NoAsk.pc = "idle"
  BY DEF NoAsk, Asks
<1>4. ASSUME NEW c \in Cids, NEW oid \in Oids, AskLookup(h, c, oid) PROVE AskInv'
  <2>1. [pc |-> "found", conv |-> c, ticket |-> None] \in Asks
    BY DEF Asks
  <2> QED BY <1>2, <1>4, <2>1 DEF AskLookup
<1>5. ASSUME AskNoQuestion(h) \/ AskConflict(h) \/ AskRespondFails(h) PROVE AskInv'
  BY <1>2, <1>3, <1>5 DEF AskNoQuestion, AskConflict, AskRespondFails
<1>6. ASSUME NEW t \in Tids, AskAdmit(h, t) PROVE AskInv'
  <2> DEFINE c == ask[h].conv
  <2>1. /\ ask[h].pc = "found" /\ ticket[t].conv = None /\ conv[c].running = None
        /\ c \in Cids /\ UNCHANGED run
    BY <1>1, <1>6 DEF AskAdmit, Busy, AskReady
  <2>2. /\ \A d \in Cids : conv'[d].running = IF d = c THEN t ELSE conv[d].running
        /\ \A u \in Tids : ticket'[u].conv = IF u = t THEN c ELSE ticket[u].conv
        /\ \A g \in Handlers : g # h => ask'[g] = ask[g]
        /\ ask'[h].pc = "admitted" /\ ask'[h].ticket = t
    <3>1. \A d \in Cids : conv'[d].running = IF d = c THEN t ELSE conv[d].running
      BY <1>1, <1>6, <2>1 DEF AskAdmit, Conversations
    <3>2. \A u \in Tids : ticket'[u].conv = IF u = t THEN c ELSE ticket[u].conv
      BY <1>1, <1>6, <2>1 DEF AskAdmit, Tickets
    <3>3. /\ \A g \in Handlers : g # h => ask'[g] = ask[g]
          /\ ask'[h].pc = "admitted" /\ ask'[h].ticket = t
      BY <1>1, <1>6 DEF AskAdmit, Asks
    <3> QED BY <3>1, <3>2, <3>3
  <2>3. run[t].pc = "none" /\ \A g \in Handlers : ~Held(t, g)
    BY <1>1, <2>1, NoneAssumption DEF RunReady, AskReady, Held
  <2>4. \A g \in Handlers, u \in Tids : Held(u, g)' <=> (g = h /\ u = t) \/ Held(u, g)
    BY <2>1, <2>2 DEF Held
  <2>5. ASSUME NEW u \in Tids, Active(u)' PROVE conv'[ticket'[u].conv].running = u
    <3>1. CASE u = t
      BY <3>1, <2>1, <2>2
    <3>2. CASE u # t
      <4>1. Active(u)
        BY <2>1, <2>4, <2>5, <3>2 DEF Active
      <4>2. ticket[u].conv \in Cids /\ conv[ticket[u].conv].running = u
        BY <4>1, ActiveHasConversation DEF AskInv, Marked
      <4>3. ticket[u].conv # c
        BY <4>2, <2>1, NoneAssumption
      <4> QED BY <4>2, <4>3, <3>2, <2>2
    <3> QED BY <3>1, <3>2
  <2>6. HeldOnce'
    BY <2>1, <2>3, <2>4 DEF AskInv, HeldOnce
  <2> QED BY <2>5, <2>6 DEF AskInv, Marked
<1>7. ASSUME AskRespond(h) PROVE AskInv'
  <2>1. ask[h].pc = "admitted" /\ ask[h].ticket \in Tids /\ UNCHANGED <<conv, run>>
    BY <1>1, <1>7 DEF AskRespond, AskReady
  <2>2. \A u \in Tids : ticket'[u].conv = ticket[u].conv
    BY <1>1, <1>7, <2>1 DEF AskRespond, Tickets
  <2>3. \A g \in Handlers, u \in Tids : Held(u, g)' => Held(u, g)
    BY <1>1, <1>7, <2>1 DEF AskRespond, Held, Asks
  <2> QED BY <2>1, <2>2, <2>3, AskFrame
<1>8. ASSUME AskStart(h) PROVE AskInv'
  <2>1. PICK t \in Tids :
        /\ t = ask[h].ticket /\ Held(t, h) /\ UNCHANGED <<conv, ticket>>
        /\ \A u \in Tids : u # t => run'[u] = run[u]
        /\ run'[t].pc = "accept"
    BY <1>1, <1>8 DEF AskStart, AskReady, Held, Runs
  <2>2. \A g \in Handlers, u \in Tids : Held(u, g)' <=> g # h /\ Held(u, g)
    BY <1>1, <1>3, <1>8 DEF AskStart, Held
  <2>3. \A g \in Handlers : ~Held(t, g)'
    BY <2>1, <2>2 DEF AskInv, HeldOnce
  <2>4. \A u \in Tids : Active(u)' => Active(u)
    BY <2>1, <2>2 DEF Active
  <2>5. Marked'
    BY <2>1, <2>4 DEF AskInv, Marked
  <2>6. HeldOnce'
    BY <2>1, <2>2, <2>3 DEF AskInv, HeldOnce
  <2> QED BY <2>5, <2>6 DEF AskInv
<1> QED BY <1>4, <1>5, <1>6, <1>7, <1>8 DEF AskNext

LEMMA AskInvNext == AskInv /\ [Next]_vars => AskInv'
<1> SUFFICES ASSUME AskInv, [Next]_vars PROVE AskInv'
  OBVIOUS
<1>1. TypeInv'
  BY TypeNext DEF AskInv
<1>2. /\ conv \in [Cids -> Conversations] /\ ticket \in [Tids -> Tickets]
  BY DEF AskInv, TypeInv
<1>3. ASSUME UNCHANGED <<run, ask>>,
             \A c \in Cids : conv'[c].running = conv[c].running,
             \A t \in Tids : ticket'[t].conv = ticket[t].conv
      PROVE  AskInv'
  <2>1. \A h \in Handlers, t \in Tids : Held(t, h)' <=> Held(t, h)
    BY <1>3 DEF Held
  <2> QED BY <1>1, <1>3, <2>1, AskFrame
<1>4. ASSUME NEW c \in Cids, NEW oid \in Oids, Open(c, oid) PROVE AskInv'
  BY <1>2, <1>3, <1>4 DEF Open, Conversations, AskInv, TypeInv
<1>5. ASSUME NEW t \in Tids, NEW oid \in Oids, Cancel(t, oid) PROVE AskInv'
  BY <1>2, <1>3, <1>5 DEF Cancel, Tickets
<1>6. ASSUME Tick PROVE AskInv'
  <2>1. \A c \in Cids : conv'[c].running = conv[c].running
    BY <1>2, <1>6 DEF Tick, Conversations
  <2>2. \A t \in Tids : ticket'[t].conv = ticket[t].conv
    BY <1>2, <1>6 DEF Tick, Tickets
  <2> QED BY <1>3, <1>6, <2>1, <2>2 DEF Tick
<1>7. ASSUME NEW s \in Readers, StreamNext(s) PROVE AskInv'
  BY <1>3, <1>7 DEF StreamNext, StreamServe, StreamOpen, StreamLook, StreamWake, StreamEmpty,
     StreamSend, StreamTail, StreamBreak, StoreUnchanged
<1>8. ASSUME Reap PROVE AskInv'
  BY <1>3, <1>8 DEF Reap
<1>9. CASE UNCHANGED vars
  BY <1>3, <1>9 DEF vars
<1>10. ASSUME NEW h \in Handlers, AskNext(h) PROVE AskInv'
  BY <1>1, <1>10, AskStepAsk
<1>11. ASSUME NEW t \in Tids, RunNext(t) PROVE AskInv'
  BY <1>1, <1>11, RunStepAsk
<1> QED
  BY <1>4, <1>5, <1>6, <1>7, <1>8, <1>9, <1>10, <1>11, CancellableAssumption DEF Next

LEMMA AskInvariant == Spec => []AskInv
BY AskInit, AskInvNext, PTL DEF Spec

\* A conversation never has two live asks: not when two handlers found it
\* idle, nor when a run is between its done and its release.
THEOREM OneRun == Spec => []OneRunPerConversation
<1>1. AskInv => OneRunPerConversation
  BY DEF AskInv, Marked, OneRunPerConversation
<1> QED BY <1>1, AskInvariant, PTL

\* The reaper never deletes a conversation that has a live ask.
THEOREM ReaperSparesRuns == Spec => ReapSparesRuns
<1>1. ASSUME AskInv, [Next]_vars, NEW t \in Tids,
             Active(t), ticket[t].conv \in conversations
      PROVE  ticket[t].conv \in conversations'
  <2>1. conv[ticket[t].conv].running # None
    BY <1>1, NoneAssumption DEF AskInv, Marked
  <2>2. CASE Reap
    BY <1>1, <2>1, <2>2 DEF Reap, ConversationExpired
  <2>3. CASE ~Reap
    <3>1. conversations \subseteq conversations'
      BY <1>1, <2>3 DEF Next, vars, Open, AskNext, AskLookup, AskNoQuestion, AskConflict, AskAdmit,
         AskRespond, AskRespondFails, AskStart, Cancel, RunNext, RunAccept, RunOpenBranch, RunAsk,
         RunRaises, RunPoll, RunTurn, RunStep, RunMilestone, RunCloseBranch, RunTerminal,
         RunRemember, RunDone, RunAudit, RunRelease, Quiet, StreamNext, StreamServe, StreamOpen,
         StreamLook, StreamWake, StreamEmpty, StreamSend, StreamTail, StreamBreak,
         StoreUnchanged, Tick
    <3> QED BY <1>1, <3>1
  <2> QED BY <2>2, <2>3
<1>2. AskInv /\ [Next]_vars =>
        [\A t \in Tids : Active(t) /\ ticket[t].conv \in conversations
                           => ticket[t].conv \in conversations']_vars
  BY <1>1
<1> QED BY <1>2, AskInvariant, PTL DEF Spec, ReapSparesRuns

=============================================================================
