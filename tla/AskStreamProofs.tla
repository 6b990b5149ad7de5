--------------------------- MODULE AskStreamProofs ---------------------------
(* What TLAPS proves of the streams of AskService: the order, the ends and   *)
(* the losses of a ticket's log, what a reader of it holds, what a later ask *)
(* is prompted with, and that the threads together keep AskContract.         *)
EXTENDS AskServiceProofs, FiniteSetTheorems, WellFoundedInduction

-----------------------------------------------------------------------------
(* Sequences, minima and counts.                                             *)

\* An event appended to a log is its last, and moves none before it.
LEMMA Appended ==
  ASSUME NEW log \in Seq(Events), NEW event \in Events
  PROVE  /\ Append(log, event) \in Seq(Events)
         /\ Len(Append(log, event)) = Len(log) + 1 /\ Len(log) \in Nat
         /\ \A i \in 1 .. Len(log) : Append(log, event)[i] = log[i]
         /\ Append(log, event)[Len(log) + 1] = event
OBVIOUS

\* A set of numbers that is not empty has a least one.
LEMMA LeastNumber ==
  ASSUME NEW S \in SUBSET Nat, S # {}
  PROVE  \E m \in S : \A i \in S : m <= i
<1>1. PICK m \in S : \A i \in S : ~ (<<i, m>> \in OpToRel(<, Nat))
  BY NatLessThanWellFounded, WFMin
<1>2. \A i \in S : ~(i < m)
  BY <1>1 DEF OpToRel
<1> QED BY <1>2

\* The steps told after a given seq are finitely many.
LEMMA StepsCounted ==
  ASSUME NEW log \in Seq(Events), NEW from \in Nat
  PROVE  /\ IsFiniteSet({i \in from + 1 .. Len(log) : log[i].type = "step"})
         /\ StepCount(log, from) \in Nat
<1>1. IsFiniteSet(from + 1 .. Len(log))
  BY FS_Interval
<1>2. IsFiniteSet({i \in from + 1 .. Len(log) : log[i].type = "step"})
  BY <1>1, FS_Subset
<1> QED BY <1>2, FS_CardinalityType DEF StepCount

\* No step has been told after the last event.
LEMMA NoStepsYet ==
  ASSUME NEW log \in Seq(Events)
  PROVE  StepCount(log, Len(log)) = 0
<1>1. {i \in Len(log) + 1 .. Len(log) : log[i].type = "step"} = {}
  OBVIOUS
<1> QED BY <1>1, FS_EmptySet DEF StepCount

\* An event counts by one when it is a step and by nothing when it is not.
LEMMA StepCountAppended ==
  ASSUME NEW log \in Seq(Events), NEW event \in Events, NEW from \in 0 .. Len(log)
  PROVE  StepCount(Append(log, event), from) =
           IF event.type = "step" THEN StepCount(log, from) + 1 ELSE StepCount(log, from)
<1> DEFINE new == Append(log, event)
           old == {i \in from + 1 .. Len(log) : log[i].type = "step"}
<1>1. /\ Len(new) = Len(log) + 1 /\ Len(log) \in Nat /\ from \in Nat
      /\ \A i \in 1 .. Len(log) : new[i] = log[i]
      /\ new[Len(log) + 1] = event
  BY Appended
<1>2. IsFiniteSet(old) /\ Cardinality(old) \in Nat
  BY <1>1, StepsCounted DEF StepCount
<1>3. Len(log) + 1 \notin old
  BY <1>1
<1>4. {i \in from + 1 .. Len(new) : new[i].type = "step"} =
        IF event.type = "step" THEN old \cup {Len(log) + 1} ELSE old
  <2> HIDE DEF new
  <2> QED BY <1>1
<1>5. Cardinality(old \cup {Len(log) + 1}) = Cardinality(old) + 1
  BY <1>2, <1>3, FS_AddElement
<1> QED BY <1>4, <1>5 DEF StepCount

-----------------------------------------------------------------------------
(* The retained list.  KeptWhole is OnlyStepsDropped of one ticket.          *)

KeptWhole(tk) ==
  /\ \A i \in 1 .. Len(tk.log) : tk.log[i].type # "step" => i \in tk.kept
  /\ Cardinality(tk.kept) > MAX_EVENTS => StepsIn(tk.log, tk.kept) = {}

\* The oldest n of a set has nothing outside the set, nothing at all when n is
\* not positive, and the least when it is.
LEMMA OldestOf ==
  ASSUME NEW S \in SUBSET Nat, IsFiniteSet(S), NEW n \in Int
  PROVE  /\ Oldest(S, n) \subseteq S
         /\ n <= 0 => Oldest(S, n) = {}
         /\ n > 0 => \A m \in S : (\A i \in S : m <= i) => m \in Oldest(S, n)
<1>1. \A i \in S : Cardinality({j \in S : j < i}) \in Nat
  BY FS_Subset, FS_CardinalityType
<1>2. ASSUME NEW m \in S, \A i \in S : m <= i PROVE Cardinality({j \in S : j < m}) = 0
  <2>1. \A j \in S : ~(j < m)
    BY <1>2
  <2>2. {j \in S : j < m} = {}
    BY <2>1
  <2> QED BY <2>2, FS_EmptySet
<1>3. n <= 0 => Oldest(S, n) = {}
  <2>1. n <= 0 => \A i \in S : ~(Cardinality({j \in S : j < i}) < n)
    BY <1>1
  <2> QED BY <2>1, Zenon DEF Oldest
<1>4. n > 0 => \A m \in S : (\A i \in S : m <= i) => m \in Oldest(S, n)
  BY <1>2 DEF Oldest
<1> QED BY <1>3, <1>4 DEF Oldest

\* Whatever is emitted, overflow costs steps only, and the list is above its
\* bound only when it has no step to lose.
LEMMA EmittedKept ==
  ASSUME NEW tk \in Tickets, tk.kept \subseteq 1 .. Len(tk.log), KeptWhole(tk),
         NEW event \in Events
  PROVE  KeptWhole(Emitted(tk, event))
<1> DEFINE log == Append(tk.log, event)
           n == Len(tk.log) + 1
           held == tk.kept \cup {n}
           excess == Cardinality(held) - MAX_EVENTS
           steps == StepsIn(log, held)
           kept == held \ Oldest(steps, excess)
<1>1. /\ tk.log \in Seq(Events) /\ log \in Seq(Events) /\ Len(log) = n /\ n \in Nat /\ n >= 1
      /\ \A i \in 1 .. Len(tk.log) : log[i] = tk.log[i]
      /\ log[n] = event
  <2>1. tk.log \in Seq(Events)
    BY DEF Tickets
  <2>2. /\ log \in Seq(Events) /\ Len(log) = Len(tk.log) + 1 /\ Len(tk.log) \in Nat
        /\ \A i \in 1 .. Len(tk.log) : log[i] = tk.log[i]
        /\ log[Len(tk.log) + 1] = event
    BY <2>1, Appended
  <2> HIDE DEF log
  <2> QED BY <2>1, <2>2
<1>2. /\ IsFiniteSet(tk.kept) /\ Cardinality(tk.kept) \in Nat
      /\ n \notin tk.kept /\ tk.kept \subseteq Nat
  <2>1. Len(tk.log) \in Nat
    BY <1>1
  <2>2. IsFiniteSet(1 .. Len(tk.log))
    BY <2>1, FS_Interval
  <2>3. IsFiniteSet(tk.kept) /\ Cardinality(tk.kept) \in Nat
    BY <2>2, FS_Subset, FS_CardinalityType
  <2> QED BY <2>1, <2>3
<1>3. IsFiniteSet(held) /\ Cardinality(held) = Cardinality(tk.kept) + 1 /\ held \subseteq Nat
  BY <1>1, <1>2, FS_AddElement
<1>4. /\ steps \subseteq held /\ IsFiniteSet(steps) /\ steps \in SUBSET Nat
      /\ \A i \in held : i \in steps <=> log[i].type = "step"
  BY <1>3, FS_Subset DEF StepsIn
<1>5. excess \in Int
  BY <1>2, <1>3, SizesAssumption
<1>6. Emitted(tk, event).log = log /\ Emitted(tk, event).kept = kept
  BY <1>1 DEF Emitted, Trim, Tickets
<1> HIDE DEF log, n, held, excess, steps, kept
<1>7. ASSUME NEW i \in 1 .. n, log[i].type # "step" PROVE i \in kept
  <2>1. i \in held
    BY <1>1, <1>7 DEF KeptWhole, held, n
  <2>2. i \notin Oldest(steps, excess)
    BY <1>4, <1>5, <1>7, <2>1, OldestOf
  <2> QED BY <2>1, <2>2 DEF kept
<1>8. ASSUME Cardinality(kept) > MAX_EVENTS PROVE StepsIn(log, kept) = {}
  <2>1. kept \subseteq held /\ StepsIn(log, kept) \subseteq steps \ Oldest(steps, excess)
    BY <1>4 DEF kept, StepsIn
  <2>2. CASE Cardinality(tk.kept) > MAX_EVENTS
    <3>1. steps \subseteq {n}
      BY <1>1, <1>4, <2>2 DEF KeptWhole, StepsIn, held, n
    <3>2. excess > 0
      BY <1>2, <1>3, <2>2, SizesAssumption DEF excess
    <3>3. steps \subseteq Oldest(steps, excess)
      BY <1>1, <1>4, <1>5, <3>1, <3>2, OldestOf
    <3> QED BY <2>1, <3>3
  <2>3. CASE Cardinality(tk.kept) <= MAX_EVENTS
    <3>1. SUFFICES ASSUME steps # {} PROVE FALSE
      BY <2>1
    <3>2. PICK m \in steps : \A i \in steps : m <= i
      BY <1>4, <3>1, LeastNumber
    <3>3. Cardinality(kept) <= Cardinality(held)
      BY <1>3, <2>1, FS_Subset
    <3>4. excess > 0
      BY <1>2, <1>3, <1>8, <2>3, <3>3, SizesAssumption, FS_Subset, FS_CardinalityType DEF excess, kept
    <3>5. kept \subseteq held \ {m}
      BY <1>4, <1>5, <3>2, <3>4, OldestOf DEF kept
    <3>6. Cardinality(held \ {m}) = Cardinality(held) - 1 /\ IsFiniteSet(held \ {m})
      BY <1>3, <1>4, <3>2, FS_RemoveElement
    <3>7. Cardinality(kept) <= Cardinality(held) - 1 /\ Cardinality(kept) \in Nat
      BY <3>5, <3>6, FS_Subset, FS_CardinalityType
    <3> QED BY <1>2, <1>3, <1>8, <2>3, <3>7, SizesAssumption
  <2> QED BY <1>2, <2>2, <2>3, SizesAssumption
<1> QED BY <1>1, <1>6, <1>7, <1>8 DEF KeptWhole

-----------------------------------------------------------------------------
(* The steps of a run thread: r and q are its record before and after, and   *)
(* what it says is one event or nothing.                                     *)

Over == {"audit", "release", "ended"}

SameCalls(r, q) == q.steps = r.steps /\ q.ran = r.ran

\* The call in front is done with: the next one, or the next hop.
CallOver(r, q) ==
  /\ Len(q.calls) = Len(r.calls) - 1
  /\ q.pc = IF Len(r.calls) = 1 THEN "poll" ELSE "relay"

\* agent.ask is over, for a reason.
Stopped(r) == r.reason # ""

Speaks(r, event, q) ==
  \/ /\ r.pc = "accept" /\ q.pc = "open" /\ SameCalls(r, q)
     /\ event = Event("accepted", "")
  \/ /\ r.pc = "open" /\ q.pc = "ask" /\ SameCalls(r, q)
     /\ event = Event("branch", "opened")
  \/ /\ r.pc = "relay" /\ q.steps = r.steps + 1
     /\ q.ran = r.ran \cup {Head(r.calls)}
     /\ \/ q.pc = "milestone" /\ q.calls = r.calls
        \/ CallOver(r, q)
     /\ event = Event("step", IF Head(r.calls) = "failed" THEN "is_error" ELSE "")
  \/ /\ r.pc = "milestone" /\ SameCalls(r, q) /\ CallOver(r, q)
     /\ event = Event("milestone", "")
  \/ /\ r.pc = "close" /\ q.pc = "terminal" /\ SameCalls(r, q)
     /\ event = Event("branch", "closed")
  \/ /\ r.pc = "terminal" /\ SameCalls(r, q) /\ Stopped(r) /\ q.reason = r.reason
     /\ event = Terminal(r)
     /\ q.pc = IF event.type = "answer" THEN "remember" ELSE "done"
  \/ /\ r.pc = "done" /\ q.pc = "audit" /\ SameCalls(r, q) /\ q.reason = r.reason
     /\ event = [type |-> "done", what |-> "", steps |-> StepsReported(r)]

Moves(r, q, cancelled) ==
  /\ SameCalls(r, q)
  /\ \/ r.pc \in {"ask", "poll", "turn"} /\ q.pc = "close"
     \/ r.pc \in {"ask", "turn"} /\ q.pc = "poll"
     \/ r.pc = "poll" /\ q.pc = "turn" /\ ~cancelled
     \/ r.pc = "turn" /\ q.pc = "relay" /\ Len(q.calls) \in 1 .. MaxCalls
     \/ r.pc = "remember" /\ q.pc = "done" /\ q.reason = r.reason
     \/ r.pc \in {"audit", "release"} /\ q.pc \in {"release", "ended"} /\ q.reason = r.reason

LEMMA CallOverNext ==
  ASSUME NEW r \in Runs, r.calls # <<>>
  PROVE  /\ CallOver(r, NextCall(r)) /\ SameCalls(r, NextCall(r))
         /\ NextCall(r).hop = r.hop /\ NextCall(r).prompt = r.prompt
<1>1. r.calls \in Seq(CallKinds) /\ Len(r.calls) \in Nat /\ Len(r.calls) >= 1
  BY DEF Runs
<1>2. Len(Tail(r.calls)) = Len(r.calls) - 1
  BY <1>1
<1> QED BY <1>2 DEF NextCall, Runs, CallOver, SameCalls

\* Every step of a run thread is one of these, on its own ticket alone.
LEMMA RunEffect ==
  ASSUME TypeInv, NEW t \in Tids, RunNext(t)
  PROVE  /\ \A u \in Tids : u # t => run'[u] = run[u] /\ ticket'[u] = ticket[u]
         /\ \/ /\ ticket'[t] = ticket[t]
               /\ Moves(run[t], run'[t], ticket[t].cancel)
            \/ \E event \in Events :
                 /\ ticket'[t] = Emitted(ticket[t], event)
                 /\ Speaks(run[t], event, run'[t])
<1>1. /\ run \in [Tids -> Runs] /\ run[t] \in Runs /\ RunReady(t)
      /\ ticket \in [Tids -> Tickets] /\ ticket[t] \in Tickets
  BY DEF TypeInv
<1>2. \A event : emit(t, event) =>
        /\ ticket'[t] = Emitted(ticket[t], event)
        /\ \A u \in Tids : u # t => ticket'[u] = ticket[u]
  BY <1>1 DEF emit
<1>3. ASSUME NEW pc, Goto(t, pc)
      PROVE  /\ run'[t].pc = pc /\ SameCalls(run[t], run'[t])
             /\ run'[t].reason = run[t].reason /\ run'[t].calls = run[t].calls
             /\ \A u \in Tids : u # t => run'[u] = run[u]
  BY <1>1, <1>3 DEF Goto, Runs, SameCalls
<1>5. /\ \A type \in {"accepted", "step", "milestone"} :
           \A what \in {"", "is_error"} : Event(type, what) \in Events
      /\ \A what \in {"opened", "closed"} : Event("branch", what) \in Events
  BY DEF Event, Events, EventTypes, Whats
<1>6. CASE RunAccept(t)
  <2>1. run[t].pc = "accept" /\ emit(t, Event("accepted", "")) /\ Goto(t, "open")
    BY <1>6 DEF RunAccept
  <2>2. run'[t].pc = "open" /\ SameCalls(run[t], run'[t])
        /\ \A u \in Tids : u # t => run'[u] = run[u]
    BY <1>3, <2>1
  <2>3. Speaks(run[t], Event("accepted", ""), run'[t])
    BY <2>1, <2>2 DEF Speaks
  <2> QED BY <1>2, <1>5, <2>1, <2>2, <2>3
<1>7. CASE RunOpenBranch(t)
  <2>1. run[t].pc = "open" /\ emit(t, Event("branch", "opened")) /\ Goto(t, "ask")
    BY <1>7 DEF RunOpenBranch
  <2>2. run'[t].pc = "ask" /\ SameCalls(run[t], run'[t])
        /\ \A u \in Tids : u # t => run'[u] = run[u]
    BY <1>3, <2>1
  <2>3. Speaks(run[t], Event("branch", "opened"), run'[t])
    BY <2>1, <2>2 DEF Speaks
  <2> QED BY <1>2, <1>5, <2>1, <2>2, <2>3
<1>8. CASE RunCloseBranch(t)
  <2>1. run[t].pc = "close" /\ emit(t, Event("branch", "closed")) /\ Goto(t, "terminal")
    BY <1>8 DEF RunCloseBranch
  <2>2. run'[t].pc = "terminal" /\ SameCalls(run[t], run'[t])
        /\ \A u \in Tids : u # t => run'[u] = run[u]
    BY <1>3, <2>1
  <2>3. Speaks(run[t], Event("branch", "closed"), run'[t])
    BY <2>1, <2>2 DEF Speaks
  <2> QED BY <1>2, <1>5, <2>1, <2>2, <2>3
<1>9. CASE RunAsk(t)
  <2>1. /\ run[t].pc = "ask" /\ run'[t].pc = "poll" /\ SameCalls(run[t], run'[t])
        /\ \A u \in Tids : u # t => run'[u] = run[u]
    BY <1>1, <1>9 DEF RunAsk, Runs, SameCalls
  <2> QED BY <1>9, <2>1 DEF RunAsk, Moves
<1>10. ASSUME NEW reason, Stop(t, reason)
       PROVE  /\ run'[t].pc = "close" /\ SameCalls(run[t], run'[t])
              /\ \A u \in Tids : u # t => run'[u] = run[u]
  BY <1>1, <1>10 DEF Stop, Runs, SameCalls
<1>11. CASE RunRaises(t)
  BY <1>10, <1>11 DEF RunRaises, Moves
<1>12. CASE RunPoll(t)
  <2>1. CASE Stop(t, "max_steps") \/ Stop(t, "cancelled")
    BY <1>10, <1>12, <2>1 DEF RunPoll, Moves
  <2>2. CASE ~Cancelled(t) /\ run' = [run EXCEPT ![t].pc = "turn", ![t].hop = @ + 1]
    <3>1. /\ run'[t].pc = "turn" /\ SameCalls(run[t], run'[t])
          /\ \A u \in Tids : u # t => run'[u] = run[u]
      BY <1>1, <2>2 DEF Runs, SameCalls
    <3> QED BY <1>12, <2>2, <3>1 DEF RunPoll, Moves, Cancelled
  <2> QED BY <1>12, <2>1, <2>2 DEF RunPoll
<1>13. CASE RunTurn(t)
  <2>1. CASE (\E reason \in RefusalReasons : Stop(t, reason)) \/ Stop(t, "end_turn")
    BY <1>10, <1>13, <2>1 DEF RunTurn, Moves
  <2>2. CASE Goto(t, "poll")
    <3>1. /\ run'[t].pc = "poll" /\ SameCalls(run[t], run'[t])
          /\ \A u \in Tids : u # t => run'[u] = run[u]
      BY <1>3, <2>2
    <3> QED BY <1>13, <3>1 DEF RunTurn, Moves
  <2>3. ASSUME NEW calls \in Sequences1(CallKinds, MaxCalls),
               run' = [run EXCEPT ![t].pc = "relay", ![t].calls = calls]
        PROVE  /\ Moves(run[t], run'[t], ticket[t].cancel)
               /\ \A u \in Tids : u # t => run'[u] = run[u]
    <3>1. Len(calls) \in 1 .. MaxCalls
      <4>1. PICK k \in 1 .. MaxCalls : calls \in [1 .. k -> CallKinds]
        BY DEF Sequences1
      <4> QED BY <4>1, SizesAssumption
    <3>2. /\ run'[t].pc = "relay" /\ run'[t].calls = calls /\ SameCalls(run[t], run'[t])
          /\ \A u \in Tids : u # t => run'[u] = run[u]
      BY <1>1, <2>3 DEF Runs, SameCalls
    <3> QED BY <1>13, <3>1, <3>2 DEF RunTurn, Moves
  <2> QED BY <1>13, <2>1, <2>2, <2>3 DEF RunTurn
<1>14. CASE RunStep(t)
  <2> DEFINE kind == Head(run[t].calls)
             counted == [run[t] EXCEPT !.steps = @ + 1, !.ran = @ \cup {kind}]
             event == Event("step", IF kind = "failed" THEN "is_error" ELSE "")
  <2>1. /\ run[t].pc = "relay" /\ emit(t, event) /\ event \in Events
        /\ run'[t] = IF HasMilestone(kind) THEN [counted EXCEPT !.pc = "milestone"]
                     ELSE NextCall(counted)
        /\ \A u \in Tids : u # t => run'[u] = run[u]
    <3>1. /\ run[t].pc = "relay" /\ emit(t, event)
          /\ run' = [run EXCEPT ![t] = IF HasMilestone(kind)
                                       THEN [counted EXCEPT !.pc = "milestone"]
                                       ELSE NextCall(counted)]
      BY <1>14 DEF RunStep
    <3>2. event \in Events
      BY <1>5
    <3> HIDE DEF counted, event, kind
    <3> QED BY <1>1, <3>1, <3>2
  <2>2. kind \in CallKinds /\ run[t].calls # <<>>
    <3>1. run[t].calls \in Seq(CallKinds) /\ run[t].calls # <<>>
      BY <1>1, <2>1 DEF RunReady, Runs
    <3> QED BY <3>1
  <2>3. /\ counted \in Runs /\ counted.calls = run[t].calls
        /\ counted.steps = run[t].steps + 1 /\ counted.ran = run[t].ran \cup {kind}
    <3>1. run[t].steps + 1 \in Nat /\ run[t].ran \cup {kind} \in SUBSET CallKinds
      BY <1>1, <2>2 DEF Runs
    <3> HIDE DEF kind
    <3> QED BY <1>1, <3>1 DEF Runs
  <2> HIDE DEF counted
  <2>4. CASE HasMilestone(kind)
    <3>1. /\ run'[t].pc = "milestone" /\ run'[t].calls = run[t].calls
          /\ run'[t].steps = run[t].steps + 1 /\ run'[t].ran = run[t].ran \cup {kind}
      BY <2>1, <2>3, <2>4 DEF Runs
    <3>2. Speaks(run[t], event, run'[t])
      BY <2>1, <3>1 DEF Speaks
    <3> QED BY <1>2, <2>1, <3>2
  <2>5. CASE ~HasMilestone(kind)
    <3>1. CallOver(counted, run'[t]) /\ SameCalls(counted, run'[t])
      BY <2>1, <2>2, <2>3, <2>5, CallOverNext
    <3>2. /\ CallOver(run[t], run'[t])
          /\ run'[t].steps = run[t].steps + 1 /\ run'[t].ran = run[t].ran \cup {kind}
      BY <2>3, <3>1 DEF CallOver, SameCalls
    <3>3. Speaks(run[t], event, run'[t])
      BY <2>1, <3>2 DEF Speaks
    <3> QED BY <1>2, <2>1, <3>3
  <2> QED BY <2>4, <2>5
<1>15. CASE RunMilestone(t)
  <2>1. /\ run[t].pc = "milestone" /\ run'[t] = NextCall(run[t])
        /\ \A u \in Tids : u # t => run'[u] = run[u]
    BY <1>1, <1>15 DEF RunMilestone
  <2>2. CallOver(run[t], run'[t]) /\ SameCalls(run[t], run'[t])
    BY <1>1, <2>1, CallOverNext DEF RunReady
  <2>3. Speaks(run[t], Event("milestone", ""), run'[t])
    BY <2>1, <2>2 DEF Speaks
  <2>4. emit(t, Event("milestone", "")) /\ Event("milestone", "") \in Events
    BY <1>5, <1>15 DEF RunMilestone
  <2> QED BY <1>2, <2>1, <2>3, <2>4
<1>16. CASE RunTerminal(t)
  <2>1. Stopped(run[t])
    BY <1>1, <1>16 DEF RunTerminal, RunReady, Stopped
  <2>2. Terminal(run[t]) \in Events
    BY <1>1, <2>1, TerminalType DEF Stopped
  <2> DEFINE pc == IF Terminal(run[t]).type = "answer" THEN "remember" ELSE "done"
  <2>3. run[t].pc = "terminal" /\ emit(t, Terminal(run[t])) /\ Goto(t, pc)
    BY <1>16 DEF RunTerminal
  <2>4. /\ run'[t].pc = pc /\ SameCalls(run[t], run'[t]) /\ run'[t].reason = run[t].reason
        /\ \A u \in Tids : u # t => run'[u] = run[u]
    BY <1>3, <2>3
  <2>5. Speaks(run[t], Terminal(run[t]), run'[t])
    BY <2>1, <2>3, <2>4 DEF Speaks
  <2> QED BY <1>2, <2>2, <2>3, <2>4, <2>5
<1>17. CASE RunRemember(t)
  <2>1. /\ run'[t].pc = "done" /\ SameCalls(run[t], run'[t]) /\ run'[t].reason = run[t].reason
        /\ \A u \in Tids : u # t => run'[u] = run[u]
    BY <1>3, <1>17 DEF RunRemember
  <2> QED BY <1>17, <2>1 DEF RunRemember, Moves
<1>18. CASE RunDone(t)
  <2>1. [type |-> "done", what |-> "", steps |-> StepsReported(run[t])] \in Events
    BY <1>1 DEF Events, EventTypes, Whats, StepsReported, Runs
  <2> DEFINE event == [type |-> "done", what |-> "", steps |-> StepsReported(run[t])]
  <2>2. run[t].pc = "done" /\ emit(t, event) /\ Goto(t, "audit")
    BY <1>18 DEF RunDone
  <2>3. /\ run'[t].pc = "audit" /\ SameCalls(run[t], run'[t]) /\ run'[t].reason = run[t].reason
        /\ \A u \in Tids : u # t => run'[u] = run[u]
    BY <1>3, <2>2
  <2>4. Speaks(run[t], event, run'[t])
    BY <2>2, <2>3 DEF Speaks
  <2> QED BY <1>2, <2>1, <2>2, <2>3, <2>4
<1>19. CASE RunAudit(t)
  <2>1. PICK pc \in {"release", "ended"} : Goto(t, pc)
    BY <1>19 DEF RunAudit
  <2>2. /\ run'[t].pc = pc /\ SameCalls(run[t], run'[t]) /\ run'[t].reason = run[t].reason
        /\ \A u \in Tids : u # t => run'[u] = run[u]
    BY <1>3, <2>1
  <2> QED BY <1>19, <2>2 DEF RunAudit, Moves
<1>20. CASE RunRelease(t)
  <2>1. /\ run'[t].pc = "ended" /\ SameCalls(run[t], run'[t]) /\ run'[t].reason = run[t].reason
        /\ \A u \in Tids : u # t => run'[u] = run[u]
    BY <1>3, <1>20 DEF RunRelease
  <2> QED BY <1>20, <2>1 DEF RunRelease, Moves
<1> QED
  BY <1>6, <1>7, <1>8, <1>9, <1>11, <1>12, <1>13, <1>14, <1>15, <1>16, <1>17, <1>18,
     <1>19, <1>20 DEF RunNext

-----------------------------------------------------------------------------
(* What a ticket's log says, against where its run thread is: the inductive  *)
(* invariant of the stream properties.  r is the run and tk the ticket.      *)

Late == {"remember", "done"} \cup Over

Said(pc) ==
  CASE pc \in {"none", "accept"} -> "silent"
    [] pc = "open" -> "accepted"
    [] pc \in {"ask", "poll", "turn", "relay", "milestone", "close"} -> "working"
    [] pc = "terminal" -> "closed"
    [] pc \in {"remember", "done"} -> "decided"
    [] pc \in Over -> "done"

\* The outcome is the last event until done is said, and the last but one after.
TerminalAt(r, tk) ==
  CASE r.pc \in {"remember", "done"} -> Len(tk.log)
    [] r.pc \in Over -> Len(tk.log) - 1
    [] OTHER -> 0

DoneAt(r, tk) == IF r.pc \in Over THEN Len(tk.log) ELSE 0

Spoken(r, tk) ==
  /\ Phase(tk.log) = Said(r.pc)
  /\ tk.finished <=> r.pc \in Over

Ends(r, tk) ==
  /\ r.pc \in Late =>
       /\ TerminalAt(r, tk) >= 1
       /\ Stopped(r)
       /\ tk.log[TerminalAt(r, tk)] = Terminal(r)
  /\ \A i \in 1 .. Len(tk.log) :
       /\ tk.log[i].type \in TERMINAL <=> i = TerminalAt(r, tk)
       /\ tk.log[i].type = "done" <=> i = DoneAt(r, tk)

Counted(r, tk) ==
  /\ r.steps = StepCount(tk.log, 0)
  /\ r.pc \in Over => tk.log[Len(tk.log)].steps = StepsReported(r)
  /\ \A i \in 1 .. Len(tk.log) : tk.log[i].what = "is_error" => Refused(r)

Bounded(r, tk) ==
  /\ r.pc \in {"relay", "milestone"} => Len(r.calls) \in 1 .. MaxCalls
  /\ tk.cancelledAt <= Len(tk.log)
  /\ tk.cancel =>
       LET shown == StepCount(tk.log, tk.cancelledAt)
       IN /\ shown <= MaxCalls
          /\ r.pc = "turn" => shown = 0
          /\ r.pc = "relay" => shown + Len(r.calls) <= MaxCalls
          /\ r.pc = "milestone" => shown + Len(r.calls) <= MaxCalls + 1

Story(t) ==
  /\ Spoken(run[t], ticket[t]) /\ Ends(run[t], ticket[t]) /\ Counted(run[t], ticket[t])
  /\ Bounded(run[t], ticket[t]) /\ KeptWhole(ticket[t])

StoryInv == TypeInv /\ \A t \in Tids : Story(t)

-----------------------------------------------------------------------------
(* One step of the run keeps the story, part by part.                        *)

LEMMA EmittedFields ==
  ASSUME NEW tk \in Tickets, NEW event \in Events
  PROVE  /\ Emitted(tk, event).log = Append(tk.log, event)
         /\ Emitted(tk, event).finished <=> (tk.finished \/ event.type = "done")
         /\ Emitted(tk, event).cancel = tk.cancel
         /\ Emitted(tk, event).cancelledAt = tk.cancelledAt
         /\ Emitted(tk, event).conv = tk.conv /\ Emitted(tk, event).turn = tk.turn
         /\ Emitted(tk, event).oid = tk.oid /\ Emitted(tk, event).told = tk.told
BY DEF Emitted, Tickets

\* The phase of a stream is told by its last event alone.
Tells(event) ==
  CASE event.type = "accepted" -> "accepted"
    [] event.type \in {"step", "milestone"} -> "working"
    [] event.type = "branch" -> IF event.what = "closed" THEN "closed" ELSE "working"
    [] event.type \in TERMINAL -> "decided"
    [] event.type = "done" -> "done"

LEMMA PhaseAppended ==
  ASSUME NEW log \in Seq(Events), NEW event \in Events
  PROVE  Phase(Append(log, event)) = Tells(event)
<1>1. Len(Append(log, event)) = Len(log) + 1 /\ Len(log) \in Nat
  BY Appended
<1>2. Append(log, event) # <<>>
  BY <1>1
<1>3. Append(log, event)[Len(Append(log, event))] = event
  BY <1>1, Appended
<1> QED BY <1>2, <1>3 DEF Phase, Tells

\* The outcome of a run depends on why it stopped and on what it called.
LEMMA TerminalOf ==
  ASSUME NEW r \in Runs, NEW q \in Runs, Stopped(r)
  PROVE  /\ q.reason = r.reason /\ q.ran = r.ran => Terminal(q) = Terminal(r)
         /\ Terminal(r).what # "is_error" /\ Terminal(r).type \in TERMINAL
         /\ Terminal(r) = Event("error", "internal") <=> r.reason = "internal"
         /\ Terminal(r).type \in {"answer", "abstention"} => ~Refused(r)
<1>1. r.reason \in {"internal", "cancelled", "max_steps", "end_turn",
                    "refusal", "content_filter"}
  BY RefusalAssumption DEF Runs, Reasons, Stopped
<1>3. q.reason = r.reason /\ q.ran = r.ran => Terminal(q) = Terminal(r)
  BY DEF Terminal, Refused, RanStatement
<1>2. /\ r.reason = "internal" => Terminal(r) = Event("error", "internal")
      /\ r.reason = "cancelled" => Terminal(r) = Event("error", "cancelled")
      /\ r.reason = "max_steps" => Terminal(r) = Event("error", "max_steps")
      /\ r.reason = "refusal" => Terminal(r) = Event("error", "model")
      /\ r.reason \in {"end_turn", "content_filter"} /\ Refused(r) => Terminal(r) = Event("refusal", "")
      /\ r.reason \in {"end_turn", "content_filter"} /\ ~Refused(r) =>
           Terminal(r) = Event("answer", "") \/ Terminal(r) = Event("abstention", "")
  BY DEF Terminal
<1>4. \A type, what : Event(type, what).type = type /\ Event(type, what).what = what
  BY DEF Event
<1>5. /\ Terminal(r).type \in TERMINAL
      /\ Terminal(r).what # "is_error"
      /\ Terminal(r).what = "internal" <=> r.reason = "internal"
      /\ Terminal(r).type = "answer" \/ Terminal(r).type = "abstention" => ~Refused(r)
  <2>1. CASE r.reason = "internal"
    <3>1. Terminal(r).type = "error" /\ Terminal(r).what = "internal"
      BY <1>2, <1>4, <2>1
    <3>2. Terminal(r).type \in TERMINAL
      BY <3>1 DEF TERMINAL
    <3> QED BY <2>1, <3>1, <3>2
  <2>2. CASE r.reason = "cancelled"
    <3>1. Terminal(r).type = "error" /\ Terminal(r).what = "cancelled"
      BY <1>2, <1>4, <2>2
    <3>2. Terminal(r).type \in TERMINAL
      BY <3>1 DEF TERMINAL
    <3> QED BY <2>2, <3>1, <3>2
  <2>3. CASE r.reason = "max_steps"
    <3>1. Terminal(r).type = "error" /\ Terminal(r).what = "max_steps"
      BY <1>2, <1>4, <2>3
    <3>2. Terminal(r).type \in TERMINAL
      BY <3>1 DEF TERMINAL
    <3> QED BY <2>3, <3>1, <3>2
  <2>4. CASE r.reason = "refusal"
    <3>1. Terminal(r).type = "error" /\ Terminal(r).what = "model"
      BY <1>2, <1>4, <2>4
    <3>2. Terminal(r).type \in TERMINAL
      BY <3>1 DEF TERMINAL
    <3> QED BY <2>4, <3>1, <3>2
  <2>5. CASE r.reason \in {"end_turn", "content_filter"} /\ Refused(r)
    <3>1. Terminal(r).type = "refusal" /\ Terminal(r).what \notin {"is_error", "internal"}
      <4>1. Terminal(r) = Event("refusal", "")
        BY <1>2, <2>5
      <4>2. Terminal(r).type = "refusal" /\ Terminal(r).what = ""
        BY <1>4, <4>1, Zenon
      <4> QED BY <4>2, Zenon
    <3>2. Terminal(r).type \in TERMINAL
      BY <3>1 DEF TERMINAL
    <3> QED BY <2>5, <3>1, <3>2
  <2>6. CASE r.reason \in {"end_turn", "content_filter"} /\ ~Refused(r)
    <3>1. (Terminal(r).type = "answer" \/ Terminal(r).type = "abstention") /\ Terminal(r).what \notin {"is_error", "internal"}
      <4>1. Terminal(r) = Event("answer", "") \/ Terminal(r) = Event("abstention", "")
        BY <1>2, <2>6
      <4>2. (Terminal(r).type = "answer" \/ Terminal(r).type = "abstention") /\ Terminal(r).what = ""
        BY <1>4, <4>1, Zenon
      <4> QED BY <4>2, Zenon
    <3>2. Terminal(r).type \in TERMINAL
      BY <3>1 DEF TERMINAL
    <3> QED BY <2>6, <3>1, <3>2
  <2> QED BY <1>1, <2>1, <2>2, <2>3, <2>4, <2>5, <2>6
<1>6. Terminal(r) = Event("error", "internal") <=> r.reason = "internal"
  <2>1. Event("error", "internal").what = "internal"
    BY <1>4
  <2>2. r.reason = "internal" => Terminal(r) = Event("error", "internal")
    BY <1>2
  <2>3. Terminal(r) = Event("error", "internal") => Terminal(r).what = "internal"
    BY <2>1
  <2> QED BY <1>5, <2>2, <2>3
<1> QED BY <1>3, <1>5, <1>6

\* Where each program counter and each event leaves a stream.
LEMMA SaidOf ==
  /\ Said("none") = "silent" /\ Said("accept") = "silent" /\ Said("open") = "accepted"
  /\ \A pc \in {"ask", "poll", "turn", "relay", "milestone", "close"} : Said(pc) = "working"
  /\ Said("terminal") = "closed"
  /\ \A pc \in {"remember", "done"} : Said(pc) = "decided"
  /\ \A pc \in Over : Said(pc) = "done"
BY DEF Said, Over

LEMMA TellsOf ==
  ASSUME NEW event
  PROVE  /\ event.type = "accepted" => Tells(event) = "accepted"
         /\ event.type \in {"step", "milestone"} => Tells(event) = "working"
         /\ event.type = "branch" /\ event.what = "closed" => Tells(event) = "closed"
         /\ event.type = "branch" /\ event.what # "closed" => Tells(event) = "working"
         /\ event.type \in TERMINAL => Tells(event) = "decided"
         /\ event.type = "done" => Tells(event) = "done"
BY DEF Tells, TERMINAL

\* Saying is working, deciding or finishing.
Works(r, event, q) ==
  /\ r.pc \notin Late /\ q.pc \notin Late
  /\ event.type \notin TERMINAL \cup {"done"}

Decides(r, event, q) ==
  /\ r.pc = "terminal" /\ q.pc \in {"remember", "done"}
  /\ Stopped(r) /\ q.reason = r.reason /\ q.ran = r.ran
  /\ event = Terminal(r) /\ event.type \in TERMINAL

Finishes(r, event, q) ==
  /\ r.pc = "done" /\ q.pc = "audit" /\ r.reason = q.reason /\ q.ran = r.ran
  /\ event.type = "done" /\ event.steps = StepsReported(q)

\* What each kind of saying is about.
LEMMA SpeaksKinds ==
  ASSUME NEW r \in Runs, NEW q \in Runs, NEW event \in Events, Speaks(r, event, q)
  PROVE  /\ Tells(event) = Said(q.pc)
         /\ event.type = "done" <=> q.pc \in Over
         /\ r.pc \notin Over
         /\ event.type = "step" <=> r.pc = "relay"
         /\ event.type = "step" => q.steps = r.steps + 1
         /\ event.type # "step" => q.steps = r.steps
         /\ r.ran \subseteq q.ran
         /\ event.what = "is_error" => Refused(q)
         /\ \/ Works(r, event, q)
            \/ Decides(r, event, q)
            \/ Finishes(r, event, q)
<1>1. CASE r.pc = "accept"
  <2>1. event.type = "accepted" /\ event.what = "" /\ q.pc = "open" /\ SameCalls(r, q)
    <3>1. event = Event("accepted", "") /\ q.pc = "open" /\ SameCalls(r, q)
      BY <1>1 DEF Speaks
    <3> QED BY <3>1 DEF Event
  <2>2. Tells(event) = Said(q.pc)
    BY <2>1, SaidOf, TellsOf
  <2> QED BY <1>1, <2>1, <2>2 DEF Works, Decides, Late, Over, TERMINAL, SameCalls
<1>2. CASE r.pc = "open"
  <2>1. event.type = "branch" /\ event.what = "opened" /\ q.pc = "ask" /\ SameCalls(r, q)
    BY <1>2 DEF Speaks, Event
  <2>2. Tells(event) = Said(q.pc)
    BY <2>1, SaidOf, TellsOf
  <2> QED BY <1>2, <2>1, <2>2 DEF Works, Decides, Late, Over, TERMINAL, SameCalls
<1>3. CASE r.pc = "close"
  <2>1. event.type = "branch" /\ event.what = "closed" /\ q.pc = "terminal" /\ SameCalls(r, q)
    BY <1>3 DEF Speaks, Event
  <2>2. Tells(event) = Said(q.pc)
    BY <2>1, SaidOf, TellsOf
  <2> QED BY <1>3, <2>1, <2>2 DEF Works, Decides, Late, Over, TERMINAL, SameCalls
<1>4. CASE r.pc = "relay"
  <2>1. /\ event = Event("step", IF Head(r.calls) = "failed" THEN "is_error" ELSE "")
        /\ q.pc = "milestone" \/ CallOver(r, q)
        /\ q.steps = r.steps + 1 /\ q.ran = r.ran \cup {Head(r.calls)}
    BY <1>4 DEF Speaks
  <2>2. event.type = "step" /\ (event.what = "is_error" => Head(r.calls) = "failed")
    BY <2>1 DEF Event
  <2>3. q.pc \in {"milestone", "poll", "relay"}
    BY <2>1 DEF CallOver
  <2>4. Tells(event) = Said(q.pc)
    BY <2>2, <2>3, SaidOf, TellsOf
  <2>5. event.what = "is_error" => Refused(q)
    BY <2>1, <2>2 DEF Refused
  <2>6. r.pc \notin Late /\ q.pc \notin Late
    BY <1>4, <2>3 DEF Late, Over
  <2> QED BY <1>4, <2>1, <2>2, <2>4, <2>5, <2>6 DEF Works, TERMINAL, Late
<1>5. CASE r.pc = "milestone"
  <2>1. event = Event("milestone", "") /\ CallOver(r, q) /\ SameCalls(r, q)
    BY <1>5 DEF Speaks
  <2>2. event.type = "milestone" /\ event.what = "" /\ q.pc \in {"poll", "relay"}
    BY <2>1 DEF Event, CallOver
  <2>3. Tells(event) = Said(q.pc)
    BY <2>2, SaidOf, TellsOf
  <2> QED BY <1>5, <2>1, <2>2, <2>3 DEF Works, Decides, Late, Over, TERMINAL, SameCalls
<1>6. CASE r.pc = "terminal"
  <2>1. /\ event = Terminal(r) /\ Stopped(r) /\ q.reason = r.reason /\ SameCalls(r, q)
        /\ q.pc \in {"remember", "done"}
    BY <1>6 DEF Speaks
  <2>2. event.type \in TERMINAL /\ event.what # "is_error"
    BY <2>1, TerminalOf
  <2>3. Tells(event) = Said(q.pc)
    BY <2>1, <2>2, SaidOf, TellsOf
  <2> QED BY <1>6, <2>1, <2>2, <2>3 DEF Works, Decides, Late, Over, TERMINAL, SameCalls
<1>7. CASE r.pc = "done"
  <2>1. /\ event = [type |-> "done", what |-> "", steps |-> StepsReported(r)]
        /\ q.pc = "audit" /\ q.reason = r.reason /\ SameCalls(r, q)
    BY <1>7 DEF Speaks
  <2>2. /\ event.type = "done" /\ event.what = "" /\ event.steps = StepsReported(r)
        /\ StepsReported(q) = StepsReported(r)
    BY <2>1 DEF StepsReported, SameCalls
  <2>3. q.pc \in Over /\ r.pc \notin Over
    BY <1>7, <2>1 DEF Over
  <2>4. Tells(event) = Said(q.pc)
    BY <2>2, <2>3, SaidOf, TellsOf
  <2> QED BY <1>7, <2>1, <2>2, <2>3, <2>4 DEF Finishes, SameCalls, TERMINAL
<1> QED BY <1>1, <1>2, <1>3, <1>4, <1>5, <1>6, <1>7 DEF Speaks

LEMMA SpokenKept ==
  ASSUME NEW r \in Runs, NEW q \in Runs, NEW tk \in Tickets, Spoken(r, tk)
  PROVE  /\ \A event \in Events : Speaks(r, event, q) => Spoken(q, Emitted(tk, event))
         /\ Moves(r, q, tk.cancel) => Spoken(q, tk)
<1>1. ASSUME NEW event \in Events, Speaks(r, event, q) PROVE Spoken(q, Emitted(tk, event))
  <2>1. tk.log \in Seq(Events)
    BY DEF Tickets
  <2>2. Phase(Emitted(tk, event).log) = Said(q.pc)
    <3>1. Phase(Append(tk.log, event)) = Tells(event)
      BY <2>1, PhaseAppended
    <3>2. Tells(event) = Said(q.pc)
      BY <1>1, SpeaksKinds
    <3> QED BY <3>1, <3>2, EmittedFields
  <2>3. Emitted(tk, event).finished <=> q.pc \in Over
    <3>1. (event.type = "done" <=> q.pc \in Over) /\ r.pc \notin Over
      BY <1>1, SpeaksKinds
    <3>2. ~tk.finished
      BY <3>1 DEF Spoken
    <3>3. Emitted(tk, event).finished <=> (tk.finished \/ event.type = "done")
      BY EmittedFields
    <3> QED BY <3>1, <3>2, <3>3, Zenon
  <2> QED BY <2>2, <2>3 DEF Spoken
<1>2. ASSUME Moves(r, q, tk.cancel) PROVE Spoken(q, tk)
  BY <1>2 DEF Spoken, Moves, Said, Over
<1> QED BY <1>1, <1>2

LEMMA EndsKept ==
  ASSUME NEW r \in Runs, NEW q \in Runs, NEW tk \in Tickets, Ends(r, tk)
  PROVE  /\ \A event \in Events : Speaks(r, event, q) => Ends(q, Emitted(tk, event))
         /\ Moves(r, q, tk.cancel) => Ends(q, tk)
<1>1. ASSUME NEW event \in Events, Speaks(r, event, q) PROVE Ends(q, Emitted(tk, event))
  <2> DEFINE new == Emitted(tk, event)
             n == Len(tk.log)
  <2>1. tk.log \in Seq(Events)
    BY DEF Tickets
  <2>2. /\ n \in Nat /\ Len(new.log) = n + 1 /\ new.log[n + 1] = event
        /\ \A i \in 1 .. n : new.log[i] = tk.log[i]
    BY <2>1, Appended, EmittedFields
  <2> SUFFICES Ends(q, new)
    OBVIOUS
  <2> HIDE DEF new
  <2>3. CASE Works(r, event, q)
    <3>1. /\ TerminalAt(r, tk) = 0 /\ DoneAt(r, tk) = 0
          /\ TerminalAt(q, new) = 0 /\ DoneAt(q, new) = 0
      BY <2>3 DEF Works, TerminalAt, DoneAt, Late
    <3>2. \A i \in 1 .. n + 1 : new.log[i].type \notin TERMINAL /\ new.log[i].type # "done"
      BY <2>2, <2>3, <3>1 DEF Works, Ends
    <3> QED BY <2>2, <2>3, <3>1, <3>2 DEF Works, Ends
  <2>4. CASE Decides(r, event, q)
    <3>1. /\ TerminalAt(r, tk) = 0 /\ DoneAt(r, tk) = 0
          /\ TerminalAt(q, new) = n + 1 /\ DoneAt(q, new) = 0
      BY <2>2, <2>4 DEF Decides, TerminalAt, DoneAt, Over
    <3>2. \A i \in 1 .. n : new.log[i].type \notin TERMINAL /\ new.log[i].type # "done"
      BY <2>2, <3>1 DEF Ends
    <3>3. Terminal(q) = Terminal(r) /\ event.type # "done"
      BY <2>4, TerminalOf DEF Decides, TERMINAL
    <3>4. \A i \in 1 .. n + 1 : i \in 1 .. n \/ i = n + 1
      BY <2>2
    <3>5. Stopped(q) /\ new.log[n + 1] = Terminal(q) /\ event.type \in TERMINAL
      <4>1. Stopped(q)
        BY <2>4 DEF Decides, Stopped
      <4> QED BY <2>2, <2>4, <3>3, <4>1 DEF Decides
    <3>6. \A i \in 1 .. n + 1 : /\ new.log[i].type \in TERMINAL <=> i = n + 1
                                /\ new.log[i].type # "done"
      BY <2>2, <3>2, <3>3, <3>4, <3>5
    <3>7. TerminalAt(q, new) >= 1
      BY <2>2, <3>1
    <3>8. \A i \in 1 .. n + 1 : i # 0
      BY <2>2
    <3> QED BY <2>2, <3>1, <3>5, <3>6, <3>7, <3>8, Zenon DEF Ends
  <2>5. CASE Finishes(r, event, q)
    <3>1. /\ TerminalAt(r, tk) = n /\ DoneAt(r, tk) = 0
          /\ TerminalAt(q, new) = n /\ DoneAt(q, new) = n + 1
      BY <2>2, <2>5 DEF Finishes, TerminalAt, DoneAt, Over
    <3>2. \A i \in 1 .. n : /\ new.log[i].type \in TERMINAL <=> i = n
                            /\ new.log[i].type # "done"
      <4>1. \A i \in 1 .. n : /\ tk.log[i].type \in TERMINAL <=> i = n
                              /\ ~(tk.log[i].type = "done")
        <5>1. \A i \in 1 .. n : i # 0
          BY <2>2
        <5> QED BY <3>1, <5>1, Zenon DEF Ends
      <4> QED BY <2>2, <4>1
    <3>3. n >= 1 /\ Stopped(r) /\ tk.log[n] = Terminal(r)
      BY <2>5, <3>1 DEF Finishes, Ends, Late
    <3>4. Terminal(q) = Terminal(r) /\ event.type \notin TERMINAL
      BY <2>5, <3>3, TerminalOf DEF Finishes, TERMINAL
    <3>5. \A i \in 1 .. n + 1 : i \in 1 .. n \/ i = n + 1
      BY <2>2
    <3>6. Stopped(q) /\ new.log[n] = Terminal(q) /\ event.type = "done"
      <4>1. n \in 1 .. n
        BY <2>2, <3>3
      <4>2. Stopped(q)
        BY <2>5, <3>3 DEF Finishes, Stopped
      <4> QED BY <2>2, <2>5, <3>3, <3>4, <4>1, <4>2 DEF Finishes
    <3>7. \A i \in 1 .. n + 1 : /\ new.log[i].type \in TERMINAL <=> i = n
                                /\ new.log[i].type = "done" <=> i = n + 1
      BY <2>2, <3>2, <3>3, <3>4, <3>5, <3>6
    <3> QED BY <2>2, <3>1, <3>3, <3>6, <3>7 DEF Ends
  <2>6. \/ Works(r, event, q)
        \/ Decides(r, event, q)
        \/ Finishes(r, event, q)
    BY <1>1, SpeaksKinds
  <2> QED BY <2>3, <2>4, <2>5, <2>6
<1>2. ASSUME Moves(r, q, tk.cancel) PROVE Ends(q, tk)
  <2>1. TerminalAt(q, tk) = TerminalAt(r, tk) /\ DoneAt(q, tk) = DoneAt(r, tk)
    BY <1>2 DEF Moves, TerminalAt, DoneAt, Over
  <2>2. q.pc \in Late => r.pc \in Late /\ q.reason = r.reason /\ q.ran = r.ran
    BY <1>2 DEF Moves, SameCalls, Late, Over
  <2>3. q.pc \in Late => Terminal(q) = Terminal(r) /\ Stopped(q)
    <3>1. q.pc \in Late => Stopped(r)
      BY <2>2 DEF Ends
    <3>2. q.pc \in Late => Stopped(q)
      BY <2>2, <3>1 DEF Stopped
    <3> QED BY <2>2, <3>1, <3>2, TerminalOf
  <2>4. q.pc \in Late => TerminalAt(q, tk) >= 1 /\ tk.log[TerminalAt(q, tk)] = Terminal(q)
    BY <2>1, <2>2, <2>3 DEF Ends
  <2>5. \A i \in 1 .. Len(tk.log) :
          /\ tk.log[i].type \in TERMINAL <=> i = TerminalAt(q, tk)
          /\ tk.log[i].type = "done" <=> i = DoneAt(q, tk)
    BY <2>1, Zenon DEF Ends
  <2> QED BY <2>3, <2>4, <2>5 DEF Ends
<1> QED BY <1>1, <1>2

LEMMA CountedKept ==
  ASSUME NEW r \in Runs, NEW q \in Runs, NEW tk \in Tickets, Counted(r, tk)
  PROVE  /\ \A event \in Events : Speaks(r, event, q) => Counted(q, Emitted(tk, event))
         /\ Moves(r, q, tk.cancel) => Counted(q, tk)
<1>1. ASSUME NEW event \in Events, Speaks(r, event, q) PROVE Counted(q, Emitted(tk, event))
  <2> DEFINE new == Emitted(tk, event)
             n == Len(tk.log)
  <2>1. tk.log \in Seq(Events)
    BY DEF Tickets
  <2>2. /\ n \in Nat /\ Len(new.log) = n + 1 /\ new.log[n + 1] = event
        /\ \A i \in 1 .. n : new.log[i] = tk.log[i]
    BY <2>1, Appended, EmittedFields
  <2>3. StepCount(new.log, 0) = IF event.type = "step" THEN r.steps + 1 ELSE r.steps
    <3>1. new.log = Append(tk.log, event) /\ 0 \in 0 .. Len(tk.log)
      BY <2>2, EmittedFields
    <3>2. StepCount(Append(tk.log, event), 0) =
            IF event.type = "step" THEN StepCount(tk.log, 0) + 1 ELSE StepCount(tk.log, 0)
      BY <2>1, <3>1, StepCountAppended
    <3> QED BY <3>1, <3>2 DEF Counted
  <2> HIDE DEF new
  <2>4. q.steps = StepCount(new.log, 0)
    BY <1>1, <2>3, SpeaksKinds
  <2>5. q.pc \in Over => event.steps = StepsReported(q)
    <3>1. q.pc \in Over => event.type = "done"
      BY <1>1, SpeaksKinds
    <3>2. event.type = "done" => event.steps = StepsReported(q)
      <4>1. Works(r, event, q) \/ Decides(r, event, q) \/ Finishes(r, event, q)
        BY <1>1, SpeaksKinds
      <4> QED BY <4>1 DEF TERMINAL, Works, Decides, Finishes
    <3> QED BY <3>1, <3>2
  <2>6. \A i \in 1 .. n + 1 : new.log[i].what = "is_error" => Refused(q)
    <3>1. Refused(r) => Refused(q)
      BY <1>1, SpeaksKinds DEF Refused
    <3>2. event.what = "is_error" => Refused(q)
      BY <1>1, SpeaksKinds
    <3>3. \A i \in 1 .. n + 1 : i \in 1 .. n \/ i = n + 1
      BY <2>2
    <3> QED BY <2>2, <3>1, <3>2, <3>3 DEF Counted
  <2> QED BY <2>2, <2>4, <2>5, <2>6 DEF Counted, new
<1>2. ASSUME Moves(r, q, tk.cancel) PROVE Counted(q, tk)
  <2>1. q.steps = r.steps /\ q.ran = r.ran
    BY <1>2 DEF Moves, SameCalls
  <2>2. q.pc \in Over => r.pc \in Over /\ q.reason = r.reason
    BY <1>2 DEF Moves, Over
  <2> QED BY <2>1, <2>2 DEF Counted, StepsReported, Refused
<1> QED BY <1>1, <1>2

LEMMA BoundedKept ==
  ASSUME NEW r \in Runs, NEW q \in Runs, NEW tk \in Tickets, Bounded(r, tk)
  PROVE  /\ \A event \in Events : Speaks(r, event, q) => Bounded(q, Emitted(tk, event))
         /\ Moves(r, q, tk.cancel) => Bounded(q, tk)
<1> DEFINE shown == StepCount(tk.log, tk.cancelledAt)
<1>1. /\ tk.log \in Seq(Events) /\ tk.cancelledAt \in Nat /\ Len(tk.log) \in Nat
      /\ r.calls \in Seq(CallKinds) /\ q.calls \in Seq(CallKinds)
      /\ Len(r.calls) \in Nat /\ Len(q.calls) \in Nat /\ MaxCalls \in Nat
  BY SizesAssumption DEF Tickets, Runs
<1>2. shown \in Nat /\ tk.cancelledAt \in 0 .. Len(tk.log)
  <2>1. shown \in Nat
    BY <1>1, StepsCounted
  <2>2. tk.cancelledAt <= Len(tk.log)
    BY DEF Bounded
  <2> QED BY <1>1, <2>1, <2>2
<1>3. ASSUME NEW event \in Events, Speaks(r, event, q) PROVE Bounded(q, Emitted(tk, event))
  <2> DEFINE new == Emitted(tk, event)
             told == StepCount(new.log, new.cancelledAt)
  <2>1. /\ new.log = Append(tk.log, event) /\ Len(new.log) = Len(tk.log) + 1
        /\ new.cancel = tk.cancel /\ new.cancelledAt = tk.cancelledAt
    BY <1>1, Appended, EmittedFields
  <2>2. told = IF event.type = "step" THEN shown + 1 ELSE shown
    BY <1>1, <1>2, <2>1, StepCountAppended
  <2> SUFFICES Bounded(q, new)
    OBVIOUS
  <2> HIDE DEF shown, new
  <2>3. /\ event.type = "step" <=> r.pc = "relay"
        /\ q.pc # "turn"
        /\ q.pc \in {"relay", "milestone"} => r.pc \in {"relay", "milestone"}
        /\ q.pc = "relay" => Len(r.calls) # 1 /\ Len(q.calls) = Len(r.calls) - 1
        /\ q.pc = "milestone" => r.pc = "relay" /\ Len(q.calls) = Len(r.calls)
    <3>1. event.type = "step" <=> r.pc = "relay"
      BY <1>3, SpeaksKinds
    <3>2. CallOver(r, q) => /\ Len(q.calls) = Len(r.calls) - 1
                            /\ \/ Len(r.calls) = 1 /\ q.pc = "poll"
                               \/ Len(r.calls) # 1 /\ q.pc = "relay"
      BY DEF CallOver
    <3>3. CASE r.pc = "relay"
      <4>1. (q.pc = "milestone" /\ q.calls = r.calls) \/ CallOver(r, q)
        BY <1>3, <3>3 DEF Speaks
      <4> QED BY <3>1, <3>2, <3>3, <4>1
    <3>4. CASE r.pc = "milestone"
      <4>1. CallOver(r, q)
        BY <1>3, <3>4 DEF Speaks
      <4> QED BY <3>1, <3>2, <3>4, <4>1
    <3>5. CASE r.pc \notin {"relay", "milestone"}
      <4>1. q.pc \in {"open", "ask", "terminal", "remember", "done", "audit"}
        BY <1>3, <3>5 DEF Speaks
      <4> QED BY <3>1, <3>5, <4>1
    <3> QED BY <3>3, <3>4, <3>5
  <2>4. tk.cancel => /\ shown <= MaxCalls
                     /\ r.pc = "relay" => shown + Len(r.calls) <= MaxCalls
                     /\ r.pc = "milestone" => shown + Len(r.calls) <= MaxCalls + 1
    BY DEF Bounded, shown
  <2>5. r.pc \in {"relay", "milestone"} => Len(r.calls) >= 1 /\ Len(r.calls) <= MaxCalls
    BY <1>1 DEF Bounded
  <2>6. q.pc \in {"relay", "milestone"} => Len(q.calls) >= 1 /\ Len(q.calls) <= MaxCalls
    <3>1. Len(r.calls) \in Nat /\ Len(q.calls) \in Nat /\ MaxCalls \in Nat
      BY <1>1
    <3>2. CASE q.pc = "relay"
      <4>1. /\ Len(r.calls) >= 1 /\ Len(r.calls) <= MaxCalls /\ Len(r.calls) # 1
            /\ Len(q.calls) = Len(r.calls) - 1
        BY <2>3, <2>5, <3>2
      <4>2. \A a, b, m \in Nat : a >= 1 /\ a <= m /\ a # 1 /\ b = a - 1 => b >= 1 /\ b <= m
        OBVIOUS
      <4> QED BY <3>1, <4>1, <4>2
    <3>3. CASE q.pc = "milestone"
      BY <2>3, <2>5, <3>3
    <3> QED BY <3>2, <3>3
  <2>7. tk.cancel => /\ told <= MaxCalls
                     /\ q.pc = "relay" => told + Len(q.calls) <= MaxCalls
                     /\ q.pc = "milestone" => told + Len(q.calls) <= MaxCalls + 1
    <3>1. /\ Len(r.calls) \in Nat /\ Len(q.calls) \in Nat /\ MaxCalls \in Nat
          /\ shown \in Nat /\ told = IF r.pc = "relay" THEN shown + 1 ELSE shown
      BY <1>1, <1>2, <2>2, <2>3
    <3> HIDE DEF told
    <3>2. CASE r.pc = "relay"
      <4>1. /\ tk.cancel => shown + Len(r.calls) <= MaxCalls
            /\ told = shown + 1 /\ Len(r.calls) >= 1 /\ q.pc # "turn"
        BY <2>3, <2>4, <2>5, <3>1, <3>2
      <4>2. tk.cancel => told <= MaxCalls
        BY <3>1, <4>1
      <4>3. tk.cancel /\ q.pc = "relay" => told + Len(q.calls) <= MaxCalls
        <5>1. q.pc = "relay" => Len(q.calls) = Len(r.calls) - 1
          BY <2>3
        <5>2. \A a, b, m, d \in Nat : d + a <= m /\ b = a - 1 => d + 1 + b <= m
          OBVIOUS
        <5> QED BY <3>1, <4>1, <5>1, <5>2
      <4>4. tk.cancel /\ q.pc = "milestone" => told + Len(q.calls) <= MaxCalls + 1
        <5>1. q.pc = "milestone" => Len(q.calls) = Len(r.calls)
          BY <2>3
        <5>2. \A a, m, d \in Nat : d + a <= m => d + 1 + a <= m + 1
          OBVIOUS
        <5> QED BY <3>1, <4>1, <5>1, <5>2
      <4> QED BY <4>2, <4>3, <4>4
    <3>3. CASE r.pc # "relay"
      BY <2>3, <2>4, <2>5, <3>1, <3>3
    <3> QED BY <3>2, <3>3
  <2> QED BY <1>1, <1>2, <2>1, <2>3, <2>6, <2>7 DEF Bounded
<1>4. ASSUME Moves(r, q, tk.cancel) PROVE Bounded(q, tk)
  <2>1. /\ q.pc \notin {"milestone"}
        /\ q.pc = "relay" => r.pc = "turn" /\ Len(q.calls) \in 1 .. MaxCalls
        /\ q.pc = "turn" => ~tk.cancel
    BY <1>4 DEF Moves
  <2>2. tk.cancel => shown <= MaxCalls /\ (r.pc = "turn" => shown = 0)
    BY DEF Bounded
  <2>3. tk.cancel => (q.pc = "relay" => shown + Len(q.calls) <= MaxCalls)
    <3> HIDE DEF shown
    <3> QED BY <1>1, <1>2, <2>1, <2>2
  <2> QED BY <1>2, <2>1, <2>2, <2>3 DEF Bounded
<1> QED BY <1>3, <1>4

-----------------------------------------------------------------------------
(* Steps of other threads.                                                   *)

\* A run that no step of its own moves is started at most.
Started(r, q) ==
  \/ q = r
  \/ /\ r.pc = "none" /\ q.pc = "accept" /\ SameCalls(r, q) /\ q.reason = r.reason
     /\ q.calls = r.calls /\ q.hop = r.hop /\ q.prompt = r.prompt

\* A ticket that its run does not speak to is cancelled at most.
Unsaid(tk, new) ==
  /\ new.log = tk.log /\ new.kept = tk.kept /\ new.finished = tk.finished
  /\ \/ new.cancel = tk.cancel /\ new.cancelledAt = tk.cancelledAt
     \/ ~tk.cancel /\ new.cancelledAt = Len(tk.log)

LEMMA Elsewhere ==
  ASSUME AskInv, [Next]_vars, \A t \in Tids : ~RunNext(t), NEW u \in Tids
  PROVE  Started(run[u], run'[u]) /\ Unsaid(ticket[u], ticket'[u])
<1>1. /\ run \in [Tids -> Runs] /\ run[u] \in Runs
      /\ ticket \in [Tids -> Tickets] /\ ticket[u] \in Tickets
      /\ \A h \in Handlers : AskReady(h)
  BY DEF AskInv, TypeInv
<1>2. UNCHANGED run => Started(run[u], run'[u])
  BY DEF Started
<1>3. UNCHANGED ticket => Unsaid(ticket[u], ticket'[u])
  BY DEF Unsaid
<1>4. ASSUME NEW c \in Cids, NEW oid \in Oids, Open(c, oid)
      PROVE  Started(run[u], run'[u]) /\ Unsaid(ticket[u], ticket'[u])
  BY <1>2, <1>3, <1>4 DEF Open
<1>5. ASSUME NEW t \in Tids, NEW oid \in Oids, Cancel(t, oid)
      PROVE  Started(run[u], run'[u]) /\ Unsaid(ticket[u], ticket'[u])
  <2>1. ticket'[u] = IF u = t
                     THEN [ticket[u] EXCEPT !.cancel = TRUE,
                             !.cancelledAt = IF ticket[u].cancel THEN @ ELSE Len(ticket[u].log)]
                     ELSE ticket[u]
    BY <1>1, <1>5 DEF Cancel
  <2>2. CASE u = t /\ ticket[u].cancel
    <3>1. ticket[u].cancel = TRUE
      BY <1>1, <2>2 DEF Tickets
    <3> QED BY <1>1, <1>2, <1>5, <2>1, <2>2, <3>1 DEF Cancel, Unsaid, Tickets
  <2>3. CASE u = t /\ ~ticket[u].cancel
    BY <1>1, <1>2, <1>5, <2>1, <2>3 DEF Cancel, Unsaid, Tickets
  <2>4. CASE u # t
    BY <1>2, <1>5, <2>1, <2>4 DEF Cancel, Unsaid
  <2> QED BY <2>2, <2>3, <2>4
<1>6. ASSUME Tick PROVE Started(run[u], run'[u]) /\ Unsaid(ticket[u], ticket'[u])
  <2>1. ticket'[u] = [ticket[u] EXCEPT !.age = IF ticket[u].finished THEN Older(@) ELSE @]
    BY <1>6 DEF Tick
  <2> QED BY <1>1, <1>2, <1>6, <2>1 DEF Tick, Unsaid, Tickets
<1>7. ASSUME Reap \/ UNCHANGED vars \/ \E s \in Readers : StreamNext(s)
      PROVE  Started(run[u], run'[u]) /\ Unsaid(ticket[u], ticket'[u])
  <2>1. UNCHANGED <<run, ticket>>
    BY <1>7 DEF Reap, vars, StreamNext, StreamServe, StreamOpen, StreamLook, StreamWake, StreamEmpty,
       StreamSend, StreamTail, StreamBreak, StoreUnchanged
  <2> QED BY <1>2, <1>3, <2>1
<1>8. ASSUME NEW h \in Handlers, AskNext(h)
      PROVE  Started(run[u], run'[u]) /\ Unsaid(ticket[u], ticket'[u])
  <2>1. ASSUME NEW t \in Tids, AskAdmit(h, t)
        PROVE  Started(run[u], run'[u]) /\ Unsaid(ticket[u], ticket'[u])
    <3>1. /\ ticket'[u].log = ticket[u].log /\ ticket'[u].kept = ticket[u].kept
          /\ ticket'[u].finished = ticket[u].finished
          /\ ticket'[u].cancel = ticket[u].cancel
          /\ ticket'[u].cancelledAt = ticket[u].cancelledAt
      BY <1>1, <2>1 DEF AskAdmit, Tickets
    <3> QED BY <1>2, <2>1, <3>1 DEF AskAdmit, Unsaid
  <2>2. CASE AskRespond(h)
    <3>1. /\ ticket'[u].log = ticket[u].log /\ ticket'[u].kept = ticket[u].kept
          /\ ticket'[u].finished = ticket[u].finished
          /\ ticket'[u].cancel = ticket[u].cancel
          /\ ticket'[u].cancelledAt = ticket[u].cancelledAt
      BY <1>1, <2>2 DEF AskRespond, Tickets
    <3> QED BY <1>2, <2>2, <3>1 DEF AskRespond, Unsaid
  <2>3. CASE AskStart(h)
    <3>1. ask[h].ticket \in Tids /\ run[ask[h].ticket].pc = "none" /\ UNCHANGED ticket
      BY <1>1, <2>3 DEF AskStart, AskReady, AskInv, HeldOnce, Held
    <3>2. run'[u] = IF u = ask[h].ticket THEN [run[u] EXCEPT !.pc = "accept"] ELSE run[u]
      BY <1>1, <2>3, <3>1 DEF AskStart
    <3>3. Started(run[u], run'[u])
      BY <1>1, <3>1, <3>2 DEF Started, SameCalls, Runs
    <3> QED BY <1>3, <3>1, <3>3
  <2>4. CASE \/ \E c \in Cids, oid \in Oids : AskLookup(h, c, oid)
             \/ AskNoQuestion(h) \/ AskConflict(h) \/ AskRespondFails(h)
    BY <1>2, <1>3, <2>4 DEF AskLookup, AskNoQuestion, AskConflict, AskRespondFails
  <2> QED BY <1>8, <2>1, <2>2, <2>3, <2>4 DEF AskNext
<1> QED BY <1>4, <1>5, <1>6, <1>7, <1>8, CancellableAssumption DEF Next

-----------------------------------------------------------------------------
(* The invariant of the streams.                                             *)

LEMMA StoryInit == Init => StoryInv
<1> SUFFICES ASSUME Init, NEW t \in Tids PROVE Story(t)
  BY TypeInit DEF StoryInv
<1>1. /\ run[t].pc = "none" /\ run[t].steps = 0
      /\ ticket[t].log = <<>> /\ ticket[t].kept = {} /\ ticket[t].finished = FALSE
      /\ ticket[t].cancel = FALSE /\ ticket[t].cancelledAt = 0
  BY DEF Init, NoRun, NoTicket
<1>2. <<>> \in Seq(Events) /\ Len(<<>>) = 0
  OBVIOUS
<1>3. Spoken(run[t], ticket[t])
  BY <1>1, SaidOf DEF Spoken, Phase, Over
<1>4. Ends(run[t], ticket[t])
  BY <1>1, <1>2 DEF Ends, Late, Over
<1>5. Counted(run[t], ticket[t])
  <2>1. StepCount(<<>>, 0) = 0
    BY <1>2, NoStepsYet
  <2> QED BY <1>1, <1>2, <2>1 DEF Counted, Over
<1>6. Bounded(run[t], ticket[t])
  BY <1>1, <1>2 DEF Bounded
<1>7. KeptWhole(ticket[t])
  BY <1>1, <1>2 DEF KeptWhole, StepsIn
<1> QED BY <1>3, <1>4, <1>5, <1>6, <1>7 DEF Story

LEMMA StoryNext == StoryInv /\ AskInv /\ [Next]_vars => StoryInv'
<1> SUFFICES ASSUME StoryInv, AskInv, [Next]_vars, NEW u \in Tids PROVE Story(u)'
  BY TypeNext DEF StoryInv
<1> DEFINE r == run[u]
           q == run'[u]
           tk == ticket[u]
           new == ticket'[u]
<1>1. /\ r \in Runs /\ q \in Runs /\ tk \in Tickets /\ new \in Tickets
      /\ tk.kept \subseteq 1 .. Len(tk.log)
      /\ tk.log \in Seq(Events)
  BY TypeNext DEF StoryInv, TypeInv, Tickets
<1>2. Spoken(r, tk) /\ Ends(r, tk) /\ Counted(r, tk) /\ Bounded(r, tk) /\ KeptWhole(tk)
  BY DEF StoryInv, Story
<1>3. SUFFICES Spoken(q, new) /\ Ends(q, new) /\ Counted(q, new) /\ Bounded(q, new) /\ KeptWhole(new)
  BY DEF Story
<1>4. CASE RunNext(u)
  <2>1. CASE new = tk /\ Moves(r, q, tk.cancel)
    <3> HIDE DEF r, q, tk, new
    <3> QED BY <1>1, <1>2, <2>1, SpokenKept, EndsKept, CountedKept, BoundedKept
  <2>2. ASSUME NEW event \in Events, new = Emitted(tk, event), Speaks(r, event, q)
        PROVE  Spoken(q, new) /\ Ends(q, new) /\ Counted(q, new) /\ Bounded(q, new) /\ KeptWhole(new)
    <3> HIDE DEF r, q, tk, new
    <3> QED BY <1>1, <1>2, <2>2, SpokenKept, EndsKept, CountedKept, BoundedKept, EmittedKept
  <2> QED BY <1>4, <2>1, <2>2, RunEffect DEF StoryInv
<1>5. CASE \E t \in Tids : t # u /\ RunNext(t)
  <2>1. q = r /\ new = tk
    BY <1>5, RunEffect DEF StoryInv
  <2> QED BY <1>2, <2>1
<1>6. CASE \A t \in Tids : ~RunNext(t)
  <2>1. Started(r, q) /\ Unsaid(tk, new)
    BY <1>6, Elsewhere
  <2> HIDE DEF r, q, tk, new
  <2>2. /\ Said(q.pc) = Said(r.pc)
        /\ q.pc \in Late <=> r.pc \in Late
        /\ q.pc \in Over <=> r.pc \in Over
        /\ q.pc \in {"remember", "done"} <=> r.pc \in {"remember", "done"}
        /\ q.pc \in {"relay", "milestone", "turn"} => q.pc = r.pc
        /\ q.reason = r.reason /\ q.ran = r.ran /\ q.steps = r.steps /\ q.calls = r.calls
    BY <2>1, SaidOf DEF Started, SameCalls, Late, Over
  <2>3. /\ new.log = tk.log /\ new.kept = tk.kept /\ new.finished = tk.finished
    BY <2>1 DEF Unsaid
  <2>4. Spoken(q, new)
    BY <1>2, <2>2, <2>3, Zenon DEF Spoken
  <2>5. Ends(q, new)
    <3>1. TerminalAt(q, new) = TerminalAt(r, tk) /\ DoneAt(q, new) = DoneAt(r, tk)
      BY <2>2, <2>3 DEF TerminalAt, DoneAt
    <3>2. Terminal(q) = Terminal(r)
      BY <2>2 DEF Terminal, Refused, RanStatement
    <3>3. Stopped(q) <=> Stopped(r)
      BY <2>2 DEF Stopped
    <3>4. q.pc \in Late => /\ TerminalAt(q, new) >= 1 /\ Stopped(q)
                           /\ new.log[TerminalAt(q, new)] = Terminal(q)
      BY <1>2, <2>2, <2>3, <3>1, <3>2, <3>3 DEF Ends
    <3>5. \A i \in 1 .. Len(new.log) :
            /\ new.log[i].type \in TERMINAL <=> i = TerminalAt(q, new)
            /\ new.log[i].type = "done" <=> i = DoneAt(q, new)
      BY <1>2, <2>3, <3>1, Zenon DEF Ends
    <3> QED BY <3>4, <3>5 DEF Ends
  <2>6. Counted(q, new)
    BY <1>2, <2>2, <2>3 DEF Counted, StepsReported, Refused
  <2>7. Bounded(q, new)
    <3>1. CASE new.cancel = tk.cancel /\ new.cancelledAt = tk.cancelledAt
      BY <1>2, <2>2, <2>3, <3>1 DEF Bounded
    <3>2. CASE ~tk.cancel /\ new.cancelledAt = Len(tk.log)
      <4>1. StepCount(new.log, new.cancelledAt) = 0
        BY <1>1, <2>3, <3>2, NoStepsYet
      <4>2. /\ Len(tk.log) \in Nat /\ MaxCalls \in Nat
            /\ r.pc \in {"relay", "milestone"} => Len(r.calls) \in 1 .. MaxCalls
        BY <1>1, <1>2, SizesAssumption DEF Bounded
      <4> QED BY <2>2, <2>3, <3>2, <4>1, <4>2 DEF Bounded
    <3> QED BY <2>1, <3>1, <3>2 DEF Unsaid
  <2>8. KeptWhole(new)
    BY <1>2, <2>3 DEF KeptWhole
  <2> QED BY <2>4, <2>5, <2>6, <2>7, <2>8
<1> QED BY <1>4, <1>5, <1>6

LEMMA StoryInvariant == Spec => []StoryInv
BY StoryInit, StoryNext, AskInvariant, PTL DEF Spec

\* Whatever a run emits and however far past MAX_EVENTS, the retained list
\* gives up steps and nothing else, and is over its bound only without steps.
THEOREM OverflowDropsSteps == Spec => []OnlyStepsDropped
<1>1. StoryInv => OnlyStepsDropped
  BY DEF StoryInv, Story, KeptWhole, OnlyStepsDropped
<1> QED BY <1>1, StoryInvariant, PTL

\* A cancel lets at most the turn in flight through: MaxCalls steps, at any
\* moment it arrives and for as long as the run goes on.
THEOREM CancelBounded == Spec => []CancelOutlivesOneTurn
<1>1. StoryInv => CancelOutlivesOneTurn
  BY DEF StoryInv, Story, Bounded, CancelOutlivesOneTurn
<1> QED BY <1>1, StoryInvariant, PTL

\* A run with a refused tool call says neither an answer nor an abstention.
THEOREM RefusalsStand == Spec => []RefusalNeverSmoothed
<1>1. ASSUME StoryInv, NEW t \in Tids, NEW i \in DOMAIN ticket[t].log,
             ticket[t].log[i].what = "is_error", NEW j \in DOMAIN ticket[t].log
      PROVE  ticket[t].log[j].type \notin {"answer", "abstention"}
  <2> DEFINE r == run[t]
             tk == ticket[t]
  <2>1. DOMAIN tk.log = 1 .. Len(tk.log) /\ Len(tk.log) \in Nat /\ r \in Runs
    BY <1>1 DEF StoryInv, TypeInv, Tickets
  <2>2. Refused(r)
    BY <1>1, <2>1 DEF StoryInv, Story, Counted
  <2>3. SUFFICES ASSUME tk.log[j].type \in {"answer", "abstention"} PROVE FALSE
    OBVIOUS
  <2>4. j = TerminalAt(r, tk) /\ j >= 1
    BY <1>1, <2>1, <2>3 DEF StoryInv, Story, Ends, TERMINAL
  <2>5. r.pc \in Late
    BY <2>4 DEF TerminalAt, Late
  <2>6. tk.log[j] = Terminal(r) /\ Stopped(r)
    BY <1>1, <2>4, <2>5 DEF StoryInv, Story, Ends
  <2> QED BY <2>1, <2>2, <2>3, <2>6, TerminalOf
<1>2. StoryInv => RefusalNeverSmoothed
  BY <1>1 DEF RefusalNeverSmoothed
<1> QED BY <1>2, StoryInvariant, PTL

\* In one look, a client without SSE is shown one terminal event and one done
\* of a finished ticket, and no done of a running one, whatever was dropped.
THEOREM StateTellsTheEnd == Spec => []StateShowsTheEnd
<1>1. ASSUME StoryInv, NEW t \in Tids
      PROVE  LET done == {i \in State(t).end : ticket[t].log[i].type = "done"}
             IN IF State(t).status = "finished"
                THEN Cardinality(done) = 1 /\ Cardinality(State(t).end \ done) = 1
                ELSE done = {}
  <2> DEFINE r == run[t]
             tk == ticket[t]
             n == Len(tk.log)
             done == {i \in State(t).end : tk.log[i].type = "done"}
  <2>1. /\ n \in Nat /\ tk.kept \subseteq 1 .. n
        /\ \A i \in 1 .. n : tk.log[i].type # "step" => i \in tk.kept
        /\ Ends(r, tk) /\ (tk.finished <=> r.pc \in Over)
    BY <1>1 DEF StoryInv, TypeInv, Tickets, Story, KeptWhole, Spoken
  <2>2. \A i \in 1 .. n : /\ tk.log[i].type \in TERMINAL <=> i = TerminalAt(r, tk)
                          /\ tk.log[i].type = "done" <=> i = DoneAt(r, tk)
    BY <2>1 DEF Ends
  <2>3. CASE tk.finished
    <3>1. r.pc \in Over /\ TerminalAt(r, tk) = n - 1 /\ DoneAt(r, tk) = n /\ n - 1 >= 1
      BY <2>1, <2>3 DEF TerminalAt, DoneAt, Over, Ends, Late
    <3>2. /\ n \in 1 .. n /\ n - 1 \in 1 .. n
          /\ tk.log[n].type = "done" /\ tk.log[n - 1].type \in TERMINAL
      <4>1. n \in 1 .. n /\ n - 1 \in 1 .. n
        BY <2>1, <3>1
      <4> QED BY <2>2, <3>1, <4>1, Zenon
    <3>3. n \in tk.kept /\ n - 1 \in tk.kept
      BY <2>1, <3>2 DEF TERMINAL
    <3>4. State(t).end = {n - 1, n}
      <4>1. \A i \in State(t).end : i = n - 1 \/ i = n
        BY <2>1, <2>2, <3>1 DEF State
      <4>2. n - 1 \in State(t).end /\ n \in State(t).end
        BY <3>2, <3>3 DEF State
      <4> QED BY <4>1, <4>2
    <3>5. tk.log[n - 1].type # "done"
      BY <3>2 DEF TERMINAL
    <3>6. done = {n} /\ State(t).end \ done = {n - 1}
      BY <2>1, <3>2, <3>4, <3>5
    <3> QED BY <2>3, <3>6, FS_Singleton DEF State
  <2>4. CASE ~tk.finished
    <3>1. DoneAt(r, tk) = 0
      BY <2>1, <2>4 DEF DoneAt
    <3>2. \A i \in 1 .. n : tk.log[i].type # "done"
      BY <2>1, <2>2, <3>1
    <3> QED BY <2>1, <2>4, <3>2 DEF State
  <2> QED BY <2>3, <2>4
<1>2. StoryInv => StateShowsTheEnd
  BY <1>1 DEF StateShowsTheEnd
<1> QED BY <1>2, StoryInvariant, PTL

\* However far a run overflows, its end is told; and, of a run that did not
\* raise, with the number of all its steps.
THEOREM EndNeverLost == Spec => []EndStaysVisible
<1>1. ASSUME StoryInv, NEW t \in Tids,
             \A j \in DOMAIN ticket[t].log : ticket[t].log[j] # Event("error", "internal"),
             NEW i \in DOMAIN ticket[t].log,
             ticket[t].log[i].type = "done"
      PROVE  ticket[t].log[i].steps = StepCount(ticket[t].log, 0)
  <2> DEFINE r == run[t]
             tk == ticket[t]
             n == Len(tk.log)
  <2>1. /\ DOMAIN tk.log = 1 .. n /\ n \in Nat /\ r \in Runs
        /\ Ends(r, tk) /\ Counted(r, tk)
    BY <1>1 DEF StoryInv, TypeInv, Tickets, Story
  <2>2. i = DoneAt(r, tk) /\ i \in 1 .. n
    BY <1>1, <2>1 DEF Ends
  <2>3. r.pc \in Over /\ i = n
    BY <2>1, <2>2 DEF DoneAt
  <2>4. /\ TerminalAt(r, tk) = n - 1 /\ n - 1 >= 1 /\ Stopped(r)
        /\ tk.log[n - 1] = Terminal(r)
    BY <2>1, <2>3 DEF TerminalAt, Ends, Over, Late
  <2>5. tk.log[n].steps = StepsReported(r) /\ r.steps = StepCount(tk.log, 0)
    BY <2>1, <2>3 DEF Counted
  <2>6. r.reason # "internal"
    <3>1. tk.log[n - 1] # Event("error", "internal")
      BY <1>1, <2>1, <2>4
    <3> QED BY <2>1, <2>4, <3>1, TerminalOf
  <2> QED BY <2>3, <2>5, <2>6 DEF StepsReported
<1>2. StoryInv => DoneCountsReturned
  BY <1>1 DEF DoneCountsReturned
<1> QED BY <1>2, StoryInvariant, OverflowDropsSteps, StateTellsTheEnd, PTL DEF EndStaysVisible

-----------------------------------------------------------------------------
(* What a step does to a conversation and to a ticket's place in it.         *)

SameTurns(x, y) == y.turns = x.turns /\ y.history = x.history

LEMMA ConvEffect ==
  ASSUME TypeInv, [Next]_vars, NEW c \in Cids
  PROVE  \/ SameTurns(conv[c], conv'[c]) /\ conv'[c].running = conv[c].running
         \/ \E t \in Tids :
              /\ RunRelease(t) /\ ticket[t].conv = c
              /\ SameTurns(conv[c], conv'[c]) /\ conv'[c].running = None
         \/ \E t \in Tids :
              /\ RunRemember(t) /\ ticket[t].conv = c
              /\ conv'[c].turns = conv[c].turns /\ conv'[c].running = conv[c].running
              /\ conv'[c].history = Append(conv[c].history, ticket[t].turn)
         \/ \E h \in Handlers, t \in Tids :
              /\ AskAdmit(h, t) /\ ask[h].conv = c
              /\ conv'[c].turns = conv[c].turns + 1 /\ conv'[c].running = t
              /\ conv'[c].history = conv[c].history
<1>1. /\ conv \in [Cids -> Conversations] /\ conv[c] \in Conversations
      /\ \A t \in Tids : RunReady(t)
      /\ \A h \in Handlers : AskReady(h)
  BY DEF TypeInv
<1> DEFINE Goal ==
         \/ SameTurns(conv[c], conv'[c]) /\ conv'[c].running = conv[c].running
         \/ \E t \in Tids :
              /\ RunRelease(t) /\ ticket[t].conv = c
              /\ SameTurns(conv[c], conv'[c]) /\ conv'[c].running = None
         \/ \E t \in Tids :
              /\ RunRemember(t) /\ ticket[t].conv = c
              /\ conv'[c].turns = conv[c].turns /\ conv'[c].running = conv[c].running
              /\ conv'[c].history = Append(conv[c].history, ticket[t].turn)
         \/ \E h \in Handlers, t \in Tids :
              /\ AskAdmit(h, t) /\ ask[h].conv = c
              /\ conv'[c].turns = conv[c].turns + 1 /\ conv'[c].running = t
              /\ conv'[c].history = conv[c].history
<1>2. conv' = conv => Goal
  BY DEF SameTurns
<1>3. ASSUME NEW d \in Cids, NEW oid \in Oids, Open(d, oid) PROVE Goal
  <2>1. SameTurns(conv[c], conv'[c]) /\ conv'[c].running = conv[c].running
    BY <1>1, <1>3 DEF Open, SameTurns, Conversations
  <2> QED BY <2>1
<1>4. ASSUME Tick PROVE Goal
  <2>1. SameTurns(conv[c], conv'[c]) /\ conv'[c].running = conv[c].running
    BY <1>1, <1>4 DEF Tick, SameTurns, Conversations
  <2> QED BY <2>1
<1>5. ASSUME NEW h \in Handlers, NEW t \in Tids, AskAdmit(h, t) PROVE Goal
  <2>1. ask[h].conv \in Cids
    BY <1>1, <1>5 DEF AskAdmit, AskReady
  <2>2. conv'[c] = IF c = ask[h].conv
                   THEN [conv[c] EXCEPT !.turns = conv[c].turns + 1, !.idle = 0, !.running = t]
                   ELSE conv[c]
    BY <1>1, <1>5, <2>1 DEF AskAdmit, Conversations
  <2>3. CASE c = ask[h].conv
    <3>1. /\ conv'[c].turns = conv[c].turns + 1 /\ conv'[c].running = t
          /\ conv'[c].history = conv[c].history
      BY <1>1, <2>2, <2>3 DEF Conversations
    <3> QED BY <1>5, <2>3, <3>1
  <2>4. CASE c # ask[h].conv
    BY <2>2, <2>4 DEF SameTurns
  <2> QED BY <2>3, <2>4
<1>6. ASSUME NEW t \in Tids, RunRemember(t) PROVE Goal
  <2>1. ticket[t].conv \in Cids
    BY <1>1, <1>6 DEF RunRemember, RunReady
  <2>2. conv'[c] = IF c = ticket[t].conv
                   THEN [conv[c] EXCEPT !.history = Append(conv[c].history, ticket[t].turn)]
                   ELSE conv[c]
    BY <1>1, <1>6, <2>1 DEF RunRemember, Remembered
  <2>3. CASE c = ticket[t].conv
    <3>1. /\ conv'[c].turns = conv[c].turns /\ conv'[c].running = conv[c].running
          /\ conv'[c].history = Append(conv[c].history, ticket[t].turn)
      BY <1>1, <2>2, <2>3 DEF Conversations
    <3> QED BY <1>6, <2>3, <3>1
  <2>4. CASE c # ticket[t].conv
    BY <2>2, <2>4 DEF SameTurns
  <2> QED BY <2>3, <2>4
<1>7. ASSUME NEW t \in Tids, RunRelease(t) PROVE Goal
  <2>1. ticket[t].conv \in Cids
    BY <1>1, <1>7 DEF RunRelease, RunReady
  <2>2. conv'[c] = IF c = ticket[t].conv
                   THEN [conv[c] EXCEPT !.running = None, !.idle = 0]
                   ELSE conv[c]
    BY <1>1, <1>7, <2>1 DEF RunRelease, Conversations
  <2>3. CASE c = ticket[t].conv
    <3>1. SameTurns(conv[c], conv'[c]) /\ conv'[c].running = None
      BY <1>1, <2>2, <2>3 DEF Conversations, SameTurns
    <3> QED BY <1>7, <2>3, <3>1
  <2>4. CASE c # ticket[t].conv
    BY <2>2, <2>4 DEF SameTurns
  <2> QED BY <2>3, <2>4
<1>8. ASSUME NEW t \in Tids, RunNext(t), ~RunRemember(t), ~RunRelease(t) PROVE Goal
  <2>1. conv' = conv
    BY <1>8 DEF RunNext, RunAccept, RunOpenBranch, RunAsk, RunRaises, RunPoll, RunTurn, RunStep,
       RunMilestone, RunCloseBranch, RunTerminal, RunDone, RunAudit, Quiet
  <2> HIDE DEF Goal
  <2> QED BY <1>2, <2>1
<1>9. ASSUME NEW h \in Handlers, AskNext(h), \A t \in Tids : ~AskAdmit(h, t) PROVE Goal
  <2>1. conv' = conv
    BY <1>9 DEF AskNext, AskLookup, AskNoQuestion, AskConflict, AskRespond, AskRespondFails, AskStart
  <2> HIDE DEF Goal
  <2> QED BY <1>2, <2>1
<1>10. ASSUME \/ \E t \in Tids, oid \in Oids : Cancel(t, oid)
              \/ \E s \in Readers : StreamNext(s)
              \/ Reap \/ UNCHANGED vars
       PROVE  Goal
  <2>1. conv' = conv
    BY <1>10 DEF Cancel, Reap, vars, StreamNext, StreamServe, StreamOpen, StreamLook, StreamWake,
       StreamEmpty, StreamSend, StreamTail, StreamBreak, StoreUnchanged
  <2> HIDE DEF Goal
  <2> QED BY <1>2, <2>1
<1> HIDE DEF Goal
<1>11. Goal
  <2>1. ASSUME NEW h \in Handlers, AskNext(h) PROVE Goal
    BY <1>5, <1>9, <2>1
  <2>2. ASSUME NEW t \in Tids, RunNext(t) PROVE Goal
    BY <1>6, <1>7, <1>8, <2>2
  <2>3. \/ \E d \in Cids, oid \in Oids : Open(d, oid)
        \/ \E h \in Handlers : AskNext(h)
        \/ \E t \in Tids : RunNext(t)
        \/ Tick
        \/ \E t \in Tids, oid \in Oids : Cancel(t, oid)
        \/ \E s \in Readers : StreamNext(s)
        \/ Reap \/ UNCHANGED vars
    BY CancellableAssumption, Zenon DEF Next
  <2>4. CASE \/ \E t \in Tids, oid \in Oids : Cancel(t, oid)
             \/ \E s \in Readers : StreamNext(s)
             \/ Reap \/ UNCHANGED vars
    BY ONLY <1>10, <2>4, Zenon
  <2> QED BY <1>3, <1>4, <2>1, <2>2, <2>3, <2>4
<1> QED BY <1>11 DEF Goal

LEMMA TicketEffect ==
  ASSUME TypeInv, [Next]_vars, NEW u \in Tids
  PROVE  \/ ticket'[u].conv = ticket[u].conv /\ ticket'[u].turn = ticket[u].turn
         \/ \E h \in Handlers :
              /\ AskAdmit(h, u) /\ ticket[u].conv = None /\ ticket'[u].conv = ask[h].conv
              /\ ticket'[u].turn = conv[ask[h].conv].turns + 1
<1> DEFINE Stays == ticket'[u].conv = ticket[u].conv /\ ticket'[u].turn = ticket[u].turn
<1>1. /\ ticket \in [Tids -> Tickets] /\ ticket[u] \in Tickets
      /\ \A h \in Handlers : AskReady(h)
  BY DEF TypeInv
<1>2. ticket' = ticket => Stays
  OBVIOUS
<1>3. ASSUME NEW t \in Tids, RunNext(t) PROVE Stays
  <2>1. ticket'[u] = ticket[u] \/ \E event \in Events : ticket'[u] = Emitted(ticket[u], event)
    BY <1>3, RunEffect
  <2> QED BY <1>1, <2>1, EmittedFields
<1>4. ASSUME NEW h \in Handlers, NEW t \in Tids, AskAdmit(h, t), t # u PROVE Stays
  BY <1>1, <1>4 DEF AskAdmit
<1>5. ASSUME NEW h \in Handlers, AskAdmit(h, u)
      PROVE  /\ ticket[u].conv = None /\ ticket'[u].conv = ask[h].conv
             /\ ticket'[u].turn = conv[ask[h].conv].turns + 1
  BY <1>1, <1>5 DEF AskAdmit, Tickets
<1>6. ASSUME NEW h \in Handlers, AskRespond(h) PROVE Stays
  BY <1>1, <1>6 DEF AskRespond, AskReady, Tickets
<1>7. ASSUME NEW t \in Tids, NEW oid \in Oids, Cancel(t, oid) PROVE Stays
  BY <1>1, <1>7 DEF Cancel, Tickets
<1>8. ASSUME Tick PROVE Stays
  BY <1>1, <1>8 DEF Tick, Tickets
<1>9. ASSUME \/ \E c \in Cids, oid \in Oids : Open(c, oid)
             \/ \E h \in Handlers, c \in Cids, oid \in Oids : AskLookup(h, c, oid)
             \/ \E h \in Handlers : \/ AskNoQuestion(h) \/ AskConflict(h)
                                    \/ AskRespondFails(h) \/ AskStart(h)
             \/ \E s \in Readers : StreamNext(s)
             \/ Reap \/ UNCHANGED vars
       PROVE  Stays
  <2>1. ticket' = ticket
    BY <1>9 DEF Open, AskLookup, AskNoQuestion, AskConflict, AskRespondFails, AskStart,
       Reap, vars, StreamNext, StreamServe, StreamOpen, StreamLook, StreamWake,
       StreamEmpty, StreamSend, StreamTail, StreamBreak, StoreUnchanged
  <2> QED BY <2>1
<1> HIDE DEF Stays
<1>10. Stays \/ \E h \in Handlers : AskAdmit(h, u)
  <2>1. ASSUME NEW h \in Handlers, AskNext(h) PROVE Stays \/ \E g \in Handlers : AskAdmit(g, u)
    BY <1>4, <1>6, <1>9, <2>1 DEF AskNext
  <2>2. \/ \E c \in Cids, oid \in Oids : Open(c, oid)
        \/ \E h \in Handlers : AskNext(h)
        \/ \E t \in Tids : RunNext(t)
        \/ Tick
        \/ \E t \in Tids, oid \in Oids : Cancel(t, oid)
        \/ \E s \in Readers : StreamNext(s)
        \/ Reap \/ UNCHANGED vars
    BY CancellableAssumption, Zenon DEF Next
  <2>3. CASE \/ \E c \in Cids, oid \in Oids : Open(c, oid)
             \/ \E s \in Readers : StreamNext(s)
             \/ Reap \/ UNCHANGED vars
    <3>1. \/ \E c \in Cids, oid \in Oids : Open(c, oid)
          \/ \E h \in Handlers, c \in Cids, oid \in Oids : AskLookup(h, c, oid)
          \/ \E h \in Handlers : \/ AskNoQuestion(h) \/ AskConflict(h)
                                 \/ AskRespondFails(h) \/ AskStart(h)
          \/ \E s \in Readers : StreamNext(s)
          \/ Reap \/ UNCHANGED vars
      BY ONLY <2>3, Zenon
    <3> QED BY ONLY <1>9, <3>1, Zenon
  <2> QED BY <1>3, <1>7, <1>8, <2>1, <2>2, <2>3
<1> QED BY <1>5, <1>10 DEF Stays
\* Between two states of a ticket's run there is a step of it, its start or
\* nothing.
LEMMA RunsOrStarts ==
  ASSUME AskInv, [Next]_vars, NEW t \in Tids
  PROVE  RunNext(t) \/ Started(run[t], run'[t])
<1>1. CASE \E u \in Tids : u # t /\ RunNext(u)
  BY <1>1, RunEffect DEF AskInv, Started
<1>2. CASE \A u \in Tids : ~RunNext(u)
  BY <1>2, Elsewhere
<1> QED BY <1>1, <1>2

LEMMA EndedStays ==
  ASSUME AskInv, [Next]_vars, NEW t \in Tids, run[t].pc = "ended"
  PROVE  run'[t].pc = "ended"
<1>1. ~RunNext(t)
  <2>1. ASSUME RunNext(t) PROVE FALSE
    BY <2>1, RunEffect DEF AskInv, Moves, Speaks
  <2> QED BY <2>1
<1>2. Started(run[t], run'[t])
  BY <1>1, RunsOrStarts
<1> QED BY <1>2 DEF Started

-----------------------------------------------------------------------------
(* A conversation is marked with its one ask that is not over, also with one *)
(* whose 202 could not be written and whose run never starts.                *)

Asked(t) == ticket[t].conv \in Cids

Owned == \A t \in Tids : Asked(t) /\ run[t].pc # "ended" => conv[ticket[t].conv].running = t

LEMMA OwnedInit == Init => Owned
BY NoneAssumption DEF Init, Owned, Asked, NoTicket

LEMMA OwnedNext == AskInv /\ Owned /\ [Next]_vars => Owned'
<1> SUFFICES ASSUME AskInv, Owned, [Next]_vars,
                    NEW t \in Tids, ticket'[t].conv \in Cids, run'[t].pc # "ended"
             PROVE  conv'[ticket'[t].conv].running = t
  BY DEF Owned, Asked
<1>1. /\ TypeInv /\ conv \in [Cids -> Conversations] /\ \A h \in Handlers : AskReady(h)
      /\ run[t].pc # "ended"
  BY EndedStays DEF AskInv, TypeInv
<1>2. ASSUME NEW h \in Handlers, AskAdmit(h, t), ticket'[t].conv = ask[h].conv
      PROVE  conv'[ticket'[t].conv].running = t
  BY <1>1, <1>2 DEF AskAdmit, Conversations
<1>3. CASE ticket'[t].conv = ticket[t].conv
  <2> DEFINE c == ticket[t].conv
  <2>1. c \in Cids /\ conv[c].running = t
    BY <1>1, <1>3 DEF Owned, Asked
  <2> HIDE DEF c
  <2>2. ASSUME NEW u \in Tids, RunRelease(u), ticket[u].conv = c PROVE FALSE
    <3>1. run[u].pc = "release"
      BY <2>2 DEF RunRelease
    <3>2. u = t
      BY <2>1, <2>2, <3>1 DEF Owned, Asked
    <3>3. run'[t].pc = "ended"
      BY <1>1, <2>2, <3>2 DEF RunRelease, Goto, TypeInv, Runs
    <3> QED BY <3>3
  <2>3. ASSUME NEW h \in Handlers, NEW u \in Tids, AskAdmit(h, u), ask[h].conv = c PROVE FALSE
    BY <2>1, <2>3, NoneAssumption DEF AskAdmit, Busy
  <2>4. conv'[c].running = t
    BY <1>1, <2>1, <2>2, <2>3, ConvEffect
  <2> QED BY <1>3, <2>4 DEF c
<1> QED BY <1>1, <1>2, <1>3, TicketEffect

LEMMA OwnedInvariant == Spec => []Owned
BY OwnedInit, OwnedNext, AskInvariant, PTL DEF Spec
-----------------------------------------------------------------------------
(* The threads keep the contract.                                            *)

askedOf == [c \in Cids |-> {t \in Tids : ticket[t].conv = c}]

phaseOf == [t \in Tids |-> Phase(ticket[t].log)]

\* Where a run says an event, the contract lets its stream say that next.
LEMMA SaysInOrder ==
  ASSUME NEW r \in Runs, NEW q \in Runs, NEW event \in Events, Speaks(r, event, q)
  PROVE  Tells(event) \in Contract!Follows(Said(r.pc))
<1>1. Tells(event) = Said(q.pc)
  BY SpeaksKinds
<1>2. \/ Said(r.pc) = "silent" /\ Said(q.pc) = "accepted"
      \/ Said(r.pc) = "accepted" /\ Said(q.pc) = "working"
      \/ Said(r.pc) = "working" /\ Said(q.pc) \in {"working", "closed"}
      \/ Said(r.pc) = "closed" /\ Said(q.pc) = "decided"
      \/ Said(r.pc) = "decided" /\ Said(q.pc) = "done"
  <2>1. \/ r.pc = "accept" /\ q.pc = "open"
        \/ r.pc = "open" /\ q.pc = "ask"
        \/ r.pc \in {"relay", "milestone"} /\ q.pc \in {"milestone", "poll", "relay"}
        \/ r.pc = "close" /\ q.pc = "terminal"
        \/ r.pc = "terminal" /\ q.pc \in {"remember", "done"}
        \/ r.pc = "done" /\ q.pc = "audit"
    BY DEF Speaks, CallOver
  <2>2. "audit" \in Over
    BY DEF Over
  <2> QED BY <2>1, <2>2, SaidOf
<1> QED BY <1>1, <1>2 DEF Contract!Follows

\* What the contract sees of the tickets is who asked where and what was said.
LEMMA SeenSame ==
  ASSUME \A t \in Tids : ticket'[t].conv = ticket[t].conv
  PROVE  /\ askedOf' = askedOf
         /\ (\A t \in Tids : ticket'[t].log = ticket[t].log) => phaseOf' = phaseOf
BY DEF askedOf, phaseOf

LEMMA AdmitsContract ==
  ASSUME StoryInv, Owned, NEW h \in Handlers, NEW t \in Tids, AskAdmit(h, t)
  PROVE  \E c \in Cids : Contract!Admit(c, t)
<1>0. PICK c \in Cids : c = ask[h].conv
  BY DEF AskAdmit, StoryInv, TypeInv, AskReady
<1>1. /\ conv[c].running = None /\ ticket[t].conv = None
      /\ ticket \in [Tids -> Tickets]
      /\ tickets' = tickets \cup {t}
      /\ ticket' = [ticket EXCEPT ![t].oid = conv[c].oid, ![t].conv = c, ![t].turn = conv[c].turns + 1]
  BY <1>0 DEF AskAdmit, Busy, StoryInv, TypeInv
<1>2. ASSUME NEW u \in askedOf[c] PROVE phaseOf[u] = "done"
  <2>1. u \in Tids /\ ticket[u].conv = c
    BY <1>1 DEF askedOf
  <2>2. run[u].pc = "ended"
    BY <1>1, <2>1, NoneAssumption DEF Owned, Asked
  <2>3. Phase(ticket[u].log) = Said("ended")
    BY <2>1, <2>2 DEF StoryInv, Story, Spoken
  <2> QED BY <2>1, <2>3, SaidOf DEF phaseOf, Over
<1>3. \A d \in Cids : t \notin askedOf[d]
  BY <1>1, NoneAssumption DEF askedOf
<1>4. /\ \A u \in Tids : u # t => ticket'[u] = ticket[u]
      /\ ticket'[t].conv = c /\ ticket'[t].log = ticket[t].log
  BY <1>1 DEF Tickets
<1>5. askedOf' = [askedOf EXCEPT ![c] = @ \cup {t}]
  <2>1. ASSUME NEW d \in Cids
        PROVE  {u \in Tids : ticket'[u].conv = d} =
                 IF d = c THEN {u \in Tids : ticket[u].conv = c} \cup {t}
                 ELSE {u \in Tids : ticket[u].conv = d}
    BY <1>1, <1>4, NoneAssumption
  <2> QED BY <1>1, <2>1 DEF askedOf
<1>6. phaseOf' = phaseOf
  <2>1. \A u \in Tids : ticket'[u].log = ticket[u].log
    BY <1>4
  <2> QED BY <2>1 DEF phaseOf
<1>7. Contract!Admit(c, t)
  BY <1>1, <1>2, <1>3, <1>5, <1>6 DEF Contract!Admit, askedOf, phaseOf
<1> QED BY <1>7

LEMMA SaysContract ==
  ASSUME StoryInv, TypeInv', NEW t \in Tids, RunNext(t)
  PROVE  Contract!Say(t) \/ UNCHANGED <<askedOf, phaseOf, tickets>>
<1>1. /\ TypeInv /\ run[t] \in Runs /\ run'[t] \in Runs /\ ticket[t] \in Tickets
      /\ ticket[t].log \in Seq(Events)
      /\ Phase(ticket[t].log) = Said(run[t].pc)
  BY DEF StoryInv, Story, Spoken, TypeInv, Tickets
<1>2. tickets' = tickets
  BY DEF RunNext, RunAccept, RunOpenBranch, RunAsk, RunRaises, RunPoll, RunTurn, RunStep,
     RunMilestone, RunCloseBranch, RunTerminal, RunRemember, RunDone, RunAudit, RunRelease, Quiet
<1>3. \A u \in Tids : u # t => ticket'[u] = ticket[u]
  BY <1>1, RunEffect
<1>4. CASE ticket'[t] = ticket[t]
  BY <1>2, <1>3, <1>4, SeenSame
<1>5. ASSUME NEW event \in Events, ticket'[t] = Emitted(ticket[t], event),
             Speaks(run[t], event, run'[t])
      PROVE  Contract!Say(t)
  <2>1. ticket'[t].conv = ticket[t].conv /\ ticket'[t].log = Append(ticket[t].log, event)
    BY <1>1, <1>5, EmittedFields
  <2>2. Phase(ticket'[t].log) \in Contract!Follows(Phase(ticket[t].log))
    BY <1>1, <1>5, <2>1, PhaseAppended, SaysInOrder
  <2>3. run[t].pc # "none"
    BY <1>5 DEF Speaks
  <2>4. ticket[t].conv \in Cids
    BY <1>1, <2>3 DEF TypeInv, RunReady
  <2>5. phaseOf' = [phaseOf EXCEPT ![t] = Phase(ticket'[t].log)]
    <3>1. \A u \in Tids : u # t => Phase(ticket'[u].log) = Phase(ticket[u].log)
      BY <1>3
    <3> QED BY <3>1 DEF phaseOf
  <2>6. \E c \in Cids : t \in askedOf[c]
    BY <2>4 DEF askedOf
  <2>7. askedOf' = askedOf
    BY <1>3, <2>1, SeenSame
  <2>8. \E p \in Contract!Follows(phaseOf[t]) : phaseOf' = [phaseOf EXCEPT ![t] = p]
    BY <2>2, <2>5 DEF phaseOf
  <2> QED BY <1>2, <2>6, <2>7, <2>8 DEF Contract!Say, askedOf, phaseOf
<1> QED BY <1>1, <1>4, <1>5, RunEffect

\* Every step of the threads is a step of the contract, or none.
LEMMA ContractStep ==
  StoryInv /\ AskInv /\ Owned /\ [Next]_vars => [Contract!Next]_<<askedOf, phaseOf, tickets>>
<1> SUFFICES ASSUME StoryInv, AskInv, Owned, [Next]_vars
             PROVE  Contract!Next \/ UNCHANGED <<askedOf, phaseOf, tickets>>
  OBVIOUS
<1>1. CASE \E t \in Tids : RunNext(t)
  <2>1. TypeInv'
    BY TypeNext DEF AskInv
  <2> QED BY <1>1, <2>1, SaysContract DEF Contract!Next
<1>2. CASE \E h \in Handlers, t \in Tids : AskAdmit(h, t)
  BY <1>2, AdmitsContract DEF Contract!Next
<1>3. CASE /\ \A t \in Tids : ~RunNext(t)
           /\ \A h \in Handlers, t \in Tids : ~AskAdmit(h, t)
  <2>1. \A t \in Tids : ticket'[t].conv = ticket[t].conv /\ ticket'[t].log = ticket[t].log
    BY <1>3, TicketEffect, Elsewhere DEF Unsaid, AskInv
  <2>2. askedOf' = askedOf /\ phaseOf' = phaseOf
    BY <2>1, SeenSame
  <2>3. CASE Reap
    <3>1. \A t \in tickets \ tickets' : phaseOf[t] = "done"
      <4>1. ASSUME NEW t \in tickets, ticket[t].finished PROVE phaseOf[t] = "done"
        <5>1. t \in Tids /\ Phase(ticket[t].log) = Said(run[t].pc) /\ run[t].pc \in Over
          BY <4>1 DEF StoryInv, Story, Spoken, TypeInv
        <5> QED BY <5>1, SaidOf DEF phaseOf
      <4> QED BY <2>3, <4>1 DEF Reap, TicketExpired
    <3>2. tickets' \subseteq tickets
      BY <2>3 DEF Reap
    <3>3. Contract!Forget
      BY <2>2, <3>1, <3>2 DEF Contract!Forget, askedOf, phaseOf
    <3> QED BY <3>3 DEF Contract!Next
  <2>4. CASE ~Reap
    <3>1. tickets' = tickets
      BY <1>3, <2>4 DEF Next, vars, AskNext, Open, AskLookup, AskNoQuestion, AskConflict, AskRespond,
         AskRespondFails, AskStart, Cancel, Tick, StreamNext, StreamServe, StreamOpen, StreamLook,
         StreamWake, StreamEmpty, StreamSend, StreamTail, StreamBreak,
         StoreUnchanged
    <3> QED BY <2>2, <3>1
  <2> QED BY <2>3, <2>4
<1> QED BY <1>1, <1>2, <1>3

\* Whatever the interleaving of handlers, runs, streams and the reaper, the
\* service keeps AskContract: one unfinished ask per conversation, a stream's
\* events in their order, and no ticket forgotten before it is done.
THEOREM KeepsContract == Spec => ImplementsContract
<1>1. Init => Contract!Init
  <2> SUFFICES ASSUME Init PROVE Contract!Init
    OBVIOUS
  <2>1. tickets = {} /\ \A t \in Tids : ticket[t].conv = None /\ ticket[t].log = <<>>
    BY DEF Init, NoTicket
  <2>2. \A c \in Cids : {t \in Tids : ticket[t].conv = c} = {}
    BY <2>1, NoneAssumption
  <2>3. \A t \in Tids : Phase(ticket[t].log) = "silent"
    BY <2>1 DEF Phase
  <2> QED BY <2>1, <2>2, <2>3 DEF Contract!Init
<1>2. StoryInv /\ AskInv /\ Owned /\ [Next]_vars =>
        [Contract!Next]_<<[c \in Cids |-> {t \in Tids : ticket[t].conv = c}],
                          [t \in Tids |-> Phase(ticket[t].log)], tickets>>
  BY ContractStep DEF askedOf, phaseOf
<1> QED
  BY <1>1, <1>2, StoryInvariant, AskInvariant, OwnedInvariant, PTL
     DEF Spec, ImplementsContract, Contract!Spec
-----------------------------------------------------------------------------
(* What a later ask is prompted with.                                        *)

\* The run has been given its copy of the history.
Entered(r) == r.pc \in {"poll", "turn", "relay", "milestone"} \/ r.hop > 0

Increasing(seq) == \A i, j \in 1 .. Len(seq) : i < j => seq[i] < seq[j]

Holds(seq, turn) == \E i \in 1 .. Len(seq) : seq[i] = turn

\* A history tells turns of its conversation, each once and in their order.
HistoryOrdered(c) ==
  /\ \A i \in 1 .. Len(conv[c].history) : conv[c].history[i] <= conv[c].turns
  /\ Increasing(conv[c].history)

\* Until its own turn is remembered an ask finds only earlier ones, and from
\* then on it finds its own.
TurnKept(t) ==
  LET c == conv[ticket[t].conv]
  IN /\ ticket[t].turn <= c.turns
     /\ run[t].pc \notin {"done"} \cup Over =>
          \A i \in 1 .. Len(c.history) : c.history[i] < ticket[t].turn
     /\ Answered(t) /\ run[t].pc # "remember" => Holds(c.history, ticket[t].turn)

Earlier(t, u) == ticket[t].conv = ticket[u].conv /\ ticket[t].turn < ticket[u].turn

Prompted(u) ==
  /\ run[u].pc = "none" => run[u].hop = 0
  /\ Increasing(run[u].prompt)
  /\ Entered(run[u]) =>
       \A t \in Tids : Earlier(t, u) /\ Answered(t) => Holds(run[u].prompt, ticket[t].turn)

InTurnOrder ==
  /\ \A c \in Cids : HistoryOrdered(c)
  /\ \A t \in Tids : Asked(t) => TurnKept(t)
  /\ \A t, u \in Tids : Asked(t) /\ Earlier(t, u) => run[t].pc = "ended"
  /\ \A u \in Tids : Prompted(u)

LEMMA InTurnOrderInit == Init => InTurnOrder
<1> SUFFICES ASSUME Init PROVE InTurnOrder
  OBVIOUS
<1>1. /\ \A c \in Cids : conv[c].history = <<>>
      /\ \A t \in Tids : ticket[t].conv = None
      /\ \A t \in Tids : run[t].pc = "none" /\ run[t].hop = 0 /\ run[t].prompt = <<>>
  BY DEF Init, NoConversation, NoTicket, NoRun
<1>2. Increasing(<<>>) /\ Len(<<>>) = 0
  BY DEF Increasing
<1>3. \A t \in Tids : ~Asked(t)
  BY <1>1, NoneAssumption DEF Asked
<1>4. \A c \in Cids : HistoryOrdered(c)
  BY <1>1, <1>2 DEF HistoryOrdered
<1>5. \A u \in Tids : Prompted(u)
  BY <1>1, <1>2 DEF Prompted, Entered
<1> QED BY <1>3, <1>4, <1>5 DEF InTurnOrder

\* Only the step that comes to the end of the prompt's making changes it, and
\* a run is not entered in any other way.
LEMMA PromptEffect ==
  ASSUME AskInv, [Next]_vars, NEW u \in Tids
  PROVE  \/ /\ RunAsk(u) /\ run'[u].prompt = conv[ticket[u].conv].history
            /\ run'[u].pc # "none" /\ run[u].pc # "none"
         \/ /\ run'[u].prompt = run[u].prompt
            /\ Entered(run'[u]) => Entered(run[u])
            /\ run'[u].pc = "none" => run[u].pc = "none" /\ run'[u].hop = run[u].hop
<1> DEFINE Goal == /\ run'[u].prompt = run[u].prompt
                   /\ Entered(run'[u]) => Entered(run[u])
                   /\ run'[u].pc = "none" => run[u].pc = "none" /\ run'[u].hop = run[u].hop
<1>1. run \in [Tids -> Runs] /\ run[u] \in Runs /\ RunReady(u) /\ run[u].hop \in Nat
  BY DEF AskInv, TypeInv, Runs
<1>2. CASE Started(run[u], run'[u])
  BY <1>2 DEF Started, Entered
<1>3. CASE RunAsk(u)
  BY <1>1, <1>3 DEF RunAsk, Runs
<1>4. ASSUME NEW pc, Goto(u, pc), pc # "none",
             pc \in {"poll", "turn", "relay", "milestone"} => Entered(run[u])
      PROVE  Goal
  BY <1>1, <1>4 DEF Goto, Runs, Entered
<1>5. ASSUME NEW reason, Stop(u, reason) PROVE Goal
  BY <1>1, <1>5 DEF Stop, Runs, Entered
<1>6. ASSUME RunPoll(u) PROVE Goal
  BY <1>1, <1>5, <1>6 DEF RunPoll, Runs, Entered
<1>7. ASSUME RunTurn(u) PROVE Goal
  <2>1. ASSUME NEW calls, run' = [run EXCEPT ![u].pc = "relay", ![u].calls = calls] PROVE Goal
    BY <1>1, <1>7, <2>1 DEF RunTurn, Runs, Entered
  <2>2. run[u].pc = "turn" /\ Entered(run[u])
    BY <1>7 DEF RunTurn, Entered
  <2> HIDE DEF Goal
  <2> QED BY <1>4, <1>5, <1>7, <2>1, <2>2 DEF RunTurn
<1>8. ASSUME RunStep(u) PROVE Goal
  <2> DEFINE kind == Head(run[u].calls)
             counted == [run[u] EXCEPT !.steps = @ + 1, !.ran = @ \cup {kind}]
  <2>1. /\ run[u].pc = "relay"
        /\ run'[u] = IF HasMilestone(kind) THEN [counted EXCEPT !.pc = "milestone"]
                     ELSE NextCall(counted)
    BY <1>1, <1>8 DEF RunStep
  <2>2. run'[u].hop = run[u].hop /\ run'[u].prompt = run[u].prompt
        /\ run'[u].pc \in {"milestone", "poll", "relay"}
    BY <1>1, <2>1 DEF NextCall, Runs
  <2> QED BY <2>1, <2>2 DEF Entered
<1>9. ASSUME RunMilestone(u) PROVE Goal
  <2>1. run[u].pc = "milestone" /\ run'[u] = NextCall(run[u])
    BY <1>1, <1>9 DEF RunMilestone
  <2>2. run'[u].hop = run[u].hop /\ run'[u].prompt = run[u].prompt
        /\ run'[u].pc \in {"poll", "relay"}
    BY <1>1, <2>1 DEF NextCall, Runs
  <2> QED BY <2>1, <2>2 DEF Entered
<1>10. ASSUME RunRelease(u) PROVE Goal
  BY <1>4, <1>10 DEF RunRelease
<1> HIDE DEF Goal
<1>11. RunNext(u) => RunAsk(u) \/ Goal
  BY <1>4, <1>5, <1>6, <1>7, <1>8, <1>9, <1>10
     DEF RunNext, RunAccept, RunOpenBranch, RunRaises, RunCloseBranch, RunTerminal, RunRemember,
         RunDone, RunAudit
<1> QED BY <1>2, <1>3, <1>11, RunsOrStarts DEF Goal

\* What a step does to a run's place in the end of its turn.
LEMMA TurnEffect ==
  ASSUME AskInv, [Next]_vars, NEW t \in Tids
  PROVE  /\ run[t].pc \in {"done"} \cup Over => run'[t].pc \in {"done"} \cup Over
         /\ run[t].pc = "remember" => run'[t].pc = "remember" \/ RunRemember(t)
         /\ Answered(t)' => Answered(t) \/ run'[t].pc = "remember"
         /\ run[t].pc = "ended" => (Answered(t)' => Answered(t))
<1>1. /\ TypeInv /\ ticket[t] \in Tickets /\ ticket[t].log \in Seq(Events)
      /\ run[t] \in Runs /\ RunReady(t)
  BY DEF AskInv, TypeInv, Tickets
<1>2. ticket'[t].log = ticket[t].log => (Answered(t)' => Answered(t))
  BY DEF Answered
<1>3. CASE RunNext(t) /\ ticket'[t] = ticket[t] /\ Moves(run[t], run'[t], ticket[t].cancel)
  <2>1. /\ run[t].pc \in {"done"} \cup Over => run'[t].pc \in {"done"} \cup Over
        /\ run[t].pc = "ended" => run'[t].pc = "ended"
    BY <1>3 DEF Moves, Over
  <2>2. run[t].pc = "remember" => RunRemember(t)
    BY <1>3 DEF RunNext, RunAccept, RunOpenBranch, RunAsk, RunRaises, RunPoll, RunTurn, RunStep,
       RunMilestone, RunCloseBranch, RunTerminal, RunDone, RunAudit, RunRelease
  <2> QED BY <1>2, <1>3, <2>1, <2>2
<1>4. ASSUME RunNext(t), NEW event \in Events, ticket'[t] = Emitted(ticket[t], event),
             Speaks(run[t], event, run'[t])
      PROVE  /\ run[t].pc \in {"done"} \cup Over => run'[t].pc \in {"done"} \cup Over
             /\ run[t].pc # "remember" /\ run[t].pc # "ended"
             /\ Answered(t)' => Answered(t) \/ run'[t].pc = "remember"
  <2>1. run[t].pc # "remember" /\ run[t].pc \notin Over /\ (run[t].pc = "done" => run'[t].pc = "audit")
    BY <1>4 DEF Speaks, Over
  <2>2. ticket'[t].log = Append(ticket[t].log, event)
    BY <1>1, <1>4, EmittedFields
  <2>3. event.type = "answer" => run'[t].pc = "remember"
    <3>1. run'[t] \in Runs
      BY TypeNext DEF AskInv, TypeInv
    <3>2. event.type = "answer" => run[t].pc = "terminal"
      BY <1>1, <1>4, <3>1, SpeaksKinds DEF Works, Decides, Finishes, TERMINAL
    <3>3. run[t].pc = "terminal" =>
            run'[t].pc = IF event.type = "answer" THEN "remember" ELSE "done"
      BY <1>4 DEF Speaks
    <3> QED BY <3>2, <3>3
  <2>4. Answered(t)' => Answered(t) \/ event.type = "answer"
    BY <1>1, <2>2, Appended DEF Answered
  <2> QED BY <2>1, <2>3, <2>4 DEF Over
<1>5. CASE ~RunNext(t)
  <2>1. Started(run[t], run'[t])
    BY <1>5, RunsOrStarts
  <2>2. ticket'[t].log = ticket[t].log
    <3>1. CASE \E u \in Tids : u # t /\ RunNext(u)
      BY <1>1, <3>1, RunEffect
    <3>2. CASE \A u \in Tids : ~RunNext(u)
      BY <3>2, Elsewhere DEF Unsaid
    <3> QED BY <1>5, <3>1, <3>2
  <2> QED BY <1>2, <2>1, <2>2 DEF Started, Over
<1> QED BY <1>1, <1>3, <1>4, <1>5, RunEffect DEF Over
\* A turn later than all in a history goes on at its end.
LEMMA HistoryGrown ==
  ASSUME NEW seq \in Seq(Nat), NEW turn \in Nat, Increasing(seq),
         \A i \in 1 .. Len(seq) : seq[i] < turn
  PROVE  /\ Increasing(Append(seq, turn))
         /\ \A i \in 1 .. Len(Append(seq, turn)) : Append(seq, turn)[i] <= turn
         /\ Holds(Append(seq, turn), turn)
         /\ \A x : Holds(seq, x) => Holds(Append(seq, turn), x)
<1> DEFINE new == Append(seq, turn)
<1>1. /\ Len(new) = Len(seq) + 1 /\ Len(seq) \in Nat
      /\ \A i \in 1 .. Len(seq) : new[i] = seq[i]
      /\ new[Len(seq) + 1] = turn
      /\ \A i \in 1 .. Len(seq) : seq[i] \in Nat
  OBVIOUS
<1> HIDE DEF new
<1>2. Increasing(new)
  <2> SUFFICES ASSUME NEW i \in 1 .. Len(new), NEW j \in 1 .. Len(new), i < j
               PROVE  new[i] < new[j]
    BY DEF Increasing
  <2>1. i \in 1 .. Len(seq) /\ new[i] = seq[i]
    BY <1>1
  <2>2. CASE j = Len(seq) + 1
    BY <1>1, <2>1, <2>2
  <2>3. CASE j # Len(seq) + 1
    <3>1. j \in 1 .. Len(seq) /\ new[j] = seq[j]
      BY <1>1, <2>3
    <3> QED BY <2>1, <3>1 DEF Increasing
  <2> QED BY <2>2, <2>3
<1>3. \A i \in 1 .. Len(new) : new[i] <= turn
  BY <1>1
<1>4. Holds(new, turn) /\ \A x : Holds(seq, x) => Holds(new, x)
  BY <1>1 DEF Holds
<1> QED BY <1>2, <1>3, <1>4 DEF new

\* Only a run that has given its outcome has answered.
LEMMA AnsweredLate ==
  ASSUME StoryInv, NEW t \in Tids, Answered(t)
  PROVE  run[t].pc \in Late /\ ticket[t].conv \in Cids
<1>1. /\ Ends(run[t], ticket[t]) /\ ticket[t].log \in Seq(Events)
      /\ RunReady(t)
  BY DEF StoryInv, Story, TypeInv, Tickets
<1>2. PICK i \in 1 .. Len(ticket[t].log) : ticket[t].log[i].type = "answer"
  BY <1>1 DEF Answered
<1>3. i = TerminalAt(run[t], ticket[t])
  BY <1>1, <1>2 DEF Ends, TERMINAL
<1>4. run[t].pc \in Late
  BY <1>1, <1>2, <1>3 DEF TerminalAt, Late, Over
<1>5. run[t].pc # "none"
  BY <1>4 DEF Late, Over
<1> QED BY <1>1, <1>4, <1>5 DEF RunReady

\* What the steps to come rely on of the records.
LEMMA TurnTypes ==
  ASSUME TypeInv
  PROVE  /\ \A c \in Cids : conv[c].turns \in Nat /\ conv[c].history \in Seq(Nat)
         /\ \A t \in Tids : ticket[t].turn \in Nat /\ (ticket[t].conv # None => ticket[t].conv \in Cids)
         /\ \A c \in Cids : \A i \in 1 .. Len(conv[c].history) : conv[c].history[i] \in Nat
         /\ \A h \in Handlers : ask[h].pc = "found" => ask[h].conv \in Cids
<1>1. \A c \in Cids : conv[c].turns \in Nat /\ conv[c].history \in Seq(Nat)
  BY DEF TypeInv, Conversations
<1>2. \A t \in Tids : ticket[t].turn \in Nat /\ (ticket[t].conv # None => ticket[t].conv \in Cids)
  BY DEF TypeInv, Tickets
<1>3. \A h \in Handlers : ask[h].pc = "found" => ask[h].conv \in Cids
  BY DEF TypeInv, AskReady
<1>4. ASSUME NEW c \in Cids, NEW i \in 1 .. Len(conv[c].history) PROVE conv[c].history[i] \in Nat
  BY <1>1
<1> QED BY <1>1, <1>2, <1>3, <1>4

\* The asks of a conversation that is free are over.
LEMMA FreeIsOver ==
  ASSUME Owned, NEW h \in Handlers, NEW t \in Tids, AskAdmit(h, t), ask[h].conv \in Cids,
         NEW u \in Tids, ticket[u].conv = ask[h].conv
  PROVE  run[u].pc = "ended"
<1>1. conv[ask[h].conv].running = None
  BY DEF AskAdmit, Busy
<1> QED BY <1>1, NoneAssumption DEF Owned, Asked

LEMMA HistoryNext ==
  ASSUME AskInv, Owned, InTurnOrder, [Next]_vars, NEW c \in Cids
  PROVE  HistoryOrdered(c)'
<1>1. /\ TypeInv /\ HistoryOrdered(c)
      /\ conv[c].turns \in Nat /\ conv[c].history \in Seq(Nat)
      /\ \A i \in 1 .. Len(conv[c].history) : conv[c].history[i] \in Nat
  BY TurnTypes DEF AskInv, InTurnOrder
<1>2. CASE SameTurns(conv[c], conv'[c])
  BY <1>1, <1>2 DEF SameTurns, HistoryOrdered
<1>3. ASSUME NEW t \in Tids, RunRemember(t), ticket[t].conv = c, conv'[c].turns = conv[c].turns,
             conv'[c].history = Append(conv[c].history, ticket[t].turn)
      PROVE  HistoryOrdered(c)'
  <2>1. TurnKept(t) /\ run[t].pc = "remember" /\ ticket[t].turn \in Nat
    BY <1>1, <1>3, TurnTypes DEF InTurnOrder, Asked, RunRemember
  <2>2. /\ \A i \in 1 .. Len(conv[c].history) : conv[c].history[i] < ticket[t].turn
        /\ ticket[t].turn <= conv[c].turns
    BY <1>3, <2>1 DEF TurnKept, Over
  <2> DEFINE new == Append(conv[c].history, ticket[t].turn)
  <2>3. Increasing(new) /\ \A i \in 1 .. Len(new) : new[i] \in Nat /\ new[i] <= ticket[t].turn
    <3>1. /\ conv[c].history \in Seq(Nat) /\ ticket[t].turn \in Nat
          /\ Increasing(conv[c].history)
          /\ \A i \in 1 .. Len(conv[c].history) : conv[c].history[i] < ticket[t].turn
      BY <1>1, <2>1, <2>2 DEF HistoryOrdered
    <3>2. Increasing(new) /\ \A i \in 1 .. Len(new) : new[i] <= ticket[t].turn
      <4> QED BY ONLY <3>1, HistoryGrown
    <3>3. new \in Seq(Nat)
      <4> QED BY ONLY <3>1
    <3>4. \A i \in 1 .. Len(new) : new[i] \in Nat
      <4> HIDE DEF new
      <4> QED BY ONLY <3>3
    <3> QED BY <3>2, <3>4
  <2>4. Increasing(new) /\ \A i \in 1 .. Len(new) : new[i] <= conv[c].turns
    <3> HIDE DEF new
    <3> QED BY <1>1, <2>1, <2>2, <2>3
  <2> QED BY <1>3, <2>4 DEF HistoryOrdered
<1>4. ASSUME conv'[c].turns = conv[c].turns + 1, conv'[c].history = conv[c].history
      PROVE  HistoryOrdered(c)'
  BY <1>1, <1>4 DEF HistoryOrdered
<1> QED BY <1>1, <1>2, <1>3, <1>4, ConvEffect

LEMMA TurnNext ==
  ASSUME AskInv, StoryInv, Owned, InTurnOrder, [Next]_vars, NEW t \in Tids, Asked(t)'
  PROVE  TurnKept(t)'
<1> DEFINE c == ticket'[t].conv
<1>1. TypeInv /\ c \in Cids /\ ticket[t].turn \in Nat
  BY TurnTypes DEF AskInv, Asked
<1>2. ASSUME NEW h \in Handlers, AskAdmit(h, t), ticket[t].conv = None, c = ask[h].conv,
             ticket'[t].turn = conv[c].turns + 1
      PROVE  TurnKept(t)'
  <2> HIDE DEF c
  <2>1. /\ conv[c].turns \in Nat /\ HistoryOrdered(c)
        /\ \A i \in 1 .. Len(conv[c].history) : conv[c].history[i] \in Nat
    BY <1>1, TurnTypes DEF InTurnOrder
  <2>2. conv'[c].turns = conv[c].turns + 1 /\ conv'[c].history = conv[c].history
    BY <1>1, <1>2 DEF AskAdmit, TypeInv, Conversations
  <2>3. ~Answered(t) /\ run'[t].pc = run[t].pc /\ run[t].pc = "none"
    BY <1>1, <1>2, AnsweredLate, NoneAssumption DEF AskAdmit, TypeInv, RunReady
  <2>4. ~Answered(t)'
    BY <2>3, TurnEffect
  <2>5. \A i \in 1 .. Len(conv'[c].history) : conv'[c].history[i] < ticket'[t].turn
    BY <1>2, <2>1, <2>2 DEF HistoryOrdered
  <2>6. ticket'[t].turn <= conv'[c].turns
    BY <1>2, <2>1, <2>2
  <2> QED BY <2>4, <2>5, <2>6 DEF TurnKept, c
<1>3. ASSUME ticket'[t].conv = ticket[t].conv, ticket'[t].turn = ticket[t].turn
      PROVE  TurnKept(t)'
  <2> HIDE DEF c
  <2>1. /\ c = ticket[t].conv /\ TurnKept(t)
        /\ conv[c].turns \in Nat /\ HistoryOrdered(c) /\ conv[c].history \in Seq(Nat)
        /\ \A i \in 1 .. Len(conv[c].history) : conv[c].history[i] \in Nat
    BY <1>1, <1>3, TurnTypes DEF InTurnOrder, Asked, c
  <2>2. /\ ticket[t].turn <= conv[c].turns
        /\ run[t].pc \notin {"done"} \cup Over =>
             \A i \in 1 .. Len(conv[c].history) : conv[c].history[i] < ticket[t].turn
        /\ Answered(t) /\ run[t].pc # "remember" => Holds(conv[c].history, ticket[t].turn)
    BY <2>1 DEF TurnKept
  <2>3. /\ run'[t].pc \notin {"done"} \cup Over => run[t].pc \notin {"done"} \cup Over
        /\ run[t].pc = "remember" => run'[t].pc = "remember" \/ RunRemember(t)
        /\ Answered(t)' => Answered(t) \/ run'[t].pc = "remember"
    BY TurnEffect
  <2>4. CASE conv'[c].history = conv[c].history /\ conv'[c].turns \in {conv[c].turns, conv[c].turns + 1}
             /\ ~RunRemember(t)
    <3>1. ticket'[t].turn <= conv'[c].turns
      BY <1>1, <1>3, <2>1, <2>2, <2>4
    <3>2. run'[t].pc \notin {"done"} \cup Over =>
             \A i \in 1 .. Len(conv'[c].history) : conv'[c].history[i] < ticket'[t].turn
      BY <1>3, <2>2, <2>3, <2>4
    <3>3. Answered(t)' /\ run'[t].pc # "remember" => Holds(conv'[c].history, ticket'[t].turn)
      BY <1>3, <2>2, <2>3, <2>4
    <3> QED BY <3>1, <3>2, <3>3 DEF TurnKept, c
  <2>5. ASSUME NEW u \in Tids, RunRemember(u), ticket[u].conv = c, conv'[c].turns = conv[c].turns,
               conv'[c].history = Append(conv[c].history, ticket[u].turn)
        PROVE  TurnKept(t)'
    <3>1. /\ run[u].pc = "remember" /\ TurnKept(u) /\ ticket[u].turn \in Nat
          /\ conv[c].running = u
      BY <1>1, <2>1, <2>5, TurnTypes DEF RunRemember, InTurnOrder, Asked, Owned
    <3>2. \A i \in 1 .. Len(conv[c].history) : conv[c].history[i] < ticket[u].turn
      BY <2>5, <3>1 DEF TurnKept, Over
    <3>3. /\ Holds(conv'[c].history, ticket[u].turn)
          /\ \A x : Holds(conv[c].history, x) => Holds(conv'[c].history, x)
      <4>1. Increasing(conv[c].history)
        BY <2>1 DEF HistoryOrdered
      <4>2. /\ Holds(Append(conv[c].history, ticket[u].turn), ticket[u].turn)
            /\ \A x : Holds(conv[c].history, x) =>
                    Holds(Append(conv[c].history, ticket[u].turn), x)
        BY <2>1, <3>1, <3>2, <4>1, HistoryGrown
      <4> QED BY <2>5, <4>2
    <3>4. CASE u = t
      <4>1. run'[t].pc = "done"
        BY <1>1, <2>5, <3>4 DEF RunRemember, Goto, TypeInv, Runs
      <4> QED BY <1>3, <2>2, <2>5, <3>3, <3>4, <4>1 DEF TurnKept, c
    <3>5. CASE u # t
      <4>1. run[t].pc = "ended" /\ run'[t].pc = "ended"
        BY <1>1, <2>1, <3>1, <3>5, EndedStays DEF Owned, Asked
      <4>2. Answered(t)' => Answered(t)
        BY <4>1, TurnEffect
      <4> QED BY <1>3, <2>2, <2>5, <3>3, <4>1, <4>2 DEF TurnKept, Over, c
    <3> QED BY <3>4, <3>5
  <2>6. RunRemember(t) => conv'[c].history = Append(conv[c].history, ticket[t].turn)
                          /\ conv'[c].turns = conv[c].turns
    BY <1>1, <2>1 DEF RunRemember, Remembered, TypeInv, Conversations
  <2>7. CASE RunRemember(t)
    BY <2>1, <2>5, <2>6, <2>7
  <2>8. CASE ~RunRemember(t)
    <3>1. \/ conv'[c].history = conv[c].history /\ conv'[c].turns \in {conv[c].turns, conv[c].turns + 1}
          \/ \E u \in Tids :
               /\ RunRemember(u) /\ ticket[u].conv = c
               /\ conv'[c].turns = conv[c].turns
               /\ conv'[c].history = Append(conv[c].history, ticket[u].turn)
      BY <1>1, ConvEffect DEF SameTurns
    <3> QED BY <2>4, <2>5, <2>8, <3>1
  <2> QED BY <2>7, <2>8
<1> QED BY <1>1, <1>2, <1>3, TicketEffect
\* An ask that follows another finds it over, as it did before the step.
LEMMA SuccessionNext ==
  ASSUME AskInv, Owned, InTurnOrder, [Next]_vars,
         NEW t \in Tids, NEW u \in Tids, Asked(t)', Earlier(t, u)'
  PROVE  run[t].pc = "ended" /\ ticket'[t].conv = ticket[t].conv /\ ticket'[t].turn = ticket[t].turn
<1>1. /\ TypeInv /\ ticket'[t].conv \in Cids /\ ticket'[t].conv = ticket'[u].conv
      /\ ticket'[t].turn < ticket'[u].turn
      /\ ticket[t].turn \in Nat /\ ticket[u].turn \in Nat
  BY TurnTypes DEF AskInv, Asked, Earlier
<1>2. ASSUME NEW h \in Handlers, AskAdmit(h, t), ticket[t].conv = None,
             ticket'[t].conv = ask[h].conv, ticket'[t].turn = conv[ask[h].conv].turns + 1
      PROVE  FALSE
  <2>1. u # t /\ conv[ask[h].conv].turns \in Nat
    BY <1>1, <1>2, TurnTypes
  <2>2. ticket'[u] = ticket[u]
    BY <1>1, <1>2, <2>1 DEF AskAdmit, TypeInv
  <2>3. ticket[u].turn <= conv[ask[h].conv].turns
    BY <1>1, <1>2, <2>2 DEF InTurnOrder, Asked, TurnKept
  <2> QED BY <1>1, <1>2, <2>1, <2>2, <2>3
<1>3. ASSUME ticket'[t].conv = ticket[t].conv, ticket'[t].turn = ticket[t].turn,
             ticket'[u].conv = ticket[u].conv, ticket'[u].turn = ticket[u].turn
      PROVE  run[t].pc = "ended"
  BY <1>1, <1>3 DEF InTurnOrder, Asked, Earlier
<1>4. ASSUME ticket'[t].conv = ticket[t].conv, NEW h \in Handlers, AskAdmit(h, u),
             ticket'[u].conv = ask[h].conv
      PROVE  run[t].pc = "ended"
  BY <1>1, <1>4, FreeIsOver
<1> QED BY <1>2, <1>3, <1>4, TicketEffect DEF AskInv

LEMMA PromptedNext ==
  ASSUME AskInv, StoryInv, Owned, InTurnOrder, [Next]_vars, NEW u \in Tids
  PROVE  Prompted(u)'
<1>1. TypeInv /\ Prompted(u)
  BY DEF AskInv, InTurnOrder
<1>2. ASSUME NEW t \in Tids, Earlier(t, u)', Answered(t)'
      PROVE  /\ run[t].pc = "ended" /\ Answered(t) /\ ticket[t].conv \in Cids
             /\ ticket'[t].conv = ticket[t].conv /\ ticket'[t].turn = ticket[t].turn
  <2>1. StoryInv'
    BY StoryNext
  <2>2. ticket'[t].conv \in Cids
    <3>1. Answered(t) \/ run'[t].pc = "remember"
      BY <1>2, TurnEffect
    <3>2. CASE Answered(t)
      <4>1. ticket[t].conv \in Cids
        BY <3>2, AnsweredLate
      <4>2. ticket'[t].conv = ticket[t].conv
        BY <1>1, <4>1, TicketEffect, NoneAssumption
      <4> QED BY <4>1, <4>2
    <3>3. CASE run'[t].pc = "remember"
      BY <2>1, <3>3 DEF StoryInv, TypeInv, RunReady
    <3> QED BY <3>1, <3>2, <3>3
  <2>3. run[t].pc = "ended" /\ ticket'[t].conv = ticket[t].conv /\ ticket'[t].turn = ticket[t].turn
    BY <1>2, <2>2, SuccessionNext DEF Asked
  <2> QED BY <1>2, <2>2, <2>3, TurnEffect
<1>3. CASE /\ RunAsk(u) /\ run'[u].prompt = conv[ticket[u].conv].history
           /\ run'[u].pc # "none" /\ run[u].pc # "none"
  <2>1. ticket' = ticket /\ ticket[u].conv \in Cids
    BY <1>1, <1>3 DEF RunAsk, TypeInv, RunReady
  <2>2. Increasing(run'[u].prompt)
    BY <1>3, <2>1 DEF InTurnOrder, HistoryOrdered
  <2>3. ASSUME NEW t \in Tids, Earlier(t, u)', Answered(t)'
        PROVE  Holds(run'[u].prompt, ticket'[t].turn)
    <3>1. run[t].pc = "ended" /\ Answered(t) /\ Asked(t)
      BY <1>2, <2>3 DEF Asked
    <3>2. Holds(conv[ticket[t].conv].history, ticket[t].turn)
      BY <3>1 DEF InTurnOrder, TurnKept
    <3>3. ticket[t].conv = ticket[u].conv
      BY <2>1, <2>3 DEF Earlier
    <3> QED BY <1>3, <2>1, <3>2, <3>3
  <2> QED BY <1>3, <2>2, <2>3 DEF Prompted
<1>4. CASE /\ run'[u].prompt = run[u].prompt
           /\ Entered(run'[u]) => Entered(run[u])
           /\ run'[u].pc = "none" => run[u].pc = "none" /\ run'[u].hop = run[u].hop
  <2>1. ASSUME NEW t \in Tids, Entered(run'[u]), Earlier(t, u)', Answered(t)'
        PROVE  Holds(run'[u].prompt, ticket'[t].turn)
    <3>1. run[t].pc = "ended" /\ Answered(t) /\ ticket'[t].conv = ticket[t].conv
          /\ ticket'[t].turn = ticket[t].turn
      BY <1>2, <2>1
    <3>2. Entered(run[u])
      BY <1>4, <2>1
    <3>3. ticket[u].conv # None
      <4>1. run[u].pc # "none"
        BY <1>1, <3>2 DEF Prompted, Entered
      <4> QED BY <1>1, <4>1, NoneAssumption DEF TypeInv, RunReady
    <3>4. ticket'[u].conv = ticket[u].conv /\ ticket'[u].turn = ticket[u].turn
      BY <1>1, <3>3, TicketEffect
    <3>5. Earlier(t, u)
      BY <2>1, <3>1, <3>4 DEF Earlier
    <3>6. Holds(run[u].prompt, ticket[t].turn)
      BY <1>1, <3>1, <3>2, <3>5 DEF Prompted
    <3> QED BY <1>4, <3>1, <3>6
  <2>2. run'[u].pc = "none" => run'[u].hop = 0
    BY <1>1, <1>4 DEF Prompted
  <2>3. Increasing(run'[u].prompt)
    BY <1>1, <1>4 DEF Prompted
  <2> QED BY <2>1, <2>2, <2>3 DEF Prompted
<1> QED BY <1>3, <1>4, PromptEffect

LEMMA InTurnOrderNext ==
  AskInv /\ StoryInv /\ Owned /\ InTurnOrder /\ [Next]_vars => InTurnOrder'
<1> SUFFICES ASSUME AskInv, StoryInv, Owned, InTurnOrder, [Next]_vars PROVE InTurnOrder'
  OBVIOUS
<1>1. \A c \in Cids : HistoryOrdered(c)'
  BY HistoryNext
<1>2. \A t \in Tids : Asked(t)' => TurnKept(t)'
  BY TurnNext
<1>3. ASSUME NEW t \in Tids, NEW u \in Tids, Asked(t)', Earlier(t, u)' PROVE run'[t].pc = "ended"
  BY <1>3, SuccessionNext, EndedStays
<1>4. \A u \in Tids : Prompted(u)'
  BY PromptedNext
<1> QED BY <1>1, <1>2, <1>3, <1>4 DEF InTurnOrder

\* An ask that has reached the model was prompted with every earlier turn of
\* its conversation that was answered, each once and in turn order.
THEOREM LaterAsksKnowEarlierAnswers == Spec => []PromptHoldsEarlierAnswers
<1>1. TypeInv /\ StoryInv /\ InTurnOrder => PromptHoldsEarlierAnswers
  <2> SUFFICES ASSUME TypeInv, StoryInv, InTurnOrder, NEW t \in Tids, NEW u \in Tids
               PROVE  LET prompt == run[u].prompt
                      IN /\ \A i, j \in DOMAIN prompt : i < j => prompt[i] < prompt[j]
                         /\ Earlier(t, u) /\ Answered(t) /\ run[u].hop > 0
                              => \E i \in DOMAIN prompt : prompt[i] = ticket[t].turn
    BY DEF PromptHoldsEarlierAnswers, Earlier
  <2>1. DOMAIN run[u].prompt = 1 .. Len(run[u].prompt)
    <3>1. run[u].prompt \in Seq(Nat)
      BY DEF TypeInv, Runs
    <3> QED BY <3>1
  <2>2. Increasing(run[u].prompt)
    BY DEF InTurnOrder, Prompted
  <2>3. Earlier(t, u) /\ Answered(t) /\ run[u].hop > 0 => Holds(run[u].prompt, ticket[t].turn)
    BY DEF InTurnOrder, Prompted, Entered
  <2> QED BY <2>1, <2>2, <2>3 DEF Increasing, Holds
<1>2. Spec => []InTurnOrder
  BY InTurnOrderInit, InTurnOrderNext, AskInvariant, StoryInvariant, OwnedInvariant, PTL DEF Spec
<1> QED BY <1>1, <1>2, TypeCorrect, StoryInvariant, PTL
-----------------------------------------------------------------------------
(* What a reader holds.                                                      *)

\* Of its ticket: everything up to the last frame it was sent but for steps,
\* and in hand everything up to the last frame it is to be sent but for steps.
Reads(st, tk) ==
  /\ st.sent <= Len(tk.log) /\ st.got \subseteq 1 .. st.sent
  /\ st.pending \subseteq st.sent + 1 .. Len(tk.log)
  /\ \A i \in 1 .. st.sent : i \in st.got \/ tk.log[i].type = "step"
  /\ \A p \in st.pending : \A i \in st.sent + 1 .. p : i \in st.pending \/ tk.log[i].type = "step"
  /\ st.pc = "closed" => tk.finished

\* A reader that follows no ticket yet has nothing.
Following(s) ==
  /\ stream[s].ticket = None =>
       stream[s].sent = 0 /\ stream[s].got = {} /\ stream[s].pending = {}
  /\ stream[s].ticket \in Tids => Reads(stream[s], ticket[stream[s].ticket])

\* What a ticket has said stays said, and a finished one stays finished.
Grows(tk, new) ==
  /\ Len(tk.log) <= Len(new.log)
  /\ \A i \in 1 .. Len(tk.log) : new.log[i] = tk.log[i]
  /\ tk.finished => new.finished

LEMMA TicketsGrow ==
  ASSUME AskInv, [Next]_vars, NEW t \in Tids
  PROVE  Grows(ticket[t], ticket'[t])
<1>1. TypeInv /\ ticket[t] \in Tickets /\ ticket[t].log \in Seq(Events) /\ Len(ticket[t].log) \in Nat
  BY DEF AskInv, TypeInv, Tickets
<1>2. ticket'[t] = ticket[t] => Grows(ticket[t], ticket'[t])
  BY <1>1 DEF Grows
<1>3. ASSUME NEW event \in Events, ticket'[t] = Emitted(ticket[t], event)
      PROVE  Grows(ticket[t], ticket'[t])
  <2>1. /\ ticket'[t].log = Append(ticket[t].log, event)
        /\ ticket[t].finished => ticket'[t].finished
    BY <1>1, <1>3, EmittedFields
  <2>2. /\ Len(ticket'[t].log) = Len(ticket[t].log) + 1
        /\ \A i \in 1 .. Len(ticket[t].log) : ticket'[t].log[i] = ticket[t].log[i]
    BY <1>1, <2>1, Appended
  <2> QED BY <1>1, <2>1, <2>2 DEF Grows
<1>4. CASE \E u \in Tids : RunNext(u)
  BY <1>1, <1>2, <1>3, <1>4, RunEffect
<1>5. CASE \A u \in Tids : ~RunNext(u)
  BY <1>1, <1>5, Elsewhere DEF Unsaid, Grows
<1> QED BY <1>4, <1>5

LEMMA StreamFields ==
  ASSUME NEW st \in Streams
  PROVE  /\ st.sent \in Nat /\ st.pending \subseteq Nat /\ st.got \subseteq Nat
         /\ st.ticket \in Tids \cup {None}
BY Zenon DEF Streams

LEMMA StreamUpdate ==
  ASSUME stream \in [Readers -> Streams], NEW s \in Readers, NEW pc, Become(s, pc)
  PROVE  /\ stream'[s].ticket = stream[s].ticket /\ stream'[s].sent = stream[s].sent
         /\ stream'[s].got = stream[s].got /\ stream'[s].pending = stream[s].pending
         /\ stream'[s].pc = pc
BY DEF Become, Streams

LEMMA ReadsOn ==
  ASSUME NEW st \in Streams, NEW tk \in Tickets, NEW new \in Tickets, Reads(st, tk), Grows(tk, new)
  PROVE  Reads(st, new)
<1>1. /\ Len(tk.log) \in Nat /\ Len(new.log) \in Nat /\ st.sent \in Nat
      /\ st.sent <= Len(tk.log) /\ Len(tk.log) <= Len(new.log)
      /\ \A i \in 1 .. Len(tk.log) : new.log[i] = tk.log[i]
      /\ st.pending \subseteq st.sent + 1 .. Len(tk.log)
  BY StreamFields DEF Reads, Grows, Tickets
<1>2. \A i \in 1 .. st.sent : i \in st.got \/ new.log[i].type = "step"
  BY <1>1 DEF Reads
<1>3. ASSUME NEW p \in st.pending, NEW i \in st.sent + 1 .. p
      PROVE  i \in st.pending \/ new.log[i].type = "step"
  BY <1>1, <1>3 DEF Reads
<1>4. st.sent <= Len(new.log) /\ st.pending \subseteq st.sent + 1 .. Len(new.log)
  BY <1>1
<1> QED BY <1>2, <1>3, <1>4 DEF Reads, Grows

\* The steps of a reader: s and n are its record before and after, tk the
\* ticket it then follows.
LEMMA StartsReading ==
  ASSUME NEW n, NEW tk \in Tickets, n.sent = 0, n.got = {}, n.pending = {}, n.pc # "closed"
  PROVE  Reads(n, tk)
BY DEF Reads, Tickets

LEMMA TakesPending ==
  ASSUME NEW st \in Streams, NEW n, NEW tk \in Tickets, Reads(st, tk), KeptWhole(tk),
         tk.kept \subseteq 1 .. Len(tk.log),
         n.sent = st.sent, n.got = st.got, n.pc # "closed",
         n.pending = {i \in tk.kept : i > st.sent}
  PROVE  Reads(n, tk)
<1>1. Len(tk.log) \in Nat /\ st.sent \in Nat
  BY StreamFields DEF Tickets
<1>2. n.pending \subseteq n.sent + 1 .. Len(tk.log)
  BY <1>1
<1>3. ASSUME NEW p \in n.pending, NEW i \in n.sent + 1 .. p
      PROVE  i \in n.pending \/ tk.log[i].type = "step"
  BY <1>1, <1>2, <1>3 DEF KeptWhole
<1> QED BY <1>2, <1>3 DEF Reads

LEMMA SendsLeast ==
  ASSUME NEW st \in Streams, NEW n, NEW tk \in Tickets, Reads(st, tk),
         NEW i \in st.pending, \A j \in st.pending : i <= j,
         n.sent = i, n.got = st.got \cup {i}, n.pending = st.pending \ {i}, n.pc # "closed"
  PROVE  Reads(n, tk)
<1>1. /\ Len(tk.log) \in Nat /\ st.sent \in Nat /\ st.got \subseteq 1 .. st.sent
      /\ st.pending \subseteq st.sent + 1 .. Len(tk.log) /\ i \in Nat /\ st.sent < i /\ i <= Len(tk.log)
  BY StreamFields DEF Reads, Tickets
<1>2. n.sent <= Len(tk.log) /\ n.got \subseteq 1 .. n.sent /\ n.pending \subseteq n.sent + 1 .. Len(tk.log)
  BY <1>1
<1>3. ASSUME NEW j \in 1 .. n.sent PROVE j \in n.got \/ tk.log[j].type = "step"
  <2>1. CASE j <= st.sent
    BY <1>1, <2>1 DEF Reads
  <2>2. CASE j > st.sent
    <3>1. j \in st.sent + 1 .. i
      BY <1>1, <2>2
    <3>2. j \in st.pending \/ tk.log[j].type = "step"
      BY <3>1 DEF Reads
    <3>3. j \in st.pending => j = i
      BY <1>1, <3>1
    <3> QED BY <3>2, <3>3
  <2> QED BY <1>1, <2>1, <2>2
<1>4. ASSUME NEW p \in n.pending, NEW j \in n.sent + 1 .. p
      PROVE  j \in n.pending \/ tk.log[j].type = "step"
  <2>1. p \in st.pending /\ j \in st.sent + 1 .. p /\ j # i
    BY <1>1, <1>2, <1>4
  <2>2. j \in st.pending \/ tk.log[j].type = "step"
    BY <2>1 DEF Reads
  <2> QED BY <2>1, <2>2
<1> QED BY <1>2, <1>3, <1>4 DEF Reads

LEMMA ReadsElsewhere ==
  ASSUME NEW st \in Streams, NEW n, NEW tk \in Tickets, Reads(st, tk),
         n.sent = st.sent, n.got = st.got, n.pending \in {{}, st.pending},
         n.pc = "closed" => tk.finished
  PROVE  Reads(n, tk)
BY DEF Reads

LEMMA FollowingStep ==
  ASSUME AskInv, StoryInv, NEW s \in Readers, Following(s), StreamNext(s)
  PROVE  Following(s)'
<1> DEFINE st == stream[s]
           n == stream'[s]
           tk == ticket[stream[s].ticket]
<1>1. /\ TypeInv /\ stream \in [Readers -> Streams] /\ st \in Streams /\ StreamReady(s)
      /\ \A t \in Tids : ticket[t] \in Tickets /\ ticket[t].kept \subseteq 1 .. Len(ticket[t].log)
      /\ \A t \in Tids : KeptWhole(ticket[t])
  BY DEF AskInv, TypeInv, StoryInv, Story
<1>2. ticket' = ticket
  BY DEF StreamNext, StreamServe, StreamOpen, StreamLook, StreamWake, StreamEmpty,
     StreamSend, StreamTail, StreamBreak, StoreUnchanged
<1>3. st.ticket \in Tids => Reads(st, tk) /\ tk \in Tickets
  BY <1>1 DEF Following
<1>4. (n.ticket \in Tids /\ Reads(n, ticket[n.ticket])) => Following(s)'
  BY <1>2, NoneAssumption DEF Following
<1>5. ASSUME NEW t \in Tids, n.ticket = t, n.sent = 0, n.got = {}, n.pending = {}, n.pc # "closed"
      PROVE  Following(s)'
  <2> HIDE DEF st, n, tk
  <2> QED BY <1>1, <1>4, <1>5, StartsReading
<1>6. ASSUME NEW t \in Tids, NEW oid \in Oids, StreamOpen(s, t, oid) PROVE Following(s)'
  <2>1. CASE stream' = [stream EXCEPT ![s] = [NoStream EXCEPT !.pc = "look", !.ticket = t]]
    <3>1. n.ticket = t /\ n.sent = 0 /\ n.got = {} /\ n.pending = {} /\ n.pc # "closed"
      BY <1>1, <2>1 DEF NoStream
    <3> QED BY <1>5, <3>1
  <2>2. CASE stream[s].ticket = t /\ Become(s, "look")
    <3>1. /\ n.ticket = st.ticket /\ n.sent = st.sent /\ n.got = st.got /\ n.pending = st.pending
          /\ n.pc = "look"
      BY <1>1, <2>2 DEF Become, Streams
    <3> HIDE DEF st, n, tk
    <3>2. Reads(n, tk)
      BY <1>1, <1>3, <2>2, <3>1, ReadsElsewhere DEF st
    <3> QED BY <1>4, <2>2, <3>1, <3>2 DEF st, tk
  <2> QED BY <1>6, <2>1, <2>2 DEF StreamOpen
<1>7. ASSUME NEW pc, Snapshot(s, pc), pc # "closed", st.pc # "idle" PROVE Following(s)'
  <2>1. st.ticket \in Tids
    BY <1>1, <1>7 DEF StreamReady
  <2>2. /\ n.ticket = st.ticket /\ n.sent = st.sent /\ n.got = st.got
        /\ n.pending = {i \in tk.kept : i > st.sent} /\ n.pc # "closed"
    BY <1>1, <1>7 DEF Snapshot, Pending, Streams
  <2>3. tk \in Tickets /\ Reads(st, tk) /\ KeptWhole(tk) /\ tk.kept \subseteq 1 .. Len(tk.log)
    BY <1>1, <1>3, <2>1
  <2> HIDE DEF st, n, tk
  <2>4. Reads(n, tk)
    BY <1>1, <2>2, <2>3, TakesPending
  <2> QED BY <1>4, <2>1, <2>2, <2>4 DEF st, tk
<1>8. CASE StreamSend(s)
  <2>1. PICK i \in st.pending :
          /\ \A j \in st.pending : i <= j
          /\ stream' = [stream EXCEPT
               ![s].sent = i,
               ![s].got = @ \cup {i},
               ![s].pending = @ \ {i},
               ![s].pc = IF stream[s].pending = {i} THEN "tail" ELSE "send"]
    BY <1>8 DEF StreamSend
  <2>2. st.ticket \in Tids
    BY <1>1, <1>8 DEF StreamReady, StreamSend
  <2>3. /\ n.ticket = st.ticket /\ n.sent = i /\ n.got = st.got \cup {i}
        /\ n.pending = st.pending \ {i} /\ n.pc # "closed"
    BY <1>1, <2>1 DEF Streams
  <2> HIDE DEF st, n, tk
  <2>4. Reads(n, tk)
    BY <1>1, <1>3, <2>1, <2>2, <2>3, SendsLeast
  <2> QED BY <1>4, <2>2, <2>3, <2>4 DEF st, tk
<1>9. CASE StreamEmpty(s) \/ StreamTail(s) \/ StreamBreak(s)
  <2>1. st.ticket \in Tids
    BY <1>1, <1>9 DEF StreamReady, StreamEmpty, StreamTail, StreamBreak
  <2>2. /\ n.ticket = st.ticket /\ n.sent = st.sent /\ n.got = st.got
        /\ n.pending \in {{}, st.pending} /\ (n.pc = "closed" => tk.finished)
    <3>1. CASE StreamEmpty(s) \/ StreamTail(s)
      BY <1>1, <3>1, StreamUpdate DEF StreamEmpty, StreamTail, Finished
    <3>2. CASE StreamBreak(s)
      BY <1>1, <3>2 DEF StreamBreak, Streams
    <3> QED BY <1>9, <3>1, <3>2
  <2> HIDE DEF st, n, tk
  <2>3. Reads(n, tk)
    BY <1>1, <1>3, <2>1, <2>2, ReadsElsewhere
  <2> QED BY <1>4, <2>1, <2>2, <2>3 DEF st, tk
<1> QED BY <1>6, <1>7, <1>8, <1>9 DEF StreamNext, StreamServe, StreamLook, StreamWake

LEMMA FollowingNext ==
  ASSUME AskInv, StoryInv, [Next]_vars, NEW s \in Readers, Following(s)
  PROVE  Following(s)'
<1>1. CASE StreamNext(s)
  BY <1>1, FollowingStep
<1>2. CASE ~StreamNext(s)
  <2>1. stream'[s] = stream[s]
    <3>1. stream \in [Readers -> Streams]
      BY DEF AskInv, TypeInv
    <3>2. ASSUME NEW u \in Readers, u # s, StreamNext(u) PROVE stream'[s] = stream[s]
      BY <3>1, <3>2 DEF StreamNext, StreamServe, StreamOpen, StreamLook, StreamWake, StreamEmpty,
         StreamSend, StreamTail, StreamBreak, Snapshot, Become
    <3>3. ASSUME NEW t \in Tids, RunNext(t) PROVE stream' = stream
      BY <3>3 DEF RunNext, RunAccept, RunOpenBranch, RunAsk, RunRaises, RunPoll, RunTurn, RunStep,
         RunMilestone, RunCloseBranch, RunTerminal, RunRemember, RunDone, RunAudit, RunRelease, Quiet
    <3>4. ASSUME NEW h \in Handlers, AskNext(h) PROVE stream' = stream
      BY <3>4 DEF AskNext, AskLookup, AskNoQuestion, AskConflict, AskAdmit, AskRespond,
         AskRespondFails, AskStart
    <3>5. ASSUME \/ \E c \in Cids, oid \in Oids : Open(c, oid)
                 \/ \E t \in Cancellable, oid \in Oids : Cancel(t, oid)
                 \/ Tick \/ Reap \/ UNCHANGED vars
          PROVE  stream' = stream
      BY <3>5 DEF Open, Cancel, Tick, Reap, vars
    <3> QED BY <1>2, <3>2, <3>3, <3>4, <3>5 DEF Next
  <2>2. CASE stream[s].ticket \in Tids
    <3> DEFINE t == stream[s].ticket
    <3>1. /\ stream[s] \in Streams /\ ticket[t] \in Tickets /\ ticket'[t] \in Tickets
          /\ Reads(stream[s], ticket[t])
      BY <2>2, TypeNext DEF AskInv, TypeInv, Following
    <3>2. Grows(ticket[t], ticket'[t])
      BY <2>2, TicketsGrow
    <3>3. Reads(stream[s], ticket'[t])
      BY <3>1, <3>2, ReadsOn
    <3> QED BY <2>1, <2>2, <3>3, NoneAssumption DEF Following
  <2>3. CASE stream[s].ticket \notin Tids
    BY <2>1, <2>3 DEF Following
  <2> QED BY <2>2, <2>3
<1> QED BY <1>1, <1>2

\* Through drops, disconnects and resumes a reader has every event up to the
\* last frame it got but for dropped steps, and is left only when the run is
\* finished.
THEOREM ReadersLoseNothing == Spec => []ReaderLossless
<1>1. Init => \A s \in Readers : Following(s)
  <2> SUFFICES ASSUME Init, NEW s \in Readers PROVE Following(s)
    OBVIOUS
  <2>1. /\ stream[s].ticket = None /\ stream[s].sent = 0 /\ stream[s].got = {}
        /\ stream[s].pending = {}
    BY DEF Init, NoStream
  <2> QED BY <2>1, NoneAssumption DEF Following
<1>2. /\ AskInv /\ StoryInv /\ (\A s \in Readers : Following(s)) /\ [Next]_vars
      => (\A s \in Readers : Following(s))'
  BY FollowingNext
<1>3. AskInv /\ (\A s \in Readers : Following(s)) => ReaderLossless
  <2> SUFFICES ASSUME AskInv, NEW s \in Readers, Following(s)
               PROVE  /\ stream[s].got \subseteq 1 .. stream[s].sent
                      /\ \A i \in 1 .. stream[s].sent :
                           i \in stream[s].got \/ ticket[stream[s].ticket].log[i].type = "step"
                      /\ \A i \in stream[s].pending : i > stream[s].sent
                      /\ stream[s].pc = "closed" => ticket[stream[s].ticket].finished
    BY DEF ReaderLossless, ClosedAfterFinish
  <2>1. stream[s] \in Streams /\ StreamReady(s)
    BY DEF AskInv, TypeInv
  <2>2. CASE stream[s].ticket = None
    BY <2>1, <2>2, NoneAssumption DEF Following, StreamReady
  <2>3. CASE stream[s].ticket \in Tids
    <3>1. Reads(stream[s], ticket[stream[s].ticket]) /\ stream[s].sent \in Nat
      BY <2>1, <2>3 DEF Following, Streams
    <3> QED BY <3>1 DEF Reads
  <2> QED BY <2>1, <2>2, <2>3 DEF Streams
<1> QED BY <1>1, <1>2, <1>3, AskInvariant, StoryInvariant, PTL DEF Spec
=============================================================================
