----------------------------- MODULE AskContract -----------------------------
(* What the ask service promises of its tickets (agent/contract): one ask at *)
(* a time in a conversation; a stream that says accepted, opens the branch,  *)
(* works, closes the branch, gives one outcome and is done, in that order;   *)
(* and no ticket forgotten before it is done.  How threads, locks, hops and  *)
(* retained lists bring that about is AskService's.                          *)

CONSTANTS Conversations, Tickets

VARIABLES
  asked,   \* the asked tickets of each conversation
  phase,   \* how far each ticket's stream has got
  stored   \* the tickets that can still be followed

Phases == {"silent", "accepted", "working", "closed", "decided", "done"}

Init ==
  /\ asked = [c \in Conversations |-> {}]
  /\ phase = [t \in Tickets |-> "silent"]
  /\ stored = {}

\* A conversation takes an ask when every earlier one is done.
Admit(c, t) ==
  /\ \A u \in asked[c] : phase[u] = "done"
  /\ \A d \in Conversations : t \notin asked[d]
  /\ asked' = [asked EXCEPT ![c] = @ \cup {t}]
  /\ stored' = stored \cup {t}
  /\ UNCHANGED phase

Follows(p) ==
  CASE p = "silent"   -> {"accepted"}
    [] p = "accepted" -> {"working"}
    [] p = "working"  -> {"working", "closed"}
    [] p = "closed"   -> {"decided"}
    [] p = "decided"  -> {"done"}
    [] p = "done"     -> {}

Say(t) ==
  /\ \E c \in Conversations : t \in asked[c]
  /\ \E p \in Follows(phase[t]) : phase' = [phase EXCEPT ![t] = p]
  /\ UNCHANGED <<asked, stored>>

Forget ==
  /\ stored' \subseteq stored
  /\ \A t \in stored \ stored' : phase[t] = "done"
  /\ UNCHANGED <<asked, phase>>

Next ==
  \/ \E c \in Conversations, t \in Tickets : Admit(c, t)
  \/ \E t \in Tickets : Say(t)
  \/ Forget

Spec == Init /\ [][Next]_<<asked, phase, stored>>

=============================================================================
