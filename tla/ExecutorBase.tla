---------------------------- MODULE ExecutorBase ----------------------------
(***************************************************************************)
(* What the parts of the executor share: which of the two implementations  *)
(* is deployed, the threads that serve requests, and time.  Time passes    *)
(* only in calls out of the process, each of which is bounded by its       *)
(* timeout; a step between two calls takes none.                           *)
(***************************************************************************)
EXTENDS Integers, Sequences, FiniteSets

CONSTANTS Threads,      \* request threads, one request each at a time
          CallMax,      \* the longest a read of a remote document may take
          MaxNow,       \* bound: where the clock stops
          Never         \* a time that does not come

ASSUME TimesAssumption == /\ CallMax \in Nat
                          /\ MaxNow \in Nat
                          /\ Never \notin Nat

VARIABLES impl,         \* "py" (services/warehouse-query-py) or "go"
          now

Time == 0 .. MaxNow
Impls == {"py", "go"}

BaseInit == /\ impl \in Impls
            /\ now = 0

Tick == /\ now < MaxNow
        /\ now' = now + 1
        /\ UNCHANGED impl
=============================================================================
