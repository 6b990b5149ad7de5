----------------------------- MODULE TokenKeys -----------------------------
(***************************************************************************)
(* Which keys a caller's token may be signed with: the published document, *)
(* cached by every thread together (_jwks of app.py, TokenVerifier of      *)
(* token.go).  The two implementations ask it different questions: Python  *)
(* whether the document is young, Go whether the key is known.             *)
(***************************************************************************)
EXTENDS ExecutorBase

CONSTANTS Kids,
          KeysTtl          \* the hour a document serves

ASSUME KeysAssumption == KeysTtl \in Nat

VARIABLES keys,            \* _JWKS, TokenVerifier.keys; none: never read
          keysAt,          \* _JWKS_AT, TokenVerifier.fetched
          verifies,        \* one thread's verification
          keyTimes         \* the authority: since when it publishes a key, until when

keyVars == <<keys, keysAt, verifies, keyTimes>>

NoVerify == [pc |-> "idle", kid |-> Never, got |-> {}, since |-> 0]

KeysType ==
    /\ keys \in SUBSET Kids
    /\ keysAt \in Time
    /\ verifies \in [Threads -> [pc : {"idle", "fetch", "set", "stamp", "known", "unknown", "failed"},
                                 kid : Kids \cup {Never}, got : SUBSET Kids, since : Time]]
    /\ keyTimes \in [Kids -> [from : Time \cup {Never}, until : Time \cup {Never}]]

Published == {k \in Kids : keyTimes[k].from # Never /\ keyTimes[k].until = Never}

KeysInit ==
    /\ keys = {}
    /\ keysAt = 0
    /\ verifies = [t \in Threads |-> NoVerify]
    /\ keyTimes \in [Kids -> {[from |-> f, until |-> Never] : f \in {0, Never}}]
    /\ Published # {}

Verifying(t, pc) == verifies[t].pc = pc

(* Whether the key is in the set the thread goes by. *)
Outcome(t, kid, set) ==
    verifies' = [verifies EXCEPT ![t] = [NoVerify EXCEPT !.kid = kid, !.pc =
                                             IF kid \in set THEN "known" ELSE "unknown"]]

Young_Kept == keys # {}
Young == keys # {} /\ now - keysAt < KeysTtl

(* A key Go knows it accepts whatever the document's age; one it does not  *)
(* know it rejects while the document is young.                            *)
Settled(kid) == Young \/ (impl = "go" /\ kid \in keys)

Verify(t, kid) ==
    /\ Verifying(t, "idle")
    /\ IF Settled(kid)
       THEN Outcome(t, kid, keys)
       ELSE verifies' = [verifies EXCEPT ![t] =
                             [NoVerify EXCEPT !.pc = "fetch", !.kid = kid, !.since = now]]
    /\ UNCHANGED <<keys, keysAt, keyTimes>>

KeysRead(t) ==
    /\ Verifying(t, "fetch")
    /\ verifies' = [verifies EXCEPT ![t].pc = "set", ![t].got = Published]
    /\ UNCHANGED <<keys, keysAt, keyTimes>>

KeysFail(t) ==
    /\ Verifying(t, "fetch")
    /\ verifies' = [verifies EXCEPT ![t] = [NoVerify EXCEPT !.pc = "failed"]]
    /\ UNCHANGED <<keys, keysAt, keyTimes>>

(* Python assigns two globals in turn, Go both fields under the lock. *)
KeysSet(t) ==
    /\ Verifying(t, "set")
    /\ keys' = verifies[t].got
    /\ IF impl = "go" THEN keysAt' = now ELSE UNCHANGED keysAt
    /\ verifies' = [verifies EXCEPT ![t].pc = "stamp"]
    /\ UNCHANGED keyTimes

(* What is read back may be what another thread set in between. *)
KeysStamp(t) ==
    /\ Verifying(t, "stamp")
    /\ IF impl = "py" THEN keysAt' = now ELSE UNCHANGED keysAt
    /\ Outcome(t, verifies[t].kid, keys)
    /\ UNCHANGED <<keys, keyTimes>>

VerifyReturn(t) ==
    /\ verifies[t].pc \in {"known", "unknown", "failed"}
    /\ verifies' = [verifies EXCEPT ![t] = NoVerify]
    /\ UNCHANGED <<keys, keysAt, keyTimes>>

(* The authority publishes a key, and withdraws one while another stands. *)
Publish(k) == /\ keyTimes[k].from = Never
              /\ keyTimes' = [keyTimes EXCEPT ![k].from = now]
              /\ UNCHANGED <<keys, keysAt, verifies>>
Withdraw(k) == /\ k \in Published
               /\ Published # {k}
               /\ keyTimes' = [keyTimes EXCEPT ![k].until = now]
               /\ UNCHANGED <<keys, keysAt, verifies>>

KeysMayTick == \A t \in Threads : \/ Verifying(t, "idle")
                                  \/ /\ verifies[t].pc \in {"fetch", "set"}
                                     /\ now - verifies[t].since < CallMax

KeysStep(t) == \/ \E kid \in Kids : Verify(t, kid)
               \/ KeysRead(t) \/ KeysFail(t) \/ KeysSet(t) \/ KeysStamp(t) \/ VerifyReturn(t)

KeysNext == \/ /\ \/ \E t \in Threads : KeysStep(t)
                  \/ \E k \in Kids : Publish(k) \/ Withdraw(k)
               /\ UNCHANGED <<impl, now>>
            \/ Tick /\ KeysMayTick /\ UNCHANGED keyVars

KeysSpec == BaseInit /\ KeysInit /\ [][KeysNext]_<<impl, now, keyVars>>

-----------------------------------------------------------------------------
(* In the Python executor a withdrawn key is good for at most an hour and  *)
(* one read more, though threads set the document and its time in turn.    *)
(* The Go executor promises no such thing: it never asks again about a key *)
(* it knows.                                                               *)
WithdrawnRefused ==
    \A t \in Threads :
        impl = "py" /\ Verifying(t, "known") =>
            \/ keyTimes[verifies[t].kid].until = Never
            \/ now - keyTimes[verifies[t].kid].until <= KeysTtl + CallMax

(* A key the authority has published for longer than that, and still does, *)
(* is not rejected as unknown by either.                                   *)
PublishedKnown ==
    \A t \in Threads :
        Verifying(t, "unknown") =>
            LET times == keyTimes[verifies[t].kid] IN
            \/ times.from = Never
            \/ times.until # Never
            \/ now - times.from <= KeysTtl + CallMax

(* Both, under concurrent reads and any rotation: neither a withdrawn key  *)
(* lives on nor a published one stays unknown beyond an hour and one read. *)
KeysInTime == WithdrawnRefused /\ PublishedKnown
=============================================================================
