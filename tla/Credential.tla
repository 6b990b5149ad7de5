----------------------------- MODULE Credential -----------------------------
(***************************************************************************)
(* The token a source is reached with on the asking user's behalf, cached  *)
(* for every thread (class Credential of credential.py, credential.go).    *)
(* The exchange is authenticated by a federated assertion, and failing     *)
(* that by a secret from the vault.  The platform's own identity tokens    *)
(* outlive the horizon of the model.                                       *)
(***************************************************************************)
EXTENDS ExecutorBase

CONSTANTS Users, Sources, Scopes,
          ScopeOf,         \* Source.obo_scope: each source asks for its own
          GlobalScope,     \* DAS_SQL_SCOPE: what the Go executor asks for
          Life,            \* expires_in
          Margin,          \* the 60 s a cached token must still have
          MaxExchanges,    \* bound: how many tokens are asked for
          MaxFaults        \* bound: calls that fail for a while

ASSUME CredentialAssumption ==
    /\ ScopeOf \in [Sources -> Scopes]
    /\ GlobalScope \in Scopes
    /\ Life \in Nat /\ CallMax < Life
    /\ Margin \in Nat /\ CallMax <= Margin

VARIABLES obo,             \* _cache, tokens: the exchanged ones
          identity,        \* and the service's own, by what they are for
          secret,          \* _secret; secret and secretKnown: "none" is known to be empty
          exchanges,       \* one thread's on_behalf_of
          world,           \* what the authority and the vault accept
          asked, faults

credentialVars == <<obo, identity, secret, exchanges, world, asked, faults>>

Keys == Users \X (Sources \cup Scopes)
Key_NoUser(u, s) == IF impl = "py" THEN <<CHOOSE v \in Users : TRUE, s>> ELSE <<u, GlobalScope>>
Key(u, s) == IF impl = "py" THEN <<u, s>> ELSE <<u, GlobalScope>>
ScopeAsked(s) == IF impl = "py" THEN ScopeOf[s] ELSE GlobalScope

(* exp is when the authority holds the token expired, until when the cache does. *)
NoToken == [user |-> Never, scope |-> Never, exp |-> 0, until |-> 0]
Tokens == [user : Users \cup {Never}, scope : Scopes \cup {Never}, exp : Nat, until : Nat]
NoExchange == [pc |-> "idle", user |-> Never, source |-> Never, token |-> NoToken,
               since |-> 0, failing |-> FALSE]

CallSteps == {"assert", "exchange", "vaultId", "vault", "secret", "arrive"}

CredentialType ==
    /\ obo \in [Keys -> Tokens]
    /\ identity \in SUBSET {"exchange", "vault"}
    /\ secret \in {"unread", "known", "none"}
    /\ exchanges \in [Threads -> [pc : {"idle", "done", "failed"} \cup CallSteps,
                                  user : Users \cup {Never}, source : Sources \cup {Never},
                                  token : Tokens, since : Time, failing : BOOLEAN]]
    /\ world \in [federates : BOOLEAN, holds : BOOLEAN]
    /\ asked \in 0 .. MaxExchanges
    /\ faults \in 0 .. MaxFaults

CredentialInit ==
    /\ obo = [k \in Keys |-> NoToken]
    /\ identity = {}
    /\ secret = "unread"
    /\ exchanges = [t \in Threads |-> NoExchange]
    /\ world \in [federates : BOOLEAN, holds : BOOLEAN]
    /\ asked = 0
    /\ faults = 0

Where(t) == exchanges[t].pc
Goes(t, pc) == [exchanges[t] EXCEPT !.pc = pc, !.since = now]
Becomes(t, e) == exchanges' = [exchanges EXCEPT ![t] = e]

Usable(token) == token # NoToken /\ token.until - Margin > now

OnBehalfOf(t, u, s) ==
    /\ Where(t) = "idle"
    /\ asked < MaxExchanges
    /\ asked' = asked + 1
    /\ Becomes(t, [NoExchange EXCEPT
           !.user = u, !.source = s, !.since = now,
           !.token = IF Usable(obo[Key(u, s)]) THEN obo[Key(u, s)] ELSE NoToken,
           !.pc = IF Usable(obo[Key(u, s)]) THEN "done"
                  ELSE IF "exchange" \in identity THEN "exchange" ELSE "assert"])
    /\ UNCHANGED <<obo, identity, secret, world, faults>>

(* The fallback: a secret known or still to be read, one call after another. *)
Fallback(t) ==
    CASE secret = "known"  -> Goes(t, "secret")
      [] secret = "none"   -> Goes(t, "failed")
      [] secret = "unread" -> Goes(t, IF "vault" \in identity THEN "vault" ELSE "vaultId")

SecretAfterFailure_Kept == "none"

(* No secret.  Python asks the vault again next time; Go keeps the answer, *)
(* a failed call's too, over one another thread may have read meanwhile.   *)
SecretAfterFailure == IF impl = "go" THEN "none" ELSE secret

(* Each call out, as it is answered. *)
Identified(t) ==
    /\ Where(t) \in {"assert", "vaultId"}
    /\ identity' = identity \cup {IF Where(t) = "assert" THEN "exchange" ELSE "vault"}
    /\ Becomes(t, Goes(t, IF Where(t) = "assert" THEN "exchange" ELSE "vault"))
    /\ UNCHANGED <<obo, secret, world, asked, faults>>

Issued(t) ==
    /\ Where(t) = "secret" \/ (Where(t) = "exchange" /\ world.federates)
    /\ Becomes(t, [Goes(t, "arrive") EXCEPT
           !.token = [user |-> exchanges[t].user, scope |-> ScopeAsked(exchanges[t].source),
                      exp |-> now + Life, until |-> 0]])
    /\ UNCHANGED <<obo, identity, secret, world, asked, faults>>

(* The life of a token is counted from when the answer has arrived. *)
Arrived(t) ==
    /\ Where(t) = "arrive"
    /\ LET e == exchanges[t]
           token == [e.token EXCEPT !.until = now + Life] IN
       /\ obo' = [obo EXCEPT ![Key(e.user, e.source)] = token]
       /\ Becomes(t, [Goes(t, "done") EXCEPT !.token = token])
    /\ UNCHANGED <<identity, secret, world, asked, faults>>

NotFederated(t) ==
    /\ Where(t) = "exchange"
    /\ ~world.federates
    /\ Becomes(t, Fallback(t))
    /\ UNCHANGED <<obo, identity, secret, world, asked, faults>>

SecretRead(t) ==
    /\ Where(t) = "vault"
    /\ world.holds
    /\ secret' = "known"
    /\ Becomes(t, Goes(t, "secret"))
    /\ UNCHANGED <<obo, identity, world, asked, faults>>

SecretMissing(t) ==
    /\ Where(t) = "vault"
    /\ ~world.holds
    /\ secret' = SecretAfterFailure
    /\ Becomes(t, Goes(t, "failed"))
    /\ UNCHANGED <<obo, identity, world, asked, faults>>

(* A call that fails.  Python goes on only after an answer that is an      *)
(* error (TokenError); a call with no answer ends the exchange.            *)
CallFails(t, answered) ==
    /\ Where(t) \in CallSteps \ {"arrive"}
    /\ faults < MaxFaults
    /\ faults' = faults + 1
    /\ LET ended(e) == [e EXCEPT !.failing = TRUE] IN
       IF impl = "py" /\ ~answered
       THEN Becomes(t, ended(Goes(t, "failed"))) /\ UNCHANGED secret
       ELSE CASE Where(t) \in {"assert", "exchange"} ->
                     Becomes(t, ended(Fallback(t))) /\ UNCHANGED secret
              [] Where(t) \in {"vaultId", "vault"} ->
                     /\ secret' = SecretAfterFailure
                     /\ Becomes(t, ended(Goes(t, "failed")))
              [] Where(t) = "secret" ->
                     Becomes(t, ended(Goes(t, "failed"))) /\ UNCHANGED secret
    /\ UNCHANGED <<obo, identity, world, asked>>

ExchangeReturn(t) ==
    /\ Where(t) \in {"done", "failed"}
    /\ Becomes(t, NoExchange)
    /\ UNCHANGED <<obo, identity, secret, world, asked, faults>>

CredentialMayTick ==
    \A t \in Threads : \/ Where(t) = "idle"
                       \/ Where(t) \in CallSteps /\ now - exchanges[t].since < CallMax

CredentialStep(t) ==
    \/ \E u \in Users, s \in Sources : OnBehalfOf(t, u, s)
    \/ Identified(t) \/ Issued(t) \/ Arrived(t) \/ NotFederated(t)
    \/ SecretRead(t) \/ SecretMissing(t)
    \/ \E answered \in BOOLEAN : CallFails(t, answered)
    \/ ExchangeReturn(t)

CredentialNext == \/ (\E t \in Threads : CredentialStep(t)) /\ UNCHANGED <<impl, now>>
                  \/ Tick /\ CredentialMayTick /\ UNCHANGED credentialVars

CredentialSpec == BaseInit /\ CredentialInit /\ [][CredentialNext]_<<impl, now, credentialVars>>

-----------------------------------------------------------------------------
(* Whatever the cache holds and whoever else is exchanging, a source is    *)
(* reached as the user who asks, in Python with the scope of that source.  *)
TokenOfAsker ==
    \A t \in Threads :
        Where(t) = "done" =>
            /\ exchanges[t].token.user = exchanges[t].user
            /\ impl = "py" => exchanges[t].token.scope = ScopeOf[exchanges[t].source]

(* A token is alive when it is handed over, although its life is counted   *)
(* from its arrival (on_behalf_of, OnBehalfOf).                            *)
AliveWhenHanded ==
    \A t \in Threads : Where(t) = "done" => exchanges[t].token.exp > now

(* What a source is handed is the asker's, and alive.                      *)
TokenHanded == TokenOfAsker /\ AliveWhenHanded

(* In Python a failure is not remembered: an exchange fails only for want  *)
(* of any credential or by a call of its own.                              *)
OwnFailureOnly ==
    \A t \in Threads :
        impl = "py" /\ Where(t) = "failed" =>
            \/ exchanges[t].failing
            \/ ~world.federates /\ ~world.holds
=============================================================================
