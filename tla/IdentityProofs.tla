--------------------------- MODULE IdentityProofs ----------------------------
(* What TLAPS proves of the identities of a request, in both                 *)
(* implementations: of TokenKeys, for any number of threads and keys and any *)
(* lifetime of the document and of a read; and of Credential, for any number *)
(* of threads, users, sources and scopes and any times for which a call ends *)
(* within the margin a cached token must still have.                         *)
EXTENDS TokenKeys, Credential, TLAPS

-----------------------------------------------------------------------------
(* The keys a token is verified with.                                        *)

Verifications == [pc : {"idle", "fetch", "set", "stamp", "known", "unknown", "failed"},
                  kid : Kids \cup {Never}, got : SUBSET Kids, since : Time]

Since(k) == keyTimes[k].from
Until(k) == keyTimes[k].until

(* A set is as the authority had it no earlier than at a time: what it holds *)
(* was not withdrawn before, what it lacks was not published before.         *)
AsOf(set, time) ==
    \A k \in Kids :
        /\ k \in set /\ Until(k) # Never => Until(k) >= time
        /\ k \notin set /\ Since(k) # Never /\ Until(k) = Never => Since(k) >= time

(* What a thread relies on where it is.  Between the two assignments no time *)
(* passes: whoever set the document last, its time is not yet too late.      *)
VerifyRelies(v) ==
    /\ v.pc \notin {"idle", "failed"} => v.kid \in Kids
    /\ v.pc \in {"fetch", "set"} => v.since <= now /\ now - v.since <= CallMax
    /\ v.pc = "set" => AsOf(v.got, v.since)
    /\ v.pc = "stamp" => AsOf(keys, now - CallMax)
    /\ impl = "py" /\ v.pc = "known" =>
           \/ Until(v.kid) = Never
           \/ now - Until(v.kid) <= KeysTtl + CallMax
    /\ v.pc = "unknown" =>
           \/ Since(v.kid) = Never
           \/ Until(v.kid) # Never
           \/ now - Since(v.kid) <= KeysTtl + CallMax

KeysInv ==
    /\ now \in Time
    /\ KeysType
    /\ keysAt <= now
    /\ AsOf(keys, keysAt - CallMax)
    /\ \A k \in Kids : /\ Since(k) # Never => Since(k) <= now
                       /\ Until(k) # Never => Until(k) <= now
    /\ \A t \in Threads : VerifyRelies(verifies[t])

LEMMA KeyNumbers ==
  ASSUME KeysInv
  PROVE  /\ CallMax \in Nat /\ KeysTtl \in Nat /\ now \in Nat /\ keysAt \in Nat
         /\ \A k \in Kids : /\ Since(k) # Never => Since(k) \in Nat
                            /\ Until(k) # Never => Until(k) \in Nat
BY TimesAssumption, KeysAssumption DEF KeysInv, KeysType, Time, Since, Until

(* A set as of a time is one as of any earlier time.                         *)
LEMMA Earlier ==
  ASSUME KeysInv, NEW set, NEW later \in Int, NEW earlier \in Int, earlier <= later, AsOf(set, later)
  PROVE  AsOf(set, earlier)
BY KeyNumbers DEF AsOf

LEMMA NobodyVerifies == NoVerify \in Verifications /\ NoVerify.pc = "idle"
BY TimesAssumption DEF NoVerify, Verifications, Time

LEMMA KeysStart == BaseInit /\ KeysInit => KeysInv
<1> SUFFICES ASSUME BaseInit, KeysInit PROVE KeysInv
  OBVIOUS
<1>1. now = 0 /\ keysAt = 0 /\ keys = {} /\ 0 \in Time /\ CallMax \in Nat
  BY TimesAssumption DEF BaseInit, KeysInit, Time
<1>2. \A t \in Threads : verifies[t] = NoVerify
  BY DEF KeysInit
<1>3. \A k \in Kids : /\ keyTimes[k] \in [from : Time \cup {Never}, until : Time \cup {Never}]
                      /\ Since(k) \in {0, Never} /\ Until(k) = Never
  BY <1>1 DEF KeysInit, Since, Until
<1>4. KeysType
  <2>1. verifies \in [Threads -> Verifications]
    BY NobodyVerifies DEF KeysInit
  <2>2. keyTimes \in [Kids -> [from : Time \cup {Never}, until : Time \cup {Never}]]
    BY <1>3 DEF KeysInit
  <2> QED BY <1>1, <2>1, <2>2 DEF KeysType, Verifications
<1>5. AsOf(keys, keysAt - CallMax)
  BY <1>1, <1>3 DEF AsOf
<1>6. VerifyRelies(NoVerify)
  BY NobodyVerifies DEF VerifyRelies
<1> QED BY <1>1, <1>2, <1>3, <1>4, <1>5, <1>6 DEF KeysInv

(* One thread's step that leaves the document as it is.                      *)
LEMMA VerifierMoves ==
  ASSUME KeysInv, NEW t \in Threads, NEW v \in Verifications,
         verifies' = [verifies EXCEPT ![t] = v],
         VerifyRelies(v),
         UNCHANGED <<impl, now, keys, keysAt, keyTimes>>
  PROVE  KeysInv'
<1>1. verifies' \in [Threads -> Verifications]
  BY DEF KeysInv, KeysType, Verifications
<1>2. \A u \in Threads : verifies'[u] = IF u = t THEN v ELSE verifies[u]
  BY DEF KeysInv, KeysType
<1>3. \A u \in Threads : VerifyRelies(verifies[u])'
  BY <1>2 DEF KeysInv, VerifyRelies, AsOf, Since, Until
<1>4. KeysType'
  BY <1>1 DEF KeysInv, KeysType, Verifications
<1> QED BY <1>3, <1>4 DEF KeysInv, AsOf, Since, Until

(* The answer the set in use gives, when it is as of long enough ago.        *)
LEMMA Answered ==
  ASSUME KeysInv, NEW kid \in Kids,
         NEW pc \in {"known", "unknown"}, pc = (IF kid \in keys THEN "known" ELSE "unknown"),
         \/ AsOf(keys, now - KeysTtl - CallMax)
         \/ impl = "go" /\ kid \in keys
  PROVE  LET v == [NoVerify EXCEPT !.kid = kid, !.pc = pc] IN
         v \in Verifications /\ VerifyRelies(v) /\ v.pc \in {"known", "unknown"}
<1> DEFINE v == [NoVerify EXCEPT !.kid = kid, !.pc = pc]
<1>1. v.pc = pc /\ v.kid = kid
  BY DEF NoVerify
<1>2. v \in Verifications
  BY NobodyVerifies DEF Verifications
<1> HIDE DEF v
<1>3. impl = "py" /\ pc = "known" => Until(kid) = Never \/ now - Until(kid) <= KeysTtl + CallMax
  BY KeyNumbers DEF AsOf
<1>4. pc = "unknown" => \/ Since(kid) = Never
                        \/ Until(kid) # Never
                        \/ now - Since(kid) <= KeysTtl + CallMax
  BY KeyNumbers DEF AsOf
<1>5. VerifyRelies(v)
  BY <1>1, <1>3, <1>4 DEF VerifyRelies
<1> USE DEF v
<1> QED BY <1>1, <1>2, <1>5

LEMMA VerifyKeeps ==
  ASSUME KeysInv, NEW t \in Threads, NEW kid \in Kids, Verify(t, kid), UNCHANGED <<impl, now>>
  PROVE  KeysInv'
<1>1. UNCHANGED <<keys, keysAt, keyTimes>>
  BY DEF Verify
<1>2. CASE Settled(kid)
  <2> DEFINE pc == IF kid \in keys THEN "known" ELSE "unknown"
             v == [NoVerify EXCEPT !.kid = kid, !.pc = pc]
  <2>1. verifies' = [verifies EXCEPT ![t] = v]
    BY <1>2 DEF Verify, Outcome
  <2>2. Young => AsOf(keys, now - KeysTtl - CallMax)
    <3>1. Young => keysAt - CallMax >= now - KeysTtl - CallMax
      BY KeyNumbers DEF Young
    <3>2. keysAt - CallMax \in Int /\ now - KeysTtl - CallMax \in Int
      BY KeyNumbers
    <3> QED BY <3>1, <3>2, Earlier DEF KeysInv
  <2>3. \/ AsOf(keys, now - KeysTtl - CallMax)
        \/ impl = "go" /\ kid \in keys
    BY <1>2, <2>2 DEF Settled
  <2>4. v \in Verifications /\ VerifyRelies(v)
    BY <2>3, Answered
  <2> HIDE DEF v
  <2> QED BY <1>1, <2>1, <2>4, VerifierMoves
<1>3. CASE ~Settled(kid)
  <2> DEFINE v == [NoVerify EXCEPT !.pc = "fetch", !.kid = kid, !.since = now]
  <2>1. verifies' = [verifies EXCEPT ![t] = v]
    BY <1>3 DEF Verify
  <2>2. v \in Verifications /\ v.pc = "fetch" /\ v.kid = kid /\ v.since = now
    BY DEF NoVerify, Verifications, KeysInv
  <2> HIDE DEF v
  <2>3. VerifyRelies(v)
    BY <2>2, KeyNumbers DEF VerifyRelies
  <2> QED BY <1>1, <2>1, <2>2, <2>3, VerifierMoves
<1> QED BY <1>2, <1>3

LEMMA ReadKeeps ==
  ASSUME KeysInv, NEW t \in Threads, KeysRead(t), UNCHANGED <<impl, now>>
  PROVE  KeysInv'
<1> DEFINE old == verifies[t]
           v == [old EXCEPT !.pc = "set", !.got = Published]
<1>1. verifies' = [verifies EXCEPT ![t] = v] /\ UNCHANGED <<keys, keysAt, keyTimes>>
  BY DEF KeysRead
<1>2. old \in Verifications /\ old.pc = "fetch" /\ VerifyRelies(old)
  BY DEF KeysRead, Verifying, KeysInv, KeysType, Verifications
<1>3. Published \subseteq Kids
  BY DEF Published
<1>4. /\ v \in Verifications /\ v.pc = "set" /\ v.kid = old.kid /\ v.since = old.since
      /\ v.got = Published
  BY <1>2, <1>3 DEF Verifications
<1> HIDE DEF v
<1>5. AsOf(Published, old.since)
  BY DEF AsOf, Published, Since, Until
<1>6. VerifyRelies(v)
  BY <1>2, <1>4, <1>5 DEF VerifyRelies
<1> QED BY <1>1, <1>4, <1>6, VerifierMoves

LEMMA QuietKeeps ==
  ASSUME KeysInv, NEW t \in Threads, KeysFail(t) \/ VerifyReturn(t), UNCHANGED <<impl, now>>
  PROVE  KeysInv'
<1> DEFINE failed == [NoVerify EXCEPT !.pc = "failed"]
<1>1. failed \in Verifications /\ failed.pc = "failed"
  BY TimesAssumption DEF NoVerify, Verifications, Time
<1>2. CASE KeysFail(t)
  <2>1. verifies' = [verifies EXCEPT ![t] = failed] /\ UNCHANGED <<keys, keysAt, keyTimes>>
    BY <1>2 DEF KeysFail
  <2> HIDE DEF failed
  <2>2. VerifyRelies(failed)
    BY <1>1 DEF VerifyRelies
  <2> QED BY <1>1, <2>1, <2>2, VerifierMoves
<1>3. CASE VerifyReturn(t)
  <2>1. verifies' = [verifies EXCEPT ![t] = NoVerify] /\ UNCHANGED <<keys, keysAt, keyTimes>>
    BY <1>3 DEF VerifyReturn
  <2>2. VerifyRelies(NoVerify)
    BY NobodyVerifies DEF VerifyRelies
  <2> QED BY <2>1, <2>2, NobodyVerifies, VerifierMoves
<1> QED BY <1>2, <1>3

LEMMA SetKeeps ==
  ASSUME KeysInv, NEW t \in Threads, KeysSet(t), UNCHANGED <<impl, now>>
  PROVE  KeysInv'
<1> DEFINE old == verifies[t]
           v == [old EXCEPT !.pc = "stamp"]
<1>1. /\ old \in Verifications /\ old.pc = "set" /\ VerifyRelies(old)
      /\ old.since \in Nat
  BY TimesAssumption DEF KeysSet, Verifying, KeysInv, KeysType, Verifications, Time
<1>2. /\ verifies' = [verifies EXCEPT ![t] = v] /\ keys' = old.got
      /\ keysAt' = now \/ keysAt' = keysAt
      /\ UNCHANGED keyTimes
  BY DEF KeysSet
<1>3. v \in Verifications /\ v.pc = "stamp" /\ v.kid = old.kid
  BY <1>1 DEF Verifications
<1> HIDE DEF v
<1>4. AsOf(old.got, now - CallMax)
  <2>1. AsOf(old.got, old.since) /\ now - CallMax <= old.since
    BY <1>1, KeyNumbers DEF VerifyRelies
  <2>2. now - CallMax \in Int /\ old.since \in Int
    BY <1>1, KeyNumbers
  <2> QED BY <2>1, <2>2, Earlier
<1>5. AsOf(old.got, keysAt - CallMax)
  <2>1. keysAt - CallMax <= now - CallMax /\ keysAt - CallMax \in Int /\ now - CallMax \in Int
    BY KeyNumbers DEF KeysInv
  <2> QED BY <1>4, <2>1, Earlier
<1>7. \A set, time : AsOf(set, time) => (\A k \in Kids :
          /\ k \in set /\ Until(k)' # Never => Until(k)' >= time
          /\ k \notin set /\ Since(k)' # Never /\ Until(k)' = Never => Since(k)' >= time)
  BY <1>2 DEF AsOf, Since, Until
<1>8. AsOf(keys, keysAt - CallMax)' /\ AsOf(keys, now - CallMax)'
  BY <1>2, <1>4, <1>5, <1>7 DEF AsOf
<1>9. verifies' \in [Threads -> Verifications]
      /\ \A u \in Threads : verifies'[u] = IF u = t THEN v ELSE verifies[u]
  BY <1>2, <1>3 DEF KeysInv, KeysType, Verifications
<1>10. ASSUME NEW u \in Threads
       PROVE  VerifyRelies(verifies[u])'
  <2>1. CASE u = t
    <3>1. verifies'[u] = v /\ v.kid \in Kids
      BY <1>1, <1>3, <1>9, <2>1 DEF VerifyRelies
    <3> QED BY <1>3, <1>8, <3>1 DEF VerifyRelies
  <2>2. CASE u # t
    <3>1. verifies'[u] = verifies[u] /\ VerifyRelies(verifies[u])
      BY <1>9, <2>2 DEF KeysInv
    <3>2. verifies[u].pc = "set" => AsOf(verifies[u].got, verifies[u].since)'
      BY <1>2, <3>1 DEF VerifyRelies, AsOf, Since, Until
    <3> QED BY <1>2, <1>8, <3>1, <3>2 DEF VerifyRelies, Since, Until
  <2> QED BY <2>1, <2>2
<1>11. KeysType' /\ keysAt' <= now'
  BY <1>1, <1>2, <1>9, KeyNumbers DEF KeysInv, KeysType, Verifications
<1> QED BY <1>2, <1>8, <1>10, <1>11 DEF KeysInv, Since, Until

LEMMA StampKeeps ==
  ASSUME KeysInv, NEW t \in Threads, KeysStamp(t), UNCHANGED <<impl, now>>
  PROVE  KeysInv'
<1> DEFINE kid == verifies[t].kid
           pc == IF kid \in keys THEN "known" ELSE "unknown"
           v == [NoVerify EXCEPT !.kid = kid, !.pc = pc]
<1>1. /\ verifies' = [verifies EXCEPT ![t] = v]
      /\ keysAt' = now \/ keysAt' = keysAt
      /\ UNCHANGED <<keys, keyTimes>>
  BY DEF KeysStamp, Outcome
<1>2. verifies[t].pc = "stamp" /\ kid \in Kids /\ AsOf(keys, now - CallMax)
  BY DEF KeysStamp, Verifying, KeysInv, VerifyRelies
<1>3. AsOf(keys, now - KeysTtl - CallMax)
  <2>1. /\ now - KeysTtl - CallMax <= now - CallMax
        /\ now - KeysTtl - CallMax \in Int /\ now - CallMax \in Int
    BY KeyNumbers
  <2> QED BY <1>2, <2>1, Earlier
<1> HIDE DEF kid
<1>4. v \in Verifications /\ VerifyRelies(v) /\ v.pc \in {"known", "unknown"}
  BY <1>2, <1>3, Answered
<1> HIDE DEF v
<1>5. verifies' \in [Threads -> Verifications]
      /\ \A u \in Threads : verifies'[u] = IF u = t THEN v ELSE verifies[u]
  BY <1>1, <1>4 DEF KeysInv, KeysType, Verifications
<1>6. ASSUME NEW u \in Threads
      PROVE  VerifyRelies(verifies[u])'
  <2>1. VerifyRelies(verifies[u]) /\ VerifyRelies(v)
    BY <1>4 DEF KeysInv
  <2>2. verifies'[u] = v \/ verifies'[u] = verifies[u]
    BY <1>5
  <2> QED BY <1>1, <2>1, <2>2 DEF VerifyRelies, AsOf, Since, Until
<1>7. AsOf(keys, keysAt - CallMax)'
  BY <1>1, <1>2 DEF KeysInv, AsOf, Since, Until
<1>8. KeysType' /\ keysAt' <= now'
  BY <1>1, <1>5, KeyNumbers DEF KeysInv, KeysType, Verifications
<1> QED BY <1>1, <1>6, <1>7, <1>8 DEF KeysInv, Since, Until

(* What the authority does now is later than any time a set is held to be    *)
(* as of.                                                                    *)
LEMMA AuthorityKeeps ==
  ASSUME KeysInv, NEW k \in Kids, Publish(k) \/ Withdraw(k), UNCHANGED <<impl, now>>
  PROVE  KeysInv'
<1>1. UNCHANGED <<keys, keysAt, verifies>>
  BY DEF Publish, Withdraw
<1>2. keyTimes[k] \in [from : Time \cup {Never}, until : Time \cup {Never}] /\ now \in Time
  BY DEF KeysInv, KeysType
<1>3. /\ keyTimes' \in [Kids -> [from : Time \cup {Never}, until : Time \cup {Never}]]
      /\ \A j \in Kids \ {k} : Since(j)' = Since(j) /\ Until(j)' = Until(j)
  <2>1. keyTimes \in [Kids -> [from : Time \cup {Never}, until : Time \cup {Never}]]
    BY DEF KeysInv, KeysType
  <2>2. CASE Publish(k)
    BY <1>2, <2>1, <2>2 DEF Publish, Since, Until
  <2>3. CASE Withdraw(k)
    BY <1>2, <2>1, <2>3 DEF Withdraw, Since, Until
  <2> QED BY <2>2, <2>3
<1>4. \/ Since(k) = Never /\ Since(k)' = now /\ Until(k)' = Until(k)
      \/ Since(k)' = Since(k) /\ Since(k) # Never /\ Until(k) = Never /\ Until(k)' = now
  BY <1>2 DEF Publish, Withdraw, Published, Since, Until, KeysInv, KeysType
<1>5. now \in Nat /\ now # Never /\ CallMax \in Nat /\ KeysTtl \in Nat
  BY KeyNumbers, TimesAssumption
<1>6. ASSUME NEW set, NEW time \in Int, time <= now, AsOf(set, time)
      PROVE  AsOf(set, time)'
  BY <1>3, <1>4, <1>5, <1>6 DEF AsOf
<1>7. \A j \in Kids : /\ Since(j)' # Never => Since(j)' <= now
                      /\ Until(j)' # Never => Until(j)' <= now
  BY <1>3, <1>4, <1>5 DEF KeysInv
<1>8. KeysType'
  BY <1>1, <1>3 DEF KeysInv, KeysType
<1>9. AsOf(keys, keysAt - CallMax)'
  <2>1. keysAt - CallMax \in Int /\ keysAt - CallMax <= now
    BY KeyNumbers DEF KeysInv
  <2> QED BY <1>1, <1>6, <2>1 DEF KeysInv
<1>10. ASSUME NEW t \in Threads
       PROVE  VerifyRelies(verifies[t])'
  <2> DEFINE v == verifies[t]
  <2>1. VerifyRelies(v) /\ v.since \in Nat
    BY TimesAssumption DEF KeysInv, KeysType, Time
  <2> QED BY <1>1, <1>3, <1>4, <1>5, <1>6, <2>1 DEF VerifyRelies
<1> QED BY <1>1, <1>7, <1>8, <1>9, <1>10 DEF KeysInv

LEMMA KeysTickKeeps ==
  ASSUME KeysInv, Tick, KeysMayTick, UNCHANGED keyVars
  PROVE  KeysInv'
<1>1. now' = now + 1 /\ now' \in Time /\ UNCHANGED <<impl, keys, keysAt, verifies, keyTimes>>
  BY TimesAssumption DEF Tick, keyVars, KeysInv, Time
<1>2. ASSUME NEW t \in Threads
      PROVE  VerifyRelies(verifies[t])'
  <2>1. VerifyRelies(verifies[t]) /\ verifies[t].since \in Nat
    BY TimesAssumption DEF KeysInv, KeysType, Time
  <2>2. \/ verifies[t].pc = "idle"
        \/ verifies[t].pc \in {"fetch", "set"} /\ now - verifies[t].since < CallMax
    BY DEF KeysMayTick, Verifying
  <2> QED BY <1>1, <2>1, <2>2, KeyNumbers DEF VerifyRelies, AsOf, Since, Until
<1>3. \A k \in Kids : /\ Since(k)' # Never => Since(k)' <= now'
                      /\ Until(k)' # Never => Until(k)' <= now'
  BY <1>1, KeyNumbers DEF KeysInv, Since, Until
<1>4. AsOf(keys, keysAt - CallMax)'
  BY <1>1 DEF KeysInv, AsOf, Since, Until
<1>5. keysAt' <= now' /\ KeysType'
  BY <1>1, KeyNumbers DEF KeysInv, KeysType
<1> QED BY <1>1, <1>2, <1>3, <1>4, <1>5 DEF KeysInv

LEMMA KeysSteps == KeysInv /\ [KeysNext]_<<impl, now, keyVars>> => KeysInv'
<1> SUFFICES ASSUME KeysInv, [KeysNext]_<<impl, now, keyVars>> PROVE KeysInv'
  OBVIOUS
<1>1. ASSUME NEW t \in Threads, KeysStep(t), UNCHANGED <<impl, now>>
      PROVE  KeysInv'
  BY <1>1, VerifyKeeps, ReadKeeps, QuietKeeps, SetKeeps, StampKeeps DEF KeysStep
<1>2. ASSUME NEW k \in Kids, Publish(k) \/ Withdraw(k), UNCHANGED <<impl, now>>
      PROVE  KeysInv'
  BY <1>2, AuthorityKeeps
<1>3. CASE Tick /\ KeysMayTick /\ UNCHANGED keyVars
  BY <1>3, KeysTickKeeps
<1>4. CASE UNCHANGED <<impl, now, keyVars>>
  BY <1>4 DEF keyVars, KeysInv, KeysType, VerifyRelies, AsOf, Since, Until
<1> QED BY <1>1, <1>2, <1>3, <1>4 DEF KeysNext

(* In Python a withdrawn key is refused, and in both a published one is      *)
(* known, one lifetime of the document and one read later: although the      *)
(* document and its time are assigned in turn, and threads overwrite each    *)
(* other's (_jwks of app.py, key of token.go).                               *)
THEOREM RotationsSeenInTime == KeysSpec => []KeysInTime
<1>1. KeysInv => KeysInTime
  BY DEF KeysInv, VerifyRelies, KeysInTime, WithdrawnRefused, PublishedKnown, Verifying, Since, Until
<1> QED BY <1>1, KeysStart, KeysSteps, PTL DEF KeysSpec

-----------------------------------------------------------------------------
(* The credential of a source.                                               *)

Exchanges == [pc : {"idle", "done", "failed"} \cup CallSteps,
              user : Users \cup {Never}, source : Sources \cup {Never},
              token : Tokens, since : Time, failing : BOOLEAN]

(* A cached token is its key's user's, and is believed alive no longer than  *)
(* one call more than it is.                                                 *)
Cached(token, u, x) ==
    token # NoToken =>
        /\ token.user = u
        /\ impl = "py" /\ x \in Sources => token.scope = ScopeOf[x]
        /\ token.until - CallMax <= token.exp

(* What a thread relies on where it is.                                      *)
ExchangeRelies(e) ==
    /\ e.pc # "idle" => e.user \in Users /\ e.source \in Sources
    /\ e.pc \in CallSteps => e.since <= now /\ now - e.since <= CallMax
    /\ e.pc \in {"arrive", "done"} =>
           /\ e.token.user = e.user
           /\ impl = "py" => e.token.scope = ScopeOf[e.source]
    /\ e.pc = "arrive" => e.token.exp = e.since + Life
    /\ e.pc = "done" => e.token.exp > now
    /\ impl = "py" /\ e.pc \in {"vaultId", "vault", "secret"} => e.failing \/ ~world.federates
    /\ impl = "py" /\ e.pc = "failed" => e.failing \/ (~world.federates /\ ~world.holds)

CredentialInv ==
    /\ now \in Time
    /\ obo \in [Keys -> Tokens]
    /\ exchanges \in [Threads -> Exchanges]
    /\ secret \in {"unread", "known", "none"}
    /\ impl = "py" => secret # "none"
    /\ \A u \in Users, x \in Sources \cup Scopes : Cached(obo[<<u, x>>], u, x)
    /\ \A t \in Threads : ExchangeRelies(exchanges[t])

LEMMA CredentialNumbers == CallMax \in Nat /\ Life \in Nat /\ Margin \in Nat /\ CallMax < Life /\ CallMax <= Margin
BY TimesAssumption, CredentialAssumption

LEMMA Blank == NoToken \in Tokens /\ NoExchange \in Exchanges /\ NoExchange.pc = "idle"
<1>1. 0 \in Time /\ 0 \in Nat
  BY TimesAssumption DEF Time
<1>2. NoToken \in Tokens
  BY <1>1 DEF NoToken, Tokens
<1> QED BY <1>1, <1>2 DEF NoExchange, Exchanges

LEMMA CredentialStart == BaseInit /\ CredentialInit => CredentialInv
<1> SUFFICES ASSUME BaseInit, CredentialInit PROVE CredentialInv
  OBVIOUS
<1>1. now \in Time
  BY TimesAssumption DEF BaseInit, Time
<1>2. \A u \in Users, x \in Sources \cup Scopes : obo[<<u, x>>] = NoToken
  BY DEF CredentialInit, Keys
<1>3. \A t \in Threads : exchanges[t] = NoExchange
  BY DEF CredentialInit
<1>4. ExchangeRelies(NoExchange)
  BY Blank DEF ExchangeRelies, CallSteps
<1> QED BY <1>1, <1>2, <1>3, <1>4, Blank DEF CredentialInv, CredentialInit, Cached

(* One thread's step that leaves the cache as it is.                         *)
LEMMA ExchangeMoves ==
  ASSUME CredentialInv, NEW t \in Threads, NEW e \in Exchanges,
         exchanges' = [exchanges EXCEPT ![t] = e],
         ExchangeRelies(e),
         secret' \in {"unread", "known", "none"}, impl = "py" => secret' # "none",
         UNCHANGED <<impl, now, obo, world>>
  PROVE  CredentialInv'
<1>1. exchanges' \in [Threads -> Exchanges]
  BY DEF CredentialInv
<1>2. \A u \in Threads : exchanges'[u] = IF u = t THEN e ELSE exchanges[u]
  BY DEF CredentialInv
<1>3. \A u \in Threads : ExchangeRelies(exchanges[u])'
  BY <1>2 DEF CredentialInv, ExchangeRelies
<1> QED BY <1>1, <1>3 DEF CredentialInv, Cached

(* A thread goes on to another place of its exchange.                        *)
LEMMA Going ==
  ASSUME CredentialInv, NEW t \in Threads, NEW pc \in {"done", "failed"} \cup CallSteps
  PROVE  LET e == Goes(t, pc) IN
         /\ e \in Exchanges
         /\ e.pc = pc /\ e.since = now /\ e.user = exchanges[t].user
         /\ e.source = exchanges[t].source /\ e.token = exchanges[t].token
         /\ e.failing = exchanges[t].failing
BY DEF Goes, CredentialInv, Exchanges

LEMMA OnwardRelies ==
  ASSUME CredentialInv, NEW e \in Exchanges, e.pc \in CallSteps \ {"arrive"},
         e.since = now, e.user \in Users, e.source \in Sources,
         impl = "py" /\ e.pc \in {"vaultId", "vault", "secret"} => e.failing \/ ~world.federates
  PROVE  ExchangeRelies(e)
<1>1. now \in Nat /\ now - now <= CallMax
  BY CredentialNumbers, TimesAssumption DEF CredentialInv, Time
<1> QED BY <1>1 DEF ExchangeRelies, CallSteps

LEMMA FailedRelies ==
  ASSUME CredentialInv, NEW e \in Exchanges, e.pc = "failed",
         e.user \in Users, e.source \in Sources,
         impl = "py" => e.failing \/ (~world.federates /\ ~world.holds)
  PROVE  ExchangeRelies(e)
BY DEF ExchangeRelies, CallSteps

LEMMA Calling ==
  ASSUME CredentialInv, NEW t \in Threads, Where(t) # "idle"
  PROVE  exchanges[t] \in Exchanges /\ ExchangeRelies(exchanges[t])
         /\ exchanges[t].user \in Users /\ exchanges[t].source \in Sources
BY DEF CredentialInv, ExchangeRelies, Where

LEMMA KeyIn ==
  ASSUME NEW u \in Users, NEW s \in Sources
  PROVE  /\ Key(u, s) \in Keys
         /\ \E x \in Sources \cup Scopes : Key(u, s) = <<u, x>> /\ (impl = "py" => x = s)
BY CredentialAssumption DEF Key, Keys

LEMMA AskKeeps ==
  ASSUME CredentialInv, NEW t \in Threads, NEW u \in Users, NEW s \in Sources,
         OnBehalfOf(t, u, s), UNCHANGED <<impl, now>>
  PROVE  CredentialInv'
<1> DEFINE held == obo[Key(u, s)]
           token == IF Usable(held) THEN held ELSE NoToken
           pc == IF Usable(held) THEN "done" ELSE IF "exchange" \in identity THEN "exchange" ELSE "assert"
           e == [NoExchange EXCEPT !.user = u, !.source = s, !.since = now, !.token = token, !.pc = pc]
<1>1. exchanges' = [exchanges EXCEPT ![t] = e] /\ UNCHANGED <<obo, secret, world>>
  BY DEF OnBehalfOf, Becomes
<1>2. now \in Time /\ now \in Nat
  BY TimesAssumption DEF CredentialInv, Time
<1>3. held \in Tokens
  BY KeyIn DEF CredentialInv
<1>4. Usable(held) =>
          /\ held.user = u
          /\ impl = "py" => held.scope = ScopeOf[s]
          /\ held.exp > now
  <2> SUFFICES ASSUME Usable(held)
               PROVE  held.user = u /\ (impl = "py" => held.scope = ScopeOf[s]) /\ held.exp > now
    OBVIOUS
  <2>1. PICK x \in Sources \cup Scopes : Key(u, s) = <<u, x>> /\ (impl = "py" => x = s)
    BY KeyIn
  <2>2. Cached(held, u, x)
    BY <2>1 DEF CredentialInv
  <2>3. held # NoToken /\ held.until - Margin > now
    BY DEF Usable
  <2>4. held.until \in Nat /\ held.exp \in Nat
    BY <1>3 DEF Tokens
  <2> HIDE DEF held
  <2>5. held.user = u /\ (impl = "py" => held.scope = ScopeOf[s]) /\ held.until - CallMax <= held.exp
    BY <2>1, <2>2, <2>3 DEF Cached
  <2> QED BY <1>2, <2>3, <2>4, <2>5, CredentialNumbers
<1>5. /\ pc \in {"done", "exchange", "assert"} /\ token \in Tokens
      /\ pc = "done" => Usable(held) /\ token = held
  BY <1>3, Blank
<1> HIDE DEF held, token, pc
<1>6. /\ e.pc = pc /\ e.user = u /\ e.source = s /\ e.since = now /\ e.token = token
      /\ e.failing = FALSE
  BY DEF NoExchange
<1>7. e \in Exchanges
  BY <1>2, <1>5 DEF NoExchange, Exchanges, CallSteps
<1> HIDE DEF e
<1>8. CASE pc = "done"
  <2>1. ExchangeRelies(e)
    BY <1>4, <1>5, <1>6, <1>8 DEF ExchangeRelies, CallSteps
  <2> QED BY <1>1, <1>7, <2>1, ExchangeMoves DEF CredentialInv
<1>9. CASE pc # "done"
  <2>1. ExchangeRelies(e)
    BY <1>5, <1>6, <1>7, <1>9, OnwardRelies DEF CallSteps
  <2> QED BY <1>1, <1>7, <2>1, ExchangeMoves DEF CredentialInv
<1> QED BY <1>8, <1>9

LEMMA IdentifiedKeeps ==
  ASSUME CredentialInv, NEW t \in Threads, Identified(t), UNCHANGED <<impl, now>>
  PROVE  CredentialInv'
<1> DEFINE pc == IF Where(t) = "assert" THEN "exchange" ELSE "vault"
           e == Goes(t, pc)
<1>1. exchanges' = [exchanges EXCEPT ![t] = e] /\ UNCHANGED <<obo, secret, world>>
      /\ Where(t) \in {"assert", "vaultId"}
  BY DEF Identified, Becomes
<1>2. pc \in {"exchange", "vault"} /\ (pc = "vault" => Where(t) = "vaultId")
  BY <1>1
<1> HIDE DEF pc
<1>3. /\ e \in Exchanges /\ e.pc = pc /\ e.since = now /\ e.user = exchanges[t].user
      /\ e.source = exchanges[t].source /\ e.failing = exchanges[t].failing
  BY <1>2, Going DEF CallSteps
<1> HIDE DEF e
<1>4. ExchangeRelies(exchanges[t]) /\ exchanges[t].user \in Users /\ exchanges[t].source \in Sources
  BY <1>1, Calling
<1>5. impl = "py" /\ pc = "vault" => exchanges[t].failing \/ ~world.federates
  BY <1>2, <1>4 DEF ExchangeRelies, Where
<1>6. ExchangeRelies(e)
  BY <1>2, <1>3, <1>4, <1>5, OnwardRelies DEF CallSteps
<1> QED BY <1>1, <1>3, <1>6, ExchangeMoves DEF CredentialInv

LEMMA IssuedKeeps ==
  ASSUME CredentialInv, NEW t \in Threads, Issued(t), UNCHANGED <<impl, now>>
  PROVE  CredentialInv'
<1> DEFINE user == exchanges[t].user
           scope == ScopeAsked(exchanges[t].source)
           token == [user |-> user, scope |-> scope, exp |-> now + Life, until |-> 0]
           g == Goes(t, "arrive")
           e == [g EXCEPT !.token = token]
<1>1. exchanges' = [exchanges EXCEPT ![t] = e] /\ UNCHANGED <<obo, secret, world>> /\ Where(t) # "idle"
  BY DEF Issued, Becomes
<1>2. user \in Users /\ exchanges[t].source \in Sources
  BY <1>1, Calling
<1>3. scope \in Scopes /\ (impl = "py" => scope = ScopeOf[exchanges[t].source])
  BY <1>2, CredentialAssumption DEF ScopeAsked
<1>4. now \in Time /\ now \in Nat /\ now + Life \in Nat
  BY TimesAssumption, CredentialNumbers DEF CredentialInv, Time
<1>5. /\ g \in Exchanges /\ g.pc = "arrive" /\ g.since = now /\ g.user = user
      /\ g.source = exchanges[t].source
  BY Going DEF CallSteps
<1> HIDE DEF g, scope
<1>6. /\ token \in Tokens /\ token.user = user /\ token.scope = scope /\ token.exp = now + Life
  BY <1>2, <1>3, <1>4 DEF Tokens
<1> HIDE DEF token
<1>7. /\ e \in Exchanges /\ e.pc = "arrive" /\ e.since = now /\ e.user = user
      /\ e.source = exchanges[t].source /\ e.token = token
  BY <1>5, <1>6 DEF Exchanges
<1> HIDE DEF e
<1>8. ExchangeRelies(e)
  BY <1>2, <1>3, <1>4, <1>6, <1>7, CredentialNumbers DEF ExchangeRelies, CallSteps
<1> QED BY <1>1, <1>7, <1>8, ExchangeMoves DEF CredentialInv

LEMMA ArrivedKeeps ==
  ASSUME CredentialInv, NEW t \in Threads, Arrived(t), UNCHANGED <<impl, now>>
  PROVE  CredentialInv'
<1> DEFINE old == exchanges[t]
           token == [old.token EXCEPT !.until = now + Life]
           g == Goes(t, "done")
           e == [g EXCEPT !.token = token]
<1>1. /\ obo' = [obo EXCEPT ![Key(old.user, old.source)] = token]
      /\ exchanges' = [exchanges EXCEPT ![t] = e]
      /\ UNCHANGED <<secret, world>> /\ old.pc = "arrive"
  BY DEF Arrived, Becomes, Where
<1>2. old \in Exchanges /\ ExchangeRelies(old) /\ old.user \in Users /\ old.source \in Sources
  BY <1>1, Calling DEF Where
<1>3. now \in Nat /\ now \in Time /\ now + Life \in Nat /\ old.since \in Nat /\ old.token \in Tokens
  BY <1>2, CredentialNumbers, TimesAssumption DEF CredentialInv, Exchanges, Time
<1>4. /\ now - old.since <= CallMax /\ old.token.exp = old.since + Life /\ old.since <= now
      /\ old.token.user = old.user
      /\ impl = "py" => old.token.scope = ScopeOf[old.source]
  BY <1>1, <1>2 DEF ExchangeRelies, CallSteps
<1>5. g \in Exchanges /\ g.pc = "done" /\ g.since = now /\ g.user = old.user /\ g.source = old.source
  BY Going
<1> HIDE DEF g, old
<1>6. /\ token \in Tokens /\ token.user = old.token.user /\ token.scope = old.token.scope
      /\ token.exp = old.token.exp /\ token.until = now + Life
  BY <1>3 DEF Tokens
<1> HIDE DEF token
<1>7. /\ e \in Exchanges /\ e.pc = "done" /\ e.user = old.user /\ e.source = old.source
      /\ e.token = token
  BY <1>5, <1>6 DEF Exchanges
<1> HIDE DEF e
<1>8. token.exp > now /\ token.until - CallMax <= token.exp
  BY <1>3, <1>4, <1>6, CredentialNumbers
<1>9. ExchangeRelies(e)
  BY <1>2, <1>4, <1>6, <1>7, <1>8 DEF ExchangeRelies, CallSteps
<1>10. exchanges' \in [Threads -> Exchanges] /\ \A u \in Threads : ExchangeRelies(exchanges[u])'
  BY <1>1, <1>7, <1>9 DEF CredentialInv, ExchangeRelies
<1>11. PICK y \in Sources \cup Scopes :
           Key(old.user, old.source) = <<old.user, y>> /\ (impl = "py" => y = old.source)
  BY <1>2, KeyIn
<1>12. obo' \in [Keys -> Tokens]
  BY <1>1, <1>6 DEF CredentialInv
<1>13. ASSUME NEW u \in Users, NEW x \in Sources \cup Scopes
       PROVE  Cached(obo[<<u, x>>], u, x)'
  <2>1. CASE u = old.user /\ x = y
    <3>1. obo'[<<u, x>>] = token
      BY <1>1, <1>11, <2>1 DEF CredentialInv, Keys
    <3> QED BY <1>1, <1>4, <1>6, <1>8, <1>11, <2>1, <3>1 DEF Cached
  <2>2. CASE ~(u = old.user /\ x = y)
    <3>1. obo'[<<u, x>>] = obo[<<u, x>>]
      BY <1>1, <1>11, <2>2 DEF CredentialInv, Keys
    <3> QED BY <3>1 DEF CredentialInv, Cached
  <2> QED BY <2>1, <2>2
<1> QED BY <1>1, <1>10, <1>12, <1>13 DEF CredentialInv

(* Where the fallback goes on.                                               *)
LEMMA FallbackGoes ==
  ASSUME CredentialInv, NEW t \in Threads
  PROVE  \E pc \in {"secret", "failed", "vault", "vaultId"} :
             Fallback(t) = Goes(t, pc) /\ (impl = "py" => pc # "failed")
<1>1. CASE secret = "known"
  BY <1>1 DEF Fallback
<1>2. CASE secret = "none"
  BY <1>2 DEF Fallback, CredentialInv
<1>3. CASE secret = "unread"
  BY <1>3 DEF Fallback
<1> QED BY <1>1, <1>2, <1>3 DEF CredentialInv

LEMMA NotFederatedKeeps ==
  ASSUME CredentialInv, NEW t \in Threads, NotFederated(t), UNCHANGED <<impl, now>>
  PROVE  CredentialInv'
<1>1. PICK pc \in {"secret", "failed", "vault", "vaultId"} :
          Fallback(t) = Goes(t, pc) /\ (impl = "py" => pc # "failed")
  BY FallbackGoes
<1> DEFINE e == Goes(t, pc)
<1>2. exchanges' = [exchanges EXCEPT ![t] = e] /\ UNCHANGED <<obo, secret, world>>
      /\ Where(t) # "idle" /\ ~world.federates
  BY <1>1 DEF NotFederated, Becomes
<1>3. exchanges[t].user \in Users /\ exchanges[t].source \in Sources
  BY <1>2, Calling
<1>4. /\ e \in Exchanges /\ e.pc = pc /\ e.since = now /\ e.user = exchanges[t].user
      /\ e.source = exchanges[t].source
  BY Going DEF CallSteps
<1> HIDE DEF e
<1>5. ExchangeRelies(e)
  BY <1>1, <1>2, <1>3, <1>4, OnwardRelies, FailedRelies DEF CallSteps
<1> QED BY <1>2, <1>4, <1>5, ExchangeMoves DEF CredentialInv

LEMMA SecretReadKeeps ==
  ASSUME CredentialInv, NEW t \in Threads, SecretRead(t), UNCHANGED <<impl, now>>
  PROVE  CredentialInv'
<1> DEFINE e == Goes(t, "secret")
<1>1. exchanges' = [exchanges EXCEPT ![t] = e] /\ UNCHANGED <<obo, world>>
      /\ secret' = "known" /\ Where(t) = "vault"
  BY DEF SecretRead, Becomes
<1>2. /\ e \in Exchanges /\ e.pc = "secret" /\ e.since = now /\ e.user = exchanges[t].user
      /\ e.source = exchanges[t].source /\ e.failing = exchanges[t].failing
  BY Going DEF CallSteps
<1> HIDE DEF e
<1>3. ExchangeRelies(exchanges[t]) /\ exchanges[t].user \in Users /\ exchanges[t].source \in Sources
  BY <1>1, Calling
<1>4. ExchangeRelies(e)
  BY <1>1, <1>2, <1>3, OnwardRelies DEF CallSteps, ExchangeRelies, Where
<1> QED BY <1>1, <1>2, <1>4, ExchangeMoves

LEMMA SecretMissingKeeps ==
  ASSUME CredentialInv, NEW t \in Threads, SecretMissing(t), UNCHANGED <<impl, now>>
  PROVE  CredentialInv'
<1> DEFINE e == Goes(t, "failed")
<1>1. exchanges' = [exchanges EXCEPT ![t] = e] /\ UNCHANGED <<obo, world>>
      /\ secret' = SecretAfterFailure /\ Where(t) = "vault" /\ ~world.holds
  BY DEF SecretMissing, Becomes
<1>2. /\ e \in Exchanges /\ e.pc = "failed" /\ e.user = exchanges[t].user
      /\ e.source = exchanges[t].source /\ e.failing = exchanges[t].failing
  BY Going
<1> HIDE DEF e
<1>3. ExchangeRelies(exchanges[t]) /\ exchanges[t].user \in Users /\ exchanges[t].source \in Sources
  BY <1>1, Calling
<1>4. impl = "py" => exchanges[t].failing \/ (~world.federates /\ ~world.holds)
  BY <1>1, <1>3 DEF ExchangeRelies, Where
<1>5. ExchangeRelies(e)
  BY <1>2, <1>3, <1>4, FailedRelies
<1>6. secret' \in {"unread", "known", "none"} /\ (impl = "py" => secret' # "none")
  BY <1>1 DEF SecretAfterFailure, CredentialInv
<1> QED BY <1>1, <1>2, <1>5, <1>6, ExchangeMoves

LEMMA FailKeeps ==
  ASSUME CredentialInv, NEW t \in Threads, NEW answered \in BOOLEAN,
         CallFails(t, answered), UNCHANGED <<impl, now>>
  PROVE  CredentialInv'
<1>1. UNCHANGED <<obo, world>> /\ Where(t) # "idle"
  BY DEF CallFails, CallSteps
<1>2. exchanges[t].user \in Users /\ exchanges[t].source \in Sources
  BY <1>1, Calling
<1>3. ASSUME NEW pc \in {"secret", "failed", "vault", "vaultId"},
             exchanges' = [exchanges EXCEPT ![t] = [Goes(t, pc) EXCEPT !.failing = TRUE]],
             secret' = secret \/ secret' = SecretAfterFailure
      PROVE  CredentialInv'
  <2> DEFINE g == Goes(t, pc)
             e == [g EXCEPT !.failing = TRUE]
  <2>1. exchanges' = [exchanges EXCEPT ![t] = e]
    BY <1>3
  <2>2. /\ g \in Exchanges /\ g.pc = pc /\ g.since = now /\ g.user = exchanges[t].user
        /\ g.source = exchanges[t].source
    BY Going DEF CallSteps
  <2> HIDE DEF g
  <2>3. /\ e \in Exchanges /\ e.pc = pc /\ e.since = now /\ e.user = exchanges[t].user
        /\ e.source = exchanges[t].source /\ e.failing = TRUE
    BY <2>2 DEF Exchanges
  <2> HIDE DEF e
  <2>6. ASSUME pc = "failed" PROVE ExchangeRelies(e)
    <3>1. e.failing \/ (~world.federates /\ ~world.holds)
      BY <2>3, Zenon
    <3>2. e.pc = "failed" /\ e.user \in Users /\ e.source \in Sources
      BY <1>2, <2>3, <2>6
    <3>3. e \in Exchanges
      BY <2>3
    <3> QED BY <3>1, <3>2, <3>3, FailedRelies
  <2>7. ASSUME pc # "failed" PROVE ExchangeRelies(e)
    <3>1. e.failing \/ ~world.federates
      BY <2>3, Zenon
    <3>2. e.pc \in CallSteps \ {"arrive"} /\ e.since = now /\ e.user \in Users /\ e.source \in Sources
      BY <1>2, <2>3, <2>7 DEF CallSteps
    <3>3. e \in Exchanges
      BY <2>3
    <3> QED BY <3>1, <3>2, <3>3, OnwardRelies
  <2>4. ExchangeRelies(e)
    BY <2>6, <2>7
  <2>5. secret' \in {"unread", "known", "none"} /\ (impl = "py" => secret' # "none")
    BY <1>3 DEF SecretAfterFailure, CredentialInv
  <2> QED BY <1>1, <2>1, <2>3, <2>4, <2>5, ExchangeMoves
<1>4. PICK back \in {"secret", "failed", "vault", "vaultId"} : Fallback(t) = Goes(t, back)
  BY FallbackGoes
<1>5. \E pc \in {"secret", "failed", "vault", "vaultId"} :
          exchanges' = [exchanges EXCEPT ![t] = [Goes(t, pc) EXCEPT !.failing = TRUE]]
          /\ (secret' = secret \/ secret' = SecretAfterFailure)
  <2>1. CASE impl = "py" /\ ~answered
    BY <2>1 DEF CallFails, Becomes
  <2>2. CASE ~(impl = "py" /\ ~answered) /\ Where(t) \in {"assert", "exchange"}
    BY <1>4, <2>2 DEF CallFails, Becomes
  <2>3. CASE ~(impl = "py" /\ ~answered) /\ Where(t) \in {"vaultId", "vault"}
    BY <2>3 DEF CallFails, Becomes
  <2>4. CASE ~(impl = "py" /\ ~answered) /\ Where(t) = "secret"
    BY <2>4 DEF CallFails, Becomes
  <2> QED BY <2>1, <2>2, <2>3, <2>4 DEF CallFails, CallSteps
<1> QED BY <1>3, <1>5

LEMMA ReturnKeeps ==
  ASSUME CredentialInv, NEW t \in Threads, ExchangeReturn(t), UNCHANGED <<impl, now>>
  PROVE  CredentialInv'
<1>1. exchanges' = [exchanges EXCEPT ![t] = NoExchange] /\ UNCHANGED <<obo, secret, world>>
  BY DEF ExchangeReturn, Becomes
<1>2. ExchangeRelies(NoExchange)
  BY Blank DEF ExchangeRelies, CallSteps
<1> QED BY <1>1, <1>2, Blank, ExchangeMoves DEF CredentialInv

LEMMA CredentialTickKeeps ==
  ASSUME CredentialInv, Tick, CredentialMayTick, UNCHANGED credentialVars
  PROVE  CredentialInv'
<1>1. now \in Nat /\ now' = now + 1 /\ now' \in Time /\ UNCHANGED <<obo, secret, exchanges, world, impl>>
  BY TimesAssumption DEF Tick, credentialVars, CredentialInv, Time
<1>2. ASSUME NEW t \in Threads
      PROVE  ExchangeRelies(exchanges[t])'
  <2>1. ExchangeRelies(exchanges[t]) /\ exchanges[t].since \in Nat
    BY TimesAssumption DEF CredentialInv, Exchanges, Time
  <2>2. \/ exchanges[t].pc = "idle"
        \/ exchanges[t].pc \in CallSteps /\ now - exchanges[t].since < CallMax
    BY DEF CredentialMayTick, Where
  <2> QED BY <1>1, <2>1, <2>2, CredentialNumbers DEF ExchangeRelies, CallSteps
<1> QED BY <1>1, <1>2 DEF CredentialInv, Cached

LEMMA CredentialSteps ==
  CredentialInv /\ [CredentialNext]_<<impl, now, credentialVars>> => CredentialInv'
<1> SUFFICES ASSUME CredentialInv, [CredentialNext]_<<impl, now, credentialVars>>
             PROVE  CredentialInv'
  OBVIOUS
<1>1. ASSUME NEW t \in Threads, CredentialStep(t), UNCHANGED <<impl, now>>
      PROVE  CredentialInv'
  BY <1>1, AskKeeps, IdentifiedKeeps, IssuedKeeps, ArrivedKeeps, NotFederatedKeeps,
     SecretReadKeeps, SecretMissingKeeps, FailKeeps, ReturnKeeps DEF CredentialStep
<1>2. CASE Tick /\ CredentialMayTick /\ UNCHANGED credentialVars
  BY <1>2, CredentialTickKeeps
<1>3. CASE UNCHANGED <<impl, now, credentialVars>>
  BY <1>3 DEF credentialVars, CredentialInv, ExchangeRelies, Cached
<1> QED BY <1>1, <1>2, <1>3 DEF CredentialNext

LEMMA CredentialAlways == CredentialSpec => []CredentialInv
BY CredentialStart, CredentialSteps, PTL DEF CredentialSpec

(* A source is reached as the user who asks, whatever the cache all threads  *)
(* share holds and however their exchanges overlap (on_behalf_of of          *)
(* credential.py, OnBehalfOf of credential.go).                              *)
THEOREM SourceReachedAsAsker == CredentialSpec => []TokenOfAsker
<1>1. CredentialInv => TokenOfAsker
  BY DEF CredentialInv, ExchangeRelies, TokenOfAsker, Where
<1> QED BY <1>1, CredentialAlways, PTL

(* A token is alive when it is handed over, since the margin a cached one    *)
(* must have covers the call its life was counted too late by.               *)
THEOREM TokenAliveWhenHanded == CredentialSpec => []AliveWhenHanded
<1>1. CredentialInv => AliveWhenHanded
  BY DEF CredentialInv, ExchangeRelies, AliveWhenHanded, Where
<1> QED BY <1>1, CredentialAlways, PTL

(* Both: what a source is handed is the asker's token, and alive.            *)
THEOREM LiveTokenOfAsker == CredentialSpec => []TokenHanded
  BY SourceReachedAsAsker, TokenAliveWhenHanded, PTL DEF TokenHanded

(* In Python an exchange fails by its own call or for want of any            *)
(* credential, never because another's failure was remembered.               *)
THEOREM FailsByItself == CredentialSpec => []OwnFailureOnly
<1>1. CredentialInv => OwnFailureOnly
  BY DEF CredentialInv, ExchangeRelies, OwnFailureOnly, Where
<1> QED BY <1>1, CredentialAlways, PTL
=============================================================================
