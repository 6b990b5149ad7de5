---------------------------- MODULE ClientProofs ---------------------------
(***************************************************************************)
(* What TLAPS proves of the parts that ask the executor on their own       *)
(* account: of Grounding, for any number of asks and subjects and every    *)
(* life of the cache; of HarnessToken, for every lifetime and slack; of    *)
(* the two jobs, Publisher and Promoter, for any titles, questions,        *)
(* people, columns and words, any thresholds, whatever fails where.        *)
(***************************************************************************)
EXTENDS Grounding, HarnessToken, Promoter, Publisher, FiniteSetTheorems, TLAPS

-----------------------------------------------------------------------------
(* The schemas asks share.                                                   *)

Prefetches == [pc : {"idle", "list", "describe", "done"}, subject : Subjects,
               names : SUBSET Tables, text : SUBSET Entries, since : Moments]
TablesOf(text) == {entry.table : entry \in text}

(* A prefetch under way has not been longer than it may, and has read what   *)
(* it has since it began; what it has and is still to read is within the     *)
(* bound.                                                                    *)
Timely(p) == /\ p.since <= clock
             /\ p.pc \in {"list", "describe"} => clock - p.since <= ReadMax
             /\ p.pc # "describe" => p.names = {}
             /\ p.pc = "list" => p.text = {}
             /\ p.pc = "describe" => \A entry \in p.text : p.since <= entry.at
             /\ p.pc = "done" => \A entry \in p.text : clock - entry.at <= TTL_S + ReadMax
Own(p) == /\ \A entry \in p.text : entry.subject = p.subject
          /\ Cardinality(TablesOf(p.text) \cup p.names) <= MAX_TABLES

(* What is kept for a subject was described to it, within one prefetch.      *)
CacheOwn(cache) ==
    \A s \in Subjects :
        /\ \A entry \in cache[s].text : entry.subject = s /\ cache[s].at - entry.at <= ReadMax
        /\ Cardinality(TablesOf(cache[s].text)) <= MAX_TABLES

GroundingInv == /\ GroundingType
                /\ \A a \in Asks : Timely(prefetch[a]) /\ Own(prefetch[a])
                /\ CacheOwn(schemaCache)

LEMMA NoTables == /\ TablesOf({}) = {} /\ TablesOf({}) \cup {} = {}
                  /\ Cardinality({}) = 0
                  /\ Cardinality(TablesOf({})) = 0 /\ Cardinality(TablesOf({}) \cup {}) = 0
<1>1. TablesOf({}) = {} /\ TablesOf({}) \cup {} = {}
  BY DEF TablesOf
<1>2. Cardinality({}) = 0
  BY FS_EmptySet
<1> QED BY <1>1, <1>2

(* A prefetch of no table yet.                                               *)
LEMMA EmptyFits ==
  ASSUME GroundingType, NEW pc \in {"idle", "list", "done"}, NEW s \in Subjects,
         NEW since \in Moments, since <= clock,
         clock - since <= ReadMax \/ pc # "list"
  PROVE  LET p == [pc |-> pc, subject |-> s, names |-> {}, text |-> {}, since |-> since]
         IN  p \in Prefetches /\ Timely(p) /\ Own(p)
<1> DEFINE p == [pc |-> pc, subject |-> s, names |-> {}, text |-> {}, since |-> since]
<1>1. p \in Prefetches
  BY DEF Prefetches
<1>2. Timely(p)
  BY DEF Timely
<1>3. Cardinality(TablesOf(p.text) \cup p.names) = 0
  BY NoTables
<1>4. Own(p)
  BY <1>3, GroundingAssumption DEF Own
<1> QED BY <1>1, <1>2, <1>4

LEMMA TablesFinite ==
  ASSUME NEW text \in SUBSET Entries
  PROVE  IsFiniteSet(TablesOf(text)) /\ TablesOf(text) \subseteq Tables
<1>1. TablesOf(text) \subseteq Tables
  BY DEF TablesOf, Entries
<1> QED BY <1>1, GroundingAssumption, FS_Subset

LEMMA NoPrefetchFits ==
  ASSUME GroundingType, NEW s \in Subjects
  PROVE  NoPrefetch(s) \in Prefetches /\ Timely(NoPrefetch(s)) /\ Own(NoPrefetch(s))
<1>1. 0 \in Moments /\ 0 <= clock
  BY GroundingAssumption DEF GroundingType, Moments
<1> QED BY <1>1, EmptyFits DEF NoPrefetch

LEMMA GroundingStarts == GroundingInit => GroundingInv
<1> SUFFICES ASSUME GroundingInit PROVE GroundingInv
  OBVIOUS
<1>1. (CHOOSE s \in Subjects : TRUE) \in Subjects
  BY GroundingAssumption
<1>2. GroundingType
  BY <1>1, GroundingAssumption DEF GroundingInit, GroundingType, NoPrefetch, NoEntry, Moments
<1>3. \A a \in Asks : Timely(prefetch[a]) /\ Own(prefetch[a])
  BY <1>1, <1>2, NoPrefetchFits DEF GroundingInit
<1>4. CacheOwn(schemaCache)
  <2>1. \A s \in Subjects : schemaCache[s].text = {}
    BY DEF GroundingInit, NoEntry
  <2> QED BY <2>1, NoTables, GroundingAssumption DEF CacheOwn
<1> QED BY <1>2, <1>3, <1>4 DEF GroundingInv

(* One ask's step, while the clock stands still.                             *)
LEMMA StepOfOne ==
  ASSUME GroundingInv, NEW a \in Asks, NEW p \in Prefetches,
         Timely(p), Own(p), Becomes(a, p), clock' = clock,
         schemaCache' \in [Subjects -> [at : Moments, text : SUBSET Entries]],
         CacheOwn(schemaCache')
  PROVE  GroundingInv'
<1>1. prefetch' \in [Asks -> Prefetches]
  BY DEF GroundingInv, GroundingType, Becomes, Prefetches
<1>2. GroundingType'
  BY <1>1 DEF GroundingInv, GroundingType, Prefetches
<1>3. \A b \in Asks : prefetch'[b] = IF b = a THEN p ELSE prefetch[b]
  BY DEF GroundingInv, GroundingType, Becomes
<1>4. \A b \in Asks : Timely(prefetch[b])' /\ Own(prefetch[b])'
  BY <1>3 DEF GroundingInv, Timely, Own
<1> QED BY <1>2, <1>4 DEF GroundingInv, CacheOwn

LEMMA CacheStands ==
  ASSUME GroundingInv, UNCHANGED schemaCache
  PROVE  /\ schemaCache' \in [Subjects -> [at : Moments, text : SUBSET Entries]]
         /\ CacheOwn(schemaCache')
BY DEF GroundingInv, GroundingType

LEMMA BeginKeeps ==
  ASSUME GroundingInv, NEW a \in Asks, NEW s \in Subjects, Begin(a, s)
  PROVE  GroundingInv'
<1> DEFINE hit == schemaCache[CacheKey(s)]
           setOut == [NoPrefetch(s) EXCEPT !.since = clock]
<1>1. /\ hit.at \in Moments /\ hit.text \in SUBSET Entries
      /\ \A entry \in hit.text : entry.subject = s /\ hit.at - entry.at <= ReadMax
      /\ Cardinality(TablesOf(hit.text)) <= MAX_TABLES
  BY DEF GroundingInv, GroundingType, CacheOwn, CacheKey
<1>2. clock \in Moments /\ clock' = clock /\ UNCHANGED schemaCache
  BY DEF GroundingInv, GroundingType, Begin
<1>3. setOut = [pc |-> "idle", subject |-> s, names |-> {}, text |-> {}, since |-> clock]
  BY DEF NoPrefetch
<1> HIDE DEF setOut
<1>4. ASSUME NEW pc \in {"list", "done"}
      PROVE  /\ [setOut EXCEPT !.pc = pc] \in Prefetches
             /\ Timely([setOut EXCEPT !.pc = pc]) /\ Own([setOut EXCEPT !.pc = pc])
  <2>1. clock <= clock /\ clock - clock <= ReadMax
    BY <1>2, GroundingAssumption DEF Moments
  <2> DEFINE p == [pc |-> pc, subject |-> s, names |-> {}, text |-> {}, since |-> clock]
  <2>2. [setOut EXCEPT !.pc = pc] = p
    BY <1>3
  <2>3. p \in Prefetches /\ Timely(p) /\ Own(p)
    BY <1>2, <2>1, EmptyFits DEF GroundingInv
  <2> HIDE DEF p
  <2> QED BY <2>2, <2>3
<1>5. ASSUME hit.text # {}, clock - hit.at < TTL_S
      PROVE  LET p == [setOut EXCEPT !.pc = "done", !.text = hit.text]
             IN  p \in Prefetches /\ Timely(p) /\ Own(p)
  <2> DEFINE p == [pc |-> "done", subject |-> s, names |-> {}, text |-> hit.text, since |-> clock]
  <2>1. [setOut EXCEPT !.pc = "done", !.text = hit.text] = p
    <3> HIDE DEF hit
    <3> DEFINE e == [pc |-> "done", subject |-> s, names |-> {}, text |-> {}, since |-> clock]
    <3>1. [setOut EXCEPT !.pc = "done"] = e
      BY <1>3
    <3>2. [e EXCEPT !.text = hit.text] = p
      OBVIOUS
    <3>3. [setOut EXCEPT !.pc = "done", !.text = hit.text] = [e EXCEPT !.text = hit.text]
      <4> HIDE DEF e
      <4> QED BY <3>1
    <3> QED BY <3>2, <3>3
  <2>2. p \in Prefetches
    BY <1>1, <1>2 DEF Prefetches
  <2>3. \A entry \in hit.text : clock - entry.at <= TTL_S + ReadMax
    BY <1>1, <1>2, <1>5, GroundingAssumption DEF Entries, Moments
  <2>4. Timely(p)
    BY <1>2, <2>3 DEF Timely, Moments
  <2>5. TablesOf(p.text) \cup p.names = TablesOf(hit.text)
    OBVIOUS
  <2>6. Own(p)
    BY <1>1, <2>5 DEF Own
  <2> QED BY <2>1, <2>2, <2>4, <2>6
<1> HIDE DEF hit
<1>6. \/ Becomes(a, [setOut EXCEPT !.pc = "done"])
      \/ hit.text # {} /\ clock - hit.at < TTL_S
           /\ Becomes(a, [setOut EXCEPT !.pc = "done", !.text = hit.text])
      \/ Becomes(a, [setOut EXCEPT !.pc = "list"])
  BY DEF Begin, setOut, hit
<1> QED BY <1>2, <1>4, <1>5, <1>6, CacheStands, StepOfOne

LEMMA ListKeeps ==
  ASSUME GroundingInv, NEW a \in Asks, List(a)
  PROVE  GroundingInv'
<1> DEFINE old == prefetch[a]
<1>1. old \in Prefetches /\ Timely(old) /\ Own(old) /\ old.pc = "list" /\ old.text = {}
  BY DEF GroundingInv, GroundingType, Prefetches, List, Timely
<1>2. clock \in Moments /\ clock' = clock /\ UNCHANGED schemaCache
  BY DEF GroundingInv, GroundingType, List
<1>3. PICK listed \in SUBSET Tables :
        IF Cardinality(listed) > MAX_TABLES THEN Prompts(a, {})
        ELSE Becomes(a, [old EXCEPT !.pc = "describe", !.names = listed])
  BY DEF List
<1>4. CASE Prompts(a, {})
  <2> DEFINE p == [old EXCEPT !.pc = "done", !.names = {}, !.text = {}]
  <2>1. p \in Prefetches /\ Timely(p) /\ Own(p)
    BY <1>1, <1>2, NoTables, GroundingAssumption DEF Prefetches, Timely, Own
  <2>2. Becomes(a, p)
    BY <1>4 DEF Prompts
  <2> QED BY <1>2, <2>1, <2>2, CacheStands, StepOfOne
<1>5. CASE /\ ~(Cardinality(listed) > MAX_TABLES)
           /\ Becomes(a, [old EXCEPT !.pc = "describe", !.names = listed])
  <2> DEFINE p == [old EXCEPT !.pc = "describe", !.names = listed]
  <2>1. IsFiniteSet(listed) /\ Cardinality(listed) \in Nat
    BY GroundingAssumption, FS_Subset, FS_CardinalityType
  <2>2. TablesOf(p.text) \cup p.names = listed
    BY <1>1, NoTables DEF Prefetches
  <2>3. p \in Prefetches /\ Timely(p)
    BY <1>1 DEF Prefetches, Timely
  <2>4. Own(p)
    <3>1. p.text = old.text /\ p.subject = old.subject
      BY <1>1 DEF Prefetches
    <3>2. \A entry \in p.text : entry.subject = p.subject
      BY <1>1, <3>1 DEF Own
    <3>3. Cardinality(TablesOf(p.text) \cup p.names) <= MAX_TABLES
      BY <1>5, <2>1, <2>2, GroundingAssumption
    <3> QED BY <3>2, <3>3 DEF Own
  <2> QED BY <1>2, <1>5, <2>3, <2>4, CacheStands, StepOfOne
<1> QED BY <1>3, <1>4, <1>5

LEMMA DescribeKeepsText ==
  ASSUME GroundingInv, NEW a \in Asks, Describe(a)
  PROVE  GroundingInv'
<1> DEFINE old == prefetch[a]
<1>1. old \in Prefetches /\ Timely(old) /\ Own(old) /\ old.pc = "describe"
  BY DEF GroundingInv, GroundingType, Prefetches, Describe
<1>2. clock \in Moments /\ clock' = clock /\ UNCHANGED schemaCache
  BY DEF GroundingInv, GroundingType, Describe
<1>3. PICK table \in old.names, described \in BOOLEAN :
        Becomes(a, [old EXCEPT !.names = @ \ {table},
                               !.text = IF described
                                        THEN @ \cup {[table |-> table, subject |-> old.subject, at |-> clock]}
                                        ELSE @])
  BY DEF Describe
<1> DEFINE new == [table |-> table, subject |-> old.subject, at |-> clock]
           text == IF described THEN old.text \cup {new} ELSE old.text
           p == [old EXCEPT !.names = old.names \ {table}, !.text = text]
<1>4. new \in Entries /\ text \in SUBSET Entries /\ text \subseteq old.text \cup {new}
  BY <1>1, <1>2 DEF Entries, Prefetches
<1>5. p \in Prefetches /\ p.text = text /\ p.names = old.names \ {table}
       /\ p.pc = "describe" /\ p.subject = old.subject /\ p.since = old.since
  BY <1>1, <1>4 DEF Prefetches
<1>6. Timely(p)
  BY <1>1, <1>4, <1>5 DEF Timely
<1>7. Own(p)
  <2> DEFINE before == TablesOf(old.text) \cup old.names
             after == TablesOf(text) \cup (old.names \ {table})
  <2>1. after \subseteq before
    BY <1>4 DEF TablesOf
  <2>2. old.text \in SUBSET Entries /\ old.names \subseteq Tables
    BY <1>1 DEF Prefetches
  <2>3. IsFiniteSet(before)
    BY <2>2, TablesFinite, GroundingAssumption, FS_Subset, FS_Union
  <2>4. IsFiniteSet(after) /\ Cardinality(after) <= Cardinality(before)
    BY <2>1, <2>3, FS_Subset
  <2>5. Cardinality(before) \in Nat /\ Cardinality(after) \in Nat
    BY <2>3, <2>4, FS_CardinalityType
  <2>6. Cardinality(before) <= MAX_TABLES
    BY <1>1 DEF Own
  <2>7. Cardinality(after) <= MAX_TABLES
    <3> HIDE DEF before, after
    <3> QED BY <2>4, <2>5, <2>6, GroundingAssumption
  <2>8. \A entry \in text : entry.subject = old.subject
    BY <1>1, <1>4 DEF Own
  <2> QED BY <1>5, <2>7, <2>8 DEF Own
<1>8. Becomes(a, p)
  BY <1>3
<1> HIDE DEF p
<1> QED BY <1>2, <1>5, <1>6, <1>7, <1>8, CacheStands, StepOfOne

LEMMA KeepKeeps ==
  ASSUME GroundingInv, NEW a \in Asks, Keep(a)
  PROVE  GroundingInv'
<1> DEFINE old == prefetch[a]
           p == [old EXCEPT !.pc = "done", !.names = {}, !.text = old.text]
<1>1. old \in Prefetches /\ Timely(old) /\ Own(old) /\ old.pc = "describe" /\ old.names = {}
  BY DEF GroundingInv, GroundingType, Prefetches, Keep
<1>2. clock \in Moments /\ clock' = clock /\ Becomes(a, p)
  BY DEF GroundingInv, GroundingType, Keep, Prompts
<1>3. \A entry \in old.text : clock - entry.at <= ReadMax
  BY <1>1, <1>2, GroundingAssumption DEF Timely, Prefetches, Entries, Moments
<1>4. p \in Prefetches /\ Own(p)
  BY <1>1 DEF Prefetches, Own
<1>5. Timely(p)
  BY <1>1, <1>2, <1>3, GroundingAssumption DEF Timely, Prefetches, Entries, Moments
<1>6. Cardinality(TablesOf(old.text)) <= MAX_TABLES
  <2>1. TablesOf(old.text) \cup old.names = TablesOf(old.text)
    BY <1>1
  <2> QED BY <1>1, <2>1 DEF Own
<1>7. /\ schemaCache' \in [Subjects -> [at : Moments, text : SUBSET Entries]]
      /\ CacheOwn(schemaCache')
  <2>1. CASE old.text = {}
    BY <2>1, CacheStands DEF Keep
  <2>2. CASE old.text # {}
    <3>1. schemaCache' = [schemaCache EXCEPT ![old.subject] = [at |-> clock, text |-> old.text]]
      BY <2>2 DEF Keep, CacheKey
    <3>2. schemaCache \in [Subjects -> [at : Moments, text : SUBSET Entries]]
          /\ CacheOwn(schemaCache)
      BY DEF GroundingInv, GroundingType
    <3>3. old.subject \in Subjects /\ old.text \in SUBSET Entries
          /\ \A entry \in old.text : entry.subject = old.subject
      BY <1>1 DEF Prefetches, Own
    <3>4. schemaCache' \in [Subjects -> [at : Moments, text : SUBSET Entries]]
      BY <1>2, <3>1, <3>2, <3>3
    <3>5. \A s \in Subjects :
             schemaCache'[s] = IF s = old.subject THEN [at |-> clock, text |-> old.text]
                               ELSE schemaCache[s]
      BY <3>1, <3>2
    <3>6. CacheOwn(schemaCache')
      BY <1>3, <1>6, <3>2, <3>3, <3>5 DEF CacheOwn
    <3> QED BY <3>4, <3>6
  <2> QED BY <2>1, <2>2
<1> HIDE DEF p
<1> QED BY <1>2, <1>4, <1>5, <1>7, StepOfOne

LEMMA UseKeeps ==
  ASSUME GroundingInv, NEW a \in Asks, Use(a)
  PROVE  GroundingInv'
<1>1. prefetch[a].subject \in Subjects /\ GroundingType
  BY DEF GroundingInv, GroundingType
<1>2. Becomes(a, NoPrefetch(prefetch[a].subject)) /\ clock' = clock /\ UNCHANGED schemaCache
  BY DEF Use
<1> QED BY <1>1, <1>2, NoPrefetchFits, CacheStands, StepOfOne

LEMMA PassKeeps == GroundingInv /\ Pass => GroundingInv'
<1> SUFFICES ASSUME GroundingInv, Pass PROVE GroundingInv'
  OBVIOUS
<1>1. clock \in Moments /\ clock' = clock + 1 /\ clock' \in Moments
      /\ UNCHANGED <<schemaCache, prefetch>>
  BY GroundingAssumption DEF GroundingInv, GroundingType, Pass, Moments
<1>2. GroundingType'
  BY <1>1 DEF GroundingInv, GroundingType
<1>3. ASSUME NEW a \in Asks
      PROVE  Timely(prefetch[a])' /\ Own(prefetch[a])'
  <2>1. prefetch[a] \in Prefetches /\ Timely(prefetch[a]) /\ Own(prefetch[a])
    BY DEF GroundingInv, GroundingType, Prefetches
  <2>2. Own(prefetch[a])'
    BY <1>1, <2>1 DEF Own
  <2>3. \/ prefetch[a].pc = "idle"
        \/ prefetch[a].pc # "done" /\ clock - prefetch[a].since < ReadMax
    BY DEF Pass
  <2>4. Timely(prefetch[a])'
    BY <1>1, <2>1, <2>3, GroundingAssumption DEF Timely, Prefetches, Moments
  <2> QED BY <2>2, <2>4
<1>4. CacheOwn(schemaCache)'
  BY <1>1 DEF GroundingInv, CacheOwn
<1> QED BY <1>2, <1>3, <1>4 DEF GroundingInv

LEMMA GroundingSteps == GroundingInv /\ [GroundingNext]_groundingVars => GroundingInv'
<1> SUFFICES ASSUME GroundingInv, [GroundingNext]_groundingVars PROVE GroundingInv'
  OBVIOUS
<1>1. ASSUME NEW a \in Asks,
             (\E s \in Subjects : Begin(a, s)) \/ List(a) \/ Describe(a) \/ Keep(a) \/ Use(a)
      PROVE  GroundingInv'
  BY <1>1, BeginKeeps, ListKeeps, DescribeKeepsText, KeepKeeps, UseKeeps
<1>2. CASE Pass
  BY <1>2, PassKeeps
<1>3. CASE UNCHANGED groundingVars
  BY <1>3 DEF groundingVars, GroundingInv, GroundingType, Timely, Own, CacheOwn, Moments
<1> QED BY <1>1, <1>2, <1>3 DEF GroundingNext

LEMMA SchemaFollows == GroundingInv => SchemaOfCaller
<1> SUFFICES ASSUME GroundingInv, NEW a \in Asks, prefetch[a].pc = "done"
             PROVE  /\ Cardinality({entry.table : entry \in prefetch[a].text}) <= MAX_TABLES
                    /\ \A entry \in prefetch[a].text :
                           entry.subject = prefetch[a].subject /\ clock - entry.at <= TTL_S + ReadMax
  BY DEF SchemaOfCaller
<1>1. Timely(prefetch[a]) /\ Own(prefetch[a])
  BY DEF GroundingInv
<1>2. TablesOf(prefetch[a].text) \cup prefetch[a].names = {entry.table : entry \in prefetch[a].text}
  BY <1>1 DEF Timely, TablesOf
<1> QED BY <1>1, <1>2 DEF Timely, Own

(* Whatever asks overlap, however long the process lives: the schema in a    *)
(* prompt was described to that subject, lately, and is within the bound     *)
(* (schema_text).                                                            *)
THEOREM SchemaBelongsToCaller == GroundingSpec => []SchemaOfCaller
<1>1. GroundingInit => GroundingInv
  BY GroundingStarts
<1>2. GroundingInv /\ [GroundingNext]_groundingVars => GroundingInv'
  BY GroundingSteps
<1>3. GroundingInv => SchemaOfCaller
  BY SchemaFollows
<1> QED BY <1>1, <1>2, <1>3, PTL DEF GroundingSpec

-----------------------------------------------------------------------------
(* The token of a harness.                                                   *)

(* What the cache takes a token to live is never past what it names.         *)
CacheHonest == cached.token.readable => cached.until <= cached.token.exp

TokenInv == TokenType /\ CacheHonest /\ HandedAlive

LEMMA TokenStarts == TokenInit => TokenInv
<1> SUFFICES ASSUME TokenInit PROVE TokenInv
  OBVIOUS
<1>1. None \in HarnessTokens /\ ~None.readable
  BY TokenAssumption DEF None, Token, HarnessTokens, Times
<1>2. supplied \in HarnessTokens
  <2>1. \A readable \in BOOLEAN : Token(Lifetime, readable) \in HarnessTokens
    BY TokenAssumption DEF Token, HarnessTokens, Times
  <2> QED BY <1>1, <2>1 DEF TokenInit
<1>3. TokenType
  BY <1>1, <1>2, TokenAssumption DEF TokenInit, TokenType, NotHanded, Times
<1> QED BY <1>1, <1>3 DEF TokenInv, TokenInit, CacheHonest, HandedAlive, NotHanded

(* Whatever token is kept and handed over, for as long as it says.           *)
LEMMA HandsKeeps ==
  ASSUME TokenInv, NEW token \in HarnessTokens, NEW until \in Times,
         NEW by \in {"supplied", "refresh", "signIn"},
         Hands(token, until, by),
         token.readable => until <= token.exp,
         token.readable /\ by # "refresh" => token.exp > time,
         time' = time
  PROVE  /\ CacheHonest' /\ HandedAlive'
         /\ cached' \in [token : HarnessTokens, until : Times]
         /\ handed' \in [token : HarnessTokens,
                         by : {"none", "cache", "supplied", "refresh", "signIn", "unavailable"}]
BY DEF Hands, CacheHonest, HandedAlive

LEMMA ExpiryInTimes ==
  ASSUME TokenInv, NEW token \in HarnessTokens
  PROVE  Expiry(token) \in Times
BY TokenAssumption DEF TokenInv, TokenType, Expiry, HarnessTokens, Times

LEMMA TokenSteps == TokenInv /\ [TokenNext]_tokenVars => TokenInv'
<1> SUFFICES ASSUME TokenInv, [TokenNext]_tokenVars PROVE TokenInv'
  OBVIOUS
<1> USE TokenAssumption
<1>0. TokenType /\ CacheHonest /\ HandedAlive
  BY DEF TokenInv
<1>1. CASE FromCache
  <2>1. cached.token.readable => cached.token.exp > time
    BY <1>0, <1>1 DEF FromCache, Hit, TokenType, CacheHonest, HarnessTokens, Times
  <2> QED BY <1>0, <1>1, <2>1 DEF FromCache, TokenInv, TokenType, CacheHonest, HandedAlive
<1>2. CASE FromSupplied
  <2>1. supplied \in HarnessTokens /\ time' = time
    BY <1>0, <1>2 DEF FromSupplied, TokenType
  <2>2. Hands(supplied, Expiry(supplied), "supplied")
    BY <1>2 DEF FromSupplied
  <2>3. supplied.readable => Expiry(supplied) = supplied.exp /\ supplied.exp > time
    BY <1>0, <1>2, <2>1 DEF FromSupplied, Expired, Expiry, TokenType, HarnessTokens, Times
  <2>4. Expiry(supplied) \in Times
    BY <2>1, ExpiryInTimes
  <2>5. supplied.readable => Expiry(supplied) <= supplied.exp
    BY <2>1, <2>3 DEF HarnessTokens, Times
  <2> HIDE DEF Hands
  <2>6. /\ CacheHonest' /\ HandedAlive'
        /\ cached' \in [token : HarnessTokens, until : Times]
        /\ handed' \in [token : HarnessTokens,
                        by : {"none", "cache", "supplied", "refresh", "signIn", "unavailable"}]
    BY <2>1, <2>2, <2>3, <2>4, <2>5, HandsKeeps
  <2> QED BY <1>0, <1>2, <2>6 DEF FromSupplied, TokenInv, TokenType
<1>3. CASE Refresh
  <2>1. PICK exp \in {time, time + Lifetime} :
          supplied' = Token(exp, TRUE) /\ Hands(Token(exp, TRUE), Expiry(Token(exp, TRUE)), "refresh")
    BY <1>3 DEF Refresh
  <2>2. Token(exp, TRUE) \in HarnessTokens /\ Expiry(Token(exp, TRUE)) = exp /\ exp \in Times
        /\ Token(exp, TRUE).exp = exp
    BY <1>0 DEF TokenType, Token, HarnessTokens, Times, Expiry
  <2>3. time' = time /\ mode' = mode
    BY <1>3 DEF Refresh
  <2>4. exp <= exp
    BY <2>2 DEF Times
  <2>5. /\ CacheHonest' /\ HandedAlive'
        /\ cached' \in [token : HarnessTokens, until : Times]
        /\ handed' \in [token : HarnessTokens,
                        by : {"none", "cache", "supplied", "refresh", "signIn", "unavailable"}]
    BY <2>1, <2>2, <2>3, <2>4, HandsKeeps
  <2> QED BY <1>0, <2>1, <2>2, <2>3, <2>5 DEF TokenInv, TokenType
<1>4. CASE Unavailable
  <2>1. None \in HarnessTokens
    BY DEF None, Token, HarnessTokens, Times
  <2> QED BY <1>0, <1>4, <2>1 DEF Unavailable, TokenInv, TokenType, CacheHonest, HandedAlive
<1>5. CASE SignIn
  <2>1. Token(time + Lifetime, TRUE) \in HarnessTokens /\ time + Lifetime \in Times
    BY <1>0 DEF TokenType, Token, HarnessTokens, Times
  <2>2. /\ Token(time + Lifetime, TRUE).exp = time + Lifetime
        /\ time + Lifetime > time /\ time + Lifetime <= time + Lifetime
    BY <1>0 DEF TokenType, Token
  <2>3. time' = time /\ mode' = mode /\ supplied' = supplied
        /\ Hands(Token(time + Lifetime, TRUE), time + Lifetime, "signIn")
    BY <1>5 DEF SignIn
  <2>4. /\ CacheHonest' /\ HandedAlive'
        /\ cached' \in [token : HarnessTokens, until : Times]
        /\ handed' \in [token : HarnessTokens,
                        by : {"none", "cache", "supplied", "refresh", "signIn", "unavailable"}]
    BY <2>1, <2>2, <2>3, HandsKeeps
  <2> QED BY <1>0, <2>3, <2>4 DEF TokenInv, TokenType
<1>6. CASE Taken
  <2>1. None \in HarnessTokens
    BY DEF None, Token, HarnessTokens, Times
  <2> QED BY <1>0, <1>6, <2>1 DEF Taken, NotHanded, TokenInv, TokenType, CacheHonest, HandedAlive
<1>7. CASE Elapse
  BY <1>0, <1>7 DEF Elapse, Idle, NotHanded, TokenInv, TokenType, CacheHonest, HandedAlive
<1>8. CASE UNCHANGED tokenVars
  BY <1>0, <1>8 DEF tokenVars, TokenInv, TokenType, CacheHonest, HandedAlive
<1> QED BY <1>1, <1>2, <1>3, <1>4, <1>5, <1>6, <1>7, <1>8 DEF TokenNext

(* However long the evaluations run: a token that names its expiry is alive  *)
(* when token_for hands it over, from the cache, the environment or a        *)
(* sign-in.                                                                  *)
THEOREM TokenHandedAlive == TokenSpec => []HandedAlive
<1>1. TokenInit => TokenInv
  BY TokenStarts
<1>2. TokenInv /\ [TokenNext]_tokenVars => TokenInv'
  BY TokenSteps
<1>3. TokenInv => HandedAlive
  BY DEF TokenInv
<1> QED BY <1>1, <1>2, <1>3, PTL DEF TokenSpec

-----------------------------------------------------------------------------
(* The publisher: what it records was compared.                            *)
JobFields == {"pc", "candidate", "title", "question", "accepting", "target", "part",
              "shown", "agree", "exit"}
EntryFields == {"kind", "title", "question", "shown", "traced"}

(* From the comparison that agreed until the dashboard is recorded the job   *)
(* holds what was compared.                                                  *)
PublisherInv ==
    /\ DOMAIN publication = JobFields
    /\ publication.pc \in {"service", "dashboard"} => publication.shown = publication.question
    /\ \A e \in entries : DOMAIN e = EntryFields /\ e.shown = e.question

(* A step of the job that writes no entry.                                   *)
LEMMA JobSteps ==
  ASSUME PublisherInv, UNCHANGED entries,
         DOMAIN publication' = JobFields,
         publication'.pc \in {"service", "dashboard"} => publication'.shown = publication'.question
  PROVE  PublisherInv'
BY DEF PublisherInv

LEMMA CompareKeeps ==
  ASSUME PublisherInv, Compare
  PROVE  PublisherInv'
<1>1. PICK said \in {"none", "labels", P.question} :
          publication' = [P EXCEPT !.pc = IF Agrees(P.shown, said) THEN "service" ELSE "next",
                                   !.agree = AllAgree(Agrees(P.shown, said))]
  BY DEF Compare
<1> DEFINE agrees == Agrees(P.shown, said)
           pc == IF agrees THEN "service" ELSE "next"
           agree == AllAgree(agrees)
<1>2. agrees => P.shown = P.question
  BY DEF Agrees
<1>3. pc = "service" => agrees
  OBVIOUS
<1>4. publication' = [P EXCEPT !.pc = pc, !.agree = agree]
  BY <1>1
<1> HIDE DEF agrees, agree
<1>5. /\ DOMAIN publication' = JobFields /\ publication'.pc = pc
      /\ publication'.shown = P.shown /\ publication'.question = P.question
  BY <1>4 DEF PublisherInv, JobFields, P
<1>6. pc # "dashboard"
  OBVIOUS
<1> HIDE DEF pc
<1> QED BY <1>2, <1>3, <1>5, <1>6, JobSteps DEF Compare

LEMMA DashboardKeeps ==
  ASSUME PublisherInv, PutDashboard
  PROVE  PublisherInv'
<1> DEFINE traced == \E e \in entries : Mine(e) /\ e.traced
           new == [kind |-> Kind, title |-> P.title, question |-> P.question,
                   shown |-> P.shown, traced |-> traced]
<1>1. publication' = [P EXCEPT !.pc = "lineage"] /\ P.pc = "dashboard"
      /\ entries' = {e \in entries : ~Mine(e)} \cup {new}
  BY DEF PutDashboard, Proceeds, At
<1> HIDE DEF traced
<1>2. DOMAIN new = EntryFields /\ new.shown = P.shown /\ new.question = P.question
  BY DEF EntryFields
<1> HIDE DEF new
<1>3. DOMAIN publication' = JobFields /\ publication'.pc = "lineage"
  BY <1>1 DEF PublisherInv, JobFields, P
<1> QED BY <1>1, <1>2, <1>3 DEF PublisherInv, P

LEMMA LineageKeeps ==
  ASSUME PublisherInv, PutLineage
  PROVE  PublisherInv'
<1>1. publication' = [P EXCEPT !.pc = "next"]
  BY DEF PutLineage, Proceeds
<1>2. DOMAIN publication' = JobFields /\ publication'.pc = "next"
  BY <1>1 DEF PublisherInv, JobFields, P
<1>3. ASSUME NEW e \in entries'
      PROVE  DOMAIN e = EntryFields /\ e.shown = e.question
  <2>1. PICK d \in entries : e = IF Mine(d) THEN [d EXCEPT !.traced = @ \/ known] ELSE d
    BY <1>3 DEF PutLineage
  <2>2. DOMAIN d = EntryFields /\ d.shown = d.question
    BY DEF PublisherInv
  <2> DEFINE traced == d.traced \/ known
  <2>3. e = d \/ e = [d EXCEPT !.traced = traced]
    BY <2>1
  <2> HIDE DEF traced
  <2> QED BY <2>2, <2>3 DEF EntryFields
<1> QED BY <1>2, <1>3 DEF PublisherInv

LEMMA OtherStepsKeep ==
  ASSUME PublisherInv,
         \/ StartPublication \/ Offer \/ NoMoreCandidates \/ DescribeTables \/ Find
         \/ Create \/ Update \/ WrittenUnseen \/ Evaluate \/ PutService \/ NextTarget
         \/ PublicationFails
  PROVE  PublisherInv'
<1>1. entries' = entries
  BY DEF StartPublication, Offer, NoMoreCandidates, DescribeTables, Find, Create, Update,
         WrittenUnseen, Evaluate, PutService, NextTarget, PublicationFails
<1>2. ASSUME PutService
      PROVE  DOMAIN publication' = JobFields /\ publication'.shown = publication'.question
  BY <1>2 DEF PutService, Proceeds, At, P, PublisherInv, JobFields
<1>3. ASSUME NEW pc, Proceeds(pc)
      PROVE  DOMAIN publication' = JobFields /\ publication'.pc = pc
  BY <1>3 DEF Proceeds, P, PublisherInv, JobFields
<1>4. ASSUME NEW exit, Exits(exit)
      PROVE  DOMAIN publication' = JobFields /\ publication'.pc = "over"
  BY <1>4 DEF Exits, P, PublisherInv, JobFields
<1>5. ASSUME publication' = Advanced
      PROVE  DOMAIN publication' = JobFields /\ publication'.pc \in {"evaluate", "find", "update"}
  BY <1>5 DEF Advanced, Sought, P, PublisherInv, JobFields
<1>6. ASSUME Offer
      PROVE  DOMAIN publication' = JobFields /\ publication'.pc \in {"over", "offer", "describe"}
  <2>1. CASE P.candidate > MaxCandidates
    BY <1>4, <1>6, <2>1 DEF Offer
  <2>2. CASE ~(P.candidate > MaxCandidates)
    <3>1. PICK title \in Titles, question \in Questions, accepting \in Orders :
              publication' = IF accepting = <<>> THEN [P EXCEPT !.candidate = @ + 1]
                             ELSE [P EXCEPT !.pc = "describe", !.title = title,
                                            !.question = question, !.accepting = accepting]
      BY <1>6, <2>2 DEF Offer
    <3>2. P.pc = "offer"
      BY <1>6 DEF Offer, At
    <3> QED BY <3>1, <3>2 DEF P, PublisherInv, JobFields
  <2> QED BY <2>1, <2>2
<1>7. ASSUME StartPublication \/ DescribeTables \/ Evaluate
      PROVE  DOMAIN publication' = JobFields
             /\ publication'.pc \in {"offer", "find", "compare"}
  BY <1>7 DEF StartPublication, NotStarted, DescribeTables, Evaluate, P, PublisherInv, JobFields
<1>8. ASSUME NextTarget
      PROVE  DOMAIN publication' = JobFields /\ publication'.pc \in {"find", "over"}
  BY <1>4, <1>8 DEF NextTarget, P, PublisherInv, JobFields
<1>9. ASSUME Find \/ Create \/ Update \/ WrittenUnseen \/ NoMoreCandidates \/ PublicationFails
      PROVE  DOMAIN publication' = JobFields
             /\ publication'.pc \in {"evaluate", "find", "update", "create", "over"}
  <2>1. \/ publication' = Advanced \/ Proceeds("create") \/ Exits("raised") \/ Exits("nothing")
        \/ publication' = [P EXCEPT !.pc = "update"]
    BY <1>9 DEF Find, Create, Update, WrittenUnseen, NoMoreCandidates, PublicationFails
  <2>2. ASSUME publication' = [P EXCEPT !.pc = "update"]
        PROVE  DOMAIN publication' = JobFields /\ publication'.pc = "update"
    BY <2>2, <1>3 DEF Proceeds
  <2> QED BY <1>3, <1>4, <1>5, <2>1, <2>2
<1> QED BY <1>1, <1>2, <1>6, <1>7, <1>8, <1>9, JobSteps

LEMMA PublisherSteps == PublisherInv /\ [PublisherNext]_publisherVars => PublisherInv'
<1> SUFFICES ASSUME PublisherInv, [PublisherNext]_publisherVars PROVE PublisherInv'
  OBVIOUS
<1>1. CASE UNCHANGED publisherVars
  BY <1>1 DEF publisherVars, PublisherInv
<1>2. CASE PublisherNext
  BY <1>2, CompareKeeps, DashboardKeeps, LineageKeeps, OtherStepsKeep DEF PublisherNext
<1> QED BY <1>1, <1>2

(* The catalog has no dashboard whose tool and the executor did not answer   *)
(* the same numbers for its question: the comparison stands between what a   *)
(* target writes and what publish.py records.                                *)
THEOREM OnlyProvenRecorded == PublisherSpec => []RecordedProven
<1>1. PublisherInit => PublisherInv
  BY DEF PublisherInit, PublisherInv, NotStarted, JobFields
<1>2. PublisherInv /\ [PublisherNext]_publisherVars => PublisherInv'
  BY PublisherSteps
<1>3. PublisherInv => RecordedProven
  BY DEF PublisherInv, RecordedProven
<1> QED BY <1>1, <1>2, <1>3, PTL DEF PublisherSpec

-----------------------------------------------------------------------------
(* The publisher: a success is whole.                                      *)
Publications ==
    [pc : {"offer", "describe", "find", "create", "update", "evaluate", "compare",
           "service", "dashboard", "lineage", "next", "over"},
     candidate : 1 .. MaxCandidates + 1, title : Titles \cup {Nothing},
     question : Questions \cup {Nothing}, accepting : Orders,
     target : 1 .. 4, part : 1 .. 6, shown : Rows, agree : BOOLEAN,
     exit : {"none", "published", "disagreed", "nothing", "raised"}]

(* A part that was written, or was found where it is left as it is.          *)
Answers(part, title, question) ==
    LET held == items[<<part, NameOf(part, title)>>] IN
    held = question \/ (part \in Kept /\ held # Nothing)
Holding(kind, title, question, upto) ==
    \A n \in DOMAIN PartsOf(kind) :
        n <= upto => Answers(PartsOf(kind)[n], title, question)
Entered(kind, title, question) ==
    \E e \in entries : e.kind = kind /\ e.title = title /\ e.question = question
Traced(kind, title, question) ==
    \E e \in entries : /\ e.kind = kind /\ e.title = title /\ e.question = question
                       /\ known => e.traced
Settled(kind, title, question) == /\ Holding(kind, title, question, 5)
                                  /\ Traced(kind, title, question)

(* As long as every comparison agreed, the targets before the one the job is *)
(* at are settled, and the parts before the one it is at are held.           *)
JobRelies(p) ==
    LET kind == p.accepting[p.target]
        holding(upto) == Holding(kind, p.title, p.question, upto)
        settled(i) == Settled(p.accepting[i], p.title, p.question) IN
    /\ p.pc # "over" => p.exit = "none"
    /\ p.pc \in {"offer", "describe"} => p.target = 1 /\ p.part = 1 /\ p.agree
    /\ p.pc = "describe" => p.candidate <= MaxCandidates
    /\ p.pc \notin {"offer", "over"} =>
         /\ p.title \in Titles /\ p.question \in Questions
         /\ p.target \in DOMAIN p.accepting
         /\ p.agree => \A i \in DOMAIN p.accepting : i < p.target => settled(i)
    /\ p.pc \in {"evaluate", "compare", "service", "dashboard", "lineage", "next"} => p.part = 1
    /\ p.pc = "find" =>
         (p.part = 1 \/ p.part \in DOMAIN PartsOf(kind)) /\ holding(p.part - 1)
    /\ p.pc \in {"create", "update"} => p.part \in DOMAIN PartsOf(kind) /\ holding(p.part - 1)
    /\ p.pc \in {"evaluate", "compare", "service", "dashboard", "lineage"} => holding(5)
    /\ p.pc = "lineage" => Entered(kind, p.title, p.question)
    /\ p.pc = "next" /\ p.agree => settled(p.target)
    /\ p.exit = "published" => \A i \in DOMAIN p.accepting : settled(i)

WholeInv == PublisherType /\ JobRelies(publication)

USE PublisherAssumption

LEMMA OrderFacts ==
  ASSUME NEW o \in Orders
  PROVE  /\ o \in Seq(Kinds) /\ Len(o) \in 0 .. 3 /\ DOMAIN o = 1 .. Len(o)
         /\ \A i, j \in DOMAIN o : o[i] = o[j] => i = j
         /\ Len(o) = 0 => o = <<>>
<1>1. /\ \E n \in 0 .. 3 : o \in [1 .. n -> Kinds]
      /\ \A i, j \in DOMAIN o : o[i] = o[j] => i = j
  BY DEF Orders
<1>2. PICK n \in 0 .. 3 : o \in [1 .. n -> Kinds]
  BY <1>1
<1>3. o \in Seq(Kinds) /\ Len(o) = n
  BY <1>2
<1> QED BY <1>1, <1>2, <1>3

LEMMA NoOrder == <<>> \in Orders
<1>1. <<>> \in [1 .. 0 -> Kinds] /\ 0 \in 0 .. 3
  OBVIOUS
<1> QED BY <1>1 DEF Orders

LEMMA PartFacts ==
  ASSUME NEW kind \in Kinds
  PROVE  /\ PartsOf(kind) \in Seq(Parts) /\ Len(PartsOf(kind)) \in 0 .. 5
         /\ DOMAIN PartsOf(kind) = 1 .. Len(PartsOf(kind))
         /\ kind # "tableau" => Len(PartsOf(kind)) >= 1
<1>1. CASE kind = "powerbi"
  BY <1>1 DEF PartsOf, Parts
<1>2. CASE kind = "superset"
  BY <1>2 DEF PartsOf, Parts
<1>3. CASE kind = "tableau"
  BY <1>3 DEF PartsOf, Parts
<1> QED BY <1>1, <1>2, <1>3 DEF Kinds

LEMMA PublisherStart == PublisherInit => WholeInv
<1> SUFFICES ASSUME PublisherInit PROVE WholeInv
  OBVIOUS
<1>1. NotStarted \in Publications
  BY NoOrder DEF NotStarted, Publications, Rows
<1>2. NotStarted.pc = "over" /\ NotStarted.exit = "none"
  BY DEF NotStarted
<1>3. JobRelies(NotStarted)
  BY <1>2 DEF JobRelies
<1>4. PublisherType
  BY <1>1 DEF PublisherInit, PublisherType, Publications
<1> QED BY <1>3, <1>4 DEF WholeInv, PublisherInit

(* A step of the job that neither writes to a tool nor to the catalog.       *)
LEMMA JobMoves ==
  ASSUME WholeInv, NEW p \in Publications, publication' = p, JobRelies(p),
         UNCHANGED <<known, items, entries>>, started' \in 0 .. MaxPublications
  PROVE  WholeInv'
<1>1. PublisherType'
  BY DEF WholeInv, PublisherType, Publications
<1>2. JobRelies(publication)'
  BY DEF JobRelies, Settled, Holding, Answers, Traced, Entered
<1> QED BY <1>1, <1>2 DEF WholeInv

(* The job's own steps, and those that end it.                               *)
LEMMA ExitKeeps ==
  ASSUME WholeInv, NEW exit \in {"disagreed", "nothing", "raised"}, Exits(exit),
         UNCHANGED <<known, items, entries, started>>
  PROVE  WholeInv'
<1> DEFINE p == [publication EXCEPT !.pc = "over", !.exit = exit]
<1>1. p \in Publications /\ p.pc = "over" /\ p.exit = exit
  BY DEF WholeInv, PublisherType, Publications
<1>2. publication' = p
  BY DEF Exits, P
<1>3. started' \in 0 .. MaxPublications
  BY DEF WholeInv, PublisherType
<1> HIDE DEF p
<1>4. JobRelies(p)
  BY <1>1 DEF JobRelies
<1> QED BY <1>1, <1>2, <1>3, <1>4, JobMoves

LEMMA StartKeeps == ASSUME WholeInv, StartPublication PROVE WholeInv'
<1> DEFINE p == [NotStarted EXCEPT !.pc = "offer"]
<1>1. NotStarted \in Publications
  BY NoOrder DEF NotStarted, Publications, Rows
<1>2. /\ p \in Publications /\ p.pc = "offer" /\ p.exit = "none" /\ p.target = 1 /\ p.part = 1
      /\ p.agree = TRUE
  BY <1>1 DEF Publications, NotStarted
<1>3. /\ publication' = p /\ UNCHANGED <<known, items, entries>>
      /\ started' \in 0 .. MaxPublications
  BY DEF StartPublication, WholeInv, PublisherType
<1> HIDE DEF p
<1>4. JobRelies(p)
  BY <1>2 DEF JobRelies
<1> QED BY <1>2, <1>3, <1>4, JobMoves

LEMMA OfferKeeps == ASSUME WholeInv, Offer PROVE WholeInv'
<1>1. /\ publication.pc = "offer" /\ publication \in Publications
      /\ UNCHANGED <<known, items, entries, started>> /\ started' \in 0 .. MaxPublications
      /\ publication.exit = "none" /\ publication.target = 1 /\ publication.part = 1
      /\ publication.agree = TRUE
  BY DEF Offer, At, P, Elsewhere, WholeInv, PublisherType, Publications, JobRelies
<1>2. CASE publication.candidate > MaxCandidates
  BY <1>1, <1>2, ExitKeeps DEF Offer, P
<1>3. CASE ~(publication.candidate > MaxCandidates)
  <2>1. PICK title \in Titles, question \in Questions, accepting \in Orders :
            publication' = IF accepting = <<>> THEN [publication EXCEPT !.candidate = @ + 1]
                           ELSE [publication EXCEPT !.pc = "describe", !.title = title,
                                    !.question = question, !.accepting = accepting]
    BY <1>3 DEF Offer, P
  <2>2. CASE accepting = <<>>
    <3> DEFINE p == [publication EXCEPT !.candidate = @ + 1]
    <3>1. publication.candidate + 1 \in 1 .. MaxCandidates + 1
      BY <1>1, <1>3 DEF Publications
    <3>2. /\ p \in Publications /\ p.pc = "offer" /\ p.exit = "none" /\ p.target = 1
          /\ p.part = 1 /\ p.agree = TRUE
      BY <1>1, <3>1 DEF Publications
    <3>3. publication' = p
      BY <2>1, <2>2
    <3> HIDE DEF p
    <3>4. JobRelies(p)
      BY <3>2 DEF JobRelies
    <3> QED BY <1>1, <3>2, <3>3, <3>4, JobMoves
  <2>3. CASE accepting # <<>>
    <3> DEFINE p == [publication EXCEPT !.pc = "describe", !.title = title,
                                        !.question = question, !.accepting = accepting]
    <3>1. /\ p \in Publications /\ p.pc = "describe" /\ p.exit = "none" /\ p.target = 1
          /\ p.part = 1 /\ p.agree = TRUE /\ p.accepting = accepting
          /\ p.candidate = publication.candidate /\ p.title = title /\ p.question = question
      BY <1>1 DEF Publications
    <3>2. publication' = p
      BY <2>1, <2>3
    <3> HIDE DEF p
    <3>3. 1 \in DOMAIN accepting /\ \A i \in DOMAIN accepting : ~(i < 1)
      BY <2>3, OrderFacts
    <3>4. publication.candidate <= MaxCandidates
      BY <1>1, <1>3 DEF Publications
    <3>5. JobRelies(p)
      BY <3>1, <3>3, <3>4 DEF JobRelies
    <3> QED BY <1>1, <3>1, <3>2, <3>5, JobMoves
  <2> QED BY <2>2, <2>3
<1> QED BY <1>2, <1>3

LEMMA DescribeKeeps == ASSUME WholeInv, DescribeTables PROVE WholeInv'
<1>1. PICK binds \in BOOLEAN :
          publication' = IF binds THEN [publication EXCEPT !.pc = "find"]
                         ELSE [publication EXCEPT !.pc = "offer", !.candidate = @ + 1]
  BY DEF DescribeTables, P
<1>2. /\ publication.pc = "describe" /\ publication \in Publications
      /\ UNCHANGED <<known, items, entries, started>> /\ started' \in 0 .. MaxPublications
      /\ publication.exit = "none" /\ publication.target = 1 /\ publication.part = 1
      /\ publication.agree /\ publication.target \in DOMAIN publication.accepting
      /\ publication.candidate <= MaxCandidates
      /\ publication.title \in Titles /\ publication.question \in Questions
  BY DEF DescribeTables, At, P, Elsewhere, WholeInv, PublisherType, Publications, JobRelies
<1>3. CASE binds
  <2> DEFINE p == [publication EXCEPT !.pc = "find"]
  <2>1. /\ p \in Publications /\ p.pc = "find" /\ p.exit = "none" /\ p.target = 1 /\ p.part = 1
        /\ p.accepting = publication.accepting
        /\ p.title = publication.title /\ p.question = publication.question
    BY <1>2 DEF Publications
  <2>2. publication' = p
    BY <1>1, <1>3
  <2> HIDE DEF p
  <2>3. \A i \in DOMAIN p.accepting : ~(i < 1)
    BY <2>1, OrderFacts DEF Publications
  <2>4. p.accepting[p.target] \in Kinds
    BY <1>2, <2>1, OrderFacts DEF Publications
  <2>5. Holding(p.accepting[p.target], p.title, p.question, p.part - 1)
    BY <2>1, <2>4, PartFacts DEF Holding
  <2>6. JobRelies(p)
    BY <1>2, <2>1, <2>3, <2>5 DEF JobRelies
  <2> QED BY <1>2, <2>1, <2>2, <2>6, JobMoves
<1>4. CASE ~binds
  <2> DEFINE p == [publication EXCEPT !.pc = "offer", !.candidate = @ + 1]
  <2>0. publication.candidate + 1 \in 1 .. MaxCandidates + 1
    BY <1>2 DEF Publications
  <2>1. /\ p \in Publications /\ p.pc = "offer" /\ p.exit = "none" /\ p.target = 1 /\ p.part = 1
        /\ p.agree = publication.agree
    BY <1>2, <2>0 DEF Publications
  <2>2. publication' = p
    BY <1>1, <1>4
  <2> HIDE DEF p
  <2>3. JobRelies(p)
    BY <1>2, <2>1 DEF JobRelies
  <2> QED BY <1>2, <2>1, <2>2, <2>3, JobMoves
<1> QED BY <1>3, <1>4

(* Where a job is while it is at a target.                                   *)
LEMMA AtTarget ==
  ASSUME WholeInv, publication.pc \notin {"offer", "over"}
  PROVE  /\ publication \in Publications /\ publication.target \in 1 .. Len(publication.accepting)
         /\ Len(publication.accepting) \in 1 .. 3
         /\ DOMAIN publication.accepting = 1 .. Len(publication.accepting)
         /\ Kind = publication.accepting[publication.target] /\ Kind \in Kinds
         /\ \A i, j \in DOMAIN publication.accepting :
                publication.accepting[i] = publication.accepting[j] => i = j
         /\ DOMAIN PartsOf(Kind) = 1 .. Len(PartsOf(Kind)) /\ Len(PartsOf(Kind)) \in 0 .. 5
         /\ PartsOf(Kind) \in Seq(Parts)
         /\ Kind # "tableau" => Len(PartsOf(Kind)) >= 1
         /\ publication.exit = "none"
         /\ publication.title \in Titles /\ publication.question \in Questions
<1>1. publication \in Publications /\ publication.accepting \in Orders
  BY DEF WholeInv, PublisherType, Publications
<1>2. /\ publication.target \in DOMAIN publication.accepting /\ publication.exit = "none"
      /\ publication.title \in Titles /\ publication.question \in Questions
  BY DEF WholeInv, JobRelies
<1>3. Kind = publication.accepting[publication.target] /\ Kind \in Kinds
  BY <1>1, <1>2, OrderFacts DEF Kind, P
<1> QED BY <1>1, <1>2, <1>3, OrderFacts, PartFacts


(* A part that has its answer: the job goes on with the next, or evaluates.  *)
LEMMA AdvancedKeeps ==
  ASSUME WholeInv, publication.pc \in {"find", "create", "update"}, Kind # "tableau",
         publication.part \in DOMAIN PartsOf(Kind),
         Holding(Kind, publication.title, publication.question, publication.part - 1),
         publication' = Advanced, UNCHANGED <<known, entries, started>>,
         items' \in [Parts \X Names -> Questions \cup {Nothing}],
         NEW title, title = publication.title, NEW question, question = publication.question,
         \A part \in Parts : Answers(part, title, question) => Answers(part, title, question)',
         NEW here, here = Part, Answers(here, title, question)'
  PROVE  WholeInv'
<1> DEFINE last == publication.part = Len(PartsOf(Kind))
           sought == Sought(PartsOf(Kind)[publication.part + 1])
           pc == IF last THEN "evaluate" ELSE sought
           part == IF last THEN 1 ELSE publication.part + 1
           p == [publication EXCEPT !.pc = pc, !.part = part]
           parts == PartsOf(Kind)
<1>1. /\ publication \in Publications /\ publication.target \in 1 .. Len(publication.accepting)
      /\ DOMAIN publication.accepting = 1 .. Len(publication.accepting)
      /\ Len(publication.accepting) \in 1 .. 3
      /\ Kind = publication.accepting[publication.target] /\ Kind \in Kinds
      /\ DOMAIN parts = 1 .. Len(parts) /\ Len(parts) \in 1 .. 5
      /\ publication.exit = "none" /\ title \in Titles /\ question \in Questions
      /\ parts \in Seq(Parts)
      /\ \A i \in DOMAIN publication.accepting : publication.accepting[i] \in Kinds
  <2>1. \A i \in DOMAIN publication.accepting : publication.accepting[i] \in Kinds
    BY AtTarget, OrderFacts DEF Publications
  <2> QED BY <2>1, AtTarget
<1>2. publication.agree => \A i \in DOMAIN publication.accepting :
          i < publication.target => Settled(publication.accepting[i], title, question)
  BY DEF WholeInv, JobRelies
<1>3. publication' = p
  BY DEF Advanced, P
<1>0. sought \in {"find", "update"}
  BY DEF Sought
<1> HIDE DEF sought
<1>4. /\ part \in 1 .. 6 /\ pc \in {"evaluate", "find", "update"}
      /\ pc = "evaluate" => part = 1 /\ publication.part = Len(parts)
      /\ pc # "evaluate" => part \in DOMAIN parts /\ part = publication.part + 1
      /\ publication.part \in Int
  <2>1. publication.part \in 1 .. Len(parts)
    BY <1>1
  <2>2. CASE last
    BY <1>1, <2>1, <2>2
  <2>3. CASE ~last
    <3>1. part = publication.part + 1 /\ part \in 1 .. Len(parts) /\ pc \in {"find", "update"}
      BY <1>0, <1>1, <2>1, <2>3
    <3> HIDE DEF part, pc, parts
    <3>2. part \in 1 .. 6 /\ part \in DOMAIN parts /\ publication.part \in Int
      BY <1>1, <2>1, <3>1
    <3> QED BY <3>1, <3>2 DEF parts
  <2> QED BY <2>2, <2>3
<1> HIDE DEF pc, part, last
<1>5. /\ p \in Publications /\ p.pc = pc /\ p.part = part /\ p.title = title
      /\ p.question = question /\ p.accepting = publication.accepting
      /\ p.target = publication.target /\ p.agree = publication.agree /\ p.exit = "none"
  BY <1>1, <1>4 DEF Publications
<1>6. PublisherType'
  BY <1>3, <1>5 DEF WholeInv, PublisherType, Publications
<1>7. \A kind \in Kinds : \A upto :
          Holding(kind, title, question, upto) => Holding(kind, title, question, upto)'
  BY PartFacts DEF Holding
<1>8. \A kind \in Kinds : Settled(kind, title, question) => Settled(kind, title, question)'
  BY <1>7 DEF Settled, Traced
<1>9. ASSUME NEW kind, kind = Kind, NEW upto,
             \A n \in DOMAIN PartsOf(kind) : n <= upto => n <= publication.part
      PROVE  Holding(kind, title, question, upto)'
  <2>1. \A n \in DOMAIN PartsOf(kind) :
            n <= publication.part - 1 => Answers(PartsOf(kind)[n], title, question)
    BY <1>9 DEF Holding
  <2>2. PartsOf(kind)[publication.part] = here
    BY <1>9 DEF Part, P
  <2>3. \A n \in DOMAIN PartsOf(kind) :
            n <= publication.part => n <= publication.part - 1 \/ n = publication.part
    BY <1>1, <1>4, <1>9
  <2>4. \A n \in DOMAIN PartsOf(kind) : n <= upto => Answers(PartsOf(kind)[n], title, question)'
    <3>1. \A n \in DOMAIN PartsOf(kind) : PartsOf(kind)[n] \in Parts
      BY <1>1, <1>9
    <3> QED BY <1>9, <2>1, <2>2, <2>3, <3>1
  <2> QED BY <2>4 DEF Holding
<1>10. ASSUME NEW kind, kind = Kind, pc = "evaluate"
       PROVE  Holding(kind, title, question, 5)'
  <2>1. \A n \in DOMAIN PartsOf(kind) : n <= publication.part
    BY <1>1, <1>4, <1>10
  <2> QED BY <1>9, <1>10, <2>1
<1> HIDE DEF p, parts
<1>11. ASSUME NEW q, q = p PROVE JobRelies(q)'
  <2>1. /\ q.pc = pc /\ q.part = part /\ q.title = title /\ q.question = question
        /\ q.accepting = publication.accepting /\ q.target = publication.target
        /\ q.agree = publication.agree /\ q.exit = "none"
    BY <1>5, <1>11
  <2>2. q.agree => \A i \in DOMAIN q.accepting :
            i < q.target => Settled(q.accepting[i], q.title, q.question)'
    BY <1>1, <1>2, <1>8, <2>1
  <2>3. q.accepting[q.target] = Kind
    BY <1>1, <2>1
  <2>7. ASSUME NEW kind, kind = Kind, NEW upto, pc # "evaluate", upto = part - 1
        PROVE  Holding(kind, title, question, upto)'
    <3>1. upto = publication.part
      BY <1>4, <2>7
    <3> QED BY <1>9, <2>7, <3>1
  <2>4. pc # "evaluate" => /\ part \in DOMAIN PartsOf(q.accepting[q.target])
                           /\ Holding(q.accepting[q.target], title, question, q.part - 1)'
    BY <1>4, <2>1, <2>3, <2>7 DEF parts
  <2>5. pc = "evaluate" => Holding(q.accepting[q.target], title, question, 5)'
    BY <1>10, <2>3
  <2>6. q.target \in DOMAIN q.accepting
    BY <1>1, <2>1
  <2> QED BY <1>1, <1>4, <2>1, <2>2, <2>4, <2>5, <2>6 DEF JobRelies
<1>12. JobRelies(publication)'
  BY <1>3, <1>11 DEF JobRelies
<1> QED BY <1>6, <1>12 DEF WholeInv


LEMMA FindKeeps == ASSUME WholeInv, Find PROVE WholeInv'
<1>1. /\ publication.pc = "find" /\ Kind # "tableau"
      /\ UNCHANGED <<known, items, entries, started>>
      /\ items' \in [Parts \X Names -> Questions \cup {Nothing}]
      /\ started' \in 0 .. MaxPublications
  BY DEF Find, At, P, Elsewhere, WholeInv, PublisherType
<1>2. /\ publication \in Publications /\ publication.target \in DOMAIN publication.accepting
      /\ Kind = publication.accepting[publication.target] /\ publication.exit = "none"
      /\ publication.part \in DOMAIN PartsOf(Kind)
  <2>1. publication.part = 1 \/ publication.part \in DOMAIN PartsOf(Kind)
    BY <1>1, AtTarget DEF WholeInv, JobRelies
  <2> QED BY <1>1, <2>1, AtTarget
<1>3. Holding(Kind, publication.title, publication.question, publication.part - 1)
  BY <1>1, <1>2 DEF WholeInv, JobRelies
<1>4. ASSUME NEW pc \in {"create", "update"}, Proceeds(pc)
      PROVE  WholeInv'
  <2> DEFINE p == [publication EXCEPT !.pc = pc]
  <2>1. /\ p \in Publications /\ p.pc = pc /\ p.exit = "none" /\ p.target = publication.target
        /\ p.part = publication.part /\ p.accepting = publication.accepting
        /\ p.title = publication.title /\ p.question = publication.question
        /\ p.agree = publication.agree
    BY <1>2 DEF Publications
  <2>2. publication' = p
    BY <1>4 DEF Proceeds, P
  <2> HIDE DEF p
  <2>3. JobRelies(p)
    BY <1>1, <1>2, <1>3, <2>1 DEF WholeInv, JobRelies
  <2> QED BY <1>1, <2>1, <2>2, <2>3, JobMoves
<1>5. ASSUME publication' = Advanced, Part \in Kept, items[Place] # Nothing
      PROVE  WholeInv'
  <2>1. PICK here : here = Part
    OBVIOUS
  <2>2. PICK title, question : title = publication.title /\ question = publication.question
    OBVIOUS
  <2>3. \A part \in Parts : Answers(part, title, question) => Answers(part, title, question)'
    BY <1>1 DEF Answers
  <2>4. Answers(here, title, question)'
    BY <1>1, <1>5, <2>1, <2>2 DEF Answers, Place, P
  <2> QED BY <1>1, <1>2, <1>3, <1>5, <2>1, <2>2, <2>3, <2>4, AdvancedKeeps
<1>6. \/ Proceeds("create") \/ Proceeds("update")
      \/ publication' = Advanced /\ Part \in Kept /\ items[Place] # Nothing
  BY DEF Find, Proceeds
<1> QED BY <1>4, <1>5, <1>6

LEMMA WrittenAnswers ==
  ASSUME WholeInv, publication.pc \in {"create", "update"}, Written,
         NEW title, title = publication.title, NEW question, question = publication.question
  PROVE  /\ items' \in [Parts \X Names -> Questions \cup {Nothing}]
         /\ \A part \in Parts : Answers(part, title, question) => Answers(part, title, question)'
         /\ \A here : here = Part => Answers(here, title, question)'
         /\ publication.part \in DOMAIN PartsOf(Kind) /\ Kind # "tableau"
         /\ Holding(Kind, title, question, publication.part - 1)
<1>1. /\ Kind \in Kinds /\ Kind = publication.accepting[publication.target]
      /\ title \in Titles /\ question \in Questions
  BY AtTarget
<1>2. /\ publication.part \in DOMAIN PartsOf(Kind)
      /\ Holding(Kind, title, question, publication.part - 1)
  BY <1>1 DEF WholeInv, JobRelies
<1>3. Part \in Parts /\ Kind # "tableau"
  <2>1. PartsOf("tableau") = <<>>
    BY DEF PartsOf
  <2> QED BY <1>1, <1>2, <2>1, PartFacts DEF Part, P
<1>4. \A part : NameOf(part, title) \in Names
  BY <1>1 DEF NameOf, Names
<1>5. Place \in Parts \X Names /\ Place = <<Part, NameOf(Part, title)>>
  BY <1>3, <1>4 DEF Place, P
<1>6. /\ items \in [Parts \X Names -> Questions \cup {Nothing}]
      /\ items' = [items EXCEPT ![Place] = question]
  BY DEF WholeInv, PublisherType, Written, P
<1>7. /\ items' \in [Parts \X Names -> Questions \cup {Nothing}]
      /\ items'[Place] = question
      /\ \A place \in Parts \X Names : items'[place] = items[place] \/ items'[place] = question
  BY <1>1, <1>5, <1>6
<1>8. \A part \in Parts : Answers(part, title, question) => Answers(part, title, question)'
  <2>1. \A part \in Parts : <<part, NameOf(part, title)>> \in Parts \X Names
    BY <1>4
  <2>2. \A part : NameOf(part, title)' = NameOf(part, title)
    BY DEF NameOf
  <2> QED BY <1>7, <2>1, <2>2 DEF Answers
<1>9. \A here : here = Part => Answers(here, title, question)'
  BY <1>5, <1>7 DEF Answers, NameOf
<1> QED BY <1>2, <1>3, <1>7, <1>8, <1>9

LEMMA WritesKeep ==
  ASSUME WholeInv, Create \/ Update
  PROVE  WholeInv'
<1>1. /\ publication.pc \in {"create", "update"} /\ Written /\ publication' = Advanced
      /\ UNCHANGED <<known, entries, started>>
  BY DEF Create, Update, At, P, Elsewhere
<1>2. PICK title, question, here :
          title = publication.title /\ question = publication.question /\ here = Part
  OBVIOUS
<1> QED BY <1>1, <1>2, WrittenAnswers, AdvancedKeeps


LEMMA UnseenKeeps == ASSUME WholeInv, WrittenUnseen PROVE WholeInv'
<1> DEFINE p == [publication EXCEPT !.pc = "over", !.exit = "raised"]
<1>1. /\ publication.pc \in {"create", "update"} /\ Written /\ publication' = p
      /\ UNCHANGED <<known, entries, started>> /\ publication \in Publications
  BY DEF WrittenUnseen, At, P, Elsewhere, Exits, WholeInv, PublisherType, Publications
<1>2. items' \in [Parts \X Names -> Questions \cup {Nothing}]
  BY <1>1, WrittenAnswers
<1>3. p \in Publications /\ p.pc = "over" /\ p.exit = "raised"
  BY <1>1 DEF Publications
<1> HIDE DEF p
<1>4. PublisherType'
  BY <1>1, <1>2, <1>3 DEF WholeInv, PublisherType, Publications
<1>5. JobRelies(publication)'
  BY <1>1, <1>3 DEF JobRelies
<1> QED BY <1>4, <1>5 DEF WholeInv

(* A step at a target that writes nothing and leaves the job there.          *)
LEMMA TargetSteps ==
  ASSUME WholeInv, publication.pc \in {"evaluate", "compare", "service"},
         NEW p \in Publications, publication' = p,
         UNCHANGED <<known, items, entries, started>>,
         p.pc \in {"compare", "service", "dashboard", "next"},
         p.pc = "next" => ~p.agree,
         p.agree => publication.agree,
         p.title = publication.title, p.question = publication.question,
         p.accepting = publication.accepting, p.target = publication.target,
         p.part = publication.part, p.exit = publication.exit
  PROVE  WholeInv'
<1>1. /\ publication.exit = "none" /\ publication.part = 1
      /\ publication.title \in Titles /\ publication.question \in Questions
      /\ publication.target \in DOMAIN publication.accepting
      /\ publication.agree =>
            \A i \in DOMAIN publication.accepting : i < publication.target =>
                Settled(publication.accepting[i], publication.title, publication.question)
      /\ Holding(publication.accepting[publication.target], publication.title,
                 publication.question, 5)
  BY DEF WholeInv, JobRelies
<1>2. JobRelies(p)
  BY <1>1 DEF JobRelies
<1>3. started' \in 0 .. MaxPublications
  BY DEF WholeInv, PublisherType
<1> QED BY <1>2, <1>3, JobMoves

LEMMA ComparisonKeeps ==
  ASSUME WholeInv, Evaluate \/ Compare \/ PutService
  PROVE  WholeInv'
<1>1. /\ publication.pc \in {"evaluate", "compare", "service"}
      /\ UNCHANGED <<known, items, entries, started>> /\ publication \in Publications
  BY DEF Evaluate, Compare, PutService, At, P, Elsewhere, WholeInv, PublisherType, Publications
<1>2. CASE Evaluate
  <2>1. PICK shown \in Rows : publication' = [publication EXCEPT !.pc = "compare", !.shown = shown]
    BY <1>2 DEF Evaluate, P
  <2> DEFINE p == [publication EXCEPT !.pc = "compare", !.shown = shown]
  <2>2. /\ p \in Publications /\ p.pc = "compare" /\ p.agree = publication.agree
        /\ p.title = publication.title /\ p.question = publication.question
        /\ p.accepting = publication.accepting /\ p.target = publication.target
        /\ p.part = publication.part /\ p.exit = publication.exit
    BY <1>1 DEF Publications
  <2> HIDE DEF p
  <2> QED BY <1>1, <2>1, <2>2, TargetSteps DEF p
<1>3. CASE Compare
  <2>1. PICK said \in {"none", "labels", P.question} :
            publication' = [P EXCEPT !.pc = IF Agrees(P.shown, said) THEN "service" ELSE "next",
                                     !.agree = AllAgree(Agrees(P.shown, said))]
    BY <1>3 DEF Compare
  <2> DEFINE agrees == Agrees(P.shown, said)
             pc == IF agrees THEN "service" ELSE "next"
             agree == publication.agree /\ agrees
             p == [publication EXCEPT !.pc = pc, !.agree = agree]
  <2>2. publication' = p
    BY <2>1 DEF AllAgree, P
  <2>3. /\ pc \in {"service", "next"} /\ agree \in BOOLEAN
        /\ pc = "next" => ~agree
        /\ agree => publication.agree
    OBVIOUS
  <2> HIDE DEF agrees, pc, agree
  <2>4. /\ p \in Publications /\ p.pc = pc /\ p.agree = agree
        /\ p.title = publication.title /\ p.question = publication.question
        /\ p.accepting = publication.accepting /\ p.target = publication.target
        /\ p.part = publication.part /\ p.exit = publication.exit
    BY <1>1, <2>3 DEF Publications
  <2> HIDE DEF p
  <2>5. /\ p.pc \in {"compare", "service", "dashboard", "next"}
        /\ p.pc = "next" => ~p.agree
        /\ p.agree => publication.agree
    BY <2>3, <2>4
  <2> QED BY <1>1, <2>2, <2>4, <2>5, TargetSteps
<1>4. CASE PutService
  <2> DEFINE p == [publication EXCEPT !.pc = "dashboard"]
  <2>1. /\ p \in Publications /\ p.pc = "dashboard" /\ p.agree = publication.agree
        /\ p.title = publication.title /\ p.question = publication.question
        /\ p.accepting = publication.accepting /\ p.target = publication.target
        /\ p.part = publication.part /\ p.exit = publication.exit
    BY <1>1 DEF Publications
  <2>2. publication' = p
    BY <1>4 DEF PutService, Proceeds, P
  <2> HIDE DEF p
  <2> QED BY <1>1, <2>1, <2>2, TargetSteps
<1> QED BY <1>2, <1>3, <1>4


(* The catalog: what is recorded of one tool leaves what is of another.      *)
LEMMA DashboardRecorded ==
  ASSUME WholeInv, PutDashboard
  PROVE  WholeInv'
<1>1. PICK kind, title, question :
          kind = Kind /\ title = publication.title /\ question = publication.question
  OBVIOUS
<1> DEFINE traced == \E e \in entries : Mine(e) /\ e.traced
           new == [kind |-> kind, title |-> title, question |-> question,
                   shown |-> publication.shown, traced |-> traced]
           p == [publication EXCEPT !.pc = "lineage"]
<1>2. /\ publication.pc = "dashboard" /\ UNCHANGED <<known, items, started>>
      /\ publication' = p
      /\ entries' = {e \in entries : ~Mine(e)} \cup {new}
  BY <1>1 DEF PutDashboard, At, P, Elsewhere, Proceeds
<1>3. /\ publication \in Publications /\ kind \in Kinds /\ title \in Titles
      /\ question \in Questions /\ kind = publication.accepting[publication.target]
      /\ publication.target \in DOMAIN publication.accepting
      /\ \A i, j \in DOMAIN publication.accepting :
             publication.accepting[i] = publication.accepting[j] => i = j
      /\ publication.exit = "none" /\ publication.target \in Int
      /\ \A i \in DOMAIN publication.accepting : i \in Int
  BY <1>1, <1>2, AtTarget
<1> HIDE DEF traced
<1>4. new \in Dashboards /\ new.kind = kind /\ new.title = title /\ new.question = question
  <2>1. traced \in BOOLEAN
    BY DEF traced
  <2> HIDE DEF traced
  <2> QED BY <1>3, <2>1 DEF Dashboards, Publications
<1> HIDE DEF new
<1>5. /\ p \in Publications /\ p.pc = "lineage" /\ p.agree = publication.agree
      /\ p.title = title /\ p.question = question
      /\ p.accepting = publication.accepting /\ p.target = publication.target
      /\ p.part = publication.part /\ p.exit = "none"
  BY <1>1, <1>3 DEF Publications
<1> HIDE DEF p
<1>6. PublisherType'
  <2>1. entries' \subseteq Dashboards
    BY <1>2, <1>4 DEF WholeInv, PublisherType
  <2> QED BY <1>2, <1>5, <2>1 DEF WholeInv, PublisherType, Publications
<1>7. \A k, upto : Holding(k, title, question, upto) => Holding(k, title, question, upto)'
  BY <1>2 DEF Holding, Answers
<1>8. \A k : k # kind /\ Settled(k, title, question) => Settled(k, title, question)'
  <2>1. \A e \in entries : e.kind # kind => e \in entries'
    BY <1>1, <1>2 DEF Mine
  <2> QED BY <1>2, <1>7, <2>1 DEF Settled, Traced
<1>9. Entered(kind, title, question)'
  BY <1>2, <1>4 DEF Entered
<1>10. /\ publication.agree =>
              \A i \in DOMAIN publication.accepting : i < publication.target =>
                  Settled(publication.accepting[i], title, question)
       /\ Holding(kind, title, question, 5) /\ publication.part = 1
  BY <1>1, <1>2, <1>3 DEF WholeInv, JobRelies
<1>11. ASSUME NEW q, q = p PROVE JobRelies(q)'
  <2>1. /\ q.pc = "lineage" /\ q.part = 1 /\ q.title = title /\ q.question = question
        /\ q.accepting = publication.accepting /\ q.target = publication.target
        /\ q.agree = publication.agree /\ q.exit = "none"
    BY <1>5, <1>10, <1>11
  <2>2. q.agree => \A i \in DOMAIN q.accepting :
            i < q.target => Settled(q.accepting[i], q.title, q.question)'
    <3>1. \A i \in DOMAIN publication.accepting :
              i < publication.target => publication.accepting[i] # kind
      BY <1>3
    <3> QED BY <1>8, <1>10, <2>1, <3>1
  <2>3. q.accepting[q.target] = kind
    BY <1>3, <2>1
  <2> QED BY <1>3, <1>7, <1>9, <1>10, <2>1, <2>2, <2>3 DEF JobRelies
<1>12. JobRelies(publication)'
  BY <1>2, <1>11 DEF JobRelies
<1> QED BY <1>6, <1>12 DEF WholeInv

LEMMA LineageRecorded ==
  ASSUME WholeInv, PutLineage
  PROVE  WholeInv'
<1>1. PICK kind, title, question :
          kind = Kind /\ title = publication.title /\ question = publication.question
  OBVIOUS
<1> DEFINE p == [publication EXCEPT !.pc = "next"]
           traced(e) == [e EXCEPT !.traced = @ \/ known]
<1>2. /\ publication.pc = "lineage" /\ UNCHANGED <<known, items, started>>
      /\ publication' = p
      /\ entries' = {IF Mine(e) THEN traced(e) ELSE e : e \in entries}
  BY DEF PutLineage, At, P, Elsewhere, Proceeds
<1>3. /\ publication \in Publications /\ kind \in Kinds /\ title \in Titles
      /\ question \in Questions /\ kind = publication.accepting[publication.target]
      /\ publication.target \in DOMAIN publication.accepting
      /\ \A i, j \in DOMAIN publication.accepting :
             publication.accepting[i] = publication.accepting[j] => i = j
      /\ publication.exit = "none" /\ publication.target \in Int
      /\ \A i \in DOMAIN publication.accepting : i \in Int
  BY <1>1, <1>2, AtTarget
<1>4. ASSUME NEW e \in Dashboards
      PROVE  /\ traced(e) \in Dashboards /\ traced(e).kind = e.kind
             /\ traced(e).title = e.title /\ traced(e).question = e.question
             /\ known => traced(e).traced
  <2> DEFINE t == e.traced \/ known
             d == [e EXCEPT !.traced = t]
  <2>1. t \in BOOLEAN /\ (known => t) /\ traced(e) = d
    OBVIOUS
  <2> HIDE DEF t
  <2>2. d \in Dashboards /\ d.kind = e.kind /\ d.title = e.title /\ d.question = e.question
        /\ d.traced = t
    BY <2>1 DEF Dashboards
  <2> HIDE DEF d, traced
  <2> QED BY <2>1, <2>2
<1> HIDE DEF traced
<1>5. /\ p \in Publications /\ p.pc = "next" /\ p.agree = publication.agree
      /\ p.title = title /\ p.question = question
      /\ p.accepting = publication.accepting /\ p.target = publication.target
      /\ p.part = publication.part /\ p.exit = "none"
  BY <1>1, <1>3 DEF Publications
<1> HIDE DEF p
<1>6. entries \subseteq Dashboards
  BY DEF WholeInv, PublisherType
<1>7. PublisherType'
  <2>1. entries' \subseteq Dashboards
    BY <1>2, <1>4, <1>6
  <2> QED BY <1>2, <1>5, <2>1 DEF WholeInv, PublisherType, Publications
<1>8. \A k, upto : Holding(k, title, question, upto) => Holding(k, title, question, upto)'
  BY <1>2 DEF Holding, Answers
<1>9. \A k : k # kind /\ Settled(k, title, question) => Settled(k, title, question)'
  <2>1. \A e \in entries : e.kind # kind => e \in entries'
    BY <1>1, <1>2 DEF Mine
  <2> QED BY <1>2, <1>8, <2>1 DEF Settled, Traced
<1>10. Traced(kind, title, question)'
  <2>1. PICK e \in entries : e.kind = kind /\ e.title = title /\ e.question = question
    BY <1>1, <1>2, <1>3 DEF WholeInv, JobRelies, Entered
  <2>2. traced(e) \in entries'
    BY <1>1, <1>2, <2>1 DEF Mine, P
  <2> QED BY <1>2, <1>4, <1>6, <2>1, <2>2 DEF Traced
<1>11. /\ publication.agree =>
              \A i \in DOMAIN publication.accepting : i < publication.target =>
                  Settled(publication.accepting[i], title, question)
       /\ Holding(kind, title, question, 5) /\ publication.part = 1
  BY <1>1, <1>2, <1>3 DEF WholeInv, JobRelies
<1>12. ASSUME NEW q, q = p PROVE JobRelies(q)'
  <2>1. /\ q.pc = "next" /\ q.part = 1 /\ q.title = title /\ q.question = question
        /\ q.accepting = publication.accepting /\ q.target = publication.target
        /\ q.agree = publication.agree /\ q.exit = "none"
    BY <1>5, <1>11, <1>12
  <2>2. q.agree => \A i \in DOMAIN q.accepting :
            i < q.target => Settled(q.accepting[i], q.title, q.question)'
    <3>1. \A i \in DOMAIN publication.accepting :
              i < publication.target => publication.accepting[i] # kind
      BY <1>3
    <3> QED BY <1>9, <1>11, <2>1, <3>1
  <2>3. q.accepting[q.target] = kind
    BY <1>3, <2>1
  <2>4. Settled(q.accepting[q.target], q.title, q.question)'
    BY <1>8, <1>10, <1>11, <2>1, <2>3 DEF Settled
  <2> QED BY <1>3, <2>1, <2>2, <2>4 DEF JobRelies
<1>13. JobRelies(publication)'
  BY <1>2, <1>12 DEF JobRelies
<1> QED BY <1>7, <1>13 DEF WholeInv

LEMMA NextKeeps == ASSUME WholeInv, NextTarget PROVE WholeInv'
<1>1. /\ publication.pc = "next" /\ UNCHANGED <<known, items, entries, started>>
      /\ started' \in 0 .. MaxPublications
  BY DEF NextTarget, At, P, Elsewhere, WholeInv, PublisherType
<1>2. /\ publication \in Publications /\ publication.title \in Titles
      /\ publication.question \in Questions /\ publication.exit = "none"
      /\ publication.target \in 1 .. Len(publication.accepting)
      /\ Len(publication.accepting) \in 1 .. 3
      /\ DOMAIN publication.accepting = 1 .. Len(publication.accepting)
      /\ \A i \in DOMAIN publication.accepting : publication.accepting[i] \in Kinds
  BY <1>1, AtTarget, OrderFacts DEF Publications
<1>3. /\ publication.agree =>
            \A i \in DOMAIN publication.accepting : i <= publication.target =>
                Settled(publication.accepting[i], publication.title, publication.question)
      /\ publication.part = 1
  <2>1. /\ publication.agree =>
              \A i \in DOMAIN publication.accepting : i < publication.target =>
                  Settled(publication.accepting[i], publication.title, publication.question)
        /\ publication.agree => Settled(publication.accepting[publication.target],
                                        publication.title, publication.question)
        /\ publication.part = 1
    BY <1>1 DEF WholeInv, JobRelies
  <2>2. \A i \in DOMAIN publication.accepting :
            i <= publication.target => i < publication.target \/ i = publication.target
    BY <1>2
  <2> QED BY <2>1, <2>2
<1>4. CASE publication.target < Len(publication.accepting)
  <2> DEFINE target == publication.target + 1
             p == [publication EXCEPT !.pc = "find", !.target = target, !.shown = "none"]
  <2>1. publication' = p
    BY <1>4 DEF NextTarget, P
  <2>2. /\ target \in 1 .. 4 /\ target \in DOMAIN publication.accepting
        /\ \A i \in DOMAIN publication.accepting : i < target => i <= publication.target
    BY <1>2, <1>4
  <2> HIDE DEF target
  <2>3. /\ p \in Publications /\ p.pc = "find" /\ p.agree = publication.agree
        /\ p.title = publication.title /\ p.question = publication.question
        /\ p.accepting = publication.accepting /\ p.target = target
        /\ p.part = 1 /\ p.exit = "none"
    BY <1>2, <1>3, <2>2 DEF Publications, Rows
  <2> HIDE DEF p
  <2>4. Holding(p.accepting[p.target], p.title, p.question, p.part - 1)
    BY <1>2, <2>2, <2>3, PartFacts DEF Holding
  <2>5. JobRelies(p)
    BY <1>2, <1>3, <2>2, <2>3, <2>4 DEF JobRelies
  <2> QED BY <1>1, <2>1, <2>3, <2>5, JobMoves
<1>5. CASE ~(publication.target < Len(publication.accepting)) /\ ~publication.agree
  BY <1>1, <1>5, ExitKeeps DEF NextTarget, P
<1>6. CASE ~(publication.target < Len(publication.accepting)) /\ publication.agree
  <2> DEFINE p == [publication EXCEPT !.pc = "over", !.exit = "published"]
  <2>1. publication' = p
    BY <1>6 DEF NextTarget, P, Exits
  <2>2. /\ p \in Publications /\ p.pc = "over" /\ p.title = publication.title
        /\ p.question = publication.question /\ p.accepting = publication.accepting
    BY <1>2 DEF Publications
  <2> HIDE DEF p
  <2>3. \A i \in DOMAIN publication.accepting : i <= publication.target
    BY <1>2, <1>6
  <2>4. JobRelies(p)
    BY <1>3, <1>6, <2>2, <2>3 DEF JobRelies
  <2> QED BY <1>1, <2>1, <2>2, <2>4, JobMoves
<1> QED BY <1>4, <1>5, <1>6

LEMMA WholeSteps == WholeInv /\ [PublisherNext]_publisherVars => WholeInv'
<1> SUFFICES ASSUME WholeInv, [PublisherNext]_publisherVars PROVE WholeInv'
  OBVIOUS
<1>1. CASE UNCHANGED publisherVars
  BY <1>1 DEF publisherVars, WholeInv, PublisherType, JobRelies, Settled, Holding, Answers,
              Traced, Entered
<1>2. CASE NoMoreCandidates \/ PublicationFails
  BY <1>2, ExitKeeps DEF NoMoreCandidates, PublicationFails, Elsewhere
<1> QED BY <1>1, <1>2, StartKeeps, OfferKeeps, DescribeKeeps, FindKeeps, WritesKeep, UnseenKeeps,
           ComparisonKeeps, DashboardRecorded, LineageRecorded, NextKeeps
        DEF PublisherNext

THEOREM WholeAlways == PublisherSpec => []WholeInv
BY PublisherStart, WholeSteps, PTL DEF PublisherSpec

(* The publisher's variables keep their types.                               *)
THEOREM PublisherTyped == PublisherSpec => []PublisherType
<1>1. WholeInv => PublisherType
  BY DEF WholeInv
<1> QED BY <1>1, WholeAlways, PTL

(* A job that exits as published left no tool half written and no dashboard  *)
(* out of the catalog, for any number of tools, in any order.                *)
THEOREM SuccessMeansAll == PublisherSpec => []SuccessIsWhole
<1>1. WholeInv => SuccessIsWhole
  <2> SUFFICES ASSUME WholeInv, publication.exit = "published",
                      NEW i \in DOMAIN publication.accepting
               PROVE  Settled(publication.accepting[i], publication.title, publication.question)
                      => LET kind == publication.accepting[i] IN
                         /\ \A n \in DOMAIN PartsOf(kind) :
                                LET part == PartsOf(kind)[n]
                                    held == items[<<part, NameOf(part, publication.title)>>]
                                IN held = publication.question \/ (part \in Kept /\ held # Nothing)
                         /\ \E e \in entries : /\ e.kind = kind /\ e.title = publication.title
                                               /\ e.question = publication.question
                                               /\ known => e.traced
    BY DEF WholeInv, JobRelies, SuccessIsWhole, P
  <2>1. publication.accepting[i] \in Kinds
    BY OrderFacts DEF WholeInv, PublisherType
  <2>2. \A n \in DOMAIN PartsOf(publication.accepting[i]) : n <= 5
    BY <2>1, PartFacts
  <2> QED BY <2>2 DEF Settled, Holding, Answers, Traced
<1> QED BY <1>1, WholeAlways, PTL

(* Both: the catalog shows what was proven, and after a success all of it.   *)
THEOREM PublishedMeansWhole == PublisherSpec => []PublishedWhole
  BY OnlyProvenRecorded, SuccessMeansAll, PTL DEF PublishedWhole

-----------------------------------------------------------------------------
(* The promoter.                                                           *)
HIDE PublisherAssumption
USE PromoterAssumption

PromoterJobs ==
    [pc : {"idle", "naming", "domain", "products", "classification", "tag", "drafts"},
     found : SUBSET Templates, released : SUBSET Released, gaps : SUBSET Drafts]

Asked(template) == /\ Cardinality({r[1] : r \in Successes(template)}) >= MIN_USERS
                   /\ Cardinality(Successes(template)) >= MIN_RUNS
Missed(word) == Cardinality({w \in People : abstained[<<w, word>>] > 0}) >= MIN_USERS

(* What a job carries on towards the catalog is past the threshold, as what  *)
(* is there: the logs it was counted from only grow.                         *)
PromoterInv ==
    /\ audited \in [Lines -> Nat]
    /\ abstained \in [People \X Words -> Nat]
    /\ names \in [Columns -> Texts \cup {Unnamed}]
    /\ job \in PromoterJobs
    /\ products \subseteq Products /\ drafts \subseteq Drafts
    /\ \A t \in job.found : Asked(t)
    /\ \A r \in job.released : Asked(r.template)
    /\ \A p \in products : Asked(p.template)
    /\ \A g \in job.gaps \cup drafts : Missed(g.name)

LEMMA More ==
  ASSUME NEW S, NEW T, IsFiniteSet(T), S \subseteq T,
         NEW n \in Nat, Cardinality(S) >= n
  PROVE  Cardinality(T) >= n
<1>1. IsFiniteSet(S) /\ Cardinality(S) <= Cardinality(T)
  BY FS_Subset
<1>2. Cardinality(S) \in Nat /\ Cardinality(T) \in Nat
  BY <1>1, FS_CardinalityType
<1> QED BY <1>1, <1>2

LEMMA MorePeople ==
  ASSUME NEW S \in SUBSET People, NEW T \in SUBSET People, S \subseteq T,
         Cardinality(S) >= MIN_USERS
  PROVE  Cardinality(T) >= MIN_USERS
<1>1. IsFiniteSet(T)
  BY FS_Subset
<1> QED BY <1>1, More

(* Of more runs, more people are past the threshold, and so are the runs.    *)
LEMMA MoreRuns ==
  ASSUME NEW R, NEW T, R \subseteq T,
         T \subseteq People \X ({"ok", "clipped"} \X (1 .. MaxLines)),
         Cardinality({r[1] : r \in R}) >= MIN_USERS
  PROVE  /\ Cardinality({r[1] : r \in T}) >= MIN_USERS
         /\ Cardinality(R) >= MIN_RUNS => Cardinality(T) >= MIN_RUNS
<1> DEFINE S == {r[1] : r \in R}
           W == {r[1] : r \in T}
<1>1. S \in SUBSET People /\ W \in SUBSET People /\ S \subseteq W
  OBVIOUS
<1> HIDE DEF S, W
<1>2. Cardinality(W) >= MIN_USERS
  BY <1>1, MorePeople DEF S
<1>3. IsFiniteSet({"ok", "clipped"}) /\ IsFiniteSet(1 .. MaxLines)
  <2>1. IsFiniteSet({"ok", "clipped"})
    <3>1. IsFiniteSet({"ok"})
      BY FS_Singleton
    <3>2. IsFiniteSet({"ok"} \cup {"clipped"})
      BY <3>1, FS_AddElement
    <3>3. {"ok"} \cup {"clipped"} = {"ok", "clipped"}
      OBVIOUS
    <3> QED BY <3>2, <3>3
  <2> QED BY <2>1, FS_Interval
<1>4. IsFiniteSet({"ok", "clipped"} \X (1 .. MaxLines))
  BY <1>3, FS_Product
<1>5. IsFiniteSet(T)
  <2>1. IsFiniteSet(People \X ({"ok", "clipped"} \X (1 .. MaxLines)))
    BY <1>4, FS_Product
  <2> QED BY <2>1, FS_Subset
<1>6. Cardinality(R) >= MIN_RUNS => Cardinality(T) >= MIN_RUNS
  BY <1>5, More
<1> QED BY <1>2, <1>6 DEF W

(* A log that only grows.                                                    *)
LEMMA LogsGrow ==
  ASSUME PromoterInv,
         audited' \in [Lines -> Nat], \A l \in Lines : audited[l] <= audited'[l],
         abstained' \in [People \X Words -> Nat],
         \A a \in People \X Words : abstained[a] <= abstained'[a],
         UNCHANGED <<job, products, drafts>>,
         names' \in [Columns -> Texts \cup {Unnamed}]
  PROVE  PromoterInv'
<1>1. /\ \A t \in job.found : t \in Templates
      /\ \A r \in job.released \cup products : r.template \in Templates
  BY DEF PromoterInv, PromoterJobs, Released, Products
<1>2. \A a \in People \X Words : abstained[a] > 0 => abstained'[a] > 0
  BY DEF PromoterInv
<1>3. ASSUME NEW t \in Templates, Asked(t) PROVE Asked(t)'
  <2>1. Successes(t) \subseteq Successes(t)'
    <3>1. \A who \in People, o \in {"ok", "clipped"} :
             [who |-> who, template |-> t, outcome |-> o] \in Lines
      BY DEF Lines
    <3>2. ASSUME NEW r \in Successes(t) PROVE r \in Successes(t)'
      <4> DEFINE l == [who |-> r[1], template |-> t, outcome |-> r[2][1]]
      <4>1. /\ r \in People \X ({"ok", "clipped"} \X (1 .. MaxLines))
            /\ audited[l] >= r[2][2]
        BY DEF Successes, Runs
      <4>2. r[1] \in People /\ r[2][1] \in {"ok", "clipped"} /\ r[2][2] \in Nat
        BY <4>1
      <4>3. l \in Lines
        BY <3>1, <4>2
      <4> HIDE DEF l
      <4>4. audited[l] <= audited'[l] /\ audited[l] \in Nat /\ audited'[l] \in Nat
        BY <4>3 DEF PromoterInv
      <4>5. audited'[l] >= r[2][2]
        BY <4>1, <4>2, <4>4
      <4> QED BY <4>1, <4>5 DEF Successes, Runs, l
    <3> QED BY <3>2
  <2>2. Successes(t)' \subseteq People \X ({"ok", "clipped"} \X (1 .. MaxLines))
    BY DEF Successes, Runs
  <2> QED BY <1>3, <2>1, <2>2, MoreRuns DEF Asked
<1>4. ASSUME NEW word \in Words, Missed(word) PROVE Missed(word)'
  <2> DEFINE S == {w \in People : abstained[<<w, word>>] > 0}
             T == {w \in People : abstained'[<<w, word>>] > 0}
  <2>1. S \subseteq T
    BY <1>2
  <2>2. Cardinality(S) >= MIN_USERS
    BY <1>4 DEF Missed
  <2> HIDE DEF S, T
  <2>3. S \in SUBSET People /\ T \in SUBSET People
    BY DEF S, T
  <2>4. Cardinality(T) >= MIN_USERS
    BY <2>1, <2>2, <2>3, MorePeople
  <2> QED BY <2>4 DEF T, Missed
<1>5. \A g \in job.gaps \cup drafts : g.name \in Words
  BY DEF PromoterInv, PromoterJobs, Drafts
<1>6. job' = job /\ products' = products /\ drafts' = drafts
  OBVIOUS
<1>7. \A g \in job.gaps \cup drafts : Missed(g.name)'
  BY <1>4, <1>5 DEF PromoterInv
<1>8. (\A t \in job.found : Asked(t)') /\ (\A r \in job.released : Asked(r.template)')
      /\ \A p \in products : Asked(p.template)'
  BY <1>1, <1>3 DEF PromoterInv
<1> QED BY <1>6, <1>7, <1>8 DEF PromoterInv

(* A job's own step: what it carries, and what it leaves in the catalog.     *)
LEMMA JobCarries ==
  ASSUME PromoterInv, NEW j \in PromoterJobs, job' = j,
         UNCHANGED <<audited, abstained, names>>,
         products' \subseteq Products, drafts' \subseteq Drafts,
         \A t \in j.found : Asked(t),
         \A r \in j.released : Asked(r.template),
         \A p \in products' : Asked(p.template),
         \A g \in j.gaps \cup drafts' : Missed(g.name)
  PROVE  PromoterInv'
<1>1. \A t : Asked(t)' <=> Asked(t)
  BY DEF Asked, Successes, Runs
<1>2. \A word : Missed(word)' <=> Missed(word)
  BY DEF Missed
<1> QED BY <1>1, <1>2 DEF PromoterInv

LEMMA PromoterStart == PromoterInit => PromoterInv
<1> SUFFICES ASSUME PromoterInit PROVE PromoterInv
  OBVIOUS
<1>1. NoJob \in PromoterJobs /\ NoJob.found = {} /\ NoJob.released = {} /\ NoJob.gaps = {}
  BY DEF NoJob, PromoterJobs
<1>2. /\ job = NoJob /\ products = {} /\ drafts = {}
      /\ audited \in [Lines -> Nat] /\ abstained \in [People \X Words -> Nat]
      /\ names \in [Columns -> Texts \cup {Unnamed}]
  BY DEF PromoterInit
<1> QED BY <1>1, <1>2 DEF PromoterInv

LEMMA WorldGrows ==
  ASSUME PromoterInv,
         \/ \E line \in Lines : Audit(line)
         \/ \E who \in People, word \in Words : Abstain(who, word)
         \/ \E column \in Columns, word \in Words, mark \in {"none", "hyphen"} :
                NameColumn(column, [word |-> word, mark |-> mark])
  PROVE  PromoterInv'
<1>1. CASE \E line \in Lines : Audit(line)
  <2>1. PICK line \in Lines : Audit(line)
    BY <1>1
  <2> QED BY <2>1, LogsGrow DEF Audit, PromoterInv
<1>2. CASE \E who \in People, word \in Words : Abstain(who, word)
  <2>1. PICK who \in People, word \in Words : Abstain(who, word)
    BY <1>2
  <2>2. <<who, word>> \in People \X Words
    OBVIOUS
  <2> QED BY <2>1, <2>2, LogsGrow DEF Abstain, PromoterInv
<1>3. CASE \E column \in Columns, word \in Words, mark \in {"none", "hyphen"} :
               NameColumn(column, [word |-> word, mark |-> mark])
  <2>1. PICK column \in Columns, text \in Texts : NameColumn(column, text)
    BY <1>3 DEF Texts
  <2> QED BY <2>1, LogsGrow DEF NameColumn, PromoterInv
<1> QED BY <1>1, <1>2, <1>3

LEMMA Stops ==
  ASSUME PromoterInv, job' = NoJob, UNCHANGED <<audited, abstained, names>>,
         products' \subseteq Products, drafts' \subseteq Drafts,
         \A p \in products' : Asked(p.template), \A d \in drafts' : Missed(d.name)
  PROVE  PromoterInv'
<1>1. NoJob \in PromoterJobs /\ NoJob.found = {} /\ NoJob.released = {} /\ NoJob.gaps = {}
  BY DEF NoJob, PromoterJobs
<1> QED BY <1>1, JobCarries

LEMMA GoesOn ==
  ASSUME PromoterInv, UNCHANGED <<audited, abstained, names, products, drafts>>,
         NEW pc \in {"products", "tag", "drafts"}, Continues(pc)
  PROVE  PromoterInv'
<1> DEFINE j == [job EXCEPT !.pc = pc]
<1>1. /\ j \in PromoterJobs /\ j.found = job.found /\ j.released = job.released
      /\ j.gaps = job.gaps /\ job' = j
  BY DEF PromoterInv, PromoterJobs, Continues
<1> HIDE DEF j
<1> QED BY <1>1, JobCarries DEF PromoterInv

LEMMA StartsKeep ==
  ASSUME PromoterInv, StartJob \/ StartGaps
  PROVE  PromoterInv'
<1>1. UNCHANGED <<audited, abstained, names, products, drafts>>
  BY DEF StartJob, StartGaps, Begins, KeepsLogs
<1>2. CASE StartJob
  <2> DEFINE j == [NoJob EXCEPT !.pc = "naming", !.found = Release]
  <2>1. /\ Release \subseteq Templates
        /\ \A t \in Release : /\ Cardinality({r[1] : r \in Runs(t, Counted)}) >= MIN_USERS
                              /\ Cardinality(Runs(t, Counted)) >= MIN_RUNS
    BY DEF Release, Askers, Recurs
  <2>2. ASSUME NEW t \in Release PROVE Asked(t)
    <3>1. Runs(t, Counted) \subseteq Successes(t)
      BY DEF Runs, Successes, Counted
    <3>2. Successes(t) \subseteq People \X ({"ok", "clipped"} \X (1 .. MaxLines))
      BY DEF Successes, Runs
    <3> QED BY <2>1, <3>1, <3>2, MoreRuns DEF Asked
  <2>3. /\ j \in PromoterJobs /\ j.found = Release /\ j.released = {} /\ j.gaps = {}
    BY <2>1 DEF NoJob, PromoterJobs
  <2>4. job' = j
    BY <1>2 DEF StartJob
  <2> HIDE DEF j
  <2> QED BY <1>1, <2>2, <2>3, <2>4, JobCarries DEF PromoterInv
<1>3. CASE StartGaps /\ GapsReleased = {}
  <2>1. UNCHANGED <<audited, abstained, names, products, drafts, job>>
    BY <1>1, <1>3 DEF StartGaps
  <2> QED BY <2>1, JobCarries DEF PromoterInv
<1>4. CASE StartGaps /\ GapsReleased # {}
  <2> DEFINE j == [NoJob EXCEPT !.pc = "classification", !.gaps = GapsReleased]
  <2>1. \A g \in GapsReleased : g \in Drafts /\ Missed(g.name)
    <3> SUFFICES ASSUME NEW g \in GapsReleased PROVE g \in Drafts /\ Missed(g.name)
      OBVIOUS
    <3>1. PICK w \in Words : /\ Cardinality(GapAskers(w)) >= MIN_USERS
                             /\ g = [name |-> w, who |-> GapAskers(w)]
      BY DEF GapsReleased
    <3>2. GapAskers(w) \in SUBSET People
      BY DEF GapAskers
    <3>3. g \in Drafts /\ g.name = w
      BY <3>1, <3>2 DEF Drafts
    <3>4. Missed(w)
      BY <3>1 DEF Missed, GapAskers
    <3> QED BY <3>3, <3>4
  <2>2. /\ j \in PromoterJobs /\ j.found = {} /\ j.released = {} /\ j.gaps = GapsReleased
    BY <2>1 DEF NoJob, PromoterJobs
  <2>3. job' = j
    BY <1>4 DEF StartGaps
  <2> HIDE DEF j
  <2> QED BY <1>1, <2>1, <2>2, <2>3, JobCarries DEF PromoterInv
<1> QED BY <1>2, <1>3, <1>4

LEMMA NamesKeep ==
  ASSUME PromoterInv, ReadNames
  PROVE  PromoterInv'
<1>1. PICK named \in {names, [c \in Columns |-> Unnamed]} :
          LET released == {[template |-> t, title |-> Title(t, named)] : t \in job.found} IN
          IF released # {} /\ settings.enabled
          THEN job' = [job EXCEPT !.pc = "domain", !.found = {}, !.released = released]
          ELSE Finishes
  BY DEF ReadNames
<1> DEFINE released == {[template |-> t, title |-> Title(t, named)] : t \in job.found}
           j == [job EXCEPT !.pc = "domain", !.found = {}, !.released = released]
<1>2. job \in PromoterJobs /\ named \in [Columns -> Texts \cup {Unnamed}]
      /\ UNCHANGED <<audited, abstained, names, products, drafts>>
  BY DEF PromoterInv, ReadNames, KeepsLogs
<1>3. \A t \in Templates : Title(t, named) \in Texts
  <2>1. \A t \in Templates : t.column \in Columns
    BY DEF Templates
  <2> QED BY <1>2, <2>1 DEF Title, Texts
<1>4. \A r \in released : r \in Released /\ r.template \in job.found
  BY <1>2, <1>3 DEF Released, PromoterJobs
<1> HIDE DEF released
<1>5. j \in PromoterJobs /\ j.found = {} /\ j.released = released /\ j.gaps = job.gaps
  BY <1>2, <1>4 DEF PromoterJobs
<1>6. job' = j \/ Finishes
  BY <1>1 DEF released
<1> HIDE DEF j
<1>7. CASE job' = j
  BY <1>2, <1>4, <1>5, <1>7, JobCarries DEF PromoterInv
<1>8. CASE Finishes
  BY <1>2, <1>8, Stops DEF Finishes, PromoterInv
<1> QED BY <1>6, <1>7, <1>8

LEMMA ProductKeeps ==
  ASSUME PromoterInv, PutProduct
  PROVE  PromoterInv'
<1>1. PICK r \in job.released :
          /\ products' = {p \in products : p.name # Slug(r.title)}
                 \cup {[name |-> Slug(r.title), title |-> r.title, template |-> r.template]}
          /\ job' = IF job.released = {r} THEN NoJob ELSE [job EXCEPT !.released = @ \ {r}]
  BY DEF PutProduct
<1> DEFINE new == [name |-> Slug(r.title), title |-> r.title, template |-> r.template]
           j == [job EXCEPT !.released = @ \ {r}]
<1>2. job \in PromoterJobs /\ r \in Released /\ Asked(r.template)
      /\ UNCHANGED <<audited, abstained, names, drafts>>
  BY DEF PromoterInv, PromoterJobs, PutProduct, KeepsLogs
<1>3. new \in Products /\ new.template = r.template
  BY <1>2 DEF Released, Products, Slug, Texts
<1> HIDE DEF new
<1>4. /\ products' \subseteq Products /\ \A p \in products' : Asked(p.template)
  BY <1>1, <1>2, <1>3 DEF PromoterInv, new
<1>5. /\ j \in PromoterJobs /\ j.found = job.found /\ j.released = job.released \ {r}
      /\ j.gaps = job.gaps
  BY <1>2 DEF PromoterJobs
<1>6. job' = j \/ job' = NoJob
  BY <1>1
<1> HIDE DEF j
<1>7. CASE job' = j
  BY <1>2, <1>4, <1>5, <1>7, JobCarries DEF PromoterInv
<1>8. CASE job' = NoJob
  BY <1>2, <1>4, <1>8, Stops DEF PromoterInv
<1> QED BY <1>6, <1>7, <1>8

LEMMA DraftKeeps ==
  ASSUME PromoterInv, PutDraft
  PROVE  PromoterInv'
<1>1. PICK g \in job.gaps :
          /\ drafts' = {d \in drafts : d.name # g.name} \cup {g}
          /\ job' = IF job.gaps = {g} THEN NoJob ELSE [job EXCEPT !.gaps = @ \ {g}]
  BY DEF PutDraft
<1> DEFINE j == [job EXCEPT !.gaps = @ \ {g}]
<1>2. job \in PromoterJobs /\ g \in Drafts /\ Missed(g.name)
      /\ UNCHANGED <<audited, abstained, names, products>>
  BY DEF PromoterInv, PromoterJobs, PutDraft, KeepsLogs
<1>3. drafts' \subseteq Drafts /\ \A d \in drafts' : Missed(d.name)
  BY <1>1, <1>2 DEF PromoterInv
<1>4. /\ j \in PromoterJobs /\ j.found = job.found /\ j.gaps = job.gaps \ {g}
      /\ j.released = job.released
  BY <1>2 DEF PromoterJobs
<1>5. job' = j \/ job' = NoJob
  BY <1>1
<1> HIDE DEF j
<1>6. CASE job' = j
  BY <1>2, <1>3, <1>4, <1>6, JobCarries DEF PromoterInv
<1>7. CASE job' = NoJob
  BY <1>2, <1>3, <1>7, Stops DEF PromoterInv
<1> QED BY <1>5, <1>6, <1>7

LEMMA PromoterSteps == PromoterInv /\ [PromoterNext]_promoterVars => PromoterInv'
<1> SUFFICES ASSUME PromoterInv, [PromoterNext]_promoterVars PROVE PromoterInv'
  OBVIOUS
<1>1. CASE UNCHANGED promoterVars
  BY <1>1, JobCarries DEF promoterVars, PromoterInv
<1>2. CASE PutDomain \/ PutClassification \/ PutTag
  BY <1>2, GoesOn DEF PutDomain, PutClassification, PutTag, KeepsLogs
<1>3. CASE JobFails
  BY <1>3, Stops DEF JobFails, Finishes, KeepsLogs, PromoterInv
<1> QED BY <1>1, <1>2, <1>3, WorldGrows, StartsKeep, NamesKeep, ProductKeeps, DraftKeeps
        DEF PromoterNext

(* Nothing is in the catalog that fewer people than the threshold asked, nor *)
(* a product that was run less often than its own: for any number of people, *)
(* whatever job was stopped where.                                           *)
THEOREM ThresholdAlways == PromoterSpec => []ThresholdHolds
<1>1. PromoterInv => ThresholdHolds
  BY DEF PromoterInv, ThresholdHolds, Asked, Missed
<1> QED BY <1>1, PromoterStart, PromoterSteps, PTL DEF PromoterSpec
==============================================================================
