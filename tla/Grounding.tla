----------------------------- MODULE Grounding -----------------------------
(***************************************************************************)
(* The schema read ahead of a question and put in the prompt (schema_text  *)
(* of agent/grounding.py): cached for every ask of the process, by the     *)
(* subject the caller's token names (identity_of of agent.py).             *)
(***************************************************************************)
EXTENDS Integers, FiniteSets

CONSTANTS Asks,             \* the run threads of the ask service
          Subjects, Tables,
          MAX_TABLES,
          TTL_S,
          ReadMax,          \* the longest a prefetch may take
          Horizon           \* bound: where the clock stops

ASSUME GroundingAssumption == /\ MAX_TABLES \in Nat
                              /\ TTL_S \in Nat
                              /\ ReadMax \in Nat
                              /\ Horizon \in Nat
                              /\ IsFiniteSet(Tables)
                              /\ Subjects # {}

VARIABLES schemaCache,      \* _CACHE, for one list of sources
          prefetch,         \* one ask's schema_text
          clock
groundingVars == <<schemaCache, prefetch, clock>>

Moments == 0 .. Horizon
Entries == [table : Tables, subject : Subjects, at : Moments]
NoEntry == [at |-> 0, text |-> {}]
NoPrefetch(s) == [pc |-> "idle", subject |-> s, names |-> {}, text |-> {}, since |-> 0]

GroundingType ==
    /\ schemaCache \in [Subjects -> [at : Moments, text : SUBSET Entries]]
    /\ prefetch \in [Asks -> [pc : {"idle", "list", "describe", "done"}, subject : Subjects,
                              names : SUBSET Tables, text : SUBSET Entries, since : Moments]]
    /\ clock \in Moments

GroundingInit == /\ schemaCache = [s \in Subjects |-> NoEntry]
                 /\ prefetch = [a \in Asks |-> NoPrefetch(CHOOSE s \in Subjects : TRUE)]
                 /\ clock = 0

CacheKey_Anyone(s) == CHOOSE subject \in Subjects : TRUE
CacheKey(s) == s

Becomes(a, p) == prefetch' = [prefetch EXCEPT ![a] = p]
Prompts(a, text) == Becomes(a, [prefetch[a] EXCEPT !.pc = "done", !.names = {}, !.text = text])

(* The sources are listed first; a failure of that is no schema.  An empty *)
(* text is never stored, so a stored one is there.                         *)
Begin(a, s) ==
    /\ prefetch[a].pc = "idle"
    /\ LET hit == schemaCache[CacheKey(s)]
           started == [NoPrefetch(s) EXCEPT !.since = clock] IN
       \/ Becomes(a, [started EXCEPT !.pc = "done"])
       \/ IF hit.text # {} /\ clock - hit.at < TTL_S
          THEN Becomes(a, [started EXCEPT !.pc = "done", !.text = hit.text])
          ELSE Becomes(a, [started EXCEPT !.pc = "list"])
    /\ UNCHANGED <<schemaCache, clock>>

(* What the executor lists for this caller, nothing if the call fails; too *)
(* much is no schema rather than a part of it.                             *)
List(a) ==
    /\ prefetch[a].pc = "list"
    /\ \E names \in SUBSET Tables :
           IF Cardinality(names) > MAX_TABLES THEN Prompts(a, {})
           ELSE Becomes(a, [prefetch[a] EXCEPT !.pc = "describe", !.names = names])
    /\ UNCHANGED <<schemaCache, clock>>

(* A table whose description fails or is refused is left out. *)
Describe(a) ==
    /\ prefetch[a].pc = "describe"
    /\ \E table \in prefetch[a].names, described \in BOOLEAN :
           Becomes(a, [prefetch[a] EXCEPT
               !.names = @ \ {table},
               !.text = IF described
                        THEN @ \cup {[table |-> table, subject |-> prefetch[a].subject, at |-> clock]}
                        ELSE @])
    /\ UNCHANGED <<schemaCache, clock>>

Keep(a) ==
    /\ prefetch[a].pc = "describe"
    /\ prefetch[a].names = {}
    /\ schemaCache' = IF prefetch[a].text = {} THEN schemaCache
                      ELSE [schemaCache EXCEPT ![CacheKey(prefetch[a].subject)] =
                                [at |-> clock, text |-> prefetch[a].text]]
    /\ Prompts(a, prefetch[a].text)
    /\ UNCHANGED clock

Use(a) == /\ prefetch[a].pc = "done"
          /\ Becomes(a, NoPrefetch(prefetch[a].subject))
          /\ UNCHANGED <<schemaCache, clock>>

Pass == /\ clock < Horizon
        /\ \A a \in Asks : \/ prefetch[a].pc = "idle"
                           \/ prefetch[a].pc # "done" /\ clock - prefetch[a].since < ReadMax
        /\ clock' = clock + 1
        /\ UNCHANGED <<schemaCache, prefetch>>

GroundingNext == \/ \E a \in Asks : \/ \E s \in Subjects : Begin(a, s)
                                    \/ List(a) \/ Describe(a) \/ Keep(a) \/ Use(a)
                 \/ Pass

GroundingSpec == GroundingInit /\ [][GroundingNext]_groundingVars

-----------------------------------------------------------------------------
(* What the prompt says a caller may query was described to that caller,   *)
(* by the executor, at most a cache life and one prefetch ago; so a column *)
(* withheld or a role withdrawn since then is all it can be wrong about;   *)
(* and there are no more tables of it than the bound.                      *)
SchemaOfCaller ==
    \A a \in Asks : prefetch[a].pc = "done" =>
        /\ Cardinality({entry.table : entry \in prefetch[a].text}) <= MAX_TABLES
        /\ \A entry \in prefetch[a].text :
               /\ entry.subject = prefetch[a].subject
               /\ clock - entry.at <= TTL_S + ReadMax
=============================================================================
