---------------------------- MODULE SourceProofs ----------------------------
(***************************************************************************)
(* What TLAPS proves of a data source: of Sources, for every entry and     *)
(* both executors; of SpecCache, for any number of threads and documents;  *)
(* of VaultRef, for any finite number of threads and any number of         *)
(* versions; of Engines, for any threads and tokens, any ceilings and any  *)
(* number of pools kept.                                                   *)
(***************************************************************************)
EXTENDS Sources, SpecCache, VaultRef, Engines, FiniteSetTheorems, TLAPS

-----------------------------------------------------------------------------
(* An entry of the configuration.                                            *)

Surfaces == {"sql", "http"}

(* What a request about the entry that was loaded is answered.               *)
Told(surface, given) ==
    LET reached == Reached(impl, source, surface, given) IN
    [surface |-> surface, reached |-> reached,
     audited |-> IF reached = "fails" THEN "none" ELSE CredentialKind(source)]

ConfigInv ==
    /\ impl \in Impls
    /\ source \in SourceEntries \cup {NoSource, RefusedSource}
    /\ Loaded => ~EntryRefused(impl, source)
    /\ \/ answer = NoAnswer
       \/ Loaded /\ \E surface \in Surfaces, given \in BOOLEAN : answer = Told(surface, given)

LEMMA EntriesAreLoaded == \A e \in SourceEntries : e # NoSource /\ e # RefusedSource
BY DEF SourceEntries, SourceKinds, TdsKinds, PostgresKinds, NoSource, RefusedSource

LEMMA ConfigStart == BaseInit /\ SourcesInit => ConfigInv
BY DEF BaseInit, SourcesInit, ConfigInv, Loaded

LEMMA ConfigSteps == ConfigInv /\ [SourcesNext]_<<impl, now, sourceVars>> => ConfigInv'
<1> SUFFICES ASSUME ConfigInv, [SourcesNext]_<<impl, now, sourceVars>> PROVE ConfigInv'
  OBVIOUS
<1>1. CASE UNCHANGED <<impl, now, sourceVars>>
  <2>1. \A s, g : Told(s, g)' = Told(s, g)
    BY <1>1 DEF sourceVars, Told, Reached, DuckDBReached
  <2>2. Loaded' = Loaded /\ EntryRefused(impl, source)' = EntryRefused(impl, source)
    BY <1>1 DEF sourceVars, Loaded, EntryRefused, EmbeddedRefused
  <2> QED BY <1>1, <2>1, <2>2 DEF ConfigInv, sourceVars
<1>2. CASE SourcesNext
  <2>1. UNCHANGED <<impl, duckDBSupported>>
    BY <1>2 DEF SourcesNext
  <2>2. CASE LoadSources
    <3>1. PICK e \in SourceEntries : source' = IF EntryRefused(impl, e) THEN RefusedSource ELSE e
      BY <2>2 DEF LoadSources
    <3>2. EntryRefused(impl, e)' <=> EntryRefused(impl, e)
      BY <2>1 DEF EntryRefused, EmbeddedRefused
    <3>3. answer = NoAnswer
      BY <2>2 DEF LoadSources, ConfigInv, Loaded
    <3>4. CASE EntryRefused(impl, e)
      BY <2>1, <2>2, <3>1, <3>3, <3>4 DEF LoadSources, ConfigInv, Loaded
    <3>5. CASE ~EntryRefused(impl, e)
      BY <2>1, <2>2, <3>1, <3>2, <3>3, <3>5 DEF LoadSources, ConfigInv, Loaded, EntryRefused,
                                                   EmbeddedRefused
    <3> QED BY <3>4, <3>5
  <2>3. ASSUME NEW surface \in Surfaces, NEW given \in BOOLEAN, Ask(surface, given)
        PROVE  ConfigInv'
    <3>1. answer' = Told(surface, given) /\ source' = source /\ Loaded
      BY <2>3 DEF Ask, Told
    <3>2. \A s, g : Told(s, g)' = Told(s, g)
      BY <2>1, <3>1 DEF Told, Reached, DuckDBReached
    <3>3. (~EntryRefused(impl, source))' /\ Loaded'
      BY <2>1, <3>1 DEF ConfigInv, EntryRefused, EmbeddedRefused, Loaded
    <3> QED BY <2>1, <3>1, <3>2, <3>3 DEF ConfigInv
  <2>4. CASE Reconfigure
    BY <2>1, <2>4 DEF Reconfigure, ConfigInv, Loaded
  <2> QED BY <1>2, <2>2, <2>3, <2>4 DEF SourcesNext, Surfaces
<1> QED BY <1>1, <1>2

LEMMA ConfigAlways == SourcesSpec => []ConfigInv
  BY ConfigStart, ConfigSteps, PTL DEF SourcesSpec

(* What an adapter can be, whoever it is handed.                             *)
LEMMA AdapterKinds ==
  ASSUME NEW i \in Impls, NEW e \in SourceEntries, NEW surface \in Surfaces,
         Adapter(i, e, surface) # "none"
  PROVE  /\ Adapter(i, e, surface) \in {"tds", "postgres", "databricks", "duckdb", "rest"}
         /\ Adapter(i, e, surface) = "postgres" <=> e.kind \in PostgresKinds
         /\ Adapter(i, e, surface) = "duckdb" <=> e.kind = "duckdb"
         /\ Adapter(i, e, surface) = "rest" <=> surface = "http"
         /\ surface = "http" => e.kind = "rest"
         /\ surface = "sql" => e.kind # "rest"
         /\ i = "py" => e.written = "plain" /\ SurfaceOf(i, e) = surface
         /\ i = "go" /\ surface = "http" => e.spec
<1>1. e.kind \in SourceKinds
  BY DEF SourceEntries
<1>2. CASE i = "py"
  <2>1. /\ Adapter(i, e, surface) = PyAdapter(e) /\ SurfaceOf(i, e) = surface
        /\ PyAdapter(e) = "rest" <=> surface = "http"
    BY <1>2 DEF Adapter
  <2>2. PyAdapter(e) # "none"
    BY <2>1
  <2>3. /\ e.written = "plain"
        /\ \/ e.kind \in TdsKinds /\ PyAdapter(e) = "tds"
           \/ e.kind = "postgres" /\ PyAdapter(e) = "postgres"
           \/ e.kind \in {"databricks", "duckdb", "rest"} /\ PyAdapter(e) = e.kind
    BY <2>2 DEF PyAdapter
  <2> QED BY <1>2, <2>1, <2>3 DEF TdsKinds, PostgresKinds, Surfaces
<1>3. CASE i = "go" /\ surface = "sql"
  BY <1>1, <1>3 DEF Adapter, GoAdapter, SourceKinds, TdsKinds, PostgresKinds, Surfaces
<1>4. CASE i = "go" /\ surface = "http"
  BY <1>1, <1>4 DEF Adapter, IsKind, SourceKinds, TdsKinds, PostgresKinds, Surfaces
<1> QED BY <1>2, <1>3, <1>4 DEF Impls, Surfaces

-----------------------------------------------------------------------------
(* The line of an audit, the surface and the password are right of every     *)
(* entry that starts.                                                        *)
LEMMA ServedRight ==
  ASSUME NEW i \in Impls, NEW e \in SourceEntries, ~EntryRefused(i, e),
         NEW surface \in Surfaces, NEW given \in BOOLEAN,
         Reached(i, e, surface, given) # "fails"
  PROVE  LET reached == Reached(i, e, surface, given) IN
         /\ reached \in {"asker", "stored", "identity", "dsn", "nobody"}
         /\ e.authz_tier = "user" => \/ reached = "asker"
                                     \/ e.written = "padded" /\ i = "go" /\ reached = "nobody"
                                     \/ e.password = "query" /\ i = "go" /\ reached = "dsn"
         /\ reached = "asker" => e.authz_tier = "user"
         /\ reached = "stored" => e.authz_tier # "user" /\ e.credential # "none"
         /\ reached = "identity" => e.authz_tier # "user" /\ e.credential = "none"
         /\ e.kind \in PostgresKinds => /\ reached \in {"asker", "stored", "dsn"}
                                        /\ reached = "stored" => e.password = "none"
<1> DEFINE token == PrincipalToken(i, e, given)
           adapter == Adapter(i, e, surface)
           reached == Reached(i, e, surface, given)
<1>1. adapter # "none" /\ token # "fails"
  BY DEF Reached
<1>2. /\ e.kind \in SourceKinds /\ e.authz_tier \in {"user", "service"}
      /\ e.password \in {"none", "user", "query"}
      /\ e.credential \in {"none", "literal", "reference", "unnamed", "scheme"}
      /\ e.written \in {"plain", "cased", "padded"}
  BY DEF SourceEntries
<1>3. ~EmbeddedRefused(i, e) /\ ~CredentialRefused(e)
  BY DEF EntryRefused
<1>6. CASE adapter = "postgres"
  <2>1. e.kind \in PostgresKinds
    BY <1>1, <1>6, AdapterKinds
  <2>2. reached = PostgresReached(i, e, token) /\ reached # "fails"
    BY <1>1, <1>6 DEF Reached
  <2>3. CASE e.authz_tier = "user"
    <3>1. e.credential = "none" /\ token \in {"asker", "elsewhere"}
      BY <1>1, <1>2, <1>3, <2>3 DEF CredentialRefused, PrincipalToken
    <3>2. \/ reached = "asker"
          \/ e.password = "query" /\ i = "go" /\ reached = "dsn"
      BY <2>2, <2>3, <3>1 DEF PostgresReached, Admitted, Impls
    <3> QED BY <2>3, <3>2
  <2>4. CASE e.authz_tier # "user" /\ e.credential = "none"
    <3>1. reached = "dsn"
      BY <2>2, <2>4 DEF PostgresReached
    <3> QED BY <2>4, <3>1
  <2>5. CASE e.authz_tier # "user" /\ e.credential # "none"
    <3>1. e.password = "none" /\ token = "stored"
      BY <1>1, <1>2, <1>3, <2>5 DEF CredentialRefused, PrincipalToken
    <3>2. reached = "stored"
      BY <2>2, <2>5, <3>1 DEF PostgresReached, Admitted
    <3> QED BY <2>5, <3>1, <3>2
  <2> QED BY <2>3, <2>4, <2>5
<1>4. CASE adapter # "postgres" /\ e.authz_tier = "user"
  <2>1. e.credential = "none" /\ token \in {"asker", "elsewhere"} /\ e.kind \notin PostgresKinds
    BY <1>1, <1>2, <1>3, <1>4, AdapterKinds DEF CredentialRefused, PrincipalToken
  <2>2. CASE adapter = "duckdb"
    <3>1. e.kind = "duckdb" /\ reached = "nobody"
      BY <1>1, <2>2, AdapterKinds DEF Reached, DuckDBReached
    <3>2. ~IsKind(i, e, "duckdb")
      BY <1>3, <1>4 DEF EmbeddedRefused
    <3>3. i = "go" /\ e.written = "padded"
      BY <1>1, <1>2, <3>1, <3>2, AdapterKinds DEF IsKind, Impls
    <3> QED BY <1>4, <3>1, <3>3 DEF PostgresKinds
  <2>3. CASE adapter # "duckdb"
    <3>1. reached = "asker"
      BY <1>1, <1>4, <2>1, <2>3 DEF Reached, Admitted
    <3> QED BY <1>4, <2>1, <3>1
  <2> QED BY <2>2, <2>3
<1>5. CASE adapter # "postgres" /\ e.authz_tier # "user"
  <2>1. /\ token \in {"identity", "stored"} /\ e.kind \notin PostgresKinds
        /\ token = "identity" <=> e.credential = "none"
    BY <1>1, <1>2, <1>5, AdapterKinds DEF PrincipalToken
  <2>2. CASE adapter = "duckdb"
    <3>1. reached = "nobody"
      BY <1>1, <2>2 DEF Reached, DuckDBReached
    <3> QED BY <1>5, <2>1, <3>1
  <2>3. CASE adapter # "duckdb"
    <3>1. reached = token
      BY <1>1, <1>5, <2>1, <2>3 DEF Reached, Admitted
    <3> QED BY <1>5, <2>1, <3>1
  <2> QED BY <2>2, <2>3
<1> QED BY <1>4, <1>5, <1>6

(* A source is answered for on one surface only.                             *)
LEMMA OtherSurfaceFails ==
  ASSUME NEW i \in Impls, NEW e \in SourceEntries, ~EntryRefused(i, e), NEW surface \in Surfaces,
         Adapter(i, e, surface) # "none"
  PROVE  /\ Adapter(i, e, IF surface = "sql" THEN "http" ELSE "sql") = "none"
         /\ surface = "http" => e.spec
<1> DEFINE other == IF surface = "sql" THEN "http" ELSE "sql"
<1>1. other \in Surfaces /\ other # surface
  BY DEF Surfaces
<1>2. Adapter(i, e, other) = "none"
  <2> SUFFICES ASSUME Adapter(i, e, other) # "none" PROVE FALSE
    OBVIOUS
  <2> HIDE DEF other
  <2>1. (surface = "http" => e.kind = "rest") /\ (surface = "sql" => e.kind # "rest")
    BY AdapterKinds
  <2>2. (other = "http" => e.kind = "rest") /\ (other = "sql" => e.kind # "rest")
    BY <1>1, AdapterKinds
  <2> QED BY <1>1, <2>1, <2>2 DEF Surfaces
<1>3. ASSUME surface = "http" PROVE e.spec
  <2>1. CASE i = "go"
    BY <1>3, <2>1, AdapterKinds
  <2>2. CASE i = "py"
    <3>1. SurfaceOf(i, e) = "http"
      BY <1>3, <2>2, AdapterKinds
    <3> QED BY <3>1 DEF EntryRefused, SourceEntries
  <2> QED BY <2>1, <2>2 DEF Impls
<1> QED BY <1>2, <1>3

(* Whoever an engine sees as the caller, with a stored secret or as this     *)
(* service is what the audit line says, and a line of Python's that says the *)
(* caller means it; an entry is answered for on one surface, and a           *)
(* PostgreSQL gets one password: for every entry either executor starts with *)
(* (sources.py and app.py; sources.go, backend_router.go, main.go).          *)
THEOREM AlwaysServedAsConfigured == SourcesSpec => []ServedAsConfigured
<1>1. ConfigInv => ServedAsConfigured
  <2> SUFFICES ASSUME ConfigInv PROVE ServedAsConfigured
    OBVIOUS
  <2>1. CASE ~Served
    <3>1. answer.audited = "none"
      BY <2>1 DEF Served, ConfigInv, NoAnswer, Told
    <3> QED BY <2>1, <3>1 DEF ServedAsConfigured, UserMeansAsker, AuditTellsCredential,
                              OneSurface, PostgresPassword
  <2>2. CASE Served
    <3>1. PICK surface \in Surfaces, given \in BOOLEAN : Loaded /\ answer = Told(surface, given)
      BY <2>2 DEF Served, ConfigInv, NoAnswer
    <3>2. source \in SourceEntries /\ ~EntryRefused(impl, source) /\ impl \in Impls
      BY <3>1 DEF ConfigInv, Loaded
    <3> DEFINE reached == Reached(impl, source, surface, given)
    <3>3. /\ answer.surface = surface /\ answer.reached = reached /\ reached # "fails"
          /\ answer.audited = CredentialKind(source)
      BY <2>2, <3>1 DEF Served, Told
    <3>4. Adapter(impl, source, surface) # "none"
      BY <3>3 DEF Reached
    <3>5. UserMeansAsker /\ AuditTellsCredential
      BY <3>2, <3>3, ServedRight DEF UserMeansAsker, AuditTellsCredential, CredentialKind
    <3>6. PostgresPassword
      BY <3>2, <3>3, ServedRight DEF PostgresPassword
    <3>7. OneSurface
      <4>1. /\ Adapter(impl, source, IF surface = "sql" THEN "http" ELSE "sql") = "none"
            /\ surface = "http" => source.spec
        BY <3>2, <3>4, OtherSurfaceFails
      <4>2. \A g \in BOOLEAN :
               Reached(impl, source, IF surface = "sql" THEN "http" ELSE "sql", g) = "fails"
        BY <4>1 DEF Reached
      <4> QED BY <3>3, <4>1, <4>2 DEF OneSurface
    <3> QED BY <3>5, <3>6, <3>7 DEF ServedAsConfigured
  <2> QED BY <2>1, <2>2
<1> QED BY <1>1, ConfigAlways, PTL

(* An entry in words both executors know starts in both and reaches the      *)
(* same in both.                                                             *)
THEOREM ExecutorsAgree == SourcesSpec => []ImplementationsAgree
<1>1. ASSUME NEW e \in SourceEntries, NEW i \in Impls, NEW j \in Impls, Common(e)
      PROVE  EntryRefused(i, e) <=> EntryRefused(j, e)
  <2>1. e.written = "plain" /\ SurfaceOf(i, e) = SurfaceOf(j, e)
    BY <1>1 DEF Common, SurfaceOf, IsKind
  <2>2. EmbeddedRefused(i, e) <=> EmbeddedRefused(j, e)
    BY <1>1, <2>1 DEF Common, EmbeddedRefused, IsKind
  <2> QED BY <2>1, <2>2 DEF EntryRefused
<1>2. ASSUME NEW e \in SourceEntries, NEW i \in Impls, Common(e), ~EntryRefused(i, e),
             NEW surface \in Surfaces
      PROVE  Adapter(i, e, surface) =
                 IF surface = "http" THEN IF e.kind = "rest" THEN "rest" ELSE "none"
                 ELSE IF e.kind = "rest" THEN "none" ELSE GoAdapter(e)
  <2>1. /\ e.written = "plain" /\ e.kind \in SourceKinds
        /\ e.kind \notin {"azuresql", "mssql", "postgresql"}
        /\ SurfaceOf(i, e) = IF e.kind = "rest" THEN "http" ELSE "sql"
    BY <1>2 DEF Common, SourceEntries, SurfaceOf, IsKind
  <2>2. /\ e.kind # "rest" => PyAdapter(e) = GoAdapter(e) /\ PyAdapter(e) # "rest"
        /\ e.kind = "rest" => PyAdapter(e) = "rest" /\ GoAdapter(e) = "none" /\ e.spec
    BY <1>2, <2>1 DEF PyAdapter, GoAdapter, SourceKinds, TdsKinds, PostgresKinds, EntryRefused,
                  SourceEntries
  <2>3. CASE i = "py"
    BY <2>1, <2>2, <2>3 DEF Adapter, Surfaces
  <2>4. CASE i = "go"
    BY <2>1, <2>2, <2>4 DEF Adapter, IsKind, Surfaces
  <2> QED BY <2>3, <2>4 DEF Impls
<1>3. ASSUME NEW e \in SourceEntries, NEW i \in Impls, NEW j \in Impls, Common(e),
             ~EntryRefused(i, e), NEW surface \in Surfaces, NEW given \in BOOLEAN
      PROVE  Reached(i, e, surface, given) = Reached(j, e, surface, given)
  <2>1. Adapter(i, e, surface) = Adapter(j, e, surface)
    BY <1>1, <1>2, <1>3
  <2>2. DuckDBReached(i, e) = DuckDBReached(j, e) \/ e.kind # "duckdb"
    BY <1>3 DEF Common, DuckDBReached
  <2>3. e.kind = "postgres" => \A token : PostgresReached(i, e, token) = PostgresReached(j, e, token)
    BY <1>3 DEF Common, PostgresReached, DsnReaches, Impls
  <2>4. /\ Adapter(i, e, surface) = "postgres" => e.kind = "postgres"
        /\ Adapter(i, e, surface) = "duckdb" => e.kind = "duckdb"
    BY <1>3, AdapterKinds DEF Common, PostgresKinds
  <2>5. PrincipalToken(i, e, given) = PrincipalToken(j, e, given)
    BY <1>3 DEF Common, PrincipalToken
  <2> QED BY <2>1, <2>2, <2>3, <2>4, <2>5 DEF Reached
<1>4. ConfigInv => ImplementationsAgree
  BY <1>1, <1>3 DEF ConfigInv, ImplementationsAgree, Loaded, Surfaces
<1> QED BY <1>4, ConfigAlways, PTL

-----------------------------------------------------------------------------
(* The document of an HTTP source.                                           *)

CallStates == [pc : {"idle", "fetch", "store", "load", "policy", "guarded", "failed"},
               raw : SpecsKept, operations : SpecsKept, base : SpecsKept, settled : BOOLEAN]

(* Nobody is reading a document, and there is one.                           *)
Settled == spec # NoSpec /\ \A t \in Threads : ~Unsettled(t)

(* What a call has come to where it is.                                      *)
CallRelies(c) ==
    /\ c.settled => Settled /\ c.pc \in {"load", "policy", "guarded"}
    /\ c.settled /\ c.pc \in {"policy", "guarded"} => c.operations = spec
    /\ c.settled /\ c.pc = "guarded" => c.base \in {spec, NoSpec}
    /\ c.pc = "store" => c.raw # NoSpec /\ (impl = "py" => c.raw \in 1 .. published)
    /\ c.pc = "load" => spec # NoSpec
    /\ c.pc \in {"policy", "guarded"} => c.operations # NoSpec

SpecInv ==
    /\ impl \in Impls
    /\ SpecType
    /\ impl = "py" => spec \in {NoSpec} \cup 1 .. published
    /\ \A t \in Threads : CallRelies(calls[t])

LEMMA SpecNumbers ==
  /\ MaxSpecs \in Nat \ {0} /\ NoSpec = 0 /\ NotTheSpec = MaxSpecs + 1
  /\ NoSpec \in SpecsKept /\ NotTheSpec \in SpecsKept /\ NotTheSpec # NoSpec
  /\ \A d \in Documents : d \in SpecsKept /\ d \in Nat /\ d # NoSpec
BY SpecsAssumption DEF NoSpec, NotTheSpec, Documents, SpecsKept

LEMMA NobodyCalls ==
  /\ NoCall \in CallStates /\ NoCall.pc = "idle" /\ ~NoCall.settled
  /\ NoCall.raw = NoSpec /\ NoCall.operations = NoSpec /\ NoCall.base = NoSpec
BY SpecNumbers DEF NoCall, CallStates

LEMMA SpecStart == BaseInit /\ SpecInit => SpecInv
<1> SUFFICES ASSUME BaseInit, SpecInit PROVE SpecInv
  OBVIOUS
<1>1. \A t \in Threads : calls[t] = NoCall
  BY DEF SpecInit
<1>2. calls \in [Threads -> CallStates]
  BY NobodyCalls DEF SpecInit
<1>3. published = 1 /\ 1 \in Documents /\ spec = NoSpec
  BY SpecNumbers DEF SpecInit, Documents
<1>4. SpecType
  BY <1>2, <1>3, SpecNumbers DEF SpecInit, SpecType, CallStates
<1>5. \A t \in Threads : CallRelies(calls[t])
  BY <1>1, NobodyCalls DEF CallRelies
<1> QED BY <1>3, <1>4, <1>5 DEF SpecInv, BaseInit

(* One call changes, and what is kept or published with it: what the others  *)
(* rely on stays if a kept document is not lost and a settled one not moved. *)
LEMMA CallMoves ==
  ASSUME SpecInv, NEW t \in Threads, NEW c \in CallStates,
         calls' = [calls EXCEPT ![t] = c],
         impl' = impl, named' = named,
         spec' \in SpecsKept, published' \in Documents, published <= published',
         spec # NoSpec => spec' # NoSpec,
         impl = "py" => spec' \in {NoSpec} \cup 1 .. published',
         Settled => spec' = spec /\ c.pc \notin {"fetch", "store"},
         CallRelies(c)'
  PROVE  SpecInv'
<1>1. calls \in [Threads -> CallStates]
  BY DEF SpecInv, SpecType, CallStates
<1>2. calls' \in [Threads -> CallStates]
  BY <1>1
<1>3. \A u \in Threads \ {t} : calls'[u] = calls[u]
  BY <1>1
<1>4. calls'[t] = c
  BY <1>1
<1>5. SpecType'
  BY <1>2 DEF SpecType, CallStates, SpecInv
<1>6. Settled => Settled'
  BY <1>3, <1>4 DEF Settled, Unsettled
<1>7. ASSUME NEW u \in Threads PROVE CallRelies(calls[u])'
  <2>1. CASE u = t
    BY <2>1, <1>4 DEF CallRelies
  <2>2. CASE u # t
    <3>1. CallRelies(calls[u]) /\ calls'[u] = calls[u]
      BY <2>2, <1>3 DEF SpecInv
    <3>2. 1 .. published \subseteq 1 .. published'
      BY SpecNumbers DEF SpecInv, SpecType
    <3>3. calls[u].settled => Settled /\ spec' = spec
      BY <3>1 DEF CallRelies
    <3> QED BY <3>1, <3>2, <3>3, <1>6 DEF CallRelies
  <2> QED BY <2>1, <2>2
<1> QED BY <1>5, <1>7 DEF SpecInv

LEMMA LookKeeps ==
  ASSUME SpecInv, UNCHANGED <<impl, now>>, NEW t \in Threads, LookSpec(t)
  PROVE  SpecInv'
<1>1. spec \in SpecsKept /\ published \in Documents /\ published <= published
  BY SpecNumbers DEF SpecInv, SpecType, Documents
<1>2. PICK c \in CallStates :
        /\ calls' = [calls EXCEPT ![t] = c]
        /\ c.settled <=> Settled
        /\ c.pc = IF spec = NoSpec THEN "fetch" ELSE IF impl = "py" THEN "load" ELSE "policy"
        /\ c.operations = IF impl = "go" THEN spec ELSE NoSpec
  <2> DEFINE d == [NoCall EXCEPT
           !.settled = spec # NoSpec /\ \A u \in Threads : ~Unsettled(u),
           !.pc = IF spec = NoSpec THEN "fetch" ELSE IF impl = "py" THEN "load" ELSE "policy",
           !.operations = IF impl = "go" THEN spec ELSE NoSpec]
  <2>1. calls' = [calls EXCEPT ![t] = d]
    BY DEF LookSpec
  <2>2. d.settled <=> Settled
    BY DEF NoCall, Settled
  <2>3. /\ d.pc = IF spec = NoSpec THEN "fetch" ELSE IF impl = "py" THEN "load" ELSE "policy"
        /\ d.operations = IF impl = "go" THEN spec ELSE NoSpec
    BY DEF NoCall
  <2>4. d \in CallStates
    BY <1>1, NobodyCalls DEF CallStates
  <2> HIDE DEF d
  <2> QED BY <2>1, <2>2, <2>3, <2>4
<1>3. UNCHANGED <<impl, published, spec, named>>
  BY DEF LookSpec
<1>4. Settled => c.pc \notin {"fetch", "store"} /\ spec # NoSpec
  BY <1>2 DEF Settled
<1>5. Settled => Settled'
  <2>1. calls \in [Threads -> CallStates]
    BY DEF SpecInv, SpecType, CallStates
  <2>2. \A u \in Threads : calls'[u] = IF u = t THEN c ELSE calls[u]
    BY <1>2, <2>1
  <2> QED BY <1>3, <1>4, <2>2 DEF Settled, Unsettled
<1>6. impl = "go" \/ impl = "py"
  BY DEF SpecInv, Impls
<1>7. CallRelies(c)'
  <2>1. c.pc \in {"fetch", "load", "policy"} /\ (spec = NoSpec => c.pc = "fetch")
        /\ (c.pc = "policy" => c.operations = spec)
    BY <1>2, <1>6
  <2> QED BY <1>2, <1>3, <1>4, <1>5, <2>1 DEF CallRelies
<1>8. impl = "py" => spec \in {NoSpec} \cup 1 .. published
  BY DEF SpecInv
<1> QED BY <1>1, <1>2, <1>3, <1>4, <1>7, <1>8, CallMoves

(* Steps that leave what is kept alone and read nothing.                     *)
LEMMA CallOnly ==
  ASSUME SpecInv, UNCHANGED <<impl, published, spec, named>>,
         NEW t \in Threads, NEW c \in CallStates, calls' = [calls EXCEPT ![t] = c],
         c.settled => calls[t].settled, c.pc # "fetch",
         c.pc = "store" => calls[t].pc = "fetch",
         CallRelies(c)
  PROVE  SpecInv'
<1>1. calls \in [Threads -> CallStates] /\ spec \in SpecsKept /\ published \in Documents
  BY DEF SpecInv, SpecType, CallStates
<1>2. \A u \in Threads : calls'[u] = IF u = t THEN c ELSE calls[u]
  BY <1>1
<1>3. Settled => c.pc \notin {"fetch", "store"}
  BY DEF Settled, Unsettled
<1>4. Settled => Settled'
  BY <1>2, <1>3 DEF Settled, Unsettled
<1>5. CallRelies(c)'
  BY <1>4 DEF CallRelies
<1>6. published <= published /\ (impl = "py" => spec \in {NoSpec} \cup 1 .. published)
  BY <1>1, SpecNumbers DEF SpecInv
<1> QED BY <1>1, <1>3, <1>5, <1>6, CallMoves

LEMMA CallStands ==
  ASSUME SpecInv, NEW t \in Threads
  PROVE  calls[t] \in CallStates /\ CallRelies(calls[t])
BY DEF SpecInv, SpecType, CallStates

LEMMA SpecSteps == SpecInv /\ [SpecNext]_<<impl, now, specVars>> => SpecInv'
<1> SUFFICES ASSUME SpecInv, [SpecNext]_<<impl, now, specVars>> PROVE SpecInv'
  OBVIOUS
<1>1. ASSUME NEW t \in Threads, LookSpec(t), UNCHANGED <<impl, now>> PROVE SpecInv'
  BY <1>1, LookKeeps
<1>2. ASSUME NEW t \in Threads, FetchSpec(t), UNCHANGED <<impl, now>> PROVE SpecInv'
  <2> PICK raw \in Fetched : calls' = [calls EXCEPT ![t].pc = "store", ![t].raw = raw]
    BY <1>2 DEF FetchSpec
  <2> DEFINE c == [calls[t] EXCEPT !.pc = "store", !.raw = raw]
  <2>1. calls[t] \in CallStates /\ CallRelies(calls[t]) /\ calls[t].pc = "fetch"
    BY <1>2, CallStands DEF FetchSpec, CallAt
  <2>2. raw \in SpecsKept /\ raw # NoSpec /\ (impl = "py" => raw \in 1 .. published)
    BY SpecNumbers DEF Fetched, SpecInv, SpecType, Documents
  <2>3. c \in CallStates /\ c.pc = "store" /\ c.raw = raw /\ c.settled = calls[t].settled
    BY <2>1, <2>2 DEF CallStates
  <2>4. calls' = [calls EXCEPT ![t] = c]
    OBVIOUS
  <2>5. UNCHANGED <<impl, published, spec, named>>
    BY <1>2 DEF FetchSpec
  <2> HIDE DEF c
  <2>6. ~calls[t].settled /\ CallRelies(c)
    BY <2>1, <2>2, <2>3 DEF CallRelies
  <2> QED BY <2>1, <2>3, <2>4, <2>5, <2>6, CallOnly
<1>3. ASSUME NEW t \in Threads, FetchFails(t), UNCHANGED <<impl, now>> PROVE SpecInv'
  <2> DEFINE c == [NoCall EXCEPT !.pc = "failed"]
  <2>1. calls' = [calls EXCEPT ![t] = c] /\ UNCHANGED <<impl, published, spec, named>>
    BY <1>3 DEF FetchFails
  <2>2. c \in CallStates /\ c.pc = "failed" /\ ~c.settled
    BY NobodyCalls DEF CallStates, NoCall
  <2> HIDE DEF c
  <2>3. CallRelies(c)
    BY <2>2 DEF CallRelies
  <2> QED BY <2>1, <2>2, <2>3, CallOnly
<1>4. ASSUME NEW t \in Threads, StoreSpec(t), UNCHANGED <<impl, now>> PROVE SpecInv'
  <2>1. calls[t] \in CallStates /\ CallRelies(calls[t]) /\ calls[t].pc = "store"
    BY <1>4, CallStands DEF StoreSpec, CallAt
  <2> PICK raw : raw = calls[t].raw
    OBVIOUS
  <2>2. raw \in SpecsKept /\ raw # NoSpec /\ (impl = "py" => raw \in 1 .. published)
    BY <2>1 DEF CallRelies, CallStates
  <2> DEFINE d == [calls[t] EXCEPT !.pc = IF impl = "py" THEN "load" ELSE "policy",
                                   !.operations = IF impl = "go" THEN raw ELSE NoSpec]
  <2>a. /\ d \in CallStates /\ d.settled = calls[t].settled
        /\ d.pc = IF impl = "py" THEN "load" ELSE "policy"
        /\ d.operations = IF impl = "go" THEN raw ELSE NoSpec
    BY <2>1, <2>2, SpecNumbers DEF CallStates
  <2> HIDE DEF d
  <2>3. PICK c \in CallStates :
           /\ c = d /\ c.settled = calls[t].settled
           /\ c.pc = IF impl = "py" THEN "load" ELSE "policy"
           /\ c.operations = IF impl = "go" THEN raw ELSE NoSpec
    BY <2>a
  <2>4. calls' = [calls EXCEPT ![t] = c] /\ spec' = raw /\ UNCHANGED <<published, named, impl>>
    BY <1>4, <2>3 DEF StoreSpec, d
  <2>5. impl = "go" \/ impl = "py"
    BY DEF SpecInv, Impls
  <2>6. ~Settled
    BY <2>1 DEF Settled, Unsettled
  <2>7. CallRelies(c)'
    BY <2>1, <2>2, <2>3, <2>4, <2>5 DEF CallRelies
  <2>8. published \in Documents /\ published <= published
    BY SpecNumbers DEF SpecInv, SpecType
  <2> QED BY <2>2, <2>3, <2>4, <2>6, <2>7, <2>8, CallMoves
<1>5. ASSUME NEW t \in Threads, LoadSpec(t), UNCHANGED <<impl, now>> PROVE SpecInv'
  <2> DEFINE c == [calls[t] EXCEPT !.pc = "policy", !.operations = spec]
  <2>1. calls[t] \in CallStates /\ CallRelies(calls[t]) /\ calls[t].pc = "load" /\ spec \in SpecsKept
    BY <1>5, CallStands DEF LoadSpec, CallAt, SpecInv, SpecType
  <2>2. /\ c \in CallStates /\ c.pc = "policy" /\ c.operations = spec
        /\ c.settled = calls[t].settled
    BY <2>1 DEF CallStates
  <2>3. calls' = [calls EXCEPT ![t] = c] /\ UNCHANGED <<impl, published, spec, named>>
    BY <1>5 DEF LoadSpec
  <2> HIDE DEF c
  <2>4. CallRelies(c)
    BY <2>1, <2>2 DEF CallRelies
  <2> QED BY <2>1, <2>2, <2>3, <2>4, CallOnly
<1>6. ASSUME NEW t \in Threads, PolicyOf(t), UNCHANGED <<impl, now>> PROVE SpecInv'
  <2> DEFINE c == [calls[t] EXCEPT !.pc = "guarded", !.base = IF named THEN NoSpec ELSE spec]
  <2>1. calls[t] \in CallStates /\ CallRelies(calls[t]) /\ calls[t].pc = "policy" /\ spec \in SpecsKept
    BY <1>6, CallStands DEF PolicyOf, CallAt, SpecInv, SpecType
  <2>2. /\ c \in CallStates /\ c.pc = "guarded" /\ c.operations = calls[t].operations
        /\ c.settled = calls[t].settled /\ c.base \in {spec, NoSpec}
    BY <2>1, SpecNumbers DEF CallStates
  <2>3. calls' = [calls EXCEPT ![t] = c] /\ UNCHANGED <<impl, published, spec, named>>
    BY <1>6 DEF PolicyOf
  <2> HIDE DEF c
  <2>4. CallRelies(c)
    BY <2>1, <2>2 DEF CallRelies
  <2> QED BY <2>1, <2>2, <2>3, <2>4, CallOnly
<1>7. ASSUME NEW t \in Threads, CallReturn(t), UNCHANGED <<impl, now>> PROVE SpecInv'
  <2>1. calls' = [calls EXCEPT ![t] = NoCall] /\ UNCHANGED <<impl, published, spec, named>>
    BY <1>7 DEF CallReturn
  <2>2. CallRelies(NoCall)
    BY NobodyCalls DEF CallRelies
  <2> QED BY <2>1, <2>2, NobodyCalls, CallOnly
<1>8. CASE PublishSpec /\ UNCHANGED <<impl, now>>
  <2>1. published \in Documents /\ published' = published + 1 /\ published' \in Documents
    BY <1>8, SpecNumbers DEF PublishSpec, SpecInv, SpecType, Documents
  <2>2. UNCHANGED <<impl, spec, named, calls>>
    BY <1>8 DEF PublishSpec
  <2>3. 1 .. published \subseteq 1 .. published'
    BY <2>1, SpecNumbers
  <2>4. Settled' <=> Settled
    BY <2>2 DEF Settled, Unsettled
  <2>5. \A t \in Threads : CallRelies(calls[t])'
    BY <2>2, <2>3, <2>4 DEF CallRelies, SpecInv
  <2> QED BY <2>1, <2>2, <2>3, <2>5 DEF SpecInv, SpecType
<1>9. CASE UNCHANGED <<impl, now, specVars>>
  BY <1>9 DEF specVars, SpecInv, SpecType, CallRelies, Settled, Unsettled
<1> QED BY <1>1, <1>2, <1>3, <1>4, <1>5, <1>6, <1>7, <1>8, <1>9 DEF SpecNext, SpecStep

LEMMA SpecAlways == SpecSpec => []SpecInv
  BY SpecStart, SpecSteps, PTL DEF SpecSpec

(* A call that found a document checks and goes by that one, whatever the    *)
(* API publishes; none is guarded by no document, and in Python none by      *)
(* anything but a document of the API (operations and policy of sources.py   *)
(* and of sources_rest.go).                                                  *)
THEOREM CallsAlwaysGuarded == SpecSpec => []CallsGuarded
<1>1. SpecInv => CallsGuarded
  BY DEF SpecInv, CallRelies, CallsGuarded, SettledCallsAgree, GuardedByDocument, CallAt
<1> QED BY <1>1, SpecAlways, PTL

(* Once nobody is reading it, the document that is kept is kept for good.    *)
THEOREM DocumentSettles == SpecSpec => SpecSettles
<1>1. ASSUME SpecInv, [SpecNext]_<<impl, now, specVars>>
      PROVE  [spec # NoSpec /\ (\A t \in Threads : ~Unsettled(t)) =>
                spec' = spec /\ \A t \in Threads : ~Unsettled(t)']_<<impl, now, specVars>>
  <2> SUFFICES ASSUME SpecNext, Settled
               PROVE  spec' = spec /\ \A t \in Threads : ~Unsettled(t)'
    BY <1>1 DEF Settled
  <2>1. calls \in [Threads -> CallStates]
    BY <1>1 DEF SpecInv, SpecType, CallStates
  <2>2. CASE PublishSpec
    BY <2>2 DEF PublishSpec, Settled, Unsettled
  <2>3. ASSUME NEW t \in Threads, SpecStep(t)
        PROVE  /\ spec' = spec
               /\ \E pc : pc \notin {"fetch", "store"} /\ calls'[t].pc = pc
               /\ \A u \in Threads \ {t} : calls'[u] = calls[u]
    <3>1. CASE LookSpec(t)
      BY <3>1, <2>1 DEF LookSpec, Settled, NoCall
    <3>2. CASE FetchSpec(t) \/ FetchFails(t) \/ StoreSpec(t)
      BY <3>2 DEF FetchSpec, FetchFails, StoreSpec, CallAt, Settled, Unsettled
    <3>3. CASE LoadSpec(t)
      BY <3>3, <2>1 DEF LoadSpec, CallStates
    <3>4. CASE PolicyOf(t)
      BY <3>4, <2>1 DEF PolicyOf, CallStates
    <3>5. CASE CallReturn(t)
      BY <3>5, <2>1 DEF CallReturn, NoCall
    <3> QED BY <2>3, <3>1, <3>2, <3>3, <3>4, <3>5 DEF SpecStep
  <2> QED BY <2>2, <2>3 DEF SpecNext, Settled, Unsettled
<1> QED BY <1>1, SpecAlways, PTL DEF SpecSpec, SpecSettles

-----------------------------------------------------------------------------
(* A vault reference.                                                        *)

ResolveStates == [pc : {"idle", "identity", "secret", "keep", "resolved", "failed"},
                  value : Versions \cup {NoVersion}]
ResolvingNow == {t \in Threads : Resolving(t)}

(* As long as none is kept none was handed out; one that is kept was.        *)
VaultInv ==
    /\ VaultType
    /\ cache = NoVersion => handedOut = {}
    /\ cache # NoVersion => cache \in handedOut
    /\ \A t \in Threads : resolves[t].pc = "keep" => resolves[t].value # NoVersion
    /\ IsFiniteSet(handedOut)
    /\ HandedOutBounded

LEMMA FewerResolve ==
  IsFiniteSet(ResolvingNow) /\ Cardinality(ResolvingNow) \in Nat
  /\ Cardinality(Threads) \in Nat /\ Cardinality(ResolvingNow) <= Cardinality(Threads)
BY VersionsAssumption, FS_Subset, FS_CardinalityType DEF ResolvingNow

LEMMA VaultStart == BaseInit /\ VaultInit => VaultInv
<1> SUFFICES ASSUME BaseInit, VaultInit PROVE VaultInv
  OBVIOUS
<1>1. VaultType
  <2>1. 1 \in Versions /\ NoResolve \in ResolveStates
    BY VersionsAssumption DEF Versions, NoResolve, ResolveStates
  <2> QED BY <2>1 DEF VaultInit, VaultType, ResolveStates
<1>2. ResolvingNow = {}
  BY DEF VaultInit, ResolvingNow, Resolving, NoResolve
<1>3. IsFiniteSet({}) /\ Cardinality({}) = 0
  BY FS_EmptySet
<1>4. HandedOutBounded
  BY <1>2, <1>3, FewerResolve DEF HandedOutBounded, ResolvingNow, VaultInit
<1> QED BY <1>1, <1>3, <1>4 DEF VaultInit, VaultInv, NoResolve

(* A thread that resolves, or not, after a step that is its own.             *)
LEMMA ResolveMoves ==
  ASSUME VaultType, NEW t \in Threads, NEW r \in ResolveStates,
         resolves' = [resolves EXCEPT ![t] = r]
  PROVE  /\ \A u \in Threads : resolves'[u] = IF u = t THEN r ELSE resolves[u]
         /\ resolves' \in [Threads -> ResolveStates]
         /\ ResolvingNow' = IF r.pc \in {"identity", "secret", "keep"}
                            THEN ResolvingNow \cup {t} ELSE ResolvingNow \ {t}
<1>1. resolves \in [Threads -> ResolveStates]
  BY DEF VaultType, ResolveStates
<1>2. \A u \in Threads : resolves'[u] = IF u = t THEN r ELSE resolves[u]
  BY <1>1
<1> QED BY <1>1, <1>2 DEF ResolvingNow, Resolving

(* A step that hands nothing out and starts no resolve.                      *)
LEMMA NothingHanded ==
  ASSUME VaultInv, NEW t \in Threads, NEW r \in ResolveStates,
         resolves' = [resolves EXCEPT ![t] = r], UNCHANGED <<version, cache, handedOut>>,
         r.pc \in {"identity", "secret", "keep"} => Resolving(t),
         r.pc = "keep" => r.value # NoVersion
  PROVE  VaultInv'
<1>1. VaultType'
  BY ResolveMoves DEF VaultInv, VaultType, ResolveStates
<1>2. ResolvingNow' \subseteq ResolvingNow
  <2>1. CASE r.pc \in {"identity", "secret", "keep"}
    <3>1. t \in ResolvingNow
      BY <2>1 DEF ResolvingNow
    <3>2. ResolvingNow' = ResolvingNow \cup {t}
      BY <2>1, ResolveMoves DEF VaultInv
    <3> QED BY <3>1, <3>2
  <2>2. CASE r.pc \notin {"identity", "secret", "keep"}
    <3>1. VaultType
      BY DEF VaultInv
    <3>2. ResolvingNow' = ResolvingNow \ {t}
      BY <2>2, <3>1, ResolveMoves
    <3> QED BY <3>2
  <2> QED BY <2>1, <2>2
<1>3. Cardinality(ResolvingNow') <= Cardinality(ResolvingNow) /\ Cardinality(ResolvingNow') \in Nat
  BY <1>2, FewerResolve, FS_Subset, FS_CardinalityType
<1>4. Cardinality(handedOut) \in Nat
  BY FS_CardinalityType DEF VaultInv
<1>5. HandedOutBounded'
  BY <1>3, <1>4, FewerResolve DEF VaultInv, HandedOutBounded, ResolvingNow
<1> QED BY <1>1, <1>5, ResolveMoves DEF VaultInv

LEMMA VaultSteps == VaultInv /\ [VaultNext]_<<impl, now, vaultVars>> => VaultInv'
<1> SUFFICES ASSUME VaultInv, [VaultNext]_<<impl, now, vaultVars>> PROVE VaultInv'
  OBVIOUS
<1>0. /\ VaultType /\ resolves \in [Threads -> ResolveStates]
      /\ Cardinality(handedOut) \in Nat /\ cache \in Versions \cup {NoVersion}
  BY FS_CardinalityType DEF VaultInv, VaultType, ResolveStates
<1>1. ASSUME NEW t \in Threads, Resolve(t) PROVE VaultInv'
  <2>1. CASE cache # NoVersion
    <3> DEFINE r == [pc |-> "resolved", value |-> cache]
    <3>1. resolves' = [resolves EXCEPT ![t] = r] /\ handedOut' = handedOut \cup {cache}
          /\ UNCHANGED <<version, cache>>
      BY <1>1, <2>1 DEF Resolve, VaultGoes
    <3>2. handedOut' = handedOut
      BY <2>1, <3>1 DEF VaultInv
    <3>3. r \in ResolveStates /\ r.pc = "resolved"
      BY <1>0 DEF ResolveStates
    <3> HIDE DEF r
    <3> QED BY <3>1, <3>2, <3>3, NothingHanded
  <2>2. CASE cache = NoVersion
    <3> DEFINE r == [pc |-> "identity", value |-> NoVersion]
    <3>1. resolves' = [resolves EXCEPT ![t] = r] /\ UNCHANGED <<version, cache, handedOut>>
      BY <1>1, <2>2 DEF Resolve, VaultGoes
    <3>2. r \in ResolveStates /\ r.pc = "identity"
      BY DEF ResolveStates
    <3> HIDE DEF r
    <3>3. VaultType'
      BY <1>0, <3>1, <3>2, ResolveMoves DEF VaultType, ResolveStates
    <3>4. handedOut' = {} /\ Cardinality({}) = 0
      BY <2>2, <3>1, FS_EmptySet DEF VaultInv
    <3>5. ResolvingNow' \subseteq Threads
      BY DEF ResolvingNow
    <3>6. Cardinality(ResolvingNow') \in Nat /\ Cardinality(ResolvingNow') <= Cardinality(Threads)
      BY <3>5, VersionsAssumption, FS_Subset, FS_CardinalityType
    <3>7. HandedOutBounded'
      BY <3>4, <3>6, FewerResolve DEF HandedOutBounded, ResolvingNow
    <3> QED BY <2>2, <1>0, <3>1, <3>2, <3>3, <3>7, ResolveMoves DEF VaultInv
  <2> QED BY <2>1, <2>2
<1>2. ASSUME NEW t \in Threads, ManagedIdentityToken(t) PROVE VaultInv'
  <2> DEFINE r == [pc |-> "secret", value |-> NoVersion]
  <2>1. resolves' = [resolves EXCEPT ![t] = r] /\ UNCHANGED <<version, cache, handedOut>> /\ Resolving(t)
    BY <1>2 DEF ManagedIdentityToken, VaultGoes, Resolving
  <2>2. r \in ResolveStates /\ r.pc = "secret"
    BY DEF ResolveStates
  <2> HIDE DEF r
  <2> QED BY <2>1, <2>2, NothingHanded
<1>3. ASSUME NEW t \in Threads, GetSecret(t) PROVE VaultInv'
  <2> DEFINE r == [pc |-> "keep", value |-> version]
  <2>1. resolves' = [resolves EXCEPT ![t] = r] /\ UNCHANGED <<version, cache, handedOut>> /\ Resolving(t)
    BY <1>3 DEF GetSecret, VaultGoes, Resolving
  <2>2. r \in ResolveStates /\ r.value # NoVersion
    BY <1>0 DEF ResolveStates, VaultType, Versions, NoVersion
  <2> HIDE DEF r
  <2> QED BY <2>1, <2>2, NothingHanded
<1>4. ASSUME NEW t \in Threads, ResolveFails(t) PROVE VaultInv'
  <2> DEFINE r == [pc |-> "failed", value |-> NoVersion]
  <2>1. resolves' = [resolves EXCEPT ![t] = r] /\ UNCHANGED <<version, cache, handedOut>>
    BY <1>4 DEF ResolveFails, VaultGoes
  <2>2. r \in ResolveStates /\ r.pc = "failed"
    BY DEF ResolveStates
  <2> HIDE DEF r
  <2> QED BY <2>1, <2>2, NothingHanded
<1>5. ASSUME NEW t \in Threads, KeepSecret(t) PROVE VaultInv'
  <2> DEFINE value == resolves[t].value
             r == [pc |-> "resolved", value |-> value]
  <2>1. /\ resolves' = [resolves EXCEPT ![t] = r] /\ handedOut' = handedOut \cup {value}
        /\ cache' = value /\ version' = version /\ resolves[t].pc = "keep"
    BY <1>5 DEF KeepSecret, VaultGoes
  <2>2. value \in Versions /\ value # NoVersion
    BY <1>0, <2>1 DEF VaultInv, ResolveStates
  <2>3. r \in ResolveStates /\ r.pc = "resolved"
    BY <2>2 DEF ResolveStates
  <2> HIDE DEF r, value
  <2>4. ResolvingNow' = ResolvingNow \ {t} /\ t \in ResolvingNow
    BY <1>0, <2>1, <2>3, ResolveMoves DEF ResolvingNow, Resolving
  <2>5. Cardinality(ResolvingNow') = Cardinality(ResolvingNow) - 1
    BY <2>4, FewerResolve, FS_RemoveElement
  <2>6. /\ IsFiniteSet(handedOut') /\ Cardinality(handedOut') \in Nat
        /\ Cardinality(handedOut') <= Cardinality(handedOut) + 1
    <3>1. IsFiniteSet(handedOut)
      BY DEF VaultInv
    <3>2. /\ IsFiniteSet(handedOut \cup {value})
          /\ Cardinality(handedOut \cup {value}) <= Cardinality(handedOut) + 1
      <4>1. /\ IsFiniteSet(handedOut \cup {value})
            /\ \/ Cardinality(handedOut \cup {value}) = Cardinality(handedOut)
               \/ Cardinality(handedOut \cup {value}) = Cardinality(handedOut) + 1
        BY <3>1, FS_AddElement
      <4> QED BY <1>0, <4>1
    <3> QED BY <2>1, <3>2, FS_CardinalityType
  <2>7. HandedOutBounded'
    BY <1>0, <2>5, <2>6, FewerResolve DEF VaultInv, HandedOutBounded, ResolvingNow
  <2>8. VaultType'
    BY <1>0, <2>1, <2>2, <2>3, ResolveMoves DEF VaultType, ResolveStates
  <2> QED BY <1>0, <2>1, <2>2, <2>3, <2>6, <2>7, <2>8, ResolveMoves DEF VaultInv
<1>6. ASSUME NEW t \in Threads, UseSecret(t) PROVE VaultInv'
  <2>1. resolves' = [resolves EXCEPT ![t] = NoResolve] /\ UNCHANGED <<version, cache, handedOut>>
    BY <1>6 DEF UseSecret
  <2>2. NoResolve \in ResolveStates /\ NoResolve.pc = "idle"
    BY DEF ResolveStates, NoResolve
  <2> QED BY <2>1, <2>2, NothingHanded
<1>7. CASE Rotate
  <2>1. version' \in Versions /\ UNCHANGED <<cache, resolves, handedOut>>
    BY <1>7, <1>0, VersionsAssumption DEF Rotate, VaultType, Versions
  <2>2. VaultType' /\ HandedOutBounded'
    BY <2>1 DEF VaultInv, VaultType, HandedOutBounded, Resolving
  <2> QED BY <2>1, <2>2 DEF VaultInv
<1>8. CASE UNCHANGED <<impl, now, vaultVars>>
  BY <1>8 DEF vaultVars, VaultInv, VaultType, HandedOutBounded, Resolving
<1> QED BY <1>1, <1>2, <1>3, <1>4, <1>5, <1>6, <1>7, <1>8 DEF VaultNext, VaultStep

LEMMA VaultAlways == VaultSpec => []VaultInv
  BY VaultStart, VaultSteps, PTL DEF VaultSpec

(* A process never goes on with more versions of a secret than it has        *)
(* threads that were resolving it at once, however often it is rotated and   *)
(* however resolves fail (resolve of vaultref.py, resolveRef of              *)
(* vaultref.go).                                                             *)
THEOREM VersionsBounded == VaultSpec => []HandedOutBounded
<1>1. VaultInv => HandedOutBounded
  BY DEF VaultInv
<1> QED BY <1>1, VaultAlways, PTL

(* Once one is kept and nobody is resolving, that one is all there is.       *)
THEOREM SecretSettles == VaultSpec => KeptForGood
<1>1. ASSUME VaultInv, [VaultNext]_<<impl, now, vaultVars>>
      PROVE  [cache # NoVersion /\ (\A t \in Threads : ~Resolving(t)) =>
                /\ cache' = cache
                /\ handedOut' \subseteq handedOut \cup {cache}
                /\ \A t \in Threads : ~Resolving(t)']_<<impl, now, vaultVars>>
  <2> SUFFICES ASSUME VaultNext, cache # NoVersion, \A t \in Threads : ~Resolving(t)
               PROVE  /\ cache' = cache
                      /\ handedOut' \subseteq handedOut \cup {cache}
                      /\ \A t \in Threads : ~Resolving(t)'
    BY <1>1
  <2>1. resolves \in [Threads -> ResolveStates]
    BY <1>1 DEF VaultInv, VaultType, ResolveStates
  <2>2. CASE Rotate
    BY <2>2 DEF Rotate, Resolving
  <2>3. ASSUME NEW t \in Threads, VaultStep(t)
        PROVE  /\ cache' = cache /\ handedOut' \subseteq handedOut \cup {cache}
               /\ \A u \in Threads : ~Resolving(u)'
    <3>1. CASE Resolve(t)
      BY <3>1, <2>1 DEF Resolve, VaultGoes, Resolving
    <3>2. CASE UseSecret(t)
      BY <3>2, <2>1 DEF UseSecret, NoResolve, Resolving
    <3>3. CASE ManagedIdentityToken(t) \/ GetSecret(t) \/ ResolveFails(t) \/ KeepSecret(t)
      BY <3>3 DEF ManagedIdentityToken, GetSecret, ResolveFails, KeepSecret, Resolving
    <3> QED BY <2>3, <3>1, <3>2, <3>3 DEF VaultStep
  <2> QED BY <2>2, <2>3 DEF VaultNext
<1> QED BY <1>1, VaultAlways, PTL DEF VaultSpec, KeptForGood

-----------------------------------------------------------------------------
(* The SQL adapters.                                                         *)

PoolStates == [state : {"unused", "open", "closed"}, token : Keys]
Results == [of : Threads \cup {NoThread}, rows : Nat]
RequestStates == [pc : {"idle", "schema", "pool", "made", "query", "fetch", "done"},
                  op : {"list", "describe", "run"}, token : Keys, listed : BOOLEAN,
                  pool : Pools \cup {NoPool}, step : {"rows", "keys"}, had : Nat,
                  rows : Nat, from : SUBSET Threads,
                  end : {"none", "ok", "denied", "missing", "broken"}]

(* A pool that is kept is open, and its key's; who connects for each request *)
(* keeps none.                                                               *)
KeptOpen == \A k \in Keys : kept[k] # NoPool => /\ ~Connects
                                                /\ pools[kept[k]].state = "open"
                                                /\ pools[kept[k]].token = k

PoolsFew == IsFiniteSet(KeptPools) /\ PoolsBounded

(* Pools have to go for others.                                              *)
Full == Engine("tds") /\ Cardinality(KeptPools) = PoolsKept

(* What a request holds is its token's, and closed only when pools had to    *)
(* go; what it has just made nobody keeps yet.                               *)
PoolRelies(r) ==
    /\ r.pool # NoPool =>
           /\ pools[r.pool].state # "unused"
           /\ pools[r.pool].token = IF Connects THEN r.token ELSE Key(r.token)
           /\ pools[r.pool].state = "open" \/ Full
    /\ r.pc \in {"idle", "pool"} => r.pool = NoPool
    /\ r.pc = "schema" => r.pool = NoPool \/ PoolFirst
    /\ r.pc = "made" => /\ impl = "go" /\ engine.adapter \in {"tds", "postgres"}
                        /\ r.pool # NoPool
                        /\ pools[r.pool].state = "open"
                        /\ \A k \in Keys : kept[k] # r.pool

(* How far the allow-list has been asked, and whose rows there are.          *)
RowsRely(t, r) ==
    /\ ~r.listed /\ r.pc \in {"schema", "pool"} => r.op = "describe"
    /\ ~r.listed /\ r.pc = "pool" => PoolFirst
    /\ r.pc \in {"made", "query", "fetch"} => r.listed
    /\ r.pc \in {"schema", "pool", "made"} => r.step = "rows" /\ r.from = {}
    /\ r.step = "rows" /\ r.pc = "query" => r.from = {}
    /\ r.step = "keys" => r.op = "describe"
    /\ r.step = "keys" /\ ~SharesConnection => r.from = {t}
    /\ r.pc = "fetch" => SharesConnection
    /\ r.pc = "done" /\ ~r.listed => r.end \in {"denied", "broken"} /\ r.from = {}
    /\ r.pc = "done" /\ r.end = "ok" /\ ~SharesConnection =>
           /\ r.from = {t}
           /\ r.op = "run" /\ r.rows < MaxRows => r.rows = r.had

(* What one has made, or connected to for itself, is no other's.             *)
OwnPools ==
    \A t, u \in Threads :
        t # u /\ requests[t].pool # NoPool /\ (requests[t].pc = "made" \/ Connects) =>
            requests[u].pool # requests[t].pool

EnginesInv ==
    /\ impl \in Impls
    /\ EnginesType
    /\ Engine("duckdb") => engine.tier = "service"
    /\ KeptOpen /\ OpenIsHeld /\ PoolsFew /\ OwnPools
    /\ \A t \in Threads : PoolRelies(requests[t]) /\ RowsRely(t, requests[t])

(* A step of one request.  What it did to the pools leaves the others'       *)
(* claims standing, and what it holds now nobody holds for himself.          *)
LEMMA EngineMoves ==
  ASSUME EnginesInv, NEW t \in Threads, NEW r \in RequestStates,
         requests' = [requests EXCEPT ![t] = r], UNCHANGED <<impl, engine>>,
         pools' \in [Pools -> PoolStates], kept' \in [Keys -> Pools \cup {NoPool}],
         shared' \in Results,
         KeptOpen', OpenIsHeld', PoolsFew', PoolRelies(r)', RowsRely(t, r),
         \A q \in RequestStates :
             (\E u \in Threads \ {t} : requests[u] = q) => PoolRelies(q)',
         \A u \in Threads \ {t} :
             r.pool # NoPool /\ requests[u].pool = r.pool =>
                 ~Connects /\ r.pc # "made" /\ requests[u].pc # "made"
  PROVE  EnginesInv'
<1>1. requests \in [Threads -> RequestStates]
  BY DEF EnginesInv, EnginesType, RequestStates
<1>2. \A u \in Threads : requests'[u] = IF u = t THEN r ELSE requests[u]
  BY <1>1
<1>3. EnginesType'
  <2>1. requests' \in [Threads -> RequestStates]
    BY <1>1
  <2> QED BY <2>1 DEF EnginesInv, EnginesType, RequestStates, PoolStates, Results
<1>4. Connects' = Connects /\ SharesConnection' = SharesConnection /\ PoolFirst' = PoolFirst
  BY DEF Connects, SharesConnection, PoolFirst, Engine
<1>5. \A u \in Threads : PoolRelies(requests[u])'
  <2>1. PoolRelies(requests[t])'
    BY <1>2 DEF PoolRelies
  <2>2. ASSUME NEW u \in Threads \ {t} PROVE PoolRelies(requests[u])'
    <3> PICK q \in RequestStates : q = requests[u]
      BY <1>1
    <3>1. PoolRelies(q)' /\ requests'[u] = q
      BY <1>2
    <3> QED BY <3>1 DEF PoolRelies
  <2> QED BY <2>1, <2>2
<1>6. \A u \in Threads : RowsRely(u, requests[u])'
  <2>1. \A u \in Threads : RowsRely(u, requests'[u])
    BY <1>2 DEF EnginesInv
  <2> QED BY <2>1, <1>4 DEF RowsRely
<1>7. OwnPools'
  BY <1>2, <1>4 DEF EnginesInv, OwnPools
<1>8. (Engine("duckdb") => engine.tier = "service")'
  BY DEF EnginesInv, Engine
<1> QED BY <1>3, <1>5, <1>6, <1>7, <1>8 DEF EnginesInv

(* A step that opens, closes and keeps nothing.                              *)
LEMMA RequestMoves ==
  ASSUME EnginesInv, NEW t \in Threads, NEW r \in RequestStates,
         requests' = [requests EXCEPT ![t] = r], UNCHANGED <<impl, engine, pools, kept>>,
         shared' \in Results,
         requests[t].pc # "made", r.pc # "made",
         r.pool = requests[t].pool \/ ~Connects,
         PoolRelies(r), RowsRely(t, r),
         \/ r.pool \in {requests[t].pool, NoPool}
         \/ \A u \in Threads : requests[u].pool = r.pool => requests[u].pc # "made"
  PROVE  EnginesInv'
<1>1. requests \in [Threads -> RequestStates] /\ pools \in [Pools -> PoolStates]
      /\ kept \in [Keys -> Pools \cup {NoPool}]
  BY DEF EnginesInv, EnginesType, RequestStates, PoolStates
<1>2. \A u \in Threads : requests'[u] = IF u = t THEN r ELSE requests[u]
  BY <1>1
<1>3. KeptOpen' /\ PoolsFew'
  BY DEF EnginesInv, KeptOpen, PoolsFew, PoolsBounded, KeptPools, Engine, Connects
<1>4. Connects' = Connects /\ PoolFirst' = PoolFirst /\ Full' = Full
  BY DEF Connects, PoolFirst, Engine, Full, KeptPools
<1>5. \A token : Key(token)' = Key(token)
  BY DEF Key, Engine
<1>6. \A q \in RequestStates : PoolRelies(q) => PoolRelies(q)'
  BY <1>4, <1>5 DEF PoolRelies
<1>7. \A q \in RequestStates : (\E u \in Threads \ {t} : requests[u] = q) => PoolRelies(q)'
  BY <1>6 DEF EnginesInv
<1>8. OpenIsHeld'
  <2> SUFFICES ASSUME NEW p \in Pools, pools[p].state = "open", kept[pools[p].token] # p
               PROVE  \E u \in Threads : requests'[u].pool = p /\ (requests'[u].pc = "made" \/ Connects)
    BY <1>4 DEF OpenIsHeld, RequestAt, Request
  <2>1. PICK u \in Threads : requests[u].pool = p /\ (requests[u].pc = "made" \/ Connects)
    BY DEF EnginesInv, OpenIsHeld, RequestAt, Request
  <2>2. CASE u # t
    BY <2>1, <2>2, <1>2
  <2>3. CASE u = t
    BY <2>1, <2>3, <1>2
  <2> QED BY <2>2, <2>3
<1>9. \A u \in Threads \ {t} :
          r.pool # NoPool /\ requests[u].pool = r.pool =>
              ~Connects /\ r.pc # "made" /\ requests[u].pc # "made"
  BY DEF EnginesInv, OwnPools
<1> QED BY <1>1, <1>3, <1>6, <1>7, <1>8, <1>9, EngineMoves

LEMMA RequestTyped ==
  ASSUME EnginesInv, NEW t \in Threads
  PROVE  /\ requests[t] \in RequestStates
         /\ PoolRelies(requests[t]) /\ RowsRely(t, requests[t])
         /\ pools \in [Pools -> PoolStates] /\ kept \in [Keys -> Pools \cup {NoPool}]
         /\ shared \in Results
         /\ requests \in [Threads -> RequestStates]
BY DEF EnginesInv, EnginesType, RequestStates, PoolStates, Results

LEMMA NobodyAsks ==
  /\ NoRequest \in RequestStates /\ NoRequest.pc = "idle" /\ NoRequest.pool = NoPool
  /\ NoRequest.listed /\ NoRequest.step = "rows" /\ NoRequest.from = {}
BY DEF NoRequest, RequestStates, Keys

LEMMA NoPoolIsNone == NoPool \notin Pools /\ MaxRows \in Nat \ {0} /\ Shared \in Keys
BY EnginesAssumption DEF NoPool, Pools, Keys

LEMMA BeginKeeps ==
  ASSUME EnginesInv, UNCHANGED impl, NEW t \in Threads, NEW op \in {"list", "describe", "run"},
         NEW token \in Tokens, NEW listed \in BOOLEAN, BeginRequest(t, op, token, listed)
  PROVE  EnginesInv'
<1> DEFINE d == [NoRequest EXCEPT !.pc = IF op = "describe" /\ ~PoolFirst THEN "schema" ELSE "pool",
                                  !.op = op, !.token = token, !.listed = listed]
<1>1. d \in RequestStates
  BY NobodyAsks DEF RequestStates, Keys
<1>2. /\ d.pc = IF op = "describe" /\ ~PoolFirst THEN "schema" ELSE "pool"
      /\ d.op = op /\ (d.listed <=> listed) /\ d.pool = NoPool /\ d.step = "rows" /\ d.from = {}
  BY DEF NoRequest
<1>3. requests' = [requests EXCEPT ![t] = d] /\ UNCHANGED <<engine, pools, kept, shared>>
  BY DEF BeginRequest, To
<1> HIDE DEF d
<1> PICK r \in RequestStates : r = d
  BY <1>1
<1>4. requests[t].pc = "idle" /\ (op = "describe" \/ listed)
  BY DEF BeginRequest, RequestAt
<1>5. requests[t].pool = NoPool
  BY <1>4, RequestTyped DEF PoolRelies
<1>6. PoolRelies(r)
  BY <1>2 DEF PoolRelies
<1>7. RowsRely(t, r)
  BY <1>2, <1>4 DEF RowsRely
<1> QED BY <1>2, <1>3, <1>4, <1>5, <1>6, <1>7, RequestTyped, RequestMoves

LEMMA SchemaKeeps ==
  ASSUME EnginesInv, UNCHANGED impl, NEW t \in Threads, Schema(t)
  PROVE  EnginesInv'
<1> DEFINE old == requests[t]
<1>1. old \in RequestStates /\ PoolRelies(old) /\ RowsRely(t, old) /\ old.pc = "schema"
  BY RequestTyped DEF Schema, RequestAt
<1>2. UNCHANGED <<engine, pools, kept, shared>>
  BY DEF Schema
<1>3. PICK r \in RequestStates :
        /\ requests' = [requests EXCEPT ![t] = r]
        /\ r.pool = old.pool /\ r.op = old.op /\ r.listed = old.listed /\ r.token = old.token
        /\ r.step = old.step /\ r.from = old.from
        /\ r.pc = IF old.listed THEN IF PoolFirst THEN "query" ELSE "pool" ELSE "done"
        /\ r.pc = "done" => r.end \in {"denied", "broken"}
  <2>1. CASE old.listed
    <3> DEFINE d == [old EXCEPT !.pc = IF PoolFirst THEN "query" ELSE "pool"]
    <3>1. requests' = [requests EXCEPT ![t] = d]
      BY <2>1 DEF Schema, To, Request
    <3>2. d \in RequestStates
      BY <1>1 DEF RequestStates
    <3>3. /\ d.pool = old.pool /\ d.op = old.op /\ d.listed = old.listed /\ d.token = old.token
          /\ d.step = old.step /\ d.from = old.from /\ d.pc = IF PoolFirst THEN "query" ELSE "pool"
      BY <1>1 DEF RequestStates
    <3> HIDE DEF d
    <3> QED BY <2>1, <3>1, <3>2, <3>3
  <2>2. CASE ~old.listed
    <3> DEFINE d == [old EXCEPT !.pc = "done", !.end = Refusal]
    <3>1. requests' = [requests EXCEPT ![t] = d]
      BY <2>2 DEF Schema, To, End, Request
    <3>2. d \in RequestStates
      BY <1>1 DEF RequestStates, Refusal
    <3>3. /\ d.pool = old.pool /\ d.op = old.op /\ d.listed = old.listed /\ d.token = old.token
          /\ d.step = old.step /\ d.from = old.from /\ d.pc = "done" /\ d.end \in {"denied", "broken"}
      BY <1>1 DEF RequestStates, Refusal
    <3> HIDE DEF d
    <3> QED BY <2>2, <3>1, <3>2, <3>3
  <2> QED BY <2>1, <2>2
<1> HIDE DEF old
<1>4. PoolRelies(r)
  BY <1>1, <1>3 DEF PoolRelies
<1>5. RowsRely(t, r)
  BY <1>1, <1>3 DEF RowsRely
<1> QED BY <1>1, <1>2, <1>3, <1>4, <1>5, RequestTyped, RequestMoves DEF old

(* A request that has come to a pool, or to none.                            *)
LEMMA ReadyIs ==
  ASSUME EnginesInv, NEW t \in Threads, requests[t].pc \in {"pool", "made"},
         NEW pool \in Pools \cup {NoPool}, requests' = [requests EXCEPT ![t] = Ready(t, pool)]
  PROVE  \E r \in RequestStates :
           /\ requests' = [requests EXCEPT ![t] = r]
           /\ r.pool = pool /\ r.token = requests[t].token
           /\ r.pc = IF requests[t].op = "describe" /\ PoolFirst THEN "schema" ELSE "query"
           /\ RowsRely(t, r)
<1> DEFINE old == requests[t]
           d == Ready(t, pool)
<1>1. old \in RequestStates /\ RowsRely(t, old) /\ old.pc \in {"pool", "made"}
  BY RequestTyped
<1>2. d \in RequestStates
  BY <1>1 DEF Ready, Request, RequestStates
<1>3. /\ d.pool = pool /\ d.op = old.op /\ d.listed = old.listed /\ d.token = old.token
      /\ d.step = old.step /\ d.from = old.from
      /\ d.pc = IF old.op = "describe" /\ PoolFirst THEN "schema" ELSE "query"
  BY <1>1 DEF Ready, Request, RequestStates
<1> HIDE DEF d, old
<1>4. RowsRely(t, d)
  BY <1>1, <1>3 DEF RowsRely
<1> QED BY <1>2, <1>3, <1>4 DEF d, old

LEMMA DirectKeeps ==
  ASSUME EnginesInv, UNCHANGED impl, NEW t \in Threads, Direct(t)
  PROVE  EnginesInv'
<1>1. requests[t].pc = "pool" /\ UNCHANGED <<engine, pools, kept, shared>>
      /\ requests' = [requests EXCEPT ![t] = Ready(t, NoPool)]
  BY DEF Direct, RequestAt, To
<1>2. requests[t].pool = NoPool
  BY <1>1, RequestTyped DEF PoolRelies
<1>3. PICK r \in RequestStates :
        /\ requests' = [requests EXCEPT ![t] = r]
        /\ r.pool = NoPool /\ r.token = requests[t].token
        /\ r.pc = IF requests[t].op = "describe" /\ PoolFirst THEN "schema" ELSE "query"
        /\ RowsRely(t, r)
  <2>1. requests[t].pc \in {"pool", "made"} /\ NoPool \in Pools \cup {NoPool}
    BY <1>1
  <2> QED BY <1>1, <2>1, ReadyIs, Zenon
<1>4. PoolRelies(r)
  BY <1>3 DEF PoolRelies
<1> QED BY <1>1, <1>2, <1>3, <1>4, RequestTyped, RequestMoves

LEMMA FoundKeeps ==
  ASSUME EnginesInv, NEW t \in Threads, requests[t].pc = "pool", impl = "go" \/ Engine("duckdb"),
         UNCHANGED <<impl, engine, pools, kept, shared>>,
         NEW k \in Keys, k = Key(requests[t].token), kept[k] # NoPool,
         requests' = [requests EXCEPT ![t] = Ready(t, kept[k])]
  PROVE  EnginesInv'
<1>1. kept[k] \in Pools \cup {NoPool} /\ ~Connects
  BY RequestTyped DEF Connects, Engine
<1>2. PICK r \in RequestStates :
        /\ requests' = [requests EXCEPT ![t] = r]
        /\ r.pool = kept[k] /\ r.token = requests[t].token
        /\ r.pc = IF requests[t].op = "describe" /\ PoolFirst THEN "schema" ELSE "query"
        /\ RowsRely(t, r)
  <2>1. requests[t].pc \in {"pool", "made"}
    OBVIOUS
  <2> QED BY <1>1, <2>1, ReadyIs, Zenon
<1>3. pools[kept[k]].state = "open" /\ pools[kept[k]].token = k
  BY DEF EnginesInv, KeptOpen
<1>4. PoolRelies(r)
  BY <1>1, <1>2, <1>3 DEF PoolRelies
<1>5. \A u \in Threads : requests[u].pool = r.pool => requests[u].pc # "made"
  BY <1>2, RequestTyped DEF PoolRelies
<1> QED BY <1>1, <1>2, <1>4, <1>5, RequestTyped, RequestMoves

(* A pool opened where there was none: nobody has it, and nobody keeps it.   *)
LEMMA Opening ==
  ASSUME EnginesInv, NEW p \in Pools, Fresh(p), NEW token \in Keys, pools' = Opened(p, token)
  PROVE  /\ pools' \in [Pools -> PoolStates]
         /\ pools'[p].state = "open" /\ pools'[p].token = token
         /\ \A q \in Pools \ {p} : pools'[q] = pools[q]
         /\ \A u \in Threads : requests[u].pool # p
         /\ \A k \in Keys : kept[k] # p
         /\ p # NoPool /\ pools[p].state = "unused"
<1>1. pools \in [Pools -> PoolStates] /\ pools[p].state = "unused"
  BY DEF EnginesInv, EnginesType, PoolStates, Fresh
<1>2. p # NoPool
  BY NoPoolIsNone
<1>3. \A u \in Threads : requests[u].pool # p
  BY <1>1, <1>2 DEF EnginesInv, PoolRelies
<1>4. \A k \in Keys : kept[k] # p
  BY <1>1, <1>2 DEF EnginesInv, KeptOpen
<1>5. [state |-> "open", token |-> token] \in PoolStates
  BY DEF PoolStates
<1> QED BY <1>1, <1>2, <1>3, <1>4, <1>5 DEF Opened

LEMMA ConnectKeeps ==
  ASSUME EnginesInv, UNCHANGED impl, NEW t \in Threads, OpenConnection(t)
  PROVE  EnginesInv'
<1>1. requests[t].pc = "pool" /\ Connects /\ UNCHANGED <<engine, kept, shared>>
  BY DEF OpenConnection, RequestAt
<1>2. PICK p \in Pools : /\ Fresh(p) /\ pools' = Opened(p, requests[t].token)
                         /\ requests' = [requests EXCEPT ![t] = Ready(t, p)]
  BY DEF OpenConnection, To, Request
<1>3. PICK token \in Keys : token = requests[t].token
  BY RequestTyped DEF RequestStates
<1>4. /\ pools' \in [Pools -> PoolStates]
      /\ pools'[p].state = "open" /\ pools'[p].token = token
      /\ \A q \in Pools \ {p} : pools'[q] = pools[q]
      /\ \A u \in Threads : requests[u].pool # p
      /\ \A k \in Keys : kept[k] # p
      /\ p # NoPool
  BY <1>2, <1>3, Opening
<1>5. PICK r \in RequestStates :
        /\ requests' = [requests EXCEPT ![t] = r]
        /\ r.pool = p /\ r.token = requests[t].token
        /\ r.pc = IF requests[t].op = "describe" /\ PoolFirst THEN "schema" ELSE "query"
        /\ RowsRely(t, r)
  <2>1. requests[t].pc \in {"pool", "made"} /\ p \in Pools \cup {NoPool}
    BY <1>1
  <2> QED BY <1>2, <2>1, ReadyIs, Zenon
<1>6. requests[t].pool = NoPool /\ requests \in [Threads -> RequestStates]
      /\ kept \in [Keys -> Pools \cup {NoPool}] /\ shared \in Results
  BY <1>1, RequestTyped DEF PoolRelies
<1>7. Connects' = Connects /\ PoolFirst' = PoolFirst /\ Full' = Full /\ ~PoolFirst
  BY <1>1 DEF Connects, PoolFirst, Engine, Full, KeptPools
<1>8. \A k : Key(k)' = Key(k)
  BY <1>1 DEF Key, Engine
<1>9. KeptOpen' /\ PoolsFew'
  <2>1. PoolsFew'
    BY <1>1 DEF EnginesInv, PoolsFew, PoolsBounded, KeptPools, Engine
  <2>2. KeptOpen'
    BY <1>1, <1>4, <1>6, <1>7 DEF EnginesInv, KeptOpen
  <2> QED BY <2>1, <2>2
<1>10. OpenIsHeld'
  <2> SUFFICES ASSUME NEW q \in Pools, pools'[q].state = "open", kept[pools'[q].token] # q
               PROVE  \E u \in Threads : requests'[u].pool = q
    BY <1>1, <1>7 DEF OpenIsHeld, RequestAt, Request
  <2>1. \A u \in Threads : requests'[u] = IF u = t THEN r ELSE requests[u]
    BY <1>5, <1>6
  <2>2. CASE q = p
    BY <2>1, <2>2, <1>5
  <2>3. CASE q # p
    <3>1. PICK u \in Threads : requests[u].pool = q
      BY <2>3, <1>4 DEF EnginesInv, OpenIsHeld, RequestAt, Request
    <3>2. u # t
      BY <3>1, <1>6, NoPoolIsNone
    <3> QED BY <3>1, <3>2, <2>1
  <2> QED BY <2>2, <2>3
<1>11. PoolRelies(r)'
  BY <1>1, <1>3, <1>4, <1>5, <1>7, <1>8 DEF PoolRelies
<1>12. \A q \in RequestStates : (\E u \in Threads \ {t} : requests[u] = q) => PoolRelies(q)'
  <2> SUFFICES ASSUME NEW q \in RequestStates, NEW u \in Threads \ {t}, requests[u] = q
               PROVE  PoolRelies(q)'
    OBVIOUS
  <2>1. PoolRelies(q) /\ q.pool # p /\ q.pool \in Pools \cup {NoPool}
    BY <1>4, RequestTyped DEF RequestStates
  <2> QED BY <2>1, <1>1, <1>4, <1>7, <1>8 DEF PoolRelies
<1> QED BY <1>1, <1>4, <1>5, <1>6, <1>9, <1>10, <1>11, <1>12, EngineMoves

LEMMA OpenFileKeeps ==
  ASSUME EnginesInv, UNCHANGED impl, NEW t \in Threads, OpenFile(t)
  PROVE  EnginesInv'
<1>1. /\ requests[t].pc = "pool" /\ Engine("duckdb") /\ UNCHANGED <<impl, engine, shared>>
      /\ Shared \in Keys /\ \A token : Key(token) = Shared
  BY NoPoolIsNone DEF OpenFile, RequestAt, Key
<1>2. CASE /\ kept[Shared] # NoPool /\ UNCHANGED <<pools, kept>>
           /\ requests' = [requests EXCEPT ![t] = Ready(t, kept[Shared])]
  BY <1>1, <1>2, FoundKeeps
<1>3. ASSUME kept[Shared] = NoPool, NEW p \in Pools, Fresh(p), pools' = Opened(p, Shared),
             kept' = [kept EXCEPT ![Shared] = p],
             requests' = [requests EXCEPT ![t] = Ready(t, p)]
      PROVE  EnginesInv'
  <2>1. /\ pools' \in [Pools -> PoolStates]
        /\ pools'[p].state = "open" /\ pools'[p].token = Shared
        /\ \A q \in Pools \ {p} : pools'[q] = pools[q]
        /\ \A u \in Threads : requests[u].pool # p
        /\ p # NoPool /\ pools[p].state = "unused"
    BY <1>1, <1>3, Opening
  <2>2. PICK r \in RequestStates :
          /\ requests' = [requests EXCEPT ![t] = r]
          /\ r.pool = p /\ r.token = requests[t].token
          /\ r.pc = IF requests[t].op = "describe" /\ PoolFirst THEN "schema" ELSE "query"
          /\ RowsRely(t, r)
    <3>1. requests[t].pc \in {"pool", "made"} /\ p \in Pools \cup {NoPool}
      BY <1>1
    <3> QED BY <1>3, <3>1, ReadyIs, Zenon
  <2>3. requests \in [Threads -> RequestStates] /\ kept \in [Keys -> Pools \cup {NoPool}]
        /\ shared \in Results /\ pools \in [Pools -> PoolStates]
    BY RequestTyped
  <2>4. kept' \in [Keys -> Pools \cup {NoPool}]
        /\ \A k \in Keys : kept'[k] = IF k = Shared THEN p ELSE kept[k]
    BY <1>1, <1>3, <2>3
  <2>5. ~Connects /\ ~Connects' /\ PoolFirst' = PoolFirst /\ Engine("duckdb")' /\ ~Engine("tds")'
    BY <1>1 DEF Connects, PoolFirst, Engine
  <2>6. \A token : Key(token)' = Shared
    BY <1>1, <2>5 DEF Key
  <2>7. PoolsFew'
    <3>1. KeptPools' = KeptPools \cup {Shared}
      BY <1>1, <2>1, <2>4 DEF KeptPools
    <3>2. IsFiniteSet(KeptPools')
      BY <3>1, FS_AddElement DEF EnginesInv, PoolsFew
    <3> QED BY <3>2, <2>5 DEF PoolsFew, PoolsBounded
  <2>8. KeptOpen'
    BY <2>1, <2>3, <2>4, <2>5 DEF EnginesInv, KeptOpen
  <2>9. OpenIsHeld'
    <3> SUFFICES ASSUME NEW q \in Pools, pools'[q].state = "open" PROVE kept'[pools'[q].token] = q
      BY DEF OpenIsHeld
    <3>1. CASE q = p
      BY <3>1, <1>1, <2>1, <2>4
    <3>2. CASE q # p
      <4>1. pools[q].state = "open" /\ pools'[q] = pools[q] /\ pools[q].token \in Keys
        BY <3>2, <2>1, <2>3 DEF PoolStates
      <4>2. kept[pools[q].token] = q
        <5>1. \A u \in Threads : requests[u].pc # "made"
          BY <1>1 DEF EnginesInv, PoolRelies, Engine
        <5> QED BY <4>1, <5>1, <2>5 DEF EnginesInv, OpenIsHeld, RequestAt
      <4>3. pools[q].token # Shared
        BY <4>2, <1>3, NoPoolIsNone
      <4> QED BY <4>1, <4>2, <4>3, <2>4
    <3> QED BY <3>1, <3>2
  <2>10. PoolRelies(r)'
    BY <2>1, <2>2, <2>5, <2>6 DEF PoolRelies
  <2>11. \A q \in RequestStates : (\E u \in Threads \ {t} : requests[u] = q) => PoolRelies(q)'
    <3> SUFFICES ASSUME NEW q \in RequestStates, NEW u \in Threads \ {t}, requests[u] = q
                 PROVE  PoolRelies(q)'
      OBVIOUS
    <3>1. PoolRelies(q) /\ q.pool # p /\ q.pool \in Pools \cup {NoPool}
      BY <2>1, RequestTyped DEF RequestStates
    <3>2. ~Full /\ q.pc # "made"
      BY <1>1, <3>1 DEF Full, Engine, PoolRelies
    <3> QED BY <3>1, <3>2, <1>1, <2>1, <2>5, <2>6 DEF PoolRelies
  <2> QED BY <1>1, <2>1, <2>2, <2>3, <2>4, <2>7, <2>8, <2>9, <2>10, <2>11, EngineMoves
<1> QED BY <1>2, <1>3 DEF OpenFile, To

LEMMA PoolKeeps ==
  ASSUME EnginesInv, UNCHANGED impl, NEW t \in Threads, Pool(t)
  PROVE  EnginesInv'
<1>1. /\ requests[t].pc = "pool" /\ impl = "go" /\ engine.adapter \in {"tds", "postgres"}
      /\ UNCHANGED <<impl, engine, kept, shared>>
  BY DEF Pool, RequestAt
<1>2. PICK k \in Keys : k = Key(requests[t].token)
  BY RequestTyped, NoPoolIsNone DEF Key, RequestStates
<1>3. CASE /\ kept[k] # NoPool /\ UNCHANGED pools
           /\ requests' = [requests EXCEPT ![t] = Ready(t, kept[k])]
  BY <1>1, <1>2, <1>3, FoundKeeps
<1>4. ASSUME kept[k] = NoPool, NEW p \in Pools, Fresh(p), pools' = Opened(p, k),
             requests' = [requests EXCEPT ![t] = [requests[t] EXCEPT !.pc = "made", !.pool = p]]
      PROVE  EnginesInv'
  <2>1. /\ pools' \in [Pools -> PoolStates]
        /\ pools'[p].state = "open" /\ pools'[p].token = k
        /\ \A q \in Pools \ {p} : pools'[q] = pools[q]
        /\ \A u \in Threads : requests[u].pool # p
        /\ \A key \in Keys : kept[key] # p
        /\ p # NoPool /\ pools[p].state = "unused"
    BY <1>4, Opening
  <2>2. requests \in [Threads -> RequestStates] /\ kept \in [Keys -> Pools \cup {NoPool}]
        /\ shared \in Results /\ pools \in [Pools -> PoolStates]
        /\ PoolRelies(requests[t]) /\ RowsRely(t, requests[t])
    BY RequestTyped
  <2>3. PICK r \in RequestStates :
          /\ requests' = [requests EXCEPT ![t] = r]
          /\ r.pool = p /\ r.token = requests[t].token /\ r.pc = "made"
          /\ r.op = requests[t].op /\ r.listed = requests[t].listed
          /\ r.step = requests[t].step /\ r.from = requests[t].from
    <3> PICK old \in RequestStates : old = requests[t]
      BY <2>2
    <3> DEFINE d == [old EXCEPT !.pc = "made", !.pool = p]
    <3>1. d \in RequestStates
      BY DEF RequestStates
    <3>2. /\ d.pool = p /\ d.token = old.token /\ d.pc = "made"
          /\ d.op = old.op /\ d.listed = old.listed
          /\ d.step = old.step /\ d.from = old.from
      BY DEF RequestStates
    <3> HIDE DEF d
    <3> QED BY <1>4, <3>1, <3>2 DEF d
  <2>4. ~Connects /\ ~Connects' /\ PoolFirst' = PoolFirst /\ ~PoolFirst /\ Full' = Full
    BY <1>1 DEF Connects, PoolFirst, Engine, Full, KeptPools
  <2>5. \A token : Key(token)' = Key(token)
    BY <1>1 DEF Key, Engine
  <2>6. PoolsFew'
    BY <1>1 DEF EnginesInv, PoolsFew, PoolsBounded, KeptPools, Engine
  <2>7. KeptOpen'
    BY <1>1, <2>1, <2>2, <2>4 DEF EnginesInv, KeptOpen
  <2>8. RowsRely(t, r)
    BY <1>1, <2>2, <2>3, <2>4 DEF RowsRely
  <2>9. OpenIsHeld'
    <3> SUFFICES ASSUME NEW q \in Pools, pools'[q].state = "open", kept[pools'[q].token] # q
                 PROVE  \E u \in Threads : requests'[u].pool = q /\ requests'[u].pc = "made"
      BY <1>1 DEF OpenIsHeld, RequestAt, Request
    <3>1. \A u \in Threads : requests'[u] = IF u = t THEN r ELSE requests[u]
      BY <2>2, <2>3
    <3>2. CASE q = p
      BY <3>1, <3>2, <2>3
    <3>3. CASE q # p
      <4>1. PICK u \in Threads : requests[u].pool = q /\ requests[u].pc = "made"
        BY <3>3, <2>1, <2>4 DEF EnginesInv, OpenIsHeld, RequestAt, Request
      <4>2. u # t
        BY <4>1, <1>1
      <4> QED BY <4>1, <4>2, <3>1
    <3> QED BY <3>2, <3>3
  <2>10. PoolRelies(r)'
    BY <1>1, <1>2, <2>1, <2>3, <2>4, <2>5 DEF PoolRelies
  <2>11. \A q \in RequestStates : (\E u \in Threads \ {t} : requests[u] = q) => PoolRelies(q)'
    <3> SUFFICES ASSUME NEW q \in RequestStates, NEW u \in Threads \ {t}, requests[u] = q
                 PROVE  PoolRelies(q)'
      OBVIOUS
    <3>1. PoolRelies(q) /\ q.pool # p /\ q.pool \in Pools \cup {NoPool}
      BY <2>1, RequestTyped DEF RequestStates
    <3> QED BY <3>1, <1>1, <2>1, <2>4, <2>5 DEF PoolRelies
  <2> QED BY <1>1, <2>1, <2>2, <2>3, <2>6, <2>7, <2>8, <2>9, <2>10, <2>11, EngineMoves
<1> QED BY <1>1, <1>2, <1>3, <1>4 DEF Pool, To, Request

(* A pool that is stored, one made by another instead, or in another's       *)
(* place: every pool in use is kept still, or pools had to go.               *)
LEMMA StoreKeeps ==
  ASSUME EnginesInv, UNCHANGED impl, NEW t \in Threads, Store(t)
  PROVE  EnginesInv'
<1>1. requests[t].pc = "made" /\ UNCHANGED <<impl, engine, shared>>
  BY DEF Store, RequestAt
<1>2. /\ requests \in [Threads -> RequestStates] /\ kept \in [Keys -> Pools \cup {NoPool}]
      /\ shared \in Results /\ pools \in [Pools -> PoolStates]
      /\ requests[t] \in RequestStates /\ PoolRelies(requests[t])
  BY RequestTyped
<1>3. impl = "go" /\ engine.adapter \in {"tds", "postgres"}
  BY <1>1, <1>2 DEF PoolRelies
<1>4. ~Connects /\ ~Connects' /\ ~PoolFirst /\ ~PoolFirst' /\ Engine("tds")' = Engine("tds")
  BY <1>1, <1>3 DEF Connects, PoolFirst, Engine
<1>5. \A token : Key(token)' = Key(token)
  BY <1>1 DEF Key, Engine
<1>6. PICK k \in Keys : k = Key(requests[t].token)
  BY <1>2, NoPoolIsNone DEF Key, RequestStates
<1>7. PICK own \in Pools : own = requests[t].pool
  BY <1>1, <1>2 DEF PoolRelies, RequestStates
<1>8. /\ own # NoPool /\ pools[own].state = "open" /\ pools[own].token = k
      /\ \A key \in Keys : kept[key] # own
  BY <1>1, <1>2, <1>4, <1>6, <1>7 DEF PoolRelies
<1>9. \A u \in Threads \ {t} : requests[u].pool # own
  BY <1>1, <1>7, <1>8 DEF EnginesInv, OwnPools
<1>10. /\ IsFiniteSet(KeptPools) /\ Cardinality(KeptPools) \in Nat
       /\ Engine("tds") => Cardinality(KeptPools) <= PoolsKept
  BY FS_CardinalityType DEF EnginesInv, PoolsFew, PoolsBounded
<1>11. ASSUME NEW q \in Pools, pools[q].state = "open", q # own
       PROVE  \/ kept[pools[q].token] = q
              \/ \E u \in Threads \ {t} : requests[u].pool = q /\ requests[u].pc = "made"
  BY <1>4, <1>7, <1>11 DEF EnginesInv, OpenIsHeld, RequestAt, Request
<1>12. ASSUME NEW pool \in Pools, requests' = [requests EXCEPT ![t] = Ready(t, pool)]
       PROVE  \E r \in RequestStates :
                /\ requests' = [requests EXCEPT ![t] = r]
                /\ r.pool = pool /\ r.token = requests[t].token /\ r.pc = "query"
                /\ RowsRely(t, r)
                /\ \A u \in Threads : requests'[u] = IF u = t THEN r ELSE requests[u]
  <2>1. requests[t].pc \in {"pool", "made"} /\ pool \in Pools \cup {NoPool}
    BY <1>1
  <2>2. PICK r \in RequestStates :
          /\ requests' = [requests EXCEPT ![t] = r]
          /\ r.pool = pool /\ r.token = requests[t].token
          /\ r.pc = IF requests[t].op = "describe" /\ PoolFirst THEN "schema" ELSE "query"
          /\ RowsRely(t, r)
    BY <1>12, <2>1, ReadyIs, Zenon
  <2>3. \A u \in Threads : requests'[u] = IF u = t THEN r ELSE requests[u]
    BY <1>2, <2>2
  <2> QED BY <1>4, <2>2, <2>3
<1>13. CASE /\ kept[k] # NoPool /\ pools' = Closed(own) /\ UNCHANGED kept
            /\ requests' = [requests EXCEPT ![t] = Ready(t, kept[k])]
  <2>1. kept[k] \in Pools /\ kept[k] # own /\ pools[kept[k]].state = "open"
        /\ pools[kept[k]].token = k
    BY <1>2, <1>8, <1>13 DEF EnginesInv, KeptOpen
  <2>2. PICK r \in RequestStates :
          /\ requests' = [requests EXCEPT ![t] = r]
          /\ r.pool = kept[k] /\ r.token = requests[t].token /\ r.pc = "query"
          /\ RowsRely(t, r)
          /\ \A u \in Threads : requests'[u] = IF u = t THEN r ELSE requests[u]
    BY <1>12, <1>13, <2>1
  <2>3. /\ pools' \in [Pools -> PoolStates] /\ pools'[own].state = "closed"
        /\ \A q \in Pools \ {own} : pools'[q] = pools[q]
    BY <1>2, <1>13 DEF Closed, PoolStates
  <2>4. PoolsFew' /\ (Full' <=> Full)
    BY <1>1, <1>13, <1>4 DEF EnginesInv, PoolsFew, PoolsBounded, KeptPools, Full
  <2>5. KeptOpen'
    BY <1>2, <1>4, <1>8, <1>13, <2>3 DEF EnginesInv, KeptOpen
  <2>6. OpenIsHeld'
    <3> SUFFICES ASSUME NEW q \in Pools, pools'[q].state = "open", kept[pools'[q].token] # q
                 PROVE  \E u \in Threads : requests'[u].pool = q /\ requests'[u].pc = "made"
      BY <1>13 DEF OpenIsHeld, RequestAt, Request
    <3>1. q # own /\ pools'[q] = pools[q]
      BY <2>3
    <3> QED BY <3>1, <1>11, <2>2
  <2>7. PoolRelies(r)'
    BY <1>4, <1>5, <1>6, <2>1, <2>2, <2>3 DEF PoolRelies
  <2>8. \A q \in RequestStates : (\E u \in Threads \ {t} : requests[u] = q) => PoolRelies(q)'
    <3> SUFFICES ASSUME NEW q \in RequestStates, NEW u \in Threads \ {t}, requests[u] = q
                 PROVE  PoolRelies(q)'
      OBVIOUS
    <3>1. PoolRelies(q) /\ q.pool # own /\ q.pool \in Pools \cup {NoPool}
      BY <1>9, RequestTyped DEF RequestStates
    <3> QED BY <3>1, <1>1, <1>3, <1>4, <1>5, <1>13, <2>3, <2>4 DEF PoolRelies
  <2>9. \A u \in Threads : requests[u].pool = r.pool => requests[u].pc # "made"
    BY <2>2, RequestTyped DEF PoolRelies
  <2> QED BY <1>1, <1>2, <1>4, <1>13, <2>2, <2>3, <2>4, <2>5, <2>6, <2>7, <2>8, <2>9, EngineMoves
<1>14. ASSUME kept[k] = NoPool, requests' = [requests EXCEPT ![t] = Ready(t, own)],
              kept' \in [Keys -> Pools \cup {NoPool}], kept'[k] = own,
              pools' \in [Pools -> PoolStates], pools'[own] = pools[own],
              KeptOpen', PoolsFew', Full => Full',
              \A q \in Pools : pools'[q].token = pools[q].token
                                 /\ (pools'[q].state = "open" => pools[q].state = "open")
                                 /\ (pools[q].state # "unused" => pools'[q].state # "unused")
                                 /\ (pools[q].state = "open" => pools'[q].state = "open" \/ Full'),
              \A q \in Pools : pools'[q].state = "open" /\ kept[pools[q].token] = q
                                   => kept'[pools[q].token] = q,
              \A key \in Keys : kept'[key] \in {kept[key], own, NoPool},
              \A q \in Pools : (\A key \in Keys : kept[key] # q) => pools'[q] = pools[q]
       PROVE  EnginesInv'
  <2>1. PICK r \in RequestStates :
          /\ requests' = [requests EXCEPT ![t] = r]
          /\ r.pool = own /\ r.token = requests[t].token /\ r.pc = "query"
          /\ RowsRely(t, r)
          /\ \A u \in Threads : requests'[u] = IF u = t THEN r ELSE requests[u]
    BY <1>12, <1>14
  <2>2. OpenIsHeld'
    <3> SUFFICES ASSUME NEW q \in Pools, pools'[q].state = "open", kept'[pools'[q].token] # q
                 PROVE  \E u \in Threads : requests'[u].pool = q /\ requests'[u].pc = "made"
      BY DEF OpenIsHeld, RequestAt, Request
    <3>1. pools[q].state = "open" /\ pools'[q].token = pools[q].token
      BY <1>14
    <3>2. q # own
      BY <1>8, <1>14
    <3>3. kept[pools[q].token] # q
      BY <3>1, <1>14
    <3> QED BY <3>1, <3>2, <3>3, <1>11, <2>1
  <2>3. PoolRelies(r)'
    BY <1>4, <1>5, <1>6, <1>8, <1>14, <2>1 DEF PoolRelies
  <2>4. \A q \in RequestStates : (\E u \in Threads \ {t} : requests[u] = q) => PoolRelies(q)'
    <3> SUFFICES ASSUME NEW q \in RequestStates, NEW u \in Threads \ {t}, requests[u] = q
                 PROVE  PoolRelies(q)'
      OBVIOUS
    <3>1. PoolRelies(q) /\ q.pool # own /\ q.pool \in Pools \cup {NoPool}
      BY <1>9, RequestTyped DEF RequestStates
    <3>2. q.pc \in {"idle", "pool"} => q.pool = NoPool
      BY <3>1 DEF PoolRelies
    <3>3. q.pc = "schema" => q.pool = NoPool
      BY <3>1, <1>4 DEF PoolRelies
    <3>4. q.pool # NoPool =>
            /\ pools'[q.pool].state # "unused"
            /\ pools'[q.pool].token = Key(q.token)
            /\ pools'[q.pool].state = "open" \/ Full'
      BY <3>1, <1>4, <1>14 DEF PoolRelies
    <3>5. q.pc = "made" => /\ q.pool # NoPool /\ pools'[q.pool].state = "open"
                           /\ \A key \in Keys : kept'[key] # q.pool
      BY <3>1, <1>14 DEF PoolRelies
    <3> QED BY <3>2, <3>3, <3>4, <3>5, <1>1, <1>3, <1>4, <1>5 DEF PoolRelies
  <2>5. \A u \in Threads \ {t} : requests[u].pool # r.pool
    BY <1>9, <2>1
  <2> QED BY <1>1, <1>2, <1>14, <2>1, <2>2, <2>3, <2>4, <2>5, EngineMoves
<1>15. CASE /\ kept[k] = NoPool /\ ~Overflows(k) /\ kept' = [kept EXCEPT ![k] = own]
            /\ UNCHANGED pools /\ requests' = [requests EXCEPT ![t] = Ready(t, own)]
  <2>1. kept' \in [Keys -> Pools \cup {NoPool}]
        /\ \A key \in Keys : kept'[key] = IF key = k THEN own ELSE kept[key]
    BY <1>2, <1>15
  <2>2. KeptPools' = KeptPools \cup {k} /\ k \notin KeptPools
    BY <1>8, <1>15, <2>1 DEF KeptPools
  <2>3. IsFiniteSet(KeptPools') /\ Cardinality(KeptPools') = Cardinality(KeptPools) + 1
    BY <1>10, <2>2, FS_AddElement
  <2>4. Engine("tds") => Cardinality(KeptPools') <= PoolsKept
    BY <1>10, <1>15, <2>2, <2>3, EnginesAssumption DEF Overflows
  <2>5. PoolsFew'
    BY <1>4, <2>3, <2>4 DEF PoolsFew, PoolsBounded
  <2>6. ~Full
    BY <1>10, <2>3, <2>4 DEF Full
  <2>7. KeptOpen'
    BY <1>4, <1>8, <1>15, <2>1 DEF EnginesInv, KeptOpen
  <2>8. \A q \in Pools : kept[pools[q].token] = q => kept'[pools[q].token] = q
    <3> SUFFICES ASSUME NEW q \in Pools, kept[pools[q].token] = q PROVE kept'[pools[q].token] = q
      OBVIOUS
    <3>1. pools[q].token \in Keys /\ q # NoPool
      BY <1>2, NoPoolIsNone DEF PoolStates
    <3> QED BY <3>1, <1>15, <2>1
  <2> QED BY <1>2, <1>14, <1>15, <2>1, <2>5, <2>6, <2>7, <2>8
<1>16. ASSUME kept[k] = NoPool, Overflows(k), NEW old \in KeptPools \ {k},
              pools' = Closed(kept[old]), kept' = [kept EXCEPT ![k] = own, ![old] = NoPool],
              requests' = [requests EXCEPT ![t] = Ready(t, own)]
       PROVE  EnginesInv'
  <2>1. /\ old \in Keys /\ old # k /\ kept[old] \in Pools /\ kept[old] # own
        /\ pools[kept[old]].state = "open" /\ pools[kept[old]].token = old
    BY <1>2, <1>8, <1>16 DEF EnginesInv, KeptOpen, KeptPools
  <2>2. kept' \in [Keys -> Pools \cup {NoPool}]
        /\ \A key \in Keys : kept'[key] = IF key = old THEN NoPool
                                          ELSE IF key = k THEN own ELSE kept[key]
    BY <1>2, <1>16, <2>1
  <2>3. /\ pools' \in [Pools -> PoolStates] /\ pools'[kept[old]].state = "closed"
        /\ pools'[kept[old]].token = old
        /\ \A q \in Pools \ {kept[old]} : pools'[q] = pools[q]
    BY <1>2, <1>16, <2>1 DEF Closed, PoolStates
  <2>4. KeptPools' = (KeptPools \cup {k}) \ {old} /\ k \notin KeptPools
    BY <1>8, <1>16, <2>1, <2>2 DEF KeptPools
  <2>5. IsFiniteSet(KeptPools \cup {k})
        /\ Cardinality(KeptPools \cup {k}) = Cardinality(KeptPools) + 1
    BY <1>10, <2>4, FS_AddElement
  <2>6. IsFiniteSet(KeptPools') /\ Cardinality(KeptPools') = Cardinality(KeptPools)
    BY <1>10, <1>16, <2>4, <2>5, FS_RemoveElement
  <2>7. Engine("tds") /\ Cardinality(KeptPools) = PoolsKept
    BY <1>10, <1>16, <2>5, EnginesAssumption DEF Overflows
  <2>8. PoolsFew' /\ Full'
    BY <1>4, <2>6, <2>7, EnginesAssumption DEF PoolsFew, PoolsBounded, Full
  <2>9. KeptOpen'
    <3> SUFFICES ASSUME NEW key \in Keys, kept'[key] # NoPool
                 PROVE  pools'[kept'[key]].state = "open" /\ pools'[kept'[key]].token = key
      BY <1>4 DEF KeptOpen
    <3>1. CASE key = k
      BY <3>1, <1>8, <2>1, <2>2, <2>3
    <3>2. CASE key # k
      <4>1. kept'[key] = kept[key] /\ kept[key] \in Pools /\ key # old
        BY <3>2, <2>2, <1>2
      <4>2. pools[kept[key]].state = "open" /\ pools[kept[key]].token = key
        BY <4>1 DEF EnginesInv, KeptOpen
      <4> QED BY <4>1, <4>2, <2>1, <2>3
    <3> QED BY <3>1, <3>2
  <2>10. \A q \in Pools : pools'[q].state = "open" /\ kept[pools[q].token] = q
                              => kept'[pools[q].token] = q
    <3> SUFFICES ASSUME NEW q \in Pools, pools'[q].state = "open", kept[pools[q].token] = q
                 PROVE  kept'[pools[q].token] = q
      OBVIOUS
    <3>1. pools[q].token \in Keys /\ q # NoPool /\ q # kept[old]
      BY <1>2, <2>3, NoPoolIsNone DEF PoolStates
    <3> QED BY <3>1, <1>16, <2>2
  <2>11. \A q \in Pools : pools'[q].token = pools[q].token
                            /\ (pools'[q].state = "open" => pools[q].state = "open")
                            /\ (pools[q].state # "unused" => pools'[q].state # "unused")
                            /\ (pools[q].state = "open" => pools'[q].state = "open" \/ Full')
    BY <2>1, <2>3, <2>8
  <2>12. \A q \in Pools : (\A key \in Keys : kept[key] # q) => pools'[q] = pools[q]
    BY <2>1, <2>3
  <2>13. \A key \in Keys : kept'[key] \in {kept[key], own, NoPool}
    BY <2>2
  <2>14. kept'[k] = own /\ pools'[own] = pools[own]
    BY <2>1, <2>2, <2>3
  <2> QED BY <1>14, <1>16, <2>2, <2>3, <2>8, <2>9, <2>10, <2>11, <2>12, <2>13, <2>14
<1> QED BY <1>6, <1>7, <1>13, <1>15, <1>16 DEF Store, To, Request

(* A request that has ended is as it was but for that.                       *)
EndsAs(r, d, end) == r = [d EXCEPT !.pc = "done", !.end = end]

LEMMA EndedIsRequest ==
  ASSUME NEW d \in RequestStates, NEW end \in {"none", "ok", "denied", "missing", "broken"},
         NEW r, EndsAs(r, d, end)
  PROVE  /\ r \in RequestStates
         /\ r.pool = d.pool /\ r.op = d.op /\ r.token = d.token /\ r.listed = d.listed
         /\ r.had = d.had /\ r.from = d.from /\ r.step = d.step /\ r.rows = d.rows
         /\ r.pc = "done" /\ r.end = end
<1> DEFINE stopped == [d EXCEPT !.pc = "done"]
<1>1. stopped \in RequestStates /\ r = [stopped EXCEPT !.end = end]
  BY DEF EndsAs, RequestStates
<1>2. r \in RequestStates
  <2> HIDE DEF stopped
  <2> QED BY <1>1 DEF RequestStates
<1>3. /\ r.pool = d.pool /\ r.op = d.op /\ r.token = d.token /\ r.listed = d.listed
      /\ r.had = d.had /\ r.from = d.from /\ r.step = d.step /\ r.rows = d.rows
      /\ r.pc = "done" /\ r.end = end
  BY DEF EndsAs, RequestStates
<1> QED BY <1>2, <1>3

(* What a statement's rows make of a request: the keys of a table are still  *)
(* to be read, or it is done.                                                *)
RowsMake(r, t, n, from) ==
    /\ r.pool = requests[t].pool /\ r.op = requests[t].op /\ r.token = requests[t].token
    /\ r.listed /\ r.had = requests[t].had /\ r.from = requests[t].from \cup {from}
    /\ \/ r.pc = "query" /\ r.step = "keys" /\ r.op = "describe" /\ requests[t].step = "rows"
       \/ r.pc = "done" /\ r.step = requests[t].step
    /\ requests[t].step = "rows" => r.rows = Ceiling(t, n)

LEMMA RowsAre ==
  ASSUME EnginesInv, NEW t \in Threads, NEW n \in Nat, NEW from \in Threads,
         requests[t].pc \in {"query", "fetch"}
  PROVE  RowsTaken(t, n, from) \in RequestStates /\ RowsMake(RowsTaken(t, n, from), t, n, from)
<1> PICK old \in RequestStates : old = requests[t] /\ RowsRely(t, old)
  BY RequestTyped
<1> DEFINE rows == IF old.step = "rows" THEN Ceiling(t, n) ELSE old.rows
           d == [old EXCEPT !.rows = rows, !.from = @ \cup {from}]
           missing == [d EXCEPT !.pc = "done", !.end = "missing"]
           whole == [d EXCEPT !.pc = "done", !.end = "ok"]
           keys == [d EXCEPT !.pc = "query", !.step = "keys"]
<1>1. rows \in Nat
  BY NoPoolIsNone DEF Ceiling, RequestStates
<1> HIDE DEF rows
<1>2. /\ d \in RequestStates
      /\ d.pool = old.pool /\ d.op = old.op /\ d.token = old.token /\ d.listed = old.listed
      /\ d.had = old.had /\ d.from = old.from \cup {from} /\ d.step = old.step /\ d.rows = rows
  BY <1>1 DEF RequestStates
<1>3. old.listed /\ (old.step = "rows" => rows = Ceiling(t, n))
  BY DEF RowsRely, rows
<1>4. RowsTaken(t, n, from) = IF d.op = "describe" /\ d.step = "rows"
                         THEN IF n = 0 THEN missing
                              ELSE IF Engine("databricks") THEN whole ELSE keys
                         ELSE whole
  BY DEF RowsTaken, Request, rows
<1> HIDE DEF d
<1>5. ASSUME NEW r, NEW end \in {"ok", "missing"}, EndsAs(r, d, end)
      PROVE  r \in RequestStates /\ RowsMake(r, t, n, from)
  <2>1. /\ r \in RequestStates
        /\ r.pool = d.pool /\ r.op = d.op /\ r.token = d.token /\ r.listed = d.listed
        /\ r.had = d.had /\ r.from = d.from /\ r.step = d.step /\ r.rows = d.rows
        /\ r.pc = "done"
    BY <1>2, <1>5, EndedIsRequest
  <2> QED BY <1>2, <1>3, <2>1 DEF RowsMake
<1>6. ASSUME d.op = "describe", d.step = "rows"
      PROVE  keys \in RequestStates /\ RowsMake(keys, t, n, from)
  <2> DEFINE asked == [d EXCEPT !.pc = "query"]
  <2>1. asked \in RequestStates /\ keys = [asked EXCEPT !.step = "keys"]
    BY <1>2 DEF RequestStates
  <2>2. /\ keys.pool = d.pool /\ keys.op = d.op /\ keys.token = d.token
        /\ keys.listed = d.listed /\ keys.had = d.had /\ keys.from = d.from
        /\ keys.step = "keys" /\ keys.rows = d.rows /\ keys.pc = "query"
    BY <1>2 DEF RequestStates
  <2> HIDE DEF asked, keys
  <2>3. keys \in RequestStates
    BY <2>1 DEF RequestStates
  <2> QED BY <1>2, <1>3, <1>6, <2>2, <2>3 DEF RowsMake
<1>7. EndsAs(missing, d, "missing") /\ EndsAs(whole, d, "ok")
  BY DEF EndsAs
<1> HIDE DEF missing, whole, keys
<1>8. /\ missing \in RequestStates /\ RowsMake(missing, t, n, from)
      /\ whole \in RequestStates /\ RowsMake(whole, t, n, from)
  BY <1>5, <1>7
<1> QED BY <1>4, <1>6, <1>8

(* A request that goes on, or ends, with the pool it has.                    *)
LEMMA SamePool ==
  ASSUME EnginesInv, UNCHANGED <<impl, engine, pools, kept>>, NEW t \in Threads,
         requests[t].pc \in {"query", "fetch"}, shared' \in Results,
         NEW r \in RequestStates, requests' = [requests EXCEPT ![t] = r],
         r.pool = requests[t].pool, r.token = requests[t].token,
         r.pc \in {"query", "fetch", "done"}, RowsRely(t, r)
  PROVE  EnginesInv'
<1>1. PoolRelies(requests[t])
  BY RequestTyped
<1>2. PoolRelies(r)
  BY <1>1 DEF PoolRelies
<1> QED BY <1>2, RequestMoves

LEMMA QueryKeeps ==
  ASSUME EnginesInv, UNCHANGED impl, NEW t \in Threads, NEW n \in 0 .. MaxRows + 1, Query(t, n)
  PROVE  EnginesInv'
<1> PICK old \in RequestStates : old = requests[t] /\ RowsRely(t, old)
  BY RequestTyped
<1>1. old.pc = "query" /\ old.listed /\ UNCHANGED <<impl, engine, pools, kept>> /\ n \in Nat
  BY NoPoolIsNone DEF Query, RequestAt, RowsRely
<1> DEFINE had == IF old.step = "rows" THEN n ELSE old.had
           first == [old EXCEPT !.had = had]
<1>2. had \in Nat
  BY <1>1 DEF RequestStates
<1>3. CASE SharesConnection
  <2>1. PICK r \in RequestStates :
          /\ requests' = [requests EXCEPT ![t] = r]
          /\ r.pool = old.pool /\ r.token = old.token /\ r.op = old.op
          /\ r.listed = old.listed /\ r.step = old.step /\ r.pc = "fetch"
    <3> DEFINE d == [first EXCEPT !.pc = "fetch"]
    <3>1. requests' = [requests EXCEPT ![t] = d]
      BY <1>3 DEF Query, To, Request
    <3> HIDE DEF had
    <3>2. d \in RequestStates
      BY <1>2 DEF RequestStates
    <3>3. /\ d.pool = old.pool /\ d.token = old.token /\ d.op = old.op
          /\ d.listed = old.listed /\ d.step = old.step /\ d.pc = "fetch"
      BY <1>2 DEF RequestStates
    <3> HIDE DEF d
    <3> QED BY <3>1, <3>2, <3>3
  <2>2. shared' \in Results
    <3>1. shared' = [of |-> t, rows |-> n]
      BY <1>3 DEF Query
    <3> QED BY <1>1, <3>1 DEF Results
  <2>3. RowsRely(t, r)
    BY <1>1, <1>3, <2>1 DEF RowsRely
  <2> QED BY <1>1, <2>1, <2>2, <2>3, SamePool
<1>4. CASE ~SharesConnection
  <2>1. PICK q \in RequestStates :
          /\ q = RowsTaken(t, n, t)
          /\ q.pool = old.pool /\ q.op = old.op /\ q.token = old.token
          /\ q.listed /\ q.had = old.had /\ q.from = old.from \cup {t}
          /\ \/ q.pc = "query" /\ q.step = "keys" /\ q.op = "describe" /\ old.step = "rows"
             \/ q.pc = "done" /\ q.step = old.step
          /\ old.step = "rows" => q.rows = Ceiling(t, n)
    <3> HIDE DEF had, first
    <3>1. /\ old = requests[t] /\ old.pc \in {"query", "fetch"} /\ n \in Nat
          /\ old.step \in {"rows", "keys"}
      BY <1>1 DEF RequestStates
    <3>2. RowsTaken(t, n, t) \in RequestStates /\ RowsMake(RowsTaken(t, n, t), t, n, t)
      BY <3>1, RowsAre
    <3>3. PICK q \in RequestStates : q = RowsTaken(t, n, t) /\ RowsMake(q, t, n, t)
      BY <3>2
    <3> QED BY <3>1, <3>3 DEF RowsMake
  <2>2. PICK r \in RequestStates :
          /\ requests' = [requests EXCEPT ![t] = r]
          /\ r.pool = q.pool /\ r.token = q.token /\ r.op = q.op /\ r.listed = q.listed
          /\ r.step = q.step /\ r.pc = q.pc /\ r.from = q.from /\ r.rows = q.rows /\ r.had = had
    <3> DEFINE d == [q EXCEPT !.had = had]
    <3>1. requests' = [requests EXCEPT ![t] = [q EXCEPT !.had = first.had]] /\ first.had = had
      <4>1. first.had = had
        BY DEF RequestStates
      <4> QED BY <1>4, <2>1, <4>1 DEF Query, To, Request
    <3> HIDE DEF had, first
    <3>2. d \in RequestStates
      BY <1>2 DEF RequestStates
    <3>3. /\ d.pool = q.pool /\ d.token = q.token /\ d.op = q.op /\ d.listed = q.listed
          /\ d.step = q.step /\ d.pc = q.pc /\ d.from = q.from /\ d.rows = q.rows /\ d.had = had
      BY <1>2 DEF RequestStates
    <3>4. requests' = [requests EXCEPT ![t] = d]
      BY <3>1
    <3> HIDE DEF d
    <3> QED BY <3>2, <3>3, <3>4
  <2>3. shared' = shared /\ shared \in Results
    BY <1>4, RequestTyped DEF Query
  <2>4. r.from = {t}
    <3>1. old.from \subseteq {t}
      <4>1. old.step \in {"rows", "keys"}
        BY DEF RequestStates
      <4> QED BY <4>1, <1>1, <1>4 DEF RowsRely
    <3> QED BY <3>1, <2>1, <2>2
  <2>5. r.step = "keys" => r.op = "describe"
    BY <1>1, <2>1, <2>2 DEF RowsRely
  <2>6. r.op = "run" => r.pc = "done" /\ old.step = "rows" /\ r.had = n /\ r.rows = Ceiling(t, n)
    <3>1. old.step \in {"rows", "keys"} /\ (r.op = "run" => r.step # "keys")
      BY <2>5 DEF RequestStates
    <3> QED BY <3>1, <2>1, <2>2
  <2>7. r.op = "run" /\ r.rows < MaxRows => r.rows = r.had
    <3>1. r.op = "run" => Ceiling(t, n) = IF n > MaxRows THEN MaxRows ELSE n
      BY <2>1, <2>2 DEF Ceiling, Request
    <3>2. MaxRows \in Nat /\ n \in Nat
      BY <1>1, NoPoolIsNone
    <3>3. ASSUME r.op = "run", r.rows < MaxRows PROVE r.rows = r.had
      <4>1. r.rows = Ceiling(t, n) /\ r.had = n
        BY <2>6, <3>3
      <4> QED BY <3>1, <3>2, <3>3, <4>1
    <3> QED BY <3>3
  <2>8. RowsRely(t, r)
    <3>1. r.listed /\ r.pc \in {"query", "done"} /\ (r.pc = "query" => r.step = "keys")
      BY <2>1, <2>2
    <3> HIDE DEF had, first
    <3> QED BY <1>4, <3>1, <2>4, <2>5, <2>7 DEF RowsRely
  <2> QED BY <1>1, <2>1, <2>2, <2>3, <2>8, SamePool
<1> QED BY <1>3, <1>4

LEMMA FetchKeeps ==
  ASSUME EnginesInv, UNCHANGED impl, NEW t \in Threads, Fetch(t)
  PROVE  EnginesInv'
<1> DEFINE taken == Ceiling(t, shared.rows)
<1>1. /\ requests[t].pc = "fetch" /\ UNCHANGED <<impl, engine, pools, kept>>
      /\ requests' = [requests EXCEPT ![t] = RowsTaken(t, taken, shared.of)]
      /\ shared' = [shared EXCEPT !.rows = @ - taken]
      /\ shared.of # NoThread /\ shared \in Results
  BY RequestTyped DEF Fetch, RequestAt, To
<1>2. taken \in Nat /\ shared.rows - taken \in Nat /\ shared.of \in Threads
  BY <1>1, NoPoolIsNone DEF Ceiling, Results
<1> HIDE DEF taken
<1>3. shared' \in Results
  BY <1>1, <1>2 DEF Results
<1>4. PICK r \in RequestStates :
        /\ r = RowsTaken(t, taken, shared.of)
        /\ r.pool = requests[t].pool /\ r.op = requests[t].op /\ r.token = requests[t].token
        /\ r.listed
        /\ \/ r.pc = "query" /\ r.step = "keys" /\ r.op = "describe"
           \/ r.pc = "done" /\ r.step = requests[t].step
  <2>1. /\ RowsTaken(t, taken, shared.of) \in RequestStates
        /\ RowsMake(RowsTaken(t, taken, shared.of), t, taken, shared.of)
    BY <1>1, <1>2, RowsAre
  <2>2. PICK r \in RequestStates :
          r = RowsTaken(t, taken, shared.of) /\ RowsMake(r, t, taken, shared.of)
    BY <2>1
  <2> QED BY <2>2 DEF RowsMake
<1>5. SharesConnection /\ (requests[t].step = "keys" => requests[t].op = "describe")
  BY <1>1, RequestTyped DEF RowsRely
<1>6. RowsRely(t, r)
  BY <1>4, <1>5 DEF RowsRely
<1> QED BY <1>1, <1>3, <1>4, <1>6, SamePool

LEMMA FailureKeeps ==
  ASSUME EnginesInv, UNCHANGED impl, NEW t \in Threads, QueryFails(t) \/ EngineDenies(t)
  PROVE  EnginesInv'
<1> PICK old \in RequestStates : old = requests[t] /\ RowsRely(t, old)
  BY RequestTyped
<1>1. old.pc \in {"query", "fetch"} /\ UNCHANGED <<impl, engine, pools, kept, shared>>
  BY DEF QueryFails, EngineDenies, RequestAt
<1>2. PICK end \in {"ok", "broken", "denied"} :
        /\ requests' = [requests EXCEPT ![t] = [old EXCEPT !.pc = "done", !.end = end]]
        /\ end = "ok" => old.step = "keys"
  <2>1. CASE QueryFails(t)
    <3>1. CASE old.step = "keys" /\ KeysOptional
      BY <2>1, <3>1 DEF QueryFails, To, End, Request
    <3>2. CASE ~(old.step = "keys" /\ KeysOptional)
      BY <2>1, <3>2 DEF QueryFails, To, End, Request
    <3> QED BY <3>1, <3>2
  <2>2. CASE EngineDenies(t)
    BY <2>2 DEF EngineDenies, To, End, Request
  <2> QED BY <2>1, <2>2
<1> DEFINE d == [old EXCEPT !.pc = "done", !.end = end]
<1>3. EndsAs(d, old, end) /\ end \in {"none", "ok", "denied", "missing", "broken"}
  BY DEF EndsAs
<1> HIDE DEF d
<1>4. /\ d \in RequestStates
      /\ d.pool = old.pool /\ d.token = old.token /\ d.op = old.op /\ d.listed = old.listed
      /\ d.step = old.step /\ d.from = old.from /\ d.pc = "done" /\ d.end = end
  BY <1>3, EndedIsRequest
<1>5. PICK r \in RequestStates : r = d
  BY <1>4
<1>6. requests' = [requests EXCEPT ![t] = r]
  BY <1>2, <1>3, <1>5 DEF EndsAs
<1>7. RowsRely(t, r)
  BY <1>1, <1>2, <1>4, <1>5 DEF RowsRely
<1> QED BY <1>1, <1>4, <1>5, <1>6, <1>7, RequestTyped, SamePool

LEMMA ReturnKeeps ==
  ASSUME EnginesInv, UNCHANGED impl, NEW t \in Threads, Return(t)
  PROVE  EnginesInv'
<1> PICK old \in RequestStates : old = requests[t] /\ PoolRelies(old)
  BY RequestTyped
<1>1. old.pc = "done" /\ UNCHANGED <<impl, engine, kept, shared>>
      /\ requests' = [requests EXCEPT ![t] = NoRequest]
  BY DEF Return, RequestAt, To
<1>2. RowsRely(t, NoRequest)
  BY NobodyAsks DEF RowsRely
<1>3. CASE ~(Connects /\ old.pool # NoPool)
  <2>1. UNCHANGED pools
    BY <1>3 DEF Return, Request
  <2>2. PoolRelies(NoRequest)
    BY NobodyAsks DEF PoolRelies
  <2>3. NoRequest.pool = old.pool \/ ~Connects
    BY <1>3, NobodyAsks
  <2> QED BY <1>1, <1>2, <2>1, <2>2, <2>3, NobodyAsks, RequestTyped, RequestMoves
<1>4. CASE Connects /\ old.pool # NoPool
  <2> PICK own \in Pools : own = old.pool
    BY <1>4 DEF RequestStates
  <2>1. /\ requests \in [Threads -> RequestStates] /\ kept \in [Keys -> Pools \cup {NoPool}]
        /\ shared \in Results /\ pools \in [Pools -> PoolStates]
    BY RequestTyped
  <2>2. pools' = Closed(own)
    BY <1>4 DEF Return, Request
  <2>3. /\ pools' \in [Pools -> PoolStates] /\ pools'[own].state = "closed"
        /\ pools'[own].token = pools[own].token
        /\ \A q \in Pools \ {own} : pools'[q] = pools[q]
    BY <2>1, <2>2 DEF Closed, PoolStates
  <2>4. \A u \in Threads \ {t} : requests[u].pool # own
    BY <1>4 DEF EnginesInv, OwnPools
  <2>5. Connects' /\ (PoolFirst' <=> PoolFirst) /\ (Full' <=> Full)
        /\ \A u \in Threads : requests[u].pc # "made"
    <3>1. impl = "py"
      BY <1>4 DEF Connects
    <3> QED BY <1>1, <1>4, <3>1 DEF Connects, PoolFirst, Engine, Full, KeptPools, EnginesInv, PoolRelies
  <2>6. \A k \in Keys : kept[k] # own
    <3> SUFFICES ASSUME NEW k \in Keys, kept[k] = own PROVE FALSE
      OBVIOUS
    <3> QED BY <1>4, NoPoolIsNone DEF EnginesInv, KeptOpen
  <2>7. PoolsFew'
    BY <1>1 DEF EnginesInv, PoolsFew, PoolsBounded, KeptPools, Engine
  <2>8. KeptOpen'
    BY <1>1, <1>4 DEF EnginesInv, KeptOpen
  <2>9. OpenIsHeld'
    <3> SUFFICES ASSUME NEW q \in Pools, pools'[q].state = "open", kept[pools'[q].token] # q
                 PROVE  \E u \in Threads : requests'[u].pool = q
      BY <1>1, <2>5 DEF OpenIsHeld, RequestAt, Request
    <3>1. q # own /\ pools'[q] = pools[q]
      BY <2>3
    <3>2. PICK u \in Threads : requests[u].pool = q
      BY <3>1 DEF EnginesInv, OpenIsHeld, RequestAt, Request
    <3>3. u # t
      BY <3>1, <3>2
    <3> QED BY <1>1, <2>1, <3>2, <3>3
  <2>10. PoolRelies(NoRequest)'
    BY NobodyAsks DEF PoolRelies
  <2>11. \A q \in RequestStates : (\E u \in Threads \ {t} : requests[u] = q) => PoolRelies(q)'
    <3> SUFFICES ASSUME NEW q \in RequestStates, NEW u \in Threads \ {t}, requests[u] = q
                 PROVE  PoolRelies(q)'
      OBVIOUS
    <3>1. PoolRelies(q) /\ q.pool # own /\ q.pool \in Pools \cup {NoPool} /\ q.pc # "made"
      BY <2>4, <2>5, RequestTyped DEF RequestStates
    <3> QED BY <3>1, <1>1, <1>4, <2>3, <2>5 DEF PoolRelies
  <2> QED BY <1>1, <1>2, <2>1, <2>3, <2>7, <2>8, <2>9, <2>10, <2>11, NobodyAsks, EngineMoves
<1> QED BY <1>3, <1>4

LEMMA EnginesStart == BaseInit /\ EnginesInit => EnginesInv
<1> SUFFICES ASSUME BaseInit, EnginesInit PROVE EnginesInv
  OBVIOUS
<1>1. requests \in [Threads -> RequestStates] /\ \A t \in Threads : requests[t] = NoRequest
  BY NobodyAsks DEF EnginesInit
<1>2. pools \in [Pools -> PoolStates] /\ \A p \in Pools : pools[p].state = "unused"
  BY NoPoolIsNone DEF EnginesInit, Unused, PoolStates
<1>3. kept \in [Keys -> Pools \cup {NoPool}] /\ KeptPools = {}
  BY DEF EnginesInit, KeptPools
<1>4. shared \in Results
  BY DEF EnginesInit, NoResult, Results
<1>5. EnginesType /\ (Engine("duckdb") => engine.tier = "service")
  BY <1>1, <1>2, <1>3, <1>4
     DEF EnginesInit, EnginesType, RequestStates, PoolStates, Results, Engine
<1>6. KeptOpen /\ OpenIsHeld /\ OwnPools
  BY <1>1, <1>2, <1>3, NobodyAsks DEF KeptOpen, KeptPools, OpenIsHeld, OwnPools
<1>7. PoolsFew
  <2>1. IsFiniteSet({}) /\ Cardinality({}) = 0
    BY FS_EmptySet
  <2> QED BY <1>3, <2>1, EnginesAssumption DEF PoolsFew, PoolsBounded
<1>8. PoolRelies(NoRequest) /\ \A t \in Threads : RowsRely(t, NoRequest)
  BY NobodyAsks DEF PoolRelies, RowsRely
<1> QED BY <1>1, <1>5, <1>6, <1>7, <1>8 DEF EnginesInv, BaseInit

LEMMA EnginesSteps == EnginesInv /\ [EnginesNext]_<<impl, now, engineVars>> => EnginesInv'
<1> SUFFICES ASSUME EnginesInv, [EnginesNext]_<<impl, now, engineVars>> PROVE EnginesInv'
  OBVIOUS
<1>1. CASE UNCHANGED impl /\ UNCHANGED engineVars
  <2>1. UNCHANGED <<impl, engine, pools, kept, shared, requests>>
    BY <1>1 DEF engineVars
  <2>2. EnginesType' /\ KeptOpen' /\ OpenIsHeld' /\ OwnPools' /\ PoolsFew'
    BY <2>1 DEF EnginesInv, EnginesType, KeptOpen, OpenIsHeld, OwnPools, PoolsFew, PoolsBounded,
                KeptPools, RequestAt, Request, Connects, Engine
  <2>3. \A t \in Threads : PoolRelies(requests[t])'
    BY <2>1 DEF EnginesInv, PoolRelies, Full, KeptPools, Connects, Engine, PoolFirst, Key
  <2>4. \A t \in Threads : RowsRely(t, requests[t])'
    BY <2>1 DEF EnginesInv, RowsRely, SharesConnection, PoolFirst, Engine
  <2> QED BY <2>1, <2>2, <2>3, <2>4 DEF EnginesInv, Engine
<1>2. ASSUME NEW t \in Threads, RequestStep(t), UNCHANGED impl PROVE EnginesInv'
  <2>1. ASSUME NEW op \in {"list", "describe", "run"}, NEW token \in Tokens,
               NEW listed \in BOOLEAN, BeginRequest(t, op, token, listed)
        PROVE  EnginesInv'
    BY <1>2, <2>1, BeginKeeps
  <2>2. ASSUME NEW n \in 0 .. MaxRows + 1, Query(t, n) PROVE EnginesInv'
    BY <1>2, <2>2, QueryKeeps
  <2>3. CASE Schema(t) \/ Direct(t) \/ OpenConnection(t) \/ OpenFile(t) \/ Pool(t) \/ Store(t)
    BY <1>2, <2>3, SchemaKeeps, DirectKeeps, ConnectKeeps, OpenFileKeeps, PoolKeeps, StoreKeeps
  <2>4. CASE Fetch(t) \/ QueryFails(t) \/ EngineDenies(t) \/ Return(t)
    BY <1>2, <2>4, FetchKeeps, FailureKeeps, ReturnKeeps
  <2> QED BY <1>2, <2>1, <2>2, <2>3, <2>4 DEF RequestStep
<1> QED BY <1>1, <1>2 DEF EnginesNext, Exhausted

LEMMA EnginesAlways == EnginesSpec => []EnginesInv
  BY EnginesStart, EnginesSteps, PTL DEF EnginesSpec

(* Wherever the engine sees users a statement runs on a connection of its    *)
(* asker's own token, whatever pools threads share, race for and replace     *)
(* (TdsBackend.pool of sources.go, PostgresBackend.pool of                   *)
(* sources_postgres.go).                                                     *)
THEOREM StatementsRunAsAsker == EnginesSpec => []RunsAsAsker
<1>1. EnginesInv => RunsAsAsker
  <2> SUFFICES ASSUME EnginesInv, engine.tier = "user", NEW t \in Threads,
                      requests[t].pool # NoPool
               PROVE  pools[requests[t].pool].token = requests[t].token
    BY DEF RunsAsAsker, Request
  <2>1. PoolRelies(requests[t]) /\ ~Engine("duckdb")
    BY DEF EnginesInv
  <2>2. Key(requests[t].token) = requests[t].token
    BY <2>1 DEF Key
  <2> QED BY <2>1, <2>2 DEF PoolRelies
<1> QED BY <1>1, EnginesAlways, PTL

(* No pool is lost or closed under a statement by a race of two threads to   *)
(* make it, and no more are kept than may be, for any number of threads and  *)
(* tokens.                                                                   *)
THEOREM PoolsAlwaysAccounted == EnginesSpec => []PoolsAccounted
<1>1. EnginesInv => ClosedForOthers
  <2> SUFFICES ASSUME EnginesInv, NEW t \in Threads, ~PoolUsable(t)
               PROVE  Engine("tds") /\ Cardinality(KeptPools) = PoolsKept
    BY DEF ClosedForOthers
  <2>1. PoolRelies(requests[t]) /\ requests[t].pool \in Pools \cup {NoPool}
    BY RequestTyped DEF RequestStates
  <2> QED BY <2>1 DEF PoolRelies, Full, PoolUsable, Request
<1>2. EnginesInv => PoolsAccounted
  BY <1>1 DEF EnginesInv, PoolsFew, PoolsAccounted
<1> QED BY <1>2, EnginesAlways, PTL

(* No adapter describes a table outside the allow-list or says whether it is *)
(* there; and where requests do not share a connection an answer has its own *)
(* statement's rows, all of them unless it says it was cut off.              *)
THEOREM AnswersWhole == EnginesSpec => []AnswerWhole
<1>1. EnginesInv => AnswerWhole
  <2> SUFFICES ASSUME EnginesInv PROVE AllowListFirst /\ (~SharesConnection => OwnRows)
    BY DEF AnswerWhole
  <2>1. \A t \in Threads : requests[t] \in RequestStates /\ RowsRely(t, requests[t])
    BY RequestTyped
  <2>2. AllowListFirst
    BY <2>1 DEF RowsRely, AllowListFirst, RequestAt, Request
  <2>3. ASSUME ~SharesConnection, NEW t \in Threads, requests[t].pc = "done", requests[t].end = "ok"
        PROVE  /\ requests[t].from = {t}
               /\ requests[t].op = "run" /\ ~Truncated(t) => requests[t].rows = requests[t].had
    BY <2>1, <2>3, NoPoolIsNone DEF RowsRely, Truncated, Request, RequestStates
  <2> QED BY <2>2, <2>3 DEF OwnRows, RequestAt, Request
<1> QED BY <1>1, EnginesAlways, PTL
=============================================================================
