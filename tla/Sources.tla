------------------------------ MODULE Sources ------------------------------
(***************************************************************************)
(* What an entry of DAS_SOURCES comes to: whether the executor starts with *)
(* it, which adapter serves it, what the engine is reached with, and what  *)
(* the audit line says it was reached with.  sources.py and app.py decide  *)
(* this in Python, sources.go, backend_router.go and main.go in Go.  One   *)
(* entry stands for all, a request for any.                                *)
(***************************************************************************)
EXTENDS ExecutorBase

VARIABLES duckDBSupported,  \* the Go executor is built with `-tags duckdb`
          source,           \* the entry that was loaded
          answer            \* and a request about it

sourceVars == <<duckDBSupported, source, answer>>

TdsKinds == {"fabric", "synapse", "azuresql", "mssql"}
PostgresKinds == {"postgres", "postgresql"}
SourceKinds == TdsKinds \cup PostgresKinds \cup {"databricks", "duckdb", "rest", "other"}

(* A kind is written as the code writes it, in another case, or padded.    *)
(* "keyvault:" names no secret; "scheme" is any other word and a colon.  A  *)
(* DSN's password stands before its host, or among what follows it.  A      *)
(* scope of the source's own is another than the deployment's.  What is not *)
(* read of a kind is left out of its entries.                               *)
SourceEntries ==
    {e \in [kind : SourceKinds,
            written : {"plain", "cased", "padded"},
            authz_tier : {"user", "service"},
            credential : {"none", "literal", "reference", "unnamed", "scheme"},
            dsn : {"none", "url", "pairs"},
            password : {"none", "user", "query"},
            path : BOOLEAN,
            spec : BOOLEAN,
            surface : {"unsaid", "sql", "http"},
            scope : BOOLEAN] :
         /\ e.dsn = "none" => e.password = "none"
         /\ e.dsn = "pairs" => e.password # "user"
         /\ e.dsn = "pairs" \/ e.password = "query" => e.kind \in PostgresKinds
         /\ e.path => e.kind = "duckdb"
         /\ e.written = "plain" \/ e.kind # "other"
         /\ e.scope => e.authz_tier = "user"}

(* How a kind is compared, at start-up and where the surface is chosen. *)
IsKind(i, e, kind) ==
    /\ e.kind = kind
    /\ e.written = "plain" \/ (i = "go" /\ e.written = "cased")

SurfaceOf(i, e) == IF e.surface # "unsaid" THEN e.surface
                   ELSE IF IsKind(i, e, "rest") THEN "http" ELSE "sql"

(* An embedded engine has no user and cannot do without its file. *)
EmbeddedRefused_NotForTier(i, e) ==
    IsKind(i, e, "duckdb") /\ (~e.path \/ (i = "go" /\ ~duckDBSupported))
EmbeddedRefused(i, e) ==
    /\ IsKind(i, e, "duckdb")
    /\ \/ e.authz_tier = "user"
       \/ ~e.path
       \/ i = "go" /\ ~duckDBSupported

CredentialRefused(e) ==
    e.credential # "none" /\ (e.authz_tier = "user" \/ e.password # "none")

EntryRefused(i, e) == \/ SurfaceOf(i, e) = "http" /\ ~e.spec
                      \/ EmbeddedRefused(i, e)
                      \/ CredentialRefused(e)

-----------------------------------------------------------------------------
(* The table Python looks a kind up in, as it is written; the Go router    *)
(* trims it and ignores its case, and an API is not among its engines.     *)
PyAdapter(e) == IF e.written # "plain" THEN "none"
                ELSE CASE e.kind \in TdsKinds \ {"mssql"} -> "tds"
                       [] e.kind = "postgres" -> "postgres"
                       [] e.kind \in {"databricks", "duckdb", "rest"} -> e.kind
                       [] OTHER -> "none"
GoAdapter_NoDatabricks(e) == CASE e.kind \in TdsKinds \ {"azuresql"} -> "tds"
                               [] e.kind \in PostgresKinds -> "postgres"
                               [] e.kind = "duckdb" -> e.kind
                               [] OTHER -> "none"
GoAdapter(e) == CASE e.kind \in TdsKinds \ {"azuresql"} -> "tds"
                  [] e.kind \in PostgresKinds -> "postgres"
                  [] e.kind \in {"databricks", "duckdb"} -> e.kind
                  [] OTHER -> "none"

(* Python goes by the surface and needs an adapter that has it; Go takes   *)
(* any source for SQL, and for calls any of kind rest with a spec.         *)
Adapter(i, e, surface) ==
    CASE i = "go" /\ surface = "sql" -> GoAdapter(e)
      [] i = "go" /\ surface = "http" ->
             IF IsKind(i, e, "rest") /\ e.spec THEN "rest" ELSE "none"
      [] i = "py" ->
             IF SurfaceOf(i, e) = surface /\ (PyAdapter(e) = "rest" <=> surface = "http")
             THEN PyAdapter(e) ELSE "none"

(* What the adapter is handed: the asker's own token, the stored secret or *)
(* this service's identity, if whoever is asked for it gives it.  A        *)
(* reference that does not resolve is never sent in the secret's place;    *)
(* for one that names nothing Python asks the vault, and goes by what the  *)
(* vault answers.  Go asks for the deployment's scope, whatever a source's *)
(* own is.                                                                 *)
PrincipalToken(i, e, given) ==
    LET asker == IF i = "go" /\ e.scope THEN "elsewhere" ELSE "asker"
        asked == IF e.authz_tier = "user"
                 THEN IF e.credential = "none" THEN asker ELSE "fails"
                 ELSE CASE e.credential = "none" -> "identity"
                        [] e.credential \in {"reference", "literal"} -> "stored"
                        [] e.credential = "unnamed" /\ i = "py" -> "stored"
                        [] OTHER -> "fails" IN
    IF given \/ e.credential = "literal" THEN asked ELSE "fails"

(* An engine does not take a token made out for another. *)
Admitted(token) == IF token = "elsewhere" THEN "fails" ELSE token

(* A DSN goes to the Go driver as a URL does: one of key=value pairs comes *)
(* out of the re-writing as no DSN at all.                                 *)
DsnReaches(i, e) == i = "py" \/ e.dsn = "url"

(* What the engine knows its caller by.  Without a password from the token *)
(* decision a PostgreSQL is reached as its DSN says; so it is, in Go, with *)
(* a password that follows the host, which the driver takes before the one *)
(* put in front of it.  A file asks nobody.                                *)
PostgresReached(i, e, token) ==
    IF ~DsnReaches(i, e) THEN "fails"
    ELSE IF /\ e.authz_tier = "user" \/ e.credential # "none"
            /\ i = "py" \/ e.password # "query"
         THEN Admitted(token) ELSE "dsn"
DuckDBReached(i, e) == IF ~e.path \/ (i = "go" /\ ~duckDBSupported) THEN "fails" ELSE "nobody"

Reached(i, e, surface, given) ==
    LET adapter == Adapter(i, e, surface)
        token == PrincipalToken(i, e, given) IN
    IF adapter = "none" \/ token = "fails" THEN "fails"
    ELSE CASE adapter = "postgres" -> PostgresReached(i, e, token)
           [] adapter = "duckdb" -> DuckDBReached(i, e)
           [] OTHER -> Admitted(token)

(* The `credential` of an audit line. *)
CredentialKind(e) == IF e.authz_tier = "user" THEN "user"
                     ELSE IF e.credential # "none" THEN "stored" ELSE "identity"

-----------------------------------------------------------------------------
NoSource == [kind |-> "unread"]
RefusedSource == [kind |-> "refused"]
NoAnswer == [surface |-> "sql", reached |-> "fails", audited |-> "none"]

SourcesInit == /\ duckDBSupported \in BOOLEAN
               /\ source = NoSource
               /\ answer = NoAnswer

Loaded == source \notin {NoSource, RefusedSource}

LoadSources ==
    /\ source = NoSource
    /\ \E e \in SourceEntries : source' = IF EntryRefused(impl, e) THEN RefusedSource ELSE e
    /\ UNCHANGED answer

(* An answer is audited with the credential's kind; a failure is not. *)
Ask(surface, given) ==
    /\ Loaded
    /\ answer' = LET reached == Reached(impl, source, surface, given) IN
                 [surface |-> surface, reached |-> reached,
                  audited |-> IF reached = "fails" THEN "none" ELSE CredentialKind(source)]
    /\ UNCHANGED source

Reconfigure == /\ source # NoSource
               /\ source' = NoSource
               /\ answer' = NoAnswer

SourcesNext == /\ \/ LoadSources
                  \/ \E surface \in {"sql", "http"}, given \in BOOLEAN : Ask(surface, given)
                  \/ Reconfigure
               /\ UNCHANGED <<impl, now, duckDBSupported>>

SourcesSpec == BaseInit /\ SourcesInit /\
               [][SourcesNext]_<<impl, now, sourceVars>>

-----------------------------------------------------------------------------
Served == answer.reached # "fails"

(* A line of Python's that says the engine saw the caller is of an engine   *)
(* that did.  Two entries of Go's break this: a kind padded with blanks,    *)
(* which only the router trims, and a DSN whose own password stands behind  *)
(* its host.                                                                *)
UserMeansAsker == impl = "py" /\ answer.audited = "user" => answer.reached = "asker"

(* Whoever is seen as the caller, with a stored secret or as this service   *)
(* is what the line says.  A DSN as it stands and a file have no word of    *)
(* their own in a line, and are not asked of here.                          *)
AuditTellsCredential ==
    Served => /\ answer.reached = "asker" => answer.audited = "user"
              /\ answer.reached = "stored" => answer.audited = "stored"
              /\ answer.reached = "identity" => answer.audited = "identity"

(* What docs/09-adding-a-source.md says of the line: the credential says    *)
(* what the engine saw.  It is not so where the engine saw a DSN's own user *)
(* or nobody.                                                               *)
LineSaysWhatWasSeen ==
    Served => <<answer.audited, answer.reached>> \in
                  {<<"user", "asker">>, <<"stored", "stored">>, <<"identity", "identity">>}

(* No source is answered for both as tables and as operations, and none as *)
(* operations without the document they are guarded against.               *)
OneSurface ==
    Served => /\ \A given \in BOOLEAN :
                    Reached(impl, source, IF answer.surface = "sql" THEN "http" ELSE "sql",
                            given) = "fails"
              /\ answer.surface = "http" => source.spec

(* A PostgreSQL gets one password: the caller's token, the stored one or   *)
(* its DSN's, and never this service's own identity.                       *)
PostgresPassword ==
    Served /\ source.kind \in PostgresKinds =>
        /\ answer.reached \in {"asker", "stored", "dsn"}
        /\ answer.reached = "stored" => source.password = "none"

(* Whoever is seen as the caller, with a stored secret or as this service   *)
(* is what the line says, and in Python a line that says the caller means   *)
(* it; a source answers on one surface, and a PostgreSQL with one password, *)
(* which is never this service's identity.                                  *)
ServedAsConfigured ==
    UserMeansAsker /\ AuditTellsCredential /\ OneSurface /\ PostgresPassword

(* An entry in words both know means the same to both.  Left out are what  *)
(* one of them reads otherwise: a DSN the Go driver cannot take or takes   *)
(* its own password from, a reference that names nothing, a scope of the   *)
(* source's own, a surface other than the kind's, and the build without    *)
(* DuckDB.                                                                 *)
Common(e) == /\ e.written = "plain" /\ e.surface = "unsaid" /\ ~e.scope
             /\ e.kind \notin {"azuresql", "mssql", "postgresql"}
             /\ e.kind = "postgres" => e.dsn = "url" /\ e.password # "query"
             /\ e.kind = "duckdb" => duckDBSupported
             /\ e.credential # "unnamed"
ImplementationsAgree ==
    Loaded /\ Common(source) =>
        \A i \in Impls :
            /\ ~EntryRefused(i, source)
            /\ \A surface \in {"sql", "http"}, given \in BOOLEAN :
                   Reached(i, source, surface, given) = Reached(impl, source, surface, given)
=============================================================================
