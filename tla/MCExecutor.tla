----------------------------- MODULE MCExecutor -----------------------------
(* Every part of the executor in one instance for TLC: a behaviour is one    *)
(* part's, for as long as that part has something to show, while the others  *)
(* rest.  The threads of a part are interchangeable.                         *)
EXTENDS TagIndex, RoleResolver, TokenKeys, Credential, Requests, AccessRules, SqlGuard,
        HttpGuard, TLC

CONSTANTS a, c, u1, u2, s1, s2, c1, c2

MCPageOf == a :> 2 @@ c :> 3
MCScopeOf == s1 :> c1 @@ s2 :> c2

VARIABLE part

Parted == {"tags", "roles", "keys", "credential", "requests", "rules", "sql", "http"}

Horizon == [p \in Parted |-> CASE p \in {"tags", "roles"} -> 3
                               [] p \in {"keys", "credential"} -> MaxNow
                               [] p = "requests" -> 2
                               [] OTHER -> 0]

ExecutorInit ==
    /\ part \in Parted
    /\ BaseInit
    /\ TagsInit /\ (part # "tags" => catalogPages = 1)
    /\ IF part = "roles" THEN RolesInit
       ELSE /\ roleSource = "appRole"
            /\ claims = [roles |-> {}, mapped |-> {}, oid |-> FALSE]
            /\ definedAt = [r \in Roles |-> Never]
            /\ grants = [p \in Parts |-> [r \in Roles |-> [from |-> Never, until |-> Never]]]
            /\ roleCache = NoAnswer /\ roleNames = {} /\ roleEvents = 0
            /\ lookups = [t \in Threads |-> NoLookup]
    /\ KeysInit /\ (part # "keys" => Published = Kids)
    /\ CredentialInit /\ (part # "credential" => world.federates /\ world.holds)
    /\ RequestsInit /\ RulesInit /\ GuardInit /\ CallInit

Rest(p, vars) == IF part = p THEN TRUE ELSE UNCHANGED vars

(* Every token that the bound allows for is asked for. *)
AllAsked == /\ part = "credential"
            /\ asked = MaxExchanges
            /\ \A t \in Threads : exchanges[t].pc = "idle"
            /\ UNCHANGED <<impl, now>>
            /\ UNCHANGED credentialVars

PartNext == \/ part = "tags" /\ TagsNext
            \/ part = "roles" /\ RolesNext
            \/ part = "keys" /\ KeysNext
            \/ part = "credential" /\ CredentialNext
            \/ part = "requests" /\ RequestsNext
            \/ part = "rules" /\ RulesNext
            \/ part = "sql" /\ GuardNext
            \/ part = "http" /\ HttpNext
            \/ AllAsked

ExecutorNext ==
    /\ PartNext
    /\ UNCHANGED part
    /\ now' <= Horizon[part]
    /\ Rest("tags", tagVars) /\ Rest("roles", roleVars) /\ Rest("keys", keyVars)
    /\ Rest("credential", credentialVars) /\ Rest("requests", request)
    /\ Rest("rules", ruling) /\ Rest("sql", statement) /\ Rest("http", call)

ExecutorSpec == ExecutorInit /\ [][ExecutorNext]_<<part, impl, now, tagVars, roleVars, keyVars,
                                   credentialVars, request, ruling, statement, call>>

Symmetry == Permutations(Threads)

=============================================================================
