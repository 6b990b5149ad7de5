---------------------------- MODULE RoleResolver ----------------------------
(***************************************************************************)
(* Which roles a caller holds: from the token's claims, else from the      *)
(* directory, asked part by part and cached per caller (class RoleResolver *)
(* of access.py, type RoleResolver of access.go).  One caller: the entries *)
(* of different callers share nothing but the role names.                  *)
(***************************************************************************)
EXTENDS ExecutorBase

CONSTANTS Roles,
          RoleTtl,         \* _ttl, ttl: how long a looked up answer serves
          RoleEvents       \* bound: what the administrator does

ASSUME RolesAssumption == RoleTtl \in Nat /\ RoleEvents \in Nat

Parts == {"app", "group"}

VARIABLES roleSource,      \* DAS_ROLE_SOURCE
          claims,          \* of the caller's token: roles, what its groups map to
          roleCache,       \* _cache of the caller; at = Never: no entry
          roleNames,       \* _role_names: read while it is empty
          lookups,         \* one thread's roles_for
          definedAt,       \* the directory: when the application defined a role,
          grants,          \* and from when to when a part of it gives one
          roleEvents

roleVars == <<roleSource, claims, roleCache, roleNames, lookups, definedAt, grants, roleEvents>>

Moment == Time \cup {Never}
NoAnswer == [at |-> Never, roles |-> {}, failed |-> FALSE]
NoLookup == [pc |-> "idle", reads |-> <<>>, names |-> {},
             got |-> {}, since |-> 0, failed |-> FALSE]

RolesType ==
    /\ roleSource \in {"appRole", "group", "both"}
    /\ claims \in [roles : SUBSET Roles, mapped : SUBSET Roles, oid : BOOLEAN]
    /\ roleCache \in [at : Moment, roles : SUBSET Roles, failed : BOOLEAN]
    /\ roleNames \in SUBSET Roles
    /\ lookups \in [Threads -> [pc : {"idle", "read", "claims", "done"},
                                names : SUBSET Roles,
                                reads : Seq({"names", "app", "group"}),
                                got : SUBSET Roles, since : Time, failed : BOOLEAN]]
    /\ definedAt \in [Roles -> Moment]
    /\ grants \in [Parts -> [Roles -> [from : Moment, until : Moment]]]
    /\ roleEvents \in 0 .. RoleEvents

Uses(part) == IF part = "app" THEN roleSource \in {"appRole", "both"}
                              ELSE roleSource \in {"group", "both"}

(* What is not asked for is left out: parts not used, groups not mapped. *)
RolesInit ==
    /\ roleSource \in {"appRole", "group", "both"}
    /\ claims \in [roles : SUBSET Roles, mapped : SUBSET Roles, oid : BOOLEAN]
    /\ roleCache = NoAnswer
    /\ roleNames = {}
    /\ lookups = [t \in Threads |-> NoLookup]
    /\ definedAt \in [Roles -> {0, Never}]
    /\ grants \in [Parts -> [Roles -> {[from |-> f, until |-> Never] : f \in {0, Never}}]]
    /\ \A r \in Roles : definedAt[r] = Never => grants["app"][r].from = Never
    /\ \A p \in Parts, r \in Roles : ~Uses(p) => grants[p][r].from = Never
    /\ ~Uses("group") => claims.mapped = {}
    /\ roleEvents = 0

Holds(part) == {r \in Roles : grants[part][r].from # Never /\ grants[part][r].until = Never}
Defined == {r \in Roles : definedAt[r] # Never}

(* Python reads the application's assignments first, Go the groups. *)
PartOrder == IF impl = "py" THEN <<"app", "group">> ELSE <<"group", "app">>

PartReads(part) == IF ~Uses(part) THEN <<>>
                   ELSE IF part = "app" /\ roleNames = {} THEN <<"names", "app">> ELSE <<part>>

Reads_LastFirst == PartReads(PartOrder[2]) \o PartReads(PartOrder[1])
Reads == PartReads(PartOrder[1]) \o PartReads(PartOrder[2])

RoleHit == roleCache.at # Never /\ now - roleCache.at < RoleTtl

(* The token's claims when they say; the cache, a hit of which is final    *)
(* even if it is empty; else the directory.                                *)
RolesFor(t) ==
    /\ lookups[t].pc = "idle"
    /\ LET answer(roles, pc) == [NoLookup EXCEPT !.pc = pc, !.got = roles] IN
       lookups' = [lookups EXCEPT ![t] =
           IF claims.roles # {} /\ Uses("app") THEN answer(claims.roles, "claims")
           ELSE IF claims.mapped # {} /\ Uses("group") THEN answer(claims.mapped, "claims")
           ELSE IF ~claims.oid THEN answer(claims.roles, "claims")
           ELSE IF RoleHit
           THEN [answer(roleCache.roles, "done") EXCEPT !.failed = roleCache.failed]
           ELSE [NoLookup EXCEPT !.pc = "read", !.reads = Reads, !.names = roleNames,
                                      !.since = now]]
    /\ UNCHANGED <<roleSource, claims, roleCache, roleNames, definedAt, grants, roleEvents>>

Named(t) == IF impl = "py" THEN lookups[t].names ELSE roleNames

(* A call that began while there were no role names brings those of some   *)
(* moment since, and puts them over what another has put there meanwhile;  *)
(* one that would begin now finds the other's and is not made.             *)
DefinedAt(time) == {r \in Defined : definedAt[r] <= time}
NamesRead(t) == {DefinedAt(time) : time \in lookups[t].since .. now}
                    \cup {names \in {roleNames} : names # {}}

(* One call to the directory. *)
Lookup(t) ==
    /\ lookups[t].pc = "read"
    /\ lookups[t].reads # <<>>
    /\ LET mine == lookups[t]
           what == Head(mine.reads)
           found == CASE what = "names" -> {}
                      [] what = "app"   -> Holds("app") \cap Named(t)
                      [] what = "group" -> Holds("group")
           read == [mine EXCEPT !.reads = Tail(mine.reads), !.got = mine.got \cup found]
       IN IF what = "names"
          THEN \E names \in NamesRead(t) :
                   /\ roleNames' = names
                   /\ lookups' = [lookups EXCEPT ![t] = [read EXCEPT !.names = names]]
          ELSE /\ lookups' = [lookups EXCEPT ![t] = read]
               /\ UNCHANGED roleNames
    /\ UNCHANGED <<roleSource, claims, roleCache, definedAt, grants, roleEvents>>

(* A directory that does not answer means no role, never every role. *)
LookupFails(t) ==
    /\ lookups[t].pc = "read"
    /\ lookups[t].reads # <<>>
    /\ lookups' = [lookups EXCEPT ![t] =
                       [lookups[t] EXCEPT !.reads = <<>>, !.got = {}, !.failed = TRUE]]
    /\ UNCHANGED <<roleSource, claims, roleCache, roleNames, definedAt, grants, roleEvents>>

(* The answer is cached, an empty or failed one too; this caller's request *)
(* falls back on what its token claims.                                    *)
LookupDone(t) ==
    /\ lookups[t].pc = "read"
    /\ lookups[t].reads = <<>>
    /\ roleCache' = [at |-> now, roles |-> lookups[t].got, failed |-> lookups[t].failed]
    /\ lookups' = [lookups EXCEPT ![t] =
           IF @.got = {} THEN [NoLookup EXCEPT !.pc = "claims", !.got = claims.roles]
           ELSE [NoLookup EXCEPT !.pc = "done", !.got = lookups[t].got]]
    /\ UNCHANGED <<roleSource, claims, roleNames, definedAt, grants, roleEvents>>

RolesReturn(t) ==
    /\ lookups[t].pc \in {"claims", "done"}
    /\ lookups' = [lookups EXCEPT ![t] = NoLookup]
    /\ UNCHANGED <<roleSource, claims, roleCache, roleNames, definedAt, grants, roleEvents>>

(* The administrator, as far as the parts asked are concerned.  A role     *)
(* defined at 0 is one that was there before the process started.          *)
Administer(definitions, given) ==
    /\ roleEvents < RoleEvents
    /\ roleEvents' = roleEvents + 1
    /\ definedAt' = definitions
    /\ grants' = given
    /\ UNCHANGED <<roleSource, claims, roleCache, roleNames, lookups>>

Define(r) == /\ now > 0
             /\ definedAt[r] = Never
             /\ Uses("app")
             /\ Administer([definedAt EXCEPT ![r] = now], grants)
Grant(p, r) == /\ grants[p][r].from = Never
               /\ Uses(p)
               /\ p = "app" => r \in Defined
               /\ Administer(definedAt, [grants EXCEPT ![p][r].from = now])
Revoke(p, r) == /\ r \in Holds(p)
                /\ Administer(definedAt, [grants EXCEPT ![p][r].until = now])

RolesMayTick ==
    \A t \in Threads : \/ lookups[t].pc = "idle"
                       \/ lookups[t].pc = "read" /\ now - lookups[t].since < CallMax

RolesStep(t) == \/ RolesFor(t) \/ Lookup(t) \/ LookupFails(t) \/ LookupDone(t) \/ RolesReturn(t)

RolesNext == \/ /\ \/ \E t \in Threads : RolesStep(t)
                   \/ \E r \in Roles : Define(r)
                   \/ \E p \in Parts, r \in Roles : Grant(p, r) \/ Revoke(p, r)
                /\ UNCHANGED <<impl, now>>
             \/ Tick /\ RolesMayTick /\ UNCHANGED roleVars

RolesSpec == BaseInit /\ RolesInit /\ [][RolesNext]_<<impl, now, roleVars>>

-----------------------------------------------------------------------------
Longest == RoleTtl + CallMax

(* A role withdrawn from the directory is used for at most the life of a   *)
(* cached answer and the lookup that made it, whatever lookups overlap     *)
(* (roles_for of access.py, RolesFor of access.go).                        *)
RevokedInTime ==
    \A t \in Threads, r \in Roles :
        lookups[t].pc = "done" /\ r \in lookups[t].got =>
            \E p \in Parts : /\ Uses(p)
                             /\ grants[p][r].from # Never
                             /\ \/ grants[p][r].until = Never
                                \/ now - grants[p][r].until <= Longest

(* A role held since before the answer was looked up.  Moved from the part *)
(* that is read first to the one read next, it is held throughout.         *)
HeldThroughout(r) ==
    LET first == grants[PartOrder[1]][r]
        second == grants[PartOrder[2]][r]
        early(g) == g.from # Never /\ now - g.from > Longest IN
    /\ definedAt[r] = 0
    /\ \/ Uses(PartOrder[1]) /\ early(first) /\ first.until = Never
       \/ Uses(PartOrder[2]) /\ early(second) /\ second.until = Never
       \/ /\ roleSource = "both" /\ early(first)
          /\ second.from # Never /\ second.until = Never
          /\ second.from < first.until

(* A caller never loses a role it holds, during a migration of it from the *)
(* part read first to the other either, but by a lookup that failed.       *)
HeldRoleKept ==
    \A t \in Threads, r \in Roles :
        lookups[t].pc = "done" /\ ~lookups[t].failed /\ HeldThroughout(r) =>
            r \in lookups[t].got

(* Neither outlives the other's change by more: a role withdrawn goes in   *)
(* time, and one that is held is never missing.                            *)
RolesInTime == RevokedInTime /\ HeldRoleKept
=============================================================================
