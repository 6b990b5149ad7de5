------------------------------ MODULE VaultRef ------------------------------
(***************************************************************************)
(* A `keyvault:` reference resolved by a service's threads, with the       *)
(* service's managed identity, and kept by name for the life of the        *)
(* process (resolve of vaultref.py, resolveRef of vaultref.go), while an   *)
(* operator puts new versions of the secret into the vault.                *)
(***************************************************************************)
EXTENDS ExecutorBase

CONSTANTS MaxVersions  \* bound: versions of the secret

ASSUME VersionsAssumption == IsFiniteSet(Threads) /\ MaxVersions \in Nat \ {0}

VARIABLES version,     \* the vault's current one
          cache,       \* _CACHE, vaultRefCache: the version kept, if any
          resolves,    \* one thread's resolve
          handedOut    \* versions that threads have gone on with

vaultVars == <<version, cache, resolves, handedOut>>

NoVersion == 0
Versions == 1 .. MaxVersions
NoResolve == [pc |-> "idle", value |-> NoVersion]

VaultType ==
    /\ version \in Versions
    /\ cache \in Versions \cup {NoVersion}
    /\ resolves \in [Threads -> [pc : {"idle", "identity", "secret", "keep", "resolved", "failed"},
                                 value : Versions \cup {NoVersion}]]
    /\ handedOut \in SUBSET Versions

VaultInit == /\ version = 1
             /\ cache = NoVersion
             /\ resolves = [t \in Threads |-> NoResolve]
             /\ handedOut = {}

VaultGoes(t, pc, value) == resolves' = [resolves EXCEPT ![t] = [pc |-> pc, value |-> value]]

Resolve(t) ==
    /\ resolves[t].pc = "idle"
    /\ IF cache # NoVersion
       THEN VaultGoes(t, "resolved", cache) /\ handedOut' = handedOut \cup {cache}
       ELSE VaultGoes(t, "identity", NoVersion) /\ UNCHANGED handedOut
    /\ UNCHANGED <<version, cache>>

ManagedIdentityToken(t) ==
    /\ resolves[t].pc = "identity"
    /\ VaultGoes(t, "secret", NoVersion)
    /\ UNCHANGED <<version, cache, handedOut>>

GetSecret(t) ==
    /\ resolves[t].pc = "secret"
    /\ VaultGoes(t, "keep", version)
    /\ UNCHANGED <<version, cache, handedOut>>

(* No identity, no vault or no such secret: nothing is kept. *)
ResolveFails(t) ==
    /\ resolves[t].pc \in {"identity", "secret"}
    /\ VaultGoes(t, "failed", NoVersion)
    /\ UNCHANGED <<version, cache, handedOut>>

Keep_Unkept(t) ==
    /\ resolves[t].pc = "keep"
    /\ handedOut' = handedOut \cup {resolves[t].value}
    /\ VaultGoes(t, "resolved", resolves[t].value)
    /\ UNCHANGED <<version, cache>>
KeepSecret(t) ==
    /\ resolves[t].pc = "keep"
    /\ cache' = resolves[t].value
    /\ handedOut' = handedOut \cup {resolves[t].value}
    /\ VaultGoes(t, "resolved", resolves[t].value)
    /\ UNCHANGED version

UseSecret(t) ==
    /\ resolves[t].pc \in {"resolved", "failed"}
    /\ resolves' = [resolves EXCEPT ![t] = NoResolve]
    /\ UNCHANGED <<version, cache, handedOut>>

Rotate == /\ version < MaxVersions
          /\ version' = version + 1
          /\ UNCHANGED <<cache, resolves, handedOut>>

VaultStep(t) == \/ Resolve(t) \/ ManagedIdentityToken(t) \/ GetSecret(t) \/ ResolveFails(t)
                \/ KeepSecret(t) \/ UseSecret(t)

VaultNext == /\ Rotate \/ \E t \in Threads : VaultStep(t)
             /\ UNCHANGED <<impl, now>>

VaultSpec == BaseInit /\ VaultInit /\ [][VaultNext]_<<impl, now, vaultVars>>

-----------------------------------------------------------------------------
Resolving(t) == resolves[t].pc \in {"identity", "secret", "keep"}

(* A process goes on with no more versions of a secret than it has threads *)
(* that set out before the first was kept: every later rotation passes it  *)
(* by, and no failure makes it ask again.                                  *)
HandedOutBounded ==
    Cardinality(handedOut) + Cardinality({t \in Threads : Resolving(t)}) <= Cardinality(Threads)

(* Once one is kept and nobody is resolving, nobody does again, and all    *)
(* have that one.                                                          *)
KeptForGood ==
    [][cache # NoVersion /\ (\A t \in Threads : ~Resolving(t)) =>
           /\ cache' = cache
           /\ handedOut' \subseteq handedOut \cup {cache}
           /\ \A t \in Threads : ~Resolving(t)']_<<impl, now, vaultVars>>
=============================================================================
