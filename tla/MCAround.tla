------------------------------ MODULE MCAround ------------------------------
(* What is around the two guarded surfaces, in one instance for TLC: what    *)
(* asks the executor (the loop of one ask, the schemas asks share, the       *)
(* harness's token, the promoter's and the publisher's jobs) and what it     *)
(* answers from (the configuration of a source, an API's document, a vault   *)
(* reference, the engines).  A behaviour is one part's, for itself, while    *)
(* the others rest.  Threads are interchangeable, and so are the tables, the *)
(* people, the titles and the tokens: each is of one part alone, so one pair *)
(* of values stands for all of them.                                         *)
EXTENDS AgentLoop, Grounding, HarnessToken, Promoter, Publisher,
        Sources, SpecCache, VaultRef, Engines, TLC

VARIABLE part

ClientParts == {"loop", "grounding", "token", "promoter", "publisher"}
DataParts == {"configuration", "spec", "vault", "engines"}

ClientsStart ==
    /\ LoopInit /\ (part # "loop" => backend.accepts /\ backend.protocol = "openai")
    /\ GroundingInit
    /\ TokenInit /\ (part # "token" => mode = "token" /\ supplied = None)
    /\ PromoterInit /\ (part # "promoter" => settings.key /\ settings.enabled)
    /\ PublisherInit /\ (part # "publisher" => known)
DataStart ==
    /\ BaseInit /\ (part \notin DataParts => impl = "py")
    /\ SourcesInit /\ (part # "configuration" => ~duckDBSupported)
    /\ SpecInit /\ (part # "spec" => ~named)
    /\ VaultInit
    /\ EnginesInit /\ (part # "engines" => engine = [adapter |-> "tds", tier |-> "user"])

AroundInit == part \in ClientParts \cup DataParts /\ ClientsStart /\ DataStart

Rest(p, vars) == IF part = p THEN TRUE ELSE UNCHANGED vars

AroundNext ==
    /\ \/ part = "loop" /\ LoopNext
       \/ part = "grounding" /\ GroundingNext
       \/ part = "token" /\ TokenNext
       \/ part = "promoter" /\ PromoterNext
       \/ part = "publisher" /\ PublisherNext
       \/ part = "configuration" /\ SourcesNext
       \/ part = "spec" /\ SpecNext
       \/ part = "vault" /\ VaultNext
       \/ part = "engines" /\ EnginesNext
    /\ UNCHANGED part
    /\ part \in ClientParts => UNCHANGED <<impl, now>>
    /\ Rest("loop", loopVars) /\ Rest("grounding", groundingVars) /\ Rest("token", tokenVars)
    /\ Rest("promoter", promoterVars) /\ Rest("publisher", publisherVars)
    /\ Rest("configuration", sourceVars) /\ Rest("spec", specVars)
    /\ Rest("vault", vaultVars) /\ Rest("engines", engineVars)

AroundVars == <<part, loopVars, groundingVars, tokenVars, promoterVars, publisherVars,
                impl, now, sourceVars, specVars, vaultVars, engineVars>>
AroundSpec == AroundInit /\ [][AroundNext]_AroundVars

Symmetry == Permutations(Threads) \cup Permutations(Tables)
=============================================================================
