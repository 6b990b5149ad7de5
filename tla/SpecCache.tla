----------------------------- MODULE SpecCache -----------------------------
(***************************************************************************)
(* The OpenAPI document of an HTTP source: fetched by the first call that  *)
(* needs it and kept, while other threads do the same and the API may      *)
(* publish another (RestBackend of sources.py and of sources_rest.go).  A  *)
(* call takes its operations from the document and, unless the source      *)
(* names one, the address it goes to.                                      *)
(***************************************************************************)
EXTENDS ExecutorBase

CONSTANTS MaxSpecs     \* bound: documents the API publishes

ASSUME SpecsAssumption == MaxSpecs \in Nat \ {0}

VARIABLES published,   \* the API: which document it serves
          spec,        \* _specs, specs: what is kept for the source
          named,       \* the source names its base_url
          calls        \* one thread's call

specVars == <<published, spec, named, calls>>

NoSpec == 0
(* An answer other than the document: a refusal or an error, as JSON. *)
NotTheSpec == MaxSpecs + 1
Documents == 1 .. MaxSpecs
SpecsKept == {NoSpec} \cup Documents \cup {NotTheSpec}

NoCall == [pc |-> "idle", raw |-> NoSpec, operations |-> NoSpec, base |-> NoSpec,
           settled |-> FALSE]

SpecType ==
    /\ published \in Documents
    /\ spec \in SpecsKept
    /\ named \in BOOLEAN
    /\ calls \in [Threads -> [pc : {"idle", "fetch", "store", "load", "policy", "guarded", "failed"},
                              raw : SpecsKept, operations : SpecsKept, base : SpecsKept,
                              settled : BOOLEAN]]

SpecInit == /\ published = 1
            /\ spec = NoSpec
            /\ named \in BOOLEAN
            /\ calls = [t \in Threads |-> NoCall]

CallAt(t, pc) == calls[t].pc = pc
Unsettled(t) == calls[t].pc \in {"fetch", "store"}

(* Go looks under the lock, Python without one; neither holds it to fetch. *)
LookSpec_EveryTime(t) ==
    /\ CallAt(t, "idle")
    /\ calls' = [calls EXCEPT ![t] = [NoCall EXCEPT !.pc = "fetch"]]
    /\ UNCHANGED <<published, spec, named>>
LookSpec(t) ==
    /\ CallAt(t, "idle")
    /\ calls' = [calls EXCEPT ![t] = [NoCall EXCEPT
           !.settled = spec # NoSpec /\ \A u \in Threads : ~Unsettled(u),
           !.pc = IF spec = NoSpec THEN "fetch" ELSE IF impl = "py" THEN "load" ELSE "policy",
           !.operations = IF impl = "go" THEN spec ELSE NoSpec]]
    /\ UNCHANGED <<published, spec, named>>

(* urlopen raises on a status of 400 or more, the Go client does not look. *)
Fetched == {published} \cup IF impl = "go" THEN {NotTheSpec} ELSE {}
FetchSpec(t) ==
    /\ CallAt(t, "fetch")
    /\ \E raw \in Fetched : calls' = [calls EXCEPT ![t].pc = "store", ![t].raw = raw]
    /\ UNCHANGED <<published, spec, named>>

FetchFails(t) ==
    /\ CallAt(t, "fetch")
    /\ calls' = [calls EXCEPT ![t] = [NoCall EXCEPT !.pc = "failed"]]
    /\ UNCHANGED <<published, spec, named>>

(* Whoever comes last is kept; Go goes on with what it read itself. *)
StoreSpec(t) ==
    /\ CallAt(t, "store")
    /\ spec' = calls[t].raw
    /\ calls' = [calls EXCEPT ![t].pc = IF impl = "py" THEN "load" ELSE "policy",
                              ![t].operations = IF impl = "go" THEN calls[t].raw ELSE NoSpec]
    /\ UNCHANGED <<published, named>>

(* Python's operations are of what is kept by now. *)
LoadSpec(t) ==
    /\ CallAt(t, "load")
    /\ calls' = [calls EXCEPT ![t].pc = "policy", ![t].operations = spec]
    /\ UNCHANGED <<published, spec, named>>

(* The address is the source's own or that of the document kept by now. *)
PolicyOf_Newest(t) ==
    /\ CallAt(t, "policy")
    /\ calls' = [calls EXCEPT ![t].pc = "guarded", ![t].base = IF named THEN NoSpec ELSE published]
    /\ UNCHANGED <<published, spec, named>>
PolicyOf(t) ==
    /\ CallAt(t, "policy")
    /\ calls' = [calls EXCEPT ![t].pc = "guarded", ![t].base = IF named THEN NoSpec ELSE spec]
    /\ UNCHANGED <<published, spec, named>>

CallReturn(t) ==
    /\ calls[t].pc \in {"guarded", "failed"}
    /\ calls' = [calls EXCEPT ![t] = NoCall]
    /\ UNCHANGED <<published, spec, named>>

PublishSpec ==
    /\ published < MaxSpecs
    /\ published' = published + 1
    /\ UNCHANGED <<spec, named, calls>>

SpecStep(t) == \/ LookSpec(t) \/ FetchSpec(t) \/ FetchFails(t) \/ StoreSpec(t)
               \/ LoadSpec(t) \/ PolicyOf(t) \/ CallReturn(t)

SpecNext == /\ PublishSpec \/ \E t \in Threads : SpecStep(t)
            /\ UNCHANGED <<impl, now>>

SpecSpec == BaseInit /\ SpecInit /\ [][SpecNext]_<<impl, now, specVars>>

-----------------------------------------------------------------------------
(* A document that is kept while nobody is reading one is kept for good,   *)
(* whatever the API publishes and however many calls come.                 *)
SpecSettles ==
    [][spec # NoSpec /\ (\A t \in Threads : ~Unsettled(t)) =>
           spec' = spec /\ \A t \in Threads : ~Unsettled(t)']_<<impl, now, specVars>>

(* And a call that finds one then checks and goes by that one throughout.  *)
SettledCallsAgree ==
    \A t \in Threads : CallAt(t, "guarded") /\ calls[t].settled =>
        /\ calls[t].operations = spec
        /\ calls[t].base \in {spec, NoSpec}

(* In Python what is kept, and so every call, is of a document the API has *)
(* published; no call is guarded by no document in either.                 *)
GuardedByDocument ==
    /\ impl = "py" => spec \in {NoSpec} \cup 1 .. published
    /\ \A t \in Threads : CallAt(t, "guarded") => calls[t].operations # NoSpec

(* A call is guarded by a document and, once nobody is reading one, sent   *)
(* by the same.                                                            *)
CallsGuarded == SettledCallsAgree /\ GuardedByDocument
=============================================================================
