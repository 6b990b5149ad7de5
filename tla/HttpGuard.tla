----------------------------- MODULE HttpGuard -----------------------------
(***************************************************************************)
(* The guard of a call to an operation of an HTTP source, the fields its   *)
(* document names and the filter of the response (httpguard.py,            *)
(* httpguard.go).  A schema and a payload are the path down to one field:  *)
(* the nesting is what bounds the two walks.                               *)
(***************************************************************************)
EXTENDS ExecutorBase, SequencesExt

CONSTANTS MaxItems,        \* the deployment's page size
          SchemaDepth,     \* 6: how deep _schema_fields, schemaFields name fields
          FilterDepth,     \* 8: how deep filter_response, FilterResponse remove them
          MaxNesting       \* bound: the nesting of a schema

ASSUME HttpAssumption == /\ MaxItems \in Nat \ {0}
                         /\ SchemaDepth \in Nat
                         /\ FilterDepth \in Nat
                         /\ SchemaDepth < FilterDepth
                         /\ MaxNesting \in Nat

VARIABLES call

-----------------------------------------------------------------------------
(* A parameter as the document declares it, and what was supplied for it:  *)
(* a number, a text that is not one, an empty text, null, or nothing.      *)
Locations == {"path", "query", "body"}
Parameters == [in : Locations, required : BOOLEAN, numeric : BOOLEAN, page : BOOLEAN]
Number(n) == [is |-> "number", n |-> n]
Text(is) == [is |-> is, n |-> 0]
Supplied == {Number(n) : n \in -1 .. MaxItems + 1} \cup {Text("word"), Text("empty"), Text("null"), Text("absent")}

Given(value) == value.is \notin {"absent", "null"}

(* Any number is one, whatever it has for a fraction; a word is not. *)
Typed(p, value) == p.numeric => value.is = "number"

(* A page size that is no smaller ceiling is taken as not asked for. *)
PageSize(value) == IF value.is = "number" /\ value.n > 0 /\ value.n < MaxItems THEN value.n ELSE MaxItems

(* What is sent for a parameter, and whether the call is let through. *)
Sent(p, value) == IF p.page THEN Number(PageSize(value))
                  ELSE IF Given(value) THEN value ELSE Text("absent")

LetThrough(c) ==
    /\ c.known               \* an operation the document offers for reading,
    /\ c.queryable           \* of a collection of the source,
    /\ c.undeclared = {}     \* no parameter it does not declare,
    /\ c.bodyFits
    /\ IF Given(c.value) THEN Typed(c.parameter, c.value) ELSE ~c.parameter.required
    /\ c.parameter.in = "path" =>
           /\ Given(c.value)
           /\ Sent(c.parameter, c.value).is # "empty"

(* load_spec, LoadSpec: what can be named is what is offered for reading. *)
Offered(method, readOnly) == method \in {"get", "head"} \/ (method = "post" /\ readOnly)

-----------------------------------------------------------------------------
(* A schema: a reference, an array or an object's property, one in the     *)
(* other; the fields named are those of the objects met before the bound.  *)
Nodes == {"ref", "array", "object"}
NodePaths == BoundedSeq(Nodes, MaxNesting)
NamedFields(schema) == {i \in DOMAIN schema : schema[i] = "object" /\ i - 1 <= SchemaDepth}

(* The response has no references; one that is no list is put in one. *)
Listed(schema) == \E i \in DOMAIN schema : /\ schema[i] = "array"
                                          /\ \A j \in 1 .. i - 1 : schema[j] = "ref"

(* How deep the walk of the response meets the object the i-th node is. *)
DepthOf(schema, i) == Cardinality({j \in 1 .. i - 1 : schema[j] # "ref"})
                      + IF Listed(schema) THEN 0 ELSE 1
FilterReaches_SchemaBound(depth) == depth < SchemaDepth
FilterReaches(depth) == depth <= FilterDepth
Removed(schema) == {i \in DOMAIN schema : schema[i] = "object" /\ FilterReaches(DepthOf(schema, i))}

-----------------------------------------------------------------------------
NoCall == [known |-> FALSE, queryable |-> FALSE, undeclared |-> {}, bodyFits |-> FALSE,
           parameter |-> [in |-> "query", required |-> FALSE, numeric |-> FALSE, page |-> FALSE],
           value |-> Text("absent"), schema |-> <<>>]

CallInit == call = NoCall

(* An operation as the document has it, called with one argument, and one  *)
(* the document does not declare or none.                                  *)
Call(method, readOnly, queryable, undeclared, fits, p, value, schema) ==
    call' = [known |-> Offered(method, readOnly), queryable |-> queryable, undeclared |-> undeclared,
             bodyFits |-> fits, parameter |-> p, value |-> value, schema |-> schema]

HttpNext ==
    /\ \/ /\ call = NoCall
          /\ \/ \E method \in {"get", "head", "post", "put"}, readOnly, queryable, fits \in BOOLEAN,
                   undeclared \in {{}, {"other"}}, p \in Parameters, value \in Supplied :
                    /\ p.page => p.in # "path"
                    /\ Call(method, readOnly, queryable, undeclared, fits, p, value, <<>>)
             \/ \E schema \in NodePaths :
                    Call("get", TRUE, TRUE, {}, TRUE, NoCall.parameter, Text("absent"), schema)
       \/ call # NoCall /\ call' = NoCall
    /\ UNCHANGED <<impl, now>>
HttpSpec == BaseInit /\ CallInit /\ [][HttpNext]_<<impl, now, call>>

(* A call that is let through reaches the operation that was authorised:   *)
(* no path parameter collapses its segment into another operation's path,  *)
(* nothing the document does not declare is sent, and the page asked for   *)
(* is one the API takes for a size within the deployment's (guard of       *)
(* httpguard.py, GuardHTTP of httpguard.go).                               *)
CallAsAuthorised ==
    LetThrough(call) =>
        LET sent == Sent(call.parameter, call.value) IN
        /\ call.parameter.in = "path" => sent.is \notin {"empty", "absent"}
        /\ call.parameter.page => sent.n \in 1 .. MaxItems
        /\ call.undeclared = {}

(* A field the document names can be removed from any response: the two    *)
(* walks are bounded differently, and no reference, array or wrapping puts *)
(* a named field out of the filter's reach (_schema_fields and             *)
(* filter_response of httpguard.py).                                       *)
NamedFieldsGo == NamedFields(call.schema) \subseteq Removed(call.schema)

(* What the rules decided holds for the call sent and for its response.    *)
CallGuarded == CallAsAuthorised /\ NamedFieldsGo
=============================================================================
