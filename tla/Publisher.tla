------------------------------ MODULE Publisher ------------------------------
(***************************************************************************)
(* The publisher: a job that takes the first candidate some dashboard tool *)
(* accepts, creates or replaces it in every tool that does, compares what  *)
(* the tool answers with what the executor answers, and records those that *)
(* agree in the catalog (publisher/run.py, publish.py, fabric.py,          *)
(* targets/).  One job at a time; any call may end it; it is run again.    *)
(***************************************************************************)
EXTENDS Integers, Sequences, FiniteSets

CONSTANTS Titles, Questions,   \* of candidates: what they are called, what they ask
          MaxCandidates,       \* bound: in candidates.json
          MaxPublications      \* bound: jobs that are started

ASSUME PublisherAssumption == MaxCandidates \in Nat /\ MaxPublications \in Nat

VARIABLES known,            \* whether the catalog has the tables
          items,            \* what the tools hold, by part and name: of which question
          entries,          \* the catalog's dashboards
          publication,      \* the job that runs, or ran last
          started           \* how many were started
publisherVars == <<known, items, entries, publication, started>>

Kinds == {"powerbi", "superset", "tableau"}
Nothing == "nothing"

PartsOf(kind) == CASE kind = "powerbi" -> <<"model", "report">>
                   [] kind = "superset" -> <<"database", "dataset", "chart", "dashboard", "attachment">>
                   [] OTHER -> <<>>
Parts == {"model", "report", "database", "dataset", "chart", "dashboard", "attachment"}
(* What is left as it is where it is found. *)
Kept == {"database", "dashboard"}
(* What is put without being looked for: the chart onto the dashboard.  A   *)
(* dashboard that has no chart shows nothing.                               *)
Put == {"attachment"}

(* A part's name is the title as an identifier, cut: one name here, for    *)
(* titles that differ after the cut.  A chart and a dashboard carry the    *)
(* title itself, and so does the one's place on the other.                 *)
NameOf(part, title) == IF part \in {"chart", "dashboard", "attachment"} THEN title ELSE "name"
Names == Titles \cup {"name"}

(* An answer: no rows, rows of labels, or the numbers of a question. *)
Rows == {"none", "labels"} \cup Questions
Dashboards == [kind : Kinds, title : Titles, question : Questions, shown : Rows, traced : BOOLEAN]
Orders == {o \in UNION {[1 .. n -> Kinds] : n \in 0 .. 3} : \A i, j \in DOMAIN o : o[i] = o[j] => i = j}

NotStarted == [pc |-> "over", candidate |-> 1, title |-> Nothing, question |-> Nothing,
               accepting |-> <<>>, target |-> 1, part |-> 1, shown |-> "none",
               agree |-> TRUE, exit |-> "none"]

PublisherType ==
    /\ known \in BOOLEAN
    /\ items \in [Parts \X Names -> Questions \cup {Nothing}]
    /\ entries \subseteq Dashboards
    /\ publication \in [pc : {"offer", "describe", "find", "create", "update", "evaluate", "compare",
                              "service", "dashboard", "lineage", "next", "over"},
                        candidate : 1 .. MaxCandidates + 1, title : Titles \cup {Nothing},
                        question : Questions \cup {Nothing}, accepting : Orders,
                        target : 1 .. 4, part : 1 .. 6, shown : Rows, agree : BOOLEAN,
                        exit : {"none", "published", "disagreed", "nothing", "raised"}]
    /\ started \in 0 .. MaxPublications

PublisherInit == /\ known \in BOOLEAN
                 /\ items = [i \in Parts \X Names |-> Nothing]
                 /\ entries = {}
                 /\ publication = NotStarted
                 /\ started = 0

-----------------------------------------------------------------------------
P == publication
Proceeds(pc) == publication' = [P EXCEPT !.pc = pc]
Exits(exit) == publication' = [P EXCEPT !.pc = "over", !.exit = exit]
At(pc) == P.pc = pc
Kind == P.accepting[P.target]
Part == PartsOf(Kind)[P.part]
Place == <<Part, NameOf(Part, P.title)>>
Elsewhere == UNCHANGED <<known, started>>

StartPublication ==
    /\ At("over") /\ started < MaxPublications
    /\ publication' = [NotStarted EXCEPT !.pc = "offer"]
    /\ started' = started + 1
    /\ UNCHANGED <<known, items, entries>>

(* Which tools are configured, in which order, and accept the candidate,   *)
(* is the deployment's.  With none, the next candidate is offered.         *)
Offer ==
    /\ At("offer")
    /\ IF P.candidate > MaxCandidates THEN Exits("nothing")
       ELSE \E title \in Titles, question \in Questions, accepting \in Orders :
                publication' = IF accepting = <<>> THEN [P EXCEPT !.candidate = @ + 1]
                               ELSE [P EXCEPT !.pc = "describe", !.title = title, !.question = question,
                                              !.accepting = accepting]
    /\ Elsewhere /\ UNCHANGED <<items, entries>>
NoMoreCandidates == /\ At("offer")
                    /\ Exits("nothing")
                    /\ Elsewhere /\ UNCHANGED <<items, entries>>

(* The columns as the executor describes them; a column that no table of   *)
(* the template owns, or two, or a measure that cannot be said, is skipped. *)
DescribeTables ==
    /\ At("describe")
    /\ \E binds \in BOOLEAN :
           publication' = IF binds THEN [P EXCEPT !.pc = "find"]
                          ELSE [P EXCEPT !.pc = "offer", !.candidate = @ + 1]
    /\ Elsewhere /\ UNCHANGED <<items, entries>>

-----------------------------------------------------------------------------
(* One target, part by part.                                               *)
Sought(part) == IF part \in Put THEN "update" ELSE "find"
Advanced_AttachesNew == IF P.part = Len(PartsOf(Kind)) \/ (At("find") /\ Part = "dashboard")
                        THEN [P EXCEPT !.pc = "evaluate", !.part = 1]
                        ELSE [P EXCEPT !.pc = Sought(PartsOf(Kind)[P.part + 1]), !.part = @ + 1]
Advanced == IF P.part = Len(PartsOf(Kind)) THEN [P EXCEPT !.pc = "evaluate", !.part = 1]
            ELSE [P EXCEPT !.pc = Sought(PartsOf(Kind)[P.part + 1]), !.part = @ + 1]

(* A listing that fails is, to Fabric's, a name that is not taken. *)
Find ==
    /\ At("find") /\ Kind # "tableau"
    /\ \/ /\ items[Place] # Nothing
          /\ publication' = IF Part \in Kept THEN Advanced ELSE [P EXCEPT !.pc = "update"]
       \/ /\ items[Place] = Nothing \/ Kind = "powerbi"
          /\ Proceeds("create")
    /\ Elsewhere /\ UNCHANGED <<items, entries>>

Written == items' = [items EXCEPT ![Place] = P.question]

(* A name that is taken is refused. *)
Create == /\ At("create")
          /\ items[Place] = Nothing
          /\ Written
          /\ publication' = Advanced
          /\ Elsewhere /\ UNCHANGED entries
Update == /\ At("update")
          /\ Written
          /\ publication' = Advanced
          /\ Elsewhere /\ UNCHANGED entries

(* The call was carried out, and its answer was lost or never came. *)
WrittenUnseen == /\ \/ At("create") /\ items[Place] = Nothing
                    \/ At("update")
                 /\ Written
                 /\ Exits("raised")
                 /\ Elsewhere /\ UNCHANGED entries

(* The tool's own engine, then the executor, are asked. *)
Evaluate == /\ At("evaluate")
            /\ \E shown \in Rows : publication' = [P EXCEPT !.pc = "compare", !.shown = shown]
            /\ Elsewhere /\ UNCHANGED <<items, entries>>

Agrees(shown, said) == shown = said /\ shown \notin {"none", "labels"}

AllAgree(agrees) == P.agree /\ agrees

Compare ==
    /\ At("compare")
    /\ \E said \in {"none", "labels", P.question} :
           LET agrees == Agrees(P.shown, said) IN
           publication' = [P EXCEPT !.pc = IF agrees THEN "service" ELSE "next",
                                    !.agree = AllAgree(agrees)]
    /\ Elsewhere /\ UNCHANGED <<items, entries>>

-----------------------------------------------------------------------------
(* The catalog: the service, the dashboard, an edge from each table it has. *)
Mine(e) == e.kind = Kind /\ e.title = P.title

PutService == /\ At("service")
              /\ Proceeds("dashboard")
              /\ Elsewhere /\ UNCHANGED <<items, entries>>
PutDashboard ==
    /\ At("dashboard")
    /\ entries' = {e \in entries : ~Mine(e)} \cup
           {[kind |-> Kind, title |-> P.title, question |-> P.question, shown |-> P.shown,
             traced |-> \E e \in entries : Mine(e) /\ e.traced]}
    /\ Proceeds("lineage")
    /\ Elsewhere /\ UNCHANGED items
PutLineage ==
    /\ At("lineage")
    /\ entries' = {IF Mine(e) THEN [e EXCEPT !.traced = @ \/ known] ELSE e : e \in entries}
    /\ Proceeds("next")
    /\ Elsewhere /\ UNCHANGED items

NextTarget ==
    /\ At("next")
    /\ IF P.target < Len(P.accepting)
       THEN publication' = [P EXCEPT !.pc = "find", !.target = @ + 1, !.shown = "none"]
       ELSE Exits(IF P.agree THEN "published" ELSE "disagreed")
    /\ Elsewhere /\ UNCHANGED <<items, entries>>

(* Any call fails, or is refused; Tableau's hop is not built. *)
PublicationFails == /\ P.pc \notin {"offer", "next", "over"}
                    /\ Exits("raised")
                    /\ Elsewhere /\ UNCHANGED <<items, entries>>

PublisherNext == \/ StartPublication \/ Offer \/ NoMoreCandidates \/ DescribeTables
                 \/ Find \/ Create \/ Update \/ WrittenUnseen
                 \/ Evaluate \/ Compare
                 \/ PutService \/ PutDashboard \/ PutLineage
                 \/ NextTarget \/ PublicationFails

PublisherSpec == PublisherInit /\ [][PublisherNext]_publisherVars

-----------------------------------------------------------------------------
(* What the catalog has as a dashboard answered, through its tool, the     *)
(* numbers the executor answers for that question; through jobs that fail  *)
(* anywhere, and titles two questions share.                               *)
RecordedProven == \A e \in entries : e.shown = e.question

(* A job that reports success has every tool that accepted the candidate   *)
(* hold this question in every part it writes, its chart attached to the   *)
(* dashboard, and the dashboard in the catalog, traced to the tables if    *)
(* there are any: also after jobs that died between creating a dashboard   *)
(* and attaching the chart to it.                                          *)
SuccessIsWhole ==
    P.exit = "published" =>
        \A i \in DOMAIN P.accepting :
            LET kind == P.accepting[i] IN
            /\ \A n \in DOMAIN PartsOf(kind) :
                   LET part == PartsOf(kind)[n]
                       held == items[<<part, NameOf(part, P.title)>>]
                   IN held = P.question \/ (part \in Kept /\ held # Nothing)
            /\ \E e \in entries : /\ e.kind = kind /\ e.title = P.title
                                  /\ e.question = P.question
                                  /\ known => e.traced

(* The catalog shows what was proven, and after a success all of it.       *)
PublishedWhole == RecordedProven /\ SuccessIsWhole
=============================================================================
