------------------------------ MODULE Promoter ------------------------------
(***************************************************************************)
(* The promoter: a job that reads the executor's audit lines, keeps the    *)
(* templates enough people ran, and writes them to the catalog; and its    *)
(* sibling for the terms people searched for in vain (gaps.py).  A job may *)
(* fail at any call to the catalog, and is run again.                      *)
(***************************************************************************)
EXTENDS Integers, FiniteSets, FiniteSetsExt

CONSTANTS People, Columns, Words,
          MIN_USERS, MIN_RUNS,
          MaxLines,         \* bound: audit lines and abstentions
          MaxJobs           \* bound: jobs that are started

ASSUME PromoterAssumption == /\ IsFiniteSet(People)
                             /\ MIN_USERS \in Nat \ {0} /\ MIN_RUNS \in Nat \ {0}
                             /\ MaxLines \in Nat /\ MaxJobs \in Nat

VARIABLES audited,          \* the executor's log: how often each line is in it
          abstained,        \* the agent's log: who searched for which word in vain
          names,            \* what the catalog calls a column
          settings,         \* DAS_PROMOTE_KEY_SECRET is there, DAS_PROMOTE_ENABLED
          job,              \* the job that runs
          products,         \* the data products of the candidates' domain
          drafts,           \* the glossary terms that need a definition
          jobs              \* how many were started
promoterVars == <<audited, abstained, names, settings, job, products, drafts, jobs>>

(* A statement stripped of literals, aliases and ceiling: an aggregate of  *)
(* a column.  A text is words, and marks that no name may have.            *)
Templates == [column : Columns, function : {"sum", "avg"}]
Lines == [who : People, template : Templates, outcome : {"ok", "denied", "clipped"}]
Texts == [word : Words \cup Columns, mark : {"none", "hyphen"}]
Unnamed == [word |-> "unnamed", mark |-> "none"]

Released == [template : Templates, title : Texts]
Products == [name : Words \cup Columns, title : Texts, template : Templates]
Drafts == [name : Words, who : SUBSET People]
NoJob == [pc |-> "idle", found |-> {}, released |-> {}, gaps |-> {}]

PromoterType ==
    /\ audited \in [Lines -> 0 .. MaxLines]
    /\ abstained \in [People \X Words -> 0 .. MaxLines]
    /\ names \in [Columns -> Texts \cup {Unnamed}]
    /\ settings \in [key : BOOLEAN, enabled : BOOLEAN]
    /\ job \in [pc : {"idle", "naming", "domain", "products", "classification", "tag", "drafts"},
                found : SUBSET Templates, released : SUBSET Released, gaps : SUBSET Drafts]
    /\ products \subseteq Products
    /\ drafts \subseteq Drafts
    /\ jobs \in 0 .. MaxJobs

PromoterInit ==
    /\ audited = [l \in Lines |-> 0]
    /\ abstained = [a \in People \X Words |-> 0]
    /\ names = [c \in Columns |-> Unnamed]
    /\ settings \in [key : BOOLEAN, enabled : BOOLEAN]
    /\ job = NoJob
    /\ products = {} /\ drafts = {} /\ jobs = 0

-----------------------------------------------------------------------------
(* The runs the log has of a template, ended like that: the first, the     *)
(* second and so on of each person.                                        *)
Runs(template, outcomes) ==
    {r \in People \X (outcomes \X (1 .. MaxLines)) :
         audited[[who |-> r[1], template |-> template, outcome |-> r[2][1]]] >= r[2][2]}

(* What a job makes of the log: not what was refused, nor what is as long  *)
(* as the log lets a statement be, whose end may be missing.               *)
Counted == {"ok"}

(* A pseudonym is keyed and of the window: one for a person, in one job. *)
Askers_EveryLine(template) == Runs(template, Counted)
Askers(template) == {r[1] : r \in Runs(template, Counted)}

Recurs(template) == Cardinality(Runs(template, Counted)) >= MIN_RUNS

Release == {t \in Templates : Cardinality(Askers(t)) >= MIN_USERS /\ Recurs(t)}

(* The catalog's name for the column, or the column made readable; not the *)
(* aggregate.                                                              *)
Title(template, known) ==
    LET label == known[template.column] IN
    IF label = Unnamed THEN [word |-> template.column, mark |-> "none"] ELSE label
Slug(title) == title.word

GapAskers(word) == {who \in People : abstained[<<who, word>>] > 0}
GapsReleased == {[name |-> w, who |-> GapAskers(w)] :
                     w \in {w \in Words : Cardinality(GapAskers(w)) >= MIN_USERS}}

-----------------------------------------------------------------------------
(* The world: people ask, and stewards name columns.                       *)
LinesUsed == MapThenSumSet(LAMBDA l : audited[l], Lines)
                 + MapThenSumSet(LAMBDA a : abstained[a], People \X Words)

Audit(line) == /\ audited' = [audited EXCEPT ![line] = @ + 1]
               /\ UNCHANGED <<abstained, names, settings, job, products, drafts, jobs>>
Abstain(who, word) == /\ abstained' = [abstained EXCEPT ![<<who, word>>] = @ + 1]
                      /\ UNCHANGED <<audited, names, settings, job, products, drafts, jobs>>
NameColumn(column, text) == /\ names' = [names EXCEPT ![column] = text]
                            /\ UNCHANGED <<audited, abstained, settings, job, products, drafts, jobs>>

-----------------------------------------------------------------------------
Finishes == job' = NoJob
Continues(pc) == job' = [job EXCEPT !.pc = pc]
KeepsLogs == UNCHANGED <<audited, abstained, names, settings>>

Begins == /\ job.pc = "idle" /\ jobs < MaxJobs
          /\ settings.key
          /\ jobs' = jobs + 1
          /\ KeepsLogs /\ UNCHANGED <<products, drafts>>

(* The log is read and counted; then the catalog is asked for its names,   *)
(* of which there are none when it does not answer.                        *)
StartJob == /\ Begins
            /\ job' = [NoJob EXCEPT !.pc = "naming", !.found = Release]
ReadNames ==
    /\ job.pc = "naming"
    /\ \E known \in {names, [c \in Columns |-> Unnamed]} :
           LET released == {[template |-> t, title |-> Title(t, known)] : t \in job.found} IN
           IF released # {} /\ settings.enabled
           THEN job' = [job EXCEPT !.pc = "domain", !.found = {}, !.released = released]
           ELSE Finishes
    /\ KeepsLogs /\ UNCHANGED <<products, drafts, jobs>>
PutDomain == /\ job.pc = "domain"
             /\ Continues("products")
             /\ KeepsLogs /\ UNCHANGED <<products, drafts, jobs>>

(* In the order of the template's hash. *)
PutProduct ==
    /\ job.pc = "products"
    /\ \E r \in job.released :
           /\ products' = {p \in products : p.name # Slug(r.title)}
                              \cup {[name |-> Slug(r.title), title |-> r.title, template |-> r.template]}
           /\ job' = IF job.released = {r} THEN NoJob ELSE [job EXCEPT !.released = @ \ {r}]
    /\ KeepsLogs /\ UNCHANGED <<drafts, jobs>>

(* Whoever strings the functions of gaps.py together reads the agent's log *)
(* with the same key.                                                      *)
StartGaps == /\ Begins
             /\ IF GapsReleased = {} THEN UNCHANGED job
                ELSE job' = [NoJob EXCEPT !.pc = "classification", !.gaps = GapsReleased]
PutClassification == /\ job.pc = "classification"
                     /\ Continues("tag")
                     /\ KeepsLogs /\ UNCHANGED <<products, drafts, jobs>>
PutTag == /\ job.pc = "tag"
          /\ Continues("drafts")
          /\ KeepsLogs /\ UNCHANGED <<products, drafts, jobs>>
PutDraft ==
    /\ job.pc = "drafts"
    /\ \E g \in job.gaps :
           /\ drafts' = {d \in drafts : d.name # g.name} \cup {g}
           /\ job' = IF job.gaps = {g} THEN NoJob ELSE [job EXCEPT !.gaps = @ \ {g}]
    /\ KeepsLogs /\ UNCHANGED <<products, jobs>>

(* The catalog refuses or cannot be reached: the job ends where it is. *)
JobFails == /\ job.pc \notin {"idle", "naming"}
            /\ Finishes
            /\ KeepsLogs /\ UNCHANGED <<products, drafts, jobs>>

PromoterNext == \/ /\ LinesUsed < MaxLines
                   /\ \/ \E line \in Lines : Audit(line)
                      \/ \E who \in People, word \in Words : Abstain(who, word)
                \/ \E column \in Columns, word \in Words, mark \in {"none", "hyphen"} :
                       NameColumn(column, [word |-> word, mark |-> mark])
                \/ StartJob \/ ReadNames \/ PutDomain \/ PutProduct
                \/ StartGaps \/ PutClassification \/ PutTag \/ PutDraft
                \/ JobFails

PromoterSpec == PromoterInit /\ [][PromoterNext]_promoterVars

-----------------------------------------------------------------------------
(* Nothing is in the catalog that fewer people than the threshold asked,   *)
(* nor a product that was run less often than its threshold: whatever a    *)
(* job was stopped at, whatever title its candidates share, and however    *)
(* often one person asked.                                                 *)
Successes(template) == Runs(template, {"ok", "clipped"})
ThresholdHolds ==
    /\ \A p \in products : /\ Cardinality({r[1] : r \in Successes(p.template)}) >= MIN_USERS
                           /\ Cardinality(Successes(p.template)) >= MIN_RUNS
    /\ \A d \in drafts : Cardinality({w \in People : abstained[<<w, d.name>>] > 0}) >= MIN_USERS

(* As its comment has it, running the job again updates a candidate rather *)
(* than creating a second one beside it.                                   *)
NoneBeside == \A p, q \in products : p.template = q.template => p = q
=============================================================================
