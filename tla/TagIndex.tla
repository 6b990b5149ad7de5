------------------------------ MODULE TagIndex ------------------------------
(***************************************************************************)
(* Which columns the catalog tags: the index every request thread shares,  *)
(* refreshes when it is stale and reads under a lock (class TagIndex of    *)
(* access.py, tagindex.go).  A fetched set is known by when each of its    *)
(* pages was read: it shows a column as tagged when the column's page was  *)
(* read after the steward tagged it.                                       *)
(***************************************************************************)
EXTENDS ExecutorBase

CONSTANTS Columns,
          PageOf,          \* the page of the listing a column's table is on
          MAX_PAGES,       \* MAX_PAGES, tagMaxPages: the pages followed at most
          CatalogMax,      \* bound: how far the catalog grows, in pages
          TagRefresh       \* refresh_s, refresh

ASSUME TagsAssumption == /\ MAX_PAGES \in Nat \ {0}
                         /\ CatalogMax \in Nat \ {0}
                         /\ TagRefresh \in Nat
                         /\ PageOf \in [Columns -> 1 .. CatalogMax]

VARIABLES index,           \* TagIndex._by_tag and _at; no pages: never read
          tags,            \* one thread's resolve
          catalogPages,    \* the catalog: its listing's length, and
          taggedAt         \* when the steward tagged a column

tagVars == <<index, tags, catalogPages, taggedAt>>

NoPages == <<>>
ReadOnce == index.pages # NoPages
NoResolve == [pc |-> "idle", got |-> NoPages, since |-> 0, failed |-> FALSE]

TagsType ==
    /\ index \in [pages : Seq(Time), at : Time]
    /\ tags \in [Threads -> [pc : {"idle", "fetch", "store", "read", "done", "unknown"},
                             got : Seq(Time), since : Time, failed : BOOLEAN]]
    /\ catalogPages \in 1 .. CatalogMax
    /\ taggedAt \in [Columns -> Time \cup {Never}]
    /\ \A t \in Threads : Len(tags[t].got) <= MAX_PAGES

TagsInit == /\ index = [pages |-> NoPages, at |-> 0]
            /\ tags = [t \in Threads |-> NoResolve]
            /\ catalogPages \in 1 .. CatalogMax
            /\ taggedAt = [c \in Columns |-> Never]

(* The columns a set of pages shows as tagged. *)
TaggedIn(pages) ==
    {c \in Columns : /\ PageOf[c] \in DOMAIN pages
                     /\ taggedAt[c] # Never
                     /\ taggedAt[c] <= pages[PageOf[c]]}

(* Python counts an index of exactly the refresh age as fresh, Go as stale. *)
Stale == \/ ~ReadOnce
         \/ IF impl = "py" THEN now - index.at > TagRefresh
                           ELSE now - index.at >= TagRefresh

Resolving(t, pc) == tags[t].pc = pc

(* The request thread itself looks, and fetches when the set is stale. *)
TagsLook(t) ==
    /\ Resolving(t, "idle")
    /\ tags' = [tags EXCEPT ![t] = [NoResolve EXCEPT !.pc = IF Stale THEN "fetch" ELSE "read",
                                                     !.since = now]]
    /\ UNCHANGED <<index, catalogPages, taggedAt>>

(* A read that cannot be finished: the last set read serves, if any ever was. *)
Unread(t) == [tags[t] EXCEPT !.pc = IF ReadOnce THEN "read" ELSE "unknown", !.failed = TRUE]

(* A catalog with more pages than are followed is taken as read. *)
TagsPage_Partial(t) ==
    /\ Resolving(t, "fetch")
    /\ LET got == Append(tags[t].got, now) IN
       tags' = [tags EXCEPT ![t] =
           IF Len(got) >= catalogPages \/ Len(got) >= MAX_PAGES
           THEN [@ EXCEPT !.got = got, !.pc = "store"]
           ELSE [@ EXCEPT !.got = got]]
    /\ UNCHANGED <<index, catalogPages, taggedAt>>

(* One page answered; the paging cursor says whether there is another. *)
TagsPage(t) ==
    /\ Resolving(t, "fetch")
    /\ LET got == Append(tags[t].got, now) IN
       tags' = [tags EXCEPT ![t] =
           IF Len(got) >= catalogPages THEN [@ EXCEPT !.got = got, !.pc = "store"]
           ELSE IF Len(got) >= MAX_PAGES THEN Unread(t)
           ELSE [@ EXCEPT !.got = got]]
    /\ UNCHANGED <<index, catalogPages, taggedAt>>

(* The catalog does not answer, or not with a listing. *)
TagsFail(t) ==
    /\ Resolving(t, "fetch")
    /\ tags' = [tags EXCEPT ![t] = Unread(t)]
    /\ UNCHANGED <<index, catalogPages, taggedAt>>

(* Under the lock, whatever another thread stored since the fetch began. *)
TagsStore(t) ==
    /\ Resolving(t, "store")
    /\ index' = [pages |-> tags[t].got, at |-> now]
    /\ tags' = [tags EXCEPT ![t].pc = "read"]
    /\ UNCHANGED <<catalogPages, taggedAt>>

(* Under the lock again; got is from here on what the thread goes by. *)
TagsRead(t) ==
    /\ Resolving(t, "read")
    /\ tags' = [tags EXCEPT ![t].pc = "done", ![t].got = index.pages]
    /\ UNCHANGED <<index, catalogPages, taggedAt>>

TagsReturn(t) ==
    /\ tags[t].pc \in {"done", "unknown"}
    /\ tags' = [tags EXCEPT ![t] = NoResolve]
    /\ UNCHANGED <<index, catalogPages, taggedAt>>

(* The steward and the estate, which the executor does not see happen. *)
StewardTags(c) ==
    /\ taggedAt[c] = Never
    /\ PageOf[c] <= catalogPages
    /\ taggedAt' = [taggedAt EXCEPT ![c] = now]
    /\ UNCHANGED <<index, tags, catalogPages>>

CatalogGrows ==
    /\ catalogPages < CatalogMax
    /\ catalogPages' = catalogPages + 1
    /\ UNCHANGED <<index, tags, taggedAt>>

TagsMayTick == \A t \in Threads : \/ Resolving(t, "idle")
                                  \/ /\ tags[t].pc \in {"fetch", "store"}
                                     /\ now - tags[t].since < CallMax

TagsStep(t) == \/ TagsLook(t) \/ TagsPage(t) \/ TagsFail(t)
               \/ TagsStore(t) \/ TagsRead(t) \/ TagsReturn(t)

TagsNext == \/ /\ \/ \E t \in Threads : TagsStep(t)
                  \/ \E c \in Columns : StewardTags(c)
                  \/ CatalogGrows
               /\ UNCHANGED <<impl, now>>
            \/ Tick /\ TagsMayTick /\ UNCHANGED tagVars

TagsSpec == BaseInit /\ TagsInit /\ [][TagsNext]_<<impl, now, tagVars>>

-----------------------------------------------------------------------------
(* A thread goes by a set that some read of the whole catalog gave; not    *)
(* knowing is never taken for nothing being tagged (TagsUnavailable).      *)
NeverUnknowing == \A t \in Threads : Resolving(t, "done") => tags[t].got # NoPages

(* A column is withheld at most one refresh interval and one fetch after   *)
(* the steward tagged it, unless the thread's own refresh failed and the   *)
(* last known set had to do: however refreshes overlap, and although an    *)
(* older fetch may be stored over a newer one (resolve of access.py,       *)
(* Resolve of tagindex.go).                                                *)
TaggedInTime ==
    \A t \in Threads, c \in Columns :
        /\ Resolving(t, "done")
        /\ ~tags[t].failed
        /\ taggedAt[c] # Never
        /\ now - taggedAt[c] > TagRefresh + CallMax
        => c \in TaggedIn(tags[t].got)

(* A thread knows what is tagged, and knows it in time.                    *)
TagsInTime == NeverUnknowing /\ TaggedInTime
=============================================================================
