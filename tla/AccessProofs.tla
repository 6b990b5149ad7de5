---------------------------- MODULE AccessProofs ----------------------------
(***************************************************************************)
(* What TLAPS proves of TagIndex and RoleResolver, in both                 *)
(* implementations: for any number of threads, columns, pages and roles,   *)
(* every refresh interval, life of a cached answer and time-out.           *)
(***************************************************************************)
EXTENDS TagIndex, RoleResolver, TLAPS

-----------------------------------------------------------------------------
(* The tag index.                                                          *)

Resolves == [pc : {"idle", "fetch", "store", "read", "done", "unknown"},
             got : Seq(Time), since : Time, failed : BOOLEAN]

(* Pages that are all there were: a column they leave out was tagged no      *)
(* earlier than any of them was read.                                        *)
Whole(pages) ==
    \A c \in Columns : taggedAt[c] # Never /\ PageOf[c] > Len(pages) =>
        \A i \in DOMAIN pages : pages[i] <= taggedAt[c]
ReadSince(pages, time) == \A i \in DOMAIN pages : time <= pages[i] /\ pages[i] <= now

(* The index is a whole read that took no longer than one fetch may.         *)
IndexSound == /\ index.at <= now
              /\ Len(index.pages) <= MAX_PAGES
              /\ Whole(index.pages)
              /\ ReadSince(index.pages, index.at - CallMax)

(* What a thread relies on where it is.                                      *)
Relies(r) ==
    /\ r.pc \in {"fetch", "store"} => /\ r.since <= now /\ now - r.since <= CallMax
                                      /\ ReadSince(r.got, r.since) /\ ~r.failed
    /\ r.pc = "fetch" => Len(r.got) < MAX_PAGES
    /\ r.pc = "store" => r.got # NoPages /\ Whole(r.got)
    /\ r.pc = "read" => /\ ReadOnce
                        /\ ~r.failed => now - index.at <= TagRefresh
    /\ r.pc = "done" => /\ r.got # NoPages /\ Whole(r.got) /\ ReadSince(r.got, 0)
                        /\ ~r.failed => ReadSince(r.got, now - TagRefresh - CallMax)

TagsInv == /\ now \in Time
           /\ TagsType
           /\ IndexSound
           /\ \A c \in Columns : taggedAt[c] # Never =>
                  PageOf[c] <= catalogPages /\ taggedAt[c] <= now
           /\ \A t \in Threads : Relies(tags[t])

USE TimesAssumption, TagsAssumption

LEMMA TagsStart == BaseInit /\ TagsInit => TagsInv
<1> SUFFICES ASSUME BaseInit, TagsInit PROVE TagsInv
  OBVIOUS
<1>1. NoResolve \in Resolves /\ Len(NoPages) = 0 /\ NoPages \in Seq(Time) /\ 0 \in Time
  BY DEF NoResolve, Resolves, NoPages, Time
<1>2. \A t \in Threads : tags[t] = NoResolve
  BY DEF TagsInit
<1>3. TagsType
  BY <1>1, <1>2 DEF TagsInit, TagsType, Resolves, NoResolve
<1>4. IndexSound
  BY <1>1 DEF TagsInit, BaseInit, IndexSound, Whole, ReadSince, NoPages
<1>5. \A t \in Threads : Relies(tags[t])
  BY <1>2 DEF Relies, NoResolve
<1> QED BY <1>1, <1>3, <1>4, <1>5 DEF TagsInv, TagsInit, BaseInit

(* One thread's step that leaves the index and the world as they are.        *)
LEMMA ThreadMoves ==
  ASSUME TagsInv, NEW t \in Threads, NEW r \in Resolves,
         tags' = [tags EXCEPT ![t] = r],
         Relies(r), Len(r.got) <= MAX_PAGES,
         UNCHANGED <<impl, now, index, catalogPages, taggedAt>>
  PROVE  TagsInv'
<1>1. tags' \in [Threads -> Resolves]
  BY DEF TagsInv, TagsType, Resolves
<1>2. \A u \in Threads : tags'[u] = IF u = t THEN r ELSE tags[u]
  BY DEF TagsInv, TagsType
<1>3. TagsType'
  BY <1>1, <1>2 DEF TagsInv, TagsType, Resolves
<1>4. \A u \in Threads : Relies(tags[u])'
  BY <1>2 DEF TagsInv, Relies, ReadSince, Whole, ReadOnce
<1>5. IndexSound'
  BY DEF TagsInv, IndexSound, ReadSince, Whole
<1> QED BY <1>3, <1>4, <1>5 DEF TagsInv

LEMMA LookKeeps ==
  ASSUME TagsInv, NEW t \in Threads, TagsLook(t), UNCHANGED <<impl, now>>
  PROVE  TagsInv'
<1> DEFINE pc == IF Stale THEN "fetch" ELSE "read"
           r == [NoResolve EXCEPT !.pc = pc, !.since = now]
<1>2. tags' = [tags EXCEPT ![t] = r] /\ UNCHANGED <<index, catalogPages, taggedAt>>
  BY DEF TagsLook
<1>3. now \in Nat /\ now \in Time
  BY DEF TagsInv, Time
<1>4. NoPages \in Seq(Time) /\ Len(NoPages) = 0 /\ DOMAIN NoPages = {}
  BY DEF NoPages
<1>5. pc \in {"fetch", "read"} /\ (pc = "read" => ReadOnce /\ now - index.at <= TagRefresh)
  BY <1>3 DEF Stale, TagsInv, TagsType, Time
<1> HIDE DEF pc
<1>6. r.pc = pc /\ r.got = NoPages /\ r.since = now /\ r.failed = FALSE
  BY DEF NoResolve
<1>7. r \in Resolves
  BY <1>3, <1>4, <1>5 DEF Resolves, NoResolve
<1> HIDE DEF r
<1>8. ReadSince(r.got, r.since)
  BY <1>4, <1>6 DEF ReadSince
<1>9. Relies(r) /\ Len(r.got) <= MAX_PAGES
  BY <1>3, <1>4, <1>5, <1>6, <1>8, TimesAssumption, TagsAssumption DEF Relies
<1> QED BY <1>2, <1>7, <1>9, ThreadMoves

(* A read that cannot be finished, whatever it had.                          *)
LEMMA UnreadRelies ==
  ASSUME TagsInv, NEW t \in Threads
  PROVE  Unread(t) \in Resolves /\ Relies(Unread(t)) /\ Len(Unread(t).got) <= MAX_PAGES
<1> DEFINE pc == IF ReadOnce THEN "read" ELSE "unknown"
           r == [tags[t] EXCEPT !.pc = pc, !.failed = TRUE]
<1>1. tags[t] \in Resolves /\ Len(tags[t].got) <= MAX_PAGES
  BY DEF TagsInv, TagsType, Resolves
<1>2. Unread(t) = r
  BY DEF Unread
<1>3. pc \in {"read", "unknown"} /\ (pc = "read" => ReadOnce)
  OBVIOUS
<1> HIDE DEF pc
<1>4. r \in Resolves /\ r.pc = pc /\ r.got = tags[t].got /\ r.failed = TRUE
  BY <1>1, <1>3 DEF Resolves
<1> HIDE DEF r
<1>5. Relies(r)
  BY <1>3, <1>4 DEF Relies
<1> QED BY <1>1, <1>2, <1>4, <1>5

LEMMA PageKeeps ==
  ASSUME TagsInv, NEW t \in Threads, TagsPage(t), UNCHANGED <<impl, now>>
  PROVE  TagsInv'
<1> DEFINE old == tags[t]
           got == Append(old.got, now)
<1>1. old \in Resolves /\ old.pc = "fetch" /\ Relies(old)
  BY DEF TagsInv, TagsType, Resolves, TagsPage, Resolving
<1>2. now \in Time /\ now \in Nat /\ old.got \in Seq(Time)
  BY <1>1 DEF TagsInv, Time, Resolves
<1>3. got \in Seq(Time) /\ Len(got) = Len(old.got) + 1 /\ Len(old.got) \in Nat /\ Len(got) \in Nat
  BY <1>2
<1>4. \A i \in DOMAIN got : IF i = Len(got) THEN got[i] = now
                             ELSE i \in DOMAIN old.got /\ got[i] = old.got[i]
  BY <1>2
<1>5. Len(got) <= MAX_PAGES /\ got # NoPages
  BY <1>1, <1>3 DEF Relies, NoPages
<1>6. ReadSince(got, old.since)
  BY <1>1, <1>2, <1>4 DEF Relies, ReadSince, Resolves, Time
<1>7. UNCHANGED <<impl, now, index, catalogPages, taggedAt>>
  BY DEF TagsPage
<1>8. catalogPages \in Nat /\ Len(got) \in Nat /\ MAX_PAGES \in Nat
  BY <1>3, TagsAssumption DEF TagsInv, TagsType
<1> DEFINE next == IF Len(got) >= catalogPages THEN [old EXCEPT !.got = got, !.pc = "store"]
                   ELSE IF Len(got) >= MAX_PAGES THEN Unread(t)
                   ELSE [old EXCEPT !.got = got]
<1>12. tags' = [tags EXCEPT ![t] = next]
  BY DEF TagsPage
<1> HIDE DEF got
<1>9. CASE Len(got) >= catalogPages
  <2> DEFINE r == [old EXCEPT !.got = got, !.pc = "store"]
  <2>1. r \in Resolves /\ r.pc = "store" /\ r.got = got /\ r.since = old.since /\ r.failed = old.failed
    BY <1>1, <1>3 DEF Resolves
  <2>2. tags' = [tags EXCEPT ![t] = r]
    BY <1>8, <1>9, <1>12
  <2>3. \A c \in Columns : taggedAt[c] # Never => ~(PageOf[c] > Len(got))
    BY <1>3, <1>8, <1>9 DEF TagsInv
  <2>4. Whole(got)
    BY <2>3 DEF Whole
  <2> HIDE DEF r, old
  <2>5. Len(r.got) <= MAX_PAGES
    BY <1>5, <2>1
  <2>6. Relies(r)
    BY <1>1, <1>5, <1>6, <2>1, <2>4 DEF Relies
  <2> QED BY <1>7, <2>1, <2>2, <2>5, <2>6, ThreadMoves
<1>10. CASE Len(got) < catalogPages /\ Len(got) >= MAX_PAGES
  <2>0. ~(Len(got) >= catalogPages)
    BY <1>8, <1>10
  <2>1. tags' = [tags EXCEPT ![t] = Unread(t)]
    BY <1>10, <1>12, <2>0
  <2> QED BY <1>7, <2>1, UnreadRelies, ThreadMoves
<1>11. CASE Len(got) < catalogPages /\ Len(got) < MAX_PAGES
  <2> DEFINE r == [old EXCEPT !.got = got]
  <2>1. r \in Resolves /\ r.pc = "fetch" /\ r.got = got /\ r.since = old.since /\ r.failed = old.failed
    BY <1>1, <1>3 DEF Resolves
  <2>0. ~(Len(got) >= catalogPages) /\ ~(Len(got) >= MAX_PAGES)
    BY <1>8, <1>11
  <2>2. tags' = [tags EXCEPT ![t] = r]
    BY <1>12, <2>0
  <2> HIDE DEF r, old
  <2>3. Len(r.got) <= MAX_PAGES
    BY <1>5, <2>1
  <2>4. Relies(r)
    BY <1>1, <1>5, <1>6, <1>11, <2>1 DEF Relies
  <2> QED BY <1>7, <2>1, <2>2, <2>3, <2>4, ThreadMoves
<1> QED BY <1>3, <1>8, <1>9, <1>10, <1>11

LEMMA FailKeeps ==
  ASSUME TagsInv, NEW t \in Threads, TagsFail(t), UNCHANGED <<impl, now>>
  PROVE  TagsInv'
<1>1. tags' = [tags EXCEPT ![t] = Unread(t)] /\ UNCHANGED <<index, catalogPages, taggedAt>>
  BY DEF TagsFail
<1> QED BY <1>1, UnreadRelies, ThreadMoves

(* A store makes the index younger for everyone, and never unread.           *)
LEMMA StoreKeeps ==
  ASSUME TagsInv, NEW t \in Threads, TagsStore(t), UNCHANGED <<impl, now>>
  PROVE  TagsInv'
<1> DEFINE old == tags[t]
           r == [old EXCEPT !.pc = "read"]
<1>1. old \in Resolves /\ old.pc = "store" /\ Relies(old) /\ Len(old.got) <= MAX_PAGES
  BY DEF TagsInv, TagsType, Resolves, TagsStore, Resolving
<1>2. /\ index' = [pages |-> old.got, at |-> now]
      /\ tags' = [tags EXCEPT ![t] = r]
      /\ now' = now /\ catalogPages' = catalogPages /\ taggedAt' = taggedAt
  BY DEF TagsStore, TagsInv, TagsType
<1>3. now \in Time /\ now \in Nat /\ CallMax \in Nat /\ TagRefresh \in Nat
  BY DEF TagsInv, Time
<1>4. r \in Resolves /\ r.pc = "read" /\ r.got = old.got
  BY <1>1 DEF Resolves
<1>5. \A u \in Threads : tags'[u] = IF u = t THEN r ELSE tags[u]
  BY <1>2 DEF TagsInv, TagsType
<1>6. TagsType'
  <2>1. index' \in [pages : Seq(Time), at : Time]
    BY <1>1, <1>2, <1>3 DEF Resolves
  <2>2. tags' \in [Threads -> Resolves]
    BY <1>2, <1>4 DEF TagsInv, TagsType, Resolves
  <2> QED BY <1>1, <1>2, <1>4, <1>5, <2>1, <2>2 DEF TagsInv, TagsType, Resolves
<1>7. IndexSound'
  <2>1. ReadSince(old.got, now - CallMax)
    BY <1>1, <1>3 DEF Relies, ReadSince, Resolves, Time
  <2>2. Whole(old.got)
    BY <1>1 DEF Relies
  <2> QED BY <1>1, <1>2, <1>3, <2>1, <2>2 DEF IndexSound, ReadSince, Whole
<1>8. ReadOnce' /\ index'.at = now
  BY <1>1, <1>2 DEF ReadOnce, Relies
<1>9. ASSUME NEW u \in Threads
      PROVE  Relies(tags[u])'
  <2>1. CASE u = t
    <3>1. tags[u]' = r /\ r.pc = "read" /\ now' = now /\ now - now <= TagRefresh
      BY <1>2, <1>3, <1>4, <1>5, <2>1
    <3> HIDE DEF r
    <3> QED BY <1>8, <3>1 DEF Relies
  <2>2. CASE u # t
    <3>1. Relies(tags[u]) /\ tags'[u] = tags[u]
      BY <1>5, <2>2 DEF TagsInv
    <3> QED BY <1>2, <1>3, <1>8, <3>1 DEF Relies, ReadSince, Whole
  <2> QED BY <2>1, <2>2
<1> QED BY <1>2, <1>6, <1>7, <1>9 DEF TagsInv

LEMMA ReadKeeps ==
  ASSUME TagsInv, NEW t \in Threads, TagsRead(t), UNCHANGED <<impl, now>>
  PROVE  TagsInv'
<1> DEFINE old == tags[t]
           r == [old EXCEPT !.pc = "done", !.got = index.pages]
<1>1. old \in Resolves /\ old.pc = "read" /\ Relies(old)
  BY DEF TagsInv, TagsType, Resolves, TagsRead, Resolving
<1>2. tags' = [tags EXCEPT ![t] = r] /\ UNCHANGED <<index, catalogPages, taggedAt>>
  BY DEF TagsRead, TagsInv, TagsType
<1>3. /\ now \in Nat /\ IndexSound /\ ReadOnce
      /\ index.pages \in Seq(Time) /\ index.at \in Nat
      /\ ~old.failed => now - index.at <= TagRefresh
  BY <1>1 DEF TagsInv, TagsType, Relies, Time
<1>4. r \in Resolves /\ r.pc = "done" /\ r.got = index.pages /\ r.failed = old.failed
  BY <1>1, <1>3 DEF Resolves
<1> HIDE DEF r
<1>5. \A i \in DOMAIN index.pages : index.pages[i] \in Nat
  BY <1>3 DEF Time
<1>6. ReadSince(index.pages, 0)
  BY <1>3, <1>5 DEF IndexSound, ReadSince
<1>7. ~old.failed => ReadSince(index.pages, now - TagRefresh - CallMax)
  BY <1>3, <1>5 DEF IndexSound, ReadSince
<1>8. Relies(r) /\ Len(r.got) <= MAX_PAGES
  BY <1>3, <1>4, <1>6, <1>7 DEF Relies, IndexSound, ReadOnce
<1> QED BY <1>2, <1>4, <1>8, ThreadMoves

LEMMA ReturnKeeps ==
  ASSUME TagsInv, NEW t \in Threads, TagsReturn(t), UNCHANGED <<impl, now>>
  PROVE  TagsInv'
<1>1. NoResolve \in Resolves /\ Relies(NoResolve) /\ Len(NoResolve.got) <= MAX_PAGES
  BY DEF NoResolve, Resolves, Relies, NoPages, Time
<1>2. tags' = [tags EXCEPT ![t] = NoResolve] /\ UNCHANGED <<index, catalogPages, taggedAt>>
  BY DEF TagsReturn
<1> QED BY <1>1, <1>2, ThreadMoves

(* What the steward tags now, no page that is left out is later than.        *)
LEMMA StewardKeeps ==
  ASSUME TagsInv, NEW c \in Columns, StewardTags(c), UNCHANGED <<impl, now>>
  PROVE  TagsInv'
<1>1. /\ taggedAt' = [taggedAt EXCEPT ![c] = now]
      /\ UNCHANGED <<index, tags, catalogPages>> /\ PageOf[c] <= catalogPages
      /\ now \in Time /\ now \in Nat
  BY DEF StewardTags, TagsInv, Time
<1>2. \A d \in Columns : taggedAt'[d] = IF d = c THEN now ELSE taggedAt[d]
  BY <1>1 DEF TagsInv, TagsType
<1>3. ASSUME NEW pages, Whole(pages), \A i \in DOMAIN pages : pages[i] <= now
      PROVE  Whole(pages)'
  BY <1>2, <1>3 DEF Whole
<1>4. TagsType'
  BY <1>1, <1>2 DEF TagsInv, TagsType
<1>5. IndexSound'
  <2>1. Whole(index.pages)'
    BY <1>1, <1>3 DEF TagsInv, IndexSound, ReadSince, Whole
  <2> QED BY <1>1, <2>1 DEF TagsInv, IndexSound, ReadSince
<1>6. ASSUME NEW t \in Threads
      PROVE  Relies(tags[t])'
  <2>1. Relies(tags[t])
    BY DEF TagsInv
  <2>2. tags[t].pc \in {"store", "done"} => Whole(tags[t].got)'
    BY <1>1, <1>3, <2>1 DEF Relies, ReadSince, Whole
  <2> QED BY <1>1, <2>1, <2>2 DEF Relies, ReadSince, ReadOnce
<1>7. \A d \in Columns : taggedAt'[d] # Never =>
          PageOf[d] <= catalogPages' /\ taggedAt'[d] <= now'
  BY <1>1, <1>2 DEF TagsInv
<1> QED BY <1>1, <1>4, <1>5, <1>6, <1>7 DEF TagsInv

LEMMA GrowthKeeps ==
  ASSUME TagsInv, CatalogGrows, UNCHANGED <<impl, now>>
  PROVE  TagsInv'
<1>1. catalogPages \in Nat /\ catalogPages' = catalogPages + 1 /\ catalogPages' \in 1 .. CatalogMax
      /\ UNCHANGED <<index, tags, taggedAt>>
  BY DEF CatalogGrows, TagsInv, TagsType
<1>2. TagsType' /\ IndexSound'
  BY <1>1 DEF TagsInv, TagsType, IndexSound, Whole, ReadSince
<1>3. \A t \in Threads : Relies(tags[t])'
  BY <1>1 DEF TagsInv, Relies, Whole, ReadSince, ReadOnce
<1>4. \A d \in Columns : taggedAt'[d] # Never =>
          PageOf[d] <= catalogPages' /\ taggedAt'[d] <= now'
  BY <1>1 DEF TagsInv
<1> QED BY <1>2, <1>3, <1>4 DEF TagsInv

LEMMA TagsTickKeeps ==
  ASSUME TagsInv, Tick, TagsMayTick, UNCHANGED tagVars
  PROVE  TagsInv'
<1>1. now \in Nat /\ now' = now + 1 /\ now' \in Time /\ now' \in Nat
      /\ UNCHANGED <<index, tags, catalogPages, taggedAt>>
  BY DEF Tick, tagVars, TagsInv, Time
<1>2. TagsType' /\ IndexSound'
  <2>1. \A i \in DOMAIN index.pages : index.pages[i] \in Nat
    BY DEF TagsInv, TagsType, Time
  <2>2. index.at \in Nat
    BY DEF TagsInv, TagsType, Time
  <2>3. IndexSound'
    BY <1>1, <2>1, <2>2 DEF TagsInv, IndexSound, Whole, ReadSince
  <2> QED BY <1>1, <2>3 DEF TagsInv, TagsType
<1>3. ASSUME NEW t \in Threads
      PROVE  Relies(tags[t])'
  <2>1. Relies(tags[t]) /\ tags[t] \in Resolves
    BY DEF TagsInv, TagsType, Resolves
  <2>2. \A i \in DOMAIN tags[t].got : tags[t].got[i] \in Nat
    BY <2>1 DEF Resolves, Time
  <2>3. tags[t].since \in Nat
    BY <2>1 DEF Resolves, Time
  <2>4. \/ tags[t].pc = "idle"
        \/ tags[t].pc \in {"fetch", "store"} /\ now - tags[t].since < CallMax
    BY DEF TagsMayTick, Resolving
  <2> QED BY <1>1, <2>1, <2>2, <2>3, <2>4 DEF Relies, ReadSince, Whole
<1>4. \A d \in Columns : taggedAt'[d] # Never =>
          PageOf[d] <= catalogPages' /\ taggedAt'[d] <= now'
  <2>1. \A d \in Columns : taggedAt[d] # Never => taggedAt[d] \in Nat
    BY DEF TagsInv, TagsType, Time
  <2> QED BY <1>1, <2>1 DEF TagsInv
<1> QED BY <1>1, <1>2, <1>3, <1>4 DEF TagsInv

LEMMA TagsSteps == TagsInv /\ [TagsNext]_<<impl, now, tagVars>> => TagsInv'
<1> SUFFICES ASSUME TagsInv, [TagsNext]_<<impl, now, tagVars>> PROVE TagsInv'
  OBVIOUS
<1>1. ASSUME NEW t \in Threads, TagsStep(t), UNCHANGED <<impl, now>>
      PROVE  TagsInv'
  BY <1>1, LookKeeps, PageKeeps, FailKeeps, StoreKeeps, ReadKeeps, ReturnKeeps DEF TagsStep
<1>2. ASSUME NEW c \in Columns, StewardTags(c), UNCHANGED <<impl, now>>
      PROVE  TagsInv'
  BY <1>2, StewardKeeps
<1>3. CASE CatalogGrows /\ UNCHANGED <<impl, now>>
  BY <1>3, GrowthKeeps
<1>4. CASE Tick /\ TagsMayTick /\ UNCHANGED tagVars
  BY <1>4, TagsTickKeeps
<1>5. CASE UNCHANGED <<impl, now, tagVars>>
  BY <1>5 DEF tagVars, TagsInv, TagsType, IndexSound, Relies, Whole, ReadSince, ReadOnce
<1> QED BY <1>1, <1>2, <1>3, <1>4, <1>5 DEF TagsNext

LEMMA TaggedFollows == TagsInv => TaggedInTime
<1> SUFFICES ASSUME TagsInv, NEW t \in Threads, NEW c \in Columns,
                    Resolving(t, "done"), ~tags[t].failed, taggedAt[c] # Never,
                    now - taggedAt[c] > TagRefresh + CallMax
             PROVE  c \in TaggedIn(tags[t].got)
  BY DEF TaggedInTime
<1> DEFINE got == tags[t].got
<1>1. got \in Seq(Time) /\ now \in Nat /\ taggedAt[c] \in Nat /\ PageOf[c] \in Nat /\ PageOf[c] >= 1
  BY DEF TagsInv, TagsType, Time
<1>2. got # <<>> /\ Whole(got) /\ ReadSince(got, now - TagRefresh - CallMax)
  BY DEF TagsInv, Relies, Resolving, NoPages
<1> HIDE DEF got
<1>3. \A i \in DOMAIN got : got[i] \in Nat /\ taggedAt[c] < got[i]
  <2>1. \A i \in DOMAIN got : got[i] \in Nat
    BY <1>1 DEF Time
  <2> QED BY <1>1, <1>2, <2>1 DEF ReadSince
<1>4. Len(got) \in Nat /\ DOMAIN got = 1 .. Len(got) /\ 1 \in DOMAIN got
  BY <1>1, <1>2
<1>5. PageOf[c] <= Len(got)
  <2>1. ~ taggedAt[c] >= got[1]
    BY <1>1, <1>3, <1>4
  <2>2. ~(PageOf[c] > Len(got))
    BY <1>1, <1>2, <1>3, <1>4, <2>1 DEF Whole
  <2> QED BY <1>1, <1>4, <2>2
<1>6. PageOf[c] \in DOMAIN got
  BY <1>1, <1>4, <1>5
<1> QED BY <1>1, <1>3, <1>6 DEF TaggedIn, got

(* A thread never takes a catalog it could not read for one that tags        *)
(* nothing (resolve of access.py, Resolve of tagindex.go).                   *)
THEOREM NeverUnknowingAlways == TagsSpec => []NeverUnknowing
<1>1. BaseInit /\ TagsInit => TagsInv
  BY TagsStart
<1>2. TagsInv /\ [TagsNext]_<<impl, now, tagVars>> => TagsInv'
  BY TagsSteps
<1>3. TagsInv => NeverUnknowing
  BY DEF TagsInv, Relies, NeverUnknowing, Resolving
<1> QED BY <1>1, <1>2, <1>3, PTL DEF TagsSpec

(* A column is withheld one refresh interval and one fetch after it was      *)
(* tagged, however many threads refresh at once and whatever the order they  *)
(* store in.                                                                 *)
THEOREM TaggedColumnsWithheld == TagsSpec => []TaggedInTime
<1>1. BaseInit /\ TagsInit => TagsInv
  BY TagsStart
<1>2. TagsInv /\ [TagsNext]_<<impl, now, tagVars>> => TagsInv'
  BY TagsSteps
<1> QED BY <1>1, <1>2, TaggedFollows, PTL DEF TagsSpec

(* Both: whoever is answered by the tags knows them, and in time.            *)
THEOREM TagsKnownInTime == TagsSpec => []TagsInTime
  BY NeverUnknowingAlways, TaggedColumnsWithheld, PTL DEF TagsInTime

-----------------------------------------------------------------------------
(* The roles of a caller.                                                    *)
HIDE TagsAssumption
USE RolesAssumption

First == PartOrder[1]
Second == PartOrder[2]
Asking == [pc : {"idle", "read", "claims", "done"}, names : SUBSET Roles,
           reads : Seq({"names", "app", "group"}),
           got : SUBSET Roles, since : Time, failed : BOOLEAN]

(* The roles that were there before the process started.                     *)
Standing == {r \in Roles : definedAt[r] = 0}

(* Every role in an answer was given at time, or after it.                   *)
Backed(got, time) ==
    \A r \in got : \E p \in Parts :
        /\ Uses(p) /\ grants[p][r].from # Never
        /\ grants[p][r].until = Never \/ grants[p][r].until >= time

HeldSince(p, r, time) == /\ Uses(p)
                         /\ grants[p][r].from # Never /\ grants[p][r].from < time
                         /\ grants[p][r].until = Never
MovedSince(r, time) ==
    /\ roleSource = "both"
    /\ grants[First][r].from # Never /\ grants[First][r].from < time
    /\ grants[First][r].until # Never
    /\ grants[Second][r].from # Never /\ grants[Second][r].until = Never
    /\ grants[Second][r].from < grants[First][r].until

(* An answer has every role held since before time, as far as the parts go   *)
(* that are not among the reads still to be made.                            *)
Pending(reads, what) == \E i \in DOMAIN reads : reads[i] = what
Given(reads, got, time) ==
    \A r \in Standing :
        /\ \A p \in Parts : HeldSince(p, r, time) /\ ~Pending(reads, p) => r \in got
        /\ MovedSince(r, time) /\ ~Pending(reads, Second) => r \in got

(* What is left to read is in the order the code reads it.                   *)
Orderly(reads) ==
    \A i \in DOMAIN reads :
        /\ reads[i] \in Parts => Uses(reads[i])
        /\ \A j \in DOMAIN reads : reads[i] = reads[j] => i = j
        /\ reads[i] = First /\ roleSource = "both" =>
               \E j \in DOMAIN reads : j > i /\ reads[j] = Second
        /\ reads[i] = "names" => \E j \in DOMAIN reads : j > i /\ reads[j] = "app"

LookupRelies(l) ==
    /\ l.pc = "read" =>
         /\ l.since <= now /\ now - l.since <= CallMax
         /\ Orderly(l.reads)
         /\ Pending(l.reads, "app") /\ ~Pending(l.reads, "names") =>
                Standing \subseteq l.names \cap roleNames
         /\ Backed(l.got, l.since)
         /\ l.failed => l.reads = <<>> /\ l.got = {}
         /\ ~l.failed => Given(l.reads, l.got, l.since)
    /\ l.pc = "done" =>
         /\ Backed(l.got, now - Longest)
         /\ ~l.failed => Given(<<>>, l.got, now - Longest)

(* A cached answer is as good as the lookup that made it.                    *)
AnswerSound(c) ==
    c.at # Never => /\ c.at <= now
                    /\ Backed(c.roles, c.at - CallMax)
                    /\ ~c.failed => Given(<<>>, c.roles, c.at - CallMax)

NothingToCome == \A p \in Parts, r \in Roles :
    /\ grants[p][r].from # Never => grants[p][r].from <= now
    /\ grants[p][r].until # Never => grants[p][r].until <= now

RolesInv ==
    /\ now \in Time /\ impl \in Impls
    /\ RolesType
    /\ AnswerSound(roleCache)
    /\ NothingToCome
    /\ roleNames # {} => Standing \subseteq roleNames
    /\ \A t \in Threads : LookupRelies(lookups[t])

-----------------------------------------------------------------------------
LEMMA Orders ==
  ASSUME impl \in Impls
  PROVE  /\ First \in Parts /\ Second \in Parts /\ First # Second
         /\ \A p \in Parts : p = First \/ p = Second
BY DEF First, Second, PartOrder, Impls, Parts

LEMMA BackedBefore ==
  ASSUME RolesInv, NEW got \in SUBSET Roles, NEW t1 \in Int, NEW t2 \in Int,
         Backed(got, t1), t2 <= t1
  PROVE  Backed(got, t2)
<1>1. \A p \in Parts, r \in Roles :
          grants[p][r].until \in Int \cup {Never}
  BY DEF RolesInv, RolesType, Moment, Time
<1>2. \A u \in Int : u >= t1 => u >= t2
  OBVIOUS
<1> QED BY <1>1, <1>2 DEF Backed

LEMMA GivenBefore ==
  ASSUME RolesInv, NEW reads, NEW got, NEW t1 \in Int, NEW t2 \in Int,
         Given(reads, got, t1), t2 <= t1
  PROVE  Given(reads, got, t2)
<1>1. \A p \in Parts, r \in Roles : grants[p][r].from \in Int \cup {Never}
  BY DEF RolesInv, RolesType, Moment, Time
<1>2. \A u \in Int : u < t2 => u < t1
  OBVIOUS
<1>3. First \in Parts /\ Second \in Parts
  BY Orders DEF RolesInv
<1>4. \A p \in Parts, r \in Roles : HeldSince(p, r, t2) => HeldSince(p, r, t1)
  BY <1>1, <1>2 DEF HeldSince
<1>5. \A r \in Roles : MovedSince(r, t2) => MovedSince(r, t1)
  BY <1>1, <1>2, <1>3 DEF MovedSince
<1> QED BY <1>4, <1>5 DEF Given, Standing

(* No step but the administrator's changes what an answer is measured by.    *)
LEMMA SameWorld ==
  ASSUME UNCHANGED <<impl, roleSource, definedAt, grants>>
  PROVE  /\ \A got, time : Backed(got, time)' <=> Backed(got, time)
         /\ \A reads, got, time : Given(reads, got, time)' <=> Given(reads, got, time)
         /\ \A reads : Orderly(reads)' <=> Orderly(reads)
         /\ Standing' = Standing
<1>1. First' = First /\ Second' = Second
  BY DEF First, Second, PartOrder
<1>2. \A p : Uses(p)' <=> Uses(p)
  BY DEF Uses
<1>3. Standing' = Standing
  BY DEF Standing
<1>4. \A got, time : Backed(got, time)' <=> Backed(got, time)
  BY <1>2 DEF Backed
<1>5. \A reads : Orderly(reads)' <=> Orderly(reads)
  BY <1>1, <1>2 DEF Orderly
<1>6. \A p, r, time : HeldSince(p, r, time)' <=> HeldSince(p, r, time)
  BY <1>2 DEF HeldSince
<1>7. \A r, time : MovedSince(r, time)' <=> MovedSince(r, time)
  BY <1>1 DEF MovedSince
<1>8. \A reads, got, time : Given(reads, got, time)' <=> Given(reads, got, time)
  BY <1>1, <1>3, <1>6, <1>7 DEF Given
<1> QED BY <1>3, <1>4, <1>5, <1>8

(* What the administrator does takes effect now: nothing that an answer has  *)
(* to hold becomes due, and nothing it holds becomes too old.                *)
TakesEffectNow ==
    /\ UNCHANGED <<impl, now, roleSource>>
    /\ Standing' = Standing
    /\ \A p \in Parts, r \in Roles :
        LET old == grants[p][r]
            new == grants'[p][r] IN
        /\ new.from = old.from \/ (old.from = Never /\ new.from = now)
        /\ new.until = old.until \/ (old.until = Never /\ new.until = now)

LEMMA BackedStays ==
  ASSUME RolesInv, TakesEffectNow, NEW got \in SUBSET Roles, NEW time \in Int,
         time <= now, Backed(got, time)
  PROVE  Backed(got, time)'
<1>1. now \in Int /\ now # Never /\ now >= time
  BY DEF RolesInv, Time
<1>2. ASSUME NEW r \in got
      PROVE  \E p \in Parts : /\ Uses(p)' /\ grants'[p][r].from # Never
                              /\ grants'[p][r].until = Never \/ grants'[p][r].until >= time
  <2>1. PICK p \in Parts : /\ Uses(p) /\ grants[p][r].from # Never
                           /\ grants[p][r].until = Never \/ grants[p][r].until >= time
    BY DEF Backed
  <2>2. Uses(p)'
    BY <2>1 DEF Uses, TakesEffectNow
  <2>3. grants'[p][r].from # Never
    BY <1>1, <2>1 DEF TakesEffectNow
  <2>4. grants'[p][r].until = grants[p][r].until \/ grants'[p][r].until = now
    BY DEF TakesEffectNow
  <2>5. grants'[p][r].until = Never \/ grants'[p][r].until >= time
    BY <1>1, <2>1, <2>4
  <2> QED BY <2>2, <2>3, <2>5
<1> QED BY <1>2 DEF Backed

LEMMA GivenStays ==
  ASSUME RolesInv, TakesEffectNow, NEW reads, NEW got, NEW time \in Int,
         time <= now, Orderly(reads), Given(reads, got, time)
  PROVE  Given(reads, got, time)'
<1>1. now \in Int /\ now # Never /\ now >= time
  BY DEF RolesInv, Time
<1>2. First \in Parts /\ Second \in Parts /\ First' = First /\ Second' = Second
  BY Orders DEF RolesInv, TakesEffectNow, First, Second, PartOrder
<1>3. \A p : Uses(p)' <=> Uses(p)
  BY DEF Uses, TakesEffectNow
<1>4. ASSUME NEW p \in Parts, NEW r \in Roles
      PROVE  /\ grants'[p][r].from # Never /\ grants'[p][r].from < time =>
                   grants[p][r].from # Never /\ grants[p][r].from < time
             /\ grants'[p][r].until = Never => grants[p][r].until = Never
  <2>1. grants'[p][r].from = grants[p][r].from \/ grants'[p][r].from = now
    BY DEF TakesEffectNow
  <2>2. grants'[p][r].until = grants[p][r].until \/ grants'[p][r].until = now
    BY DEF TakesEffectNow
  <2> QED BY <1>1, <2>1, <2>2
<1>5. \A p \in Parts, r \in Roles : HeldSince(p, r, time)' => HeldSince(p, r, time)
  BY <1>3, <1>4 DEF HeldSince
<1>6. ASSUME NEW r \in Roles, MovedSince(r, time)', ~Pending(reads, Second)
      PROVE  MovedSince(r, time) \/ (HeldSince(First, r, time) /\ ~Pending(reads, First))
  <2>1. /\ roleSource = "both"
        /\ grants[First][r].from # Never /\ grants[First][r].from < time
        /\ grants[Second][r].until = Never
    BY <1>2, <1>4, <1>6 DEF MovedSince, TakesEffectNow
  <2>2. CASE grants[First][r].until = Never
    <3>1. Uses(First)
      BY <1>2, <2>1 DEF Uses, Parts
    <3>2. ~Pending(reads, First)
      BY <1>6, <2>1 DEF Orderly, Pending
    <3> QED BY <2>1, <2>2, <3>1, <3>2 DEF HeldSince
  <2>3. CASE grants[First][r].until # Never
    <3>1. grants[First][r].until <= now /\ grants[First][r].until \in Int
      BY <1>2, <2>3 DEF RolesInv, NothingToCome, RolesType, Moment, Time
    <3>2. grants'[First][r].until = grants[First][r].until
      BY <1>2, <2>3 DEF TakesEffectNow
    <3>3. /\ grants'[Second][r].from # Never
          /\ grants'[Second][r].from < grants[First][r].until
      BY <1>2, <1>6, <3>2 DEF MovedSince
    <3>4. grants'[Second][r].from = grants[Second][r].from
      BY <1>1, <1>2, <3>1, <3>3 DEF TakesEffectNow
    <3> QED BY <2>1, <2>3, <3>3, <3>4 DEF MovedSince
  <2> QED BY <2>2, <2>3
<1>7. Standing \subseteq Roles
  BY DEF Standing
<1>8. ASSUME NEW r \in Standing
      PROVE  /\ \A p \in Parts : HeldSince(p, r, time)' /\ ~Pending(reads, p) => r \in got
             /\ MovedSince(r, time)' /\ ~Pending(reads, Second) => r \in got
  BY <1>2, <1>5, <1>6, <1>7, <1>8 DEF Given
<1>9. \A p : Pending(reads, p)' <=> Pending(reads, p)
  BY DEF Pending
<1> QED BY <1>2, <1>8, <1>9 DEF Given, TakesEffectNow

LEMMA OrderlyStays ==
  ASSUME TakesEffectNow, NEW reads
  PROVE  Orderly(reads)' <=> Orderly(reads)
<1>1. First' = First /\ Second' = Second
  BY DEF TakesEffectNow, First, Second, PartOrder
<1>2. \A p : Uses(p)' <=> Uses(p)
  BY DEF Uses, TakesEffectNow
<1> QED BY <1>1, <1>2 DEF Orderly, TakesEffectNow


LEMMA Ages == now \in Time => /\ now \in Int /\ CallMax \in Int /\ Longest \in Int
                              /\ now - Longest \in Int /\ now - Longest <= now
BY DEF Time, Longest

LEMMA NothingPending == Orderly(<<>>) /\ \A what : ~Pending(<<>>, what)
BY DEF Orderly, Pending

LEMMA WorldKeeps ==
  ASSUME RolesInv, TakesEffectNow, RolesType', NothingToCome',
         UNCHANGED <<roleCache, roleNames, lookups>>
  PROVE  RolesInv'
<1>1. now \in Int /\ CallMax \in Int /\ now - Longest \in Int /\ now - Longest <= now
  BY Ages DEF RolesInv
<1>2. UNCHANGED <<impl, now>> /\ Standing' = Standing
  BY DEF TakesEffectNow
<1>3. AnswerSound(roleCache)'
  <2>1. SUFFICES ASSUME roleCache.at # Never PROVE AnswerSound(roleCache)'
    BY DEF AnswerSound
  <2>2. /\ roleCache.at <= now /\ roleCache.at \in Nat /\ roleCache.roles \in SUBSET Roles
        /\ Backed(roleCache.roles, roleCache.at - CallMax)
        /\ ~roleCache.failed => Given(<<>>, roleCache.roles, roleCache.at - CallMax)
    BY <2>1 DEF RolesInv, AnswerSound, RolesType, Moment, Time
  <2> DEFINE time == roleCache.at - CallMax
  <2>3. time \in Int /\ time <= now
    BY <1>1, <2>2, TimesAssumption
  <2>4. time' = time
    OBVIOUS
  <2> HIDE DEF time
  <2>5. Backed(roleCache.roles, time)'
    BY <2>2, <2>3, BackedStays DEF time
  <2>6. ~roleCache.failed => Given(<<>>, roleCache.roles, time)'
    BY <2>2, <2>3, GivenStays, NothingPending DEF time
  <2> QED BY <1>2, <2>2, <2>4, <2>5, <2>6 DEF AnswerSound, time
<1>4. ASSUME NEW l \in Asking, LookupRelies(l) PROVE LookupRelies(l)'
  <2>2. l.since \in Int /\ l.got \in SUBSET Roles
    BY DEF Asking, Time
  <2>3. CASE l.pc = "read"
    <3>1. /\ l.since <= now /\ now - l.since <= CallMax /\ Orderly(l.reads)
          /\ Pending(l.reads, "app") /\ ~Pending(l.reads, "names") =>
                 Standing \subseteq l.names \cap roleNames
          /\ Backed(l.got, l.since)
          /\ l.failed => l.reads = <<>> /\ l.got = {}
          /\ ~l.failed => Given(l.reads, l.got, l.since)
      BY <1>4, <2>3 DEF LookupRelies
    <3>2. Orderly(l.reads)'
      BY <3>1, OrderlyStays
    <3>3. Backed(l.got, l.since)'
      BY <2>2, <3>1, BackedStays
    <3>4. ~l.failed => Given(l.reads, l.got, l.since)'
      BY <2>2, <3>1, GivenStays
    <3>5. Pending(l.reads, "app")' /\ ~Pending(l.reads, "names")' =>
              Standing' \subseteq l.names \cap roleNames'
      BY <1>2, <3>1 DEF Pending
    <3>6. l.pc # "done"
      BY <2>3
    <3> QED BY <1>2, <3>1, <3>2, <3>3, <3>4, <3>5, <3>6 DEF LookupRelies
  <2>4. CASE l.pc = "done"
    <3> DEFINE time == now - Longest
    <3>1. Backed(l.got, time) /\ (~l.failed => Given(<<>>, l.got, time))
      BY <1>4, <2>4 DEF LookupRelies
    <3>2. time \in Int /\ time <= now /\ time' = time
      BY <1>1, <1>2 DEF Longest
    <3> HIDE DEF time
    <3>3. Backed(l.got, time)'
      BY <2>2, <3>1, <3>2, BackedStays DEF Backed
    <3>4. ~l.failed => Given(<<>>, l.got, time)'
      BY <2>2, <3>1, <3>2, GivenStays, NothingPending DEF Given
    <3>5. l.pc # "read"
      BY <2>4
    <3> QED BY <3>3, <3>4, <3>5 DEF LookupRelies, time
  <2>5. CASE l.pc # "read" /\ l.pc # "done"
    BY <2>5 DEF LookupRelies
  <2> QED BY <2>3, <2>4, <2>5
<1>5. ASSUME NEW t \in Threads PROVE LookupRelies(lookups[t])'
  <2>1. lookups[t] \in Asking /\ LookupRelies(lookups[t])
    BY DEF RolesInv, RolesType, Asking
  <2> QED BY <1>4, <2>1 DEF LookupRelies
<1> QED BY <1>2, <1>3, <1>5 DEF RolesInv, Time

LEMMA AdministerKeeps ==
  ASSUME RolesInv, UNCHANGED <<impl, now>>,
         (\E r \in Roles : Define(r)) \/ \E p \in Parts, r \in Roles : Grant(p, r) \/ Revoke(p, r)
  PROVE  RolesInv'
<1>1. now \in Nat /\ now # Never /\ now \in Moment /\ now \in Time
  BY DEF RolesInv, Time, Moment
<1>2. UNCHANGED <<roleSource, claims, roleCache, roleNames, lookups>> /\ roleEvents' \in 0 .. RoleEvents
  BY DEF Define, Grant, Revoke, Administer, RolesInv, RolesType
<1>3. /\ definedAt \in [Roles -> Moment]
      /\ grants \in [Parts -> [Roles -> [from : Moment, until : Moment]]]
  BY DEF RolesInv, RolesType
<1>4. CASE \E r \in Roles : Define(r)
  <2>1. PICK r \in Roles : /\ now > 0 /\ definedAt[r] = Never
                           /\ definedAt' = [definedAt EXCEPT ![r] = now] /\ grants' = grants
    BY <1>4 DEF Define, Administer
  <2>2. definedAt' \in [Roles -> Moment] /\ Standing' = Standing
    BY <1>1, <1>3, <2>1 DEF Standing
  <2>3. TakesEffectNow
    BY <1>2, <2>1, <2>2 DEF TakesEffectNow
  <2>4. RolesType' /\ NothingToCome'
    BY <1>2, <1>3, <2>1, <2>2 DEF RolesInv, RolesType, NothingToCome, Moment, Time
  <2> QED BY <1>2, <2>3, <2>4, WorldKeeps
<1>5. CASE \E p \in Parts, r \in Roles : Grant(p, r) \/ Revoke(p, r)
  <2>1. PICK p \in Parts, r \in Roles : Grant(p, r) \/ Revoke(p, r)
    BY <1>5
  <2> DEFINE old == grants[p][r]
  <2>2. definedAt' = definedAt
    BY <2>1 DEF Grant, Revoke, Administer
  <2>0. old \in [from : Moment, until : Moment]
    BY <1>3
  <2>3. \E new \in [from : Moment, until : Moment] :
            /\ grants' \in [Parts -> [Roles -> [from : Moment, until : Moment]]]
            /\ \A q \in Parts, s \in Roles :
                   grants'[q][s] = IF q = p /\ s = r THEN new ELSE grants[q][s]
            /\ new.from = old.from \/ (old.from = Never /\ new.from = now)
            /\ new.until = old.until \/ (old.until = Never /\ new.until = now)
    <3>1. CASE Grant(p, r)
      <4>1. grants' = [grants EXCEPT ![p][r].from = now] /\ old.from = Never
        BY <3>1 DEF Grant, Administer, Holds
      <4> DEFINE new == [old EXCEPT !.from = now]
      <4>2. new \in [from : Moment, until : Moment] /\ new.from = now /\ new.until = old.until
        BY <1>1, <2>0
      <4>3. \A q \in Parts, s \in Roles :
                grants'[q][s] = IF q = p /\ s = r THEN new ELSE grants[q][s]
        BY <1>3, <4>1
      <4>4. grants' \in [Parts -> [Roles -> [from : Moment, until : Moment]]]
        BY <1>1, <1>3, <4>1
      <4> HIDE DEF new
      <4> QED BY <4>1, <4>2, <4>3, <4>4
    <3>2. CASE Revoke(p, r)
      <4>1. grants' = [grants EXCEPT ![p][r].until = now] /\ old.until = Never
        BY <3>2 DEF Revoke, Administer, Holds
      <4> DEFINE new == [old EXCEPT !.until = now]
      <4>2. new \in [from : Moment, until : Moment] /\ new.until = now /\ new.from = old.from
        BY <1>1, <2>0
      <4>3. \A q \in Parts, s \in Roles :
                grants'[q][s] = IF q = p /\ s = r THEN new ELSE grants[q][s]
        BY <1>3, <4>1
      <4>4. grants' \in [Parts -> [Roles -> [from : Moment, until : Moment]]]
        BY <1>1, <1>3, <4>1
      <4> HIDE DEF new
      <4> QED BY <4>1, <4>2, <4>3, <4>4
    <3> QED BY <2>1, <3>1, <3>2
  <2>8. PICK new \in [from : Moment, until : Moment] :
            /\ grants' \in [Parts -> [Roles -> [from : Moment, until : Moment]]]
            /\ \A q \in Parts, s \in Roles :
                   grants'[q][s] = IF q = p /\ s = r THEN new ELSE grants[q][s]
            /\ new.from = old.from \/ (old.from = Never /\ new.from = now)
            /\ new.until = old.until \/ (old.until = Never /\ new.until = now)
    BY <2>3
  <2>5. TakesEffectNow
    BY <1>2, <2>2, <2>8, <2>8 DEF TakesEffectNow, Standing
  <2>6. RolesType'
    BY <1>2, <1>3, <2>2, <2>8 DEF RolesInv, RolesType, Moment, Time
  <2>7. NothingToCome'
    <3>1. \A q \in Parts, s \in Roles :
              /\ grants[q][s].from # Never => grants[q][s].from <= now
              /\ grants[q][s].until # Never => grants[q][s].until <= now
      BY DEF RolesInv, NothingToCome
    <3>2. /\ new.from # Never => new.from <= now
          /\ new.until # Never => new.until <= now
      BY <1>1, <2>8, <3>1
    <3>3. now' = now
      OBVIOUS
    <3>4. ASSUME NEW q \in Parts, NEW s \in Roles
          PROVE  /\ grants'[q][s].from # Never => grants'[q][s].from <= now
                 /\ grants'[q][s].until # Never => grants'[q][s].until <= now
      <4>1. CASE q = p /\ s = r
        BY <2>8, <3>2, <4>1
      <4>2. CASE ~(q = p /\ s = r)
        <5>1. grants'[q][s] = grants[q][s]
          BY <2>8, <4>2
        <5> QED BY <3>1, <5>1
      <4> QED BY <4>1, <4>2
    <3> QED BY <3>3, <3>4 DEF NothingToCome
  <2> QED BY <1>2, <2>5, <2>6, <2>7, WorldKeeps
<1> QED BY <1>4, <1>5


-----------------------------------------------------------------------------
(* The steps of a lookup.                                                    *)
LEMMA PlanOfPart ==
  ASSUME NEW p \in Parts
  PROVE  /\ PartReads(p) \in Seq({"names", "app", "group"})
         /\ ~Uses(p) => Len(PartReads(p)) = 0
         /\ Uses(p) => \/ /\ Len(PartReads(p)) = 1 /\ PartReads(p)[1] = p
                          /\ p = "app" => roleNames # {}
                       \/ /\ Len(PartReads(p)) = 2 /\ p = "app"
                          /\ PartReads(p)[1] = "names" /\ PartReads(p)[2] = p
<1>1. CASE ~Uses(p)
  BY <1>1 DEF PartReads
<1>2. CASE Uses(p) /\ p = "app" /\ roleNames = {}
  BY <1>2 DEF PartReads
<1>3. CASE Uses(p) /\ ~(p = "app" /\ roleNames = {})
  BY <1>3 DEF PartReads, Parts
<1> QED BY <1>1, <1>2, <1>3


LEMMA PlanOfAll ==
  ASSUME RolesInv
  PROVE  /\ Reads \in Seq({"names", "app", "group"})
         /\ Orderly(Reads)
         /\ \A p \in Parts : Uses(p) => Pending(Reads, p)
         /\ Pending(Reads, "app") /\ ~Pending(Reads, "names") => roleNames # {}
<1> DEFINE a == PartReads(First)
           b == PartReads(Second)
<1>1. Reads = a \o b
  BY DEF Reads, First, Second
<1>2. /\ First \in Parts /\ Second \in Parts /\ First # Second
      /\ \A p \in Parts : p = First \/ p = Second
      /\ First # "names" /\ Second # "names"
  BY Orders DEF RolesInv, Parts
<1>3. /\ a \in Seq({"names", "app", "group"})
      /\ ~Uses(First) => Len(a) = 0
      /\ Uses(First) => \/ Len(a) = 1 /\ a[1] = First /\ (First = "app" => roleNames # {})
                        \/ Len(a) = 2 /\ First = "app" /\ a[1] = "names" /\ a[2] = First
  BY <1>2, PlanOfPart
<1>4. /\ b \in Seq({"names", "app", "group"})
      /\ ~Uses(Second) => Len(b) = 0
      /\ Uses(Second) => \/ Len(b) = 1 /\ b[1] = Second /\ (Second = "app" => roleNames # {})
                         \/ Len(b) = 2 /\ Second = "app" /\ b[1] = "names" /\ b[2] = Second
  BY <1>2, PlanOfPart
<1>5. Reads \in Seq({"names", "app", "group"})
  BY <1>1, <1>3, <1>4
<1>6. roleSource = "both" => Uses(First) /\ Uses(Second)
  BY <1>2 DEF Uses, Parts
<1> HIDE DEF a, b
<1>7. /\ Len(Reads) = Len(a) + Len(b) /\ DOMAIN Reads = 1 .. Len(a) + Len(b)
      /\ Len(a) \in Nat /\ Len(b) \in Nat
      /\ \A i \in 1 .. Len(a) : Reads[i] = a[i]
      /\ \A i \in 1 .. Len(b) : Reads[Len(a) + i] = b[i]
  BY <1>1, <1>3, <1>4
<1>8. \A i \in DOMAIN Reads : i \in 1 .. Len(a) \/ \E j \in 1 .. Len(b) : i = Len(a) + j
  <2> SUFFICES ASSUME NEW i \in DOMAIN Reads, i \notin 1 .. Len(a)
               PROVE  \E j \in 1 .. Len(b) : i = Len(a) + j
    OBVIOUS
  <2>1. i - Len(a) \in 1 .. Len(b) /\ i = Len(a) + (i - Len(a))
    BY <1>7
  <2> QED BY <2>1
<1>13. Uses(First) => Len(a) \in DOMAIN Reads /\ Reads[Len(a)] = First
  BY <1>3, <1>7
<1>14. Uses(Second) => /\ Len(a) + Len(b) \in DOMAIN Reads /\ Reads[Len(a) + Len(b)] = Second
                       /\ Len(b) > 0
  BY <1>4, <1>7
<1>15. ASSUME NEW i \in DOMAIN Reads
       PROVE  \/ Uses(First) /\ i = Len(a) /\ Reads[i] = First
              \/ Uses(First) /\ i = Len(a) - 1 /\ Reads[i] = "names" /\ First = "app" /\ i = 1
              \/ Uses(Second) /\ i = Len(a) + Len(b) /\ Reads[i] = Second
              \/ /\ Uses(Second) /\ i = Len(a) + Len(b) - 1 /\ Reads[i] = "names"
                 /\ Second = "app" /\ i > Len(a)
  <2>1. CASE i \in 1 .. Len(a)
    <3>1. Uses(First) /\ Reads[i] = a[i]
      BY <1>3, <1>7, <2>1
    <3>2. CASE Len(a) = 1
      BY <1>3, <2>1, <3>1, <3>2
    <3>3. CASE Len(a) = 2
      <4>1. i = 1 \/ i = 2
        BY <2>1, <3>3
      <4> QED BY <1>3, <3>1, <3>3, <4>1
    <3> QED BY <1>3, <3>1, <3>2, <3>3
  <2>2. CASE i \notin 1 .. Len(a)
    <3>1. PICK j \in 1 .. Len(b) : i = Len(a) + j
      BY <1>8, <2>2
    <3>2. Uses(Second) /\ Reads[i] = b[j] /\ i > Len(a)
      BY <1>4, <1>7, <3>1
    <3>3. CASE Len(b) = 1
      <4>1. j = 1
        BY <3>1, <3>3
      <4>2. b[j] = Second
        BY <1>4, <3>2, <3>3, <4>1
      <4> QED BY <3>1, <3>2, <3>3, <4>1, <4>2
    <3>4. CASE Len(b) = 2
      <4>1. j = 1 \/ j = 2
        BY <3>1, <3>4
      <4>2. Second = "app" /\ b[1] = "names" /\ b[2] = Second
        BY <1>4, <3>2, <3>4
      <4>3. CASE j = 1
        <5>1. Reads[i] = "names" /\ i = Len(a) + Len(b) - 1
          BY <1>7, <3>1, <3>2, <3>4, <4>2, <4>3
        <5> QED BY <3>2, <4>2, <5>1
      <4>4. CASE j = 2
        <5>1. Reads[i] = Second /\ i = Len(a) + Len(b)
          BY <1>7, <3>1, <3>2, <3>4, <4>2, <4>4
        <5> QED BY <3>2, <5>1
      <4> QED BY <4>1, <4>3, <4>4
    <3> QED BY <1>4, <3>2, <3>3, <3>4
  <2> QED BY <2>1, <2>2
<1>9. Uses(First) => Pending(Reads, First)
  BY <1>3, <1>7 DEF Pending
<1>10. Uses(Second) => Pending(Reads, Second)
  BY <1>4, <1>7 DEF Pending
<1>11. Pending(Reads, "app") /\ ~Pending(Reads, "names") => roleNames # {}
  <2> SUFFICES ASSUME Pending(Reads, "app"), ~Pending(Reads, "names"), roleNames = {}
               PROVE  FALSE
    OBVIOUS
  <2>1. PICK i \in DOMAIN Reads : Reads[i] = "app"
    BY DEF Pending
  <2>2. (First = "app" /\ Uses(First)) \/ (Second = "app" /\ Uses(Second))
    BY <1>15, <2>1
  <2>3. CASE First = "app" /\ Uses(First)
    <3>1. 1 \in DOMAIN Reads /\ Reads[1] = "names"
      BY <1>3, <1>7, <2>3
    <3> QED BY <3>1 DEF Pending
  <2>4. CASE Second = "app" /\ Uses(Second)
    <3>0. Len(b) = 2 /\ b[1] = "names" /\ 1 \in 1 .. Len(b)
      BY <1>4, <2>4
    <3>1. Len(a) + 1 \in DOMAIN Reads /\ Reads[Len(a) + 1] = "names"
      BY <1>7, <3>0
    <3> QED BY <3>1 DEF Pending
  <2> QED BY <2>2, <2>3, <2>4
<1>12. Orderly(Reads)
  <2> SUFFICES ASSUME NEW i \in DOMAIN Reads
               PROVE  /\ Reads[i] \in Parts => Uses(Reads[i])
                      /\ \A j \in DOMAIN Reads : Reads[i] = Reads[j] => i = j
                      /\ Reads[i] = First /\ roleSource = "both" =>
                             \E j \in DOMAIN Reads : j > i /\ Reads[j] = Second
                      /\ Reads[i] = "names" =>
                             \E j \in DOMAIN Reads : j > i /\ Reads[j] = "app"
    BY DEF Orderly
  <2>1. Reads[i] \in Parts => Uses(Reads[i])
    <3>1. "names" \notin Parts
      BY DEF Parts
    <3> QED BY <1>15, <3>1
  <2>2. \A j \in DOMAIN Reads : Reads[i] = Reads[j] => i = j
    BY <1>2, <1>15
  <2>3. Reads[i] = First /\ roleSource = "both" =>
            \E j \in DOMAIN Reads : j > i /\ Reads[j] = Second
    BY <1>2, <1>6, <1>7, <1>14, <1>15
  <2>4. Reads[i] = "names" => \E j \in DOMAIN Reads : j > i /\ Reads[j] = "app"
    BY <1>2, <1>7, <1>13, <1>14, <1>15
  <2> QED BY <2>1, <2>2, <2>3, <2>4
<1> QED BY <1>2, <1>5, <1>9, <1>10, <1>11, <1>12

(* What is left of the plan after a read.                                    *)
LEMMA PlanGoesOn ==
  ASSUME NEW reads \in Seq({"names", "app", "group"}), reads # <<>>, Orderly(reads)
  PROVE  /\ Orderly(Tail(reads)) /\ Tail(reads) \in Seq({"names", "app", "group"})
         /\ Pending(reads, Head(reads)) /\ Head(reads) \in {"names", "app", "group"}
         /\ Head(reads) \in Parts => Uses(Head(reads))
         /\ ~Pending(Tail(reads), Head(reads))
         /\ \A what : what # Head(reads) => (Pending(Tail(reads), what) <=> Pending(reads, what))
<1> DEFINE tail == Tail(reads)
<1>1. /\ tail \in Seq({"names", "app", "group"})
      /\ DOMAIN tail = 1 .. Len(reads) - 1 /\ DOMAIN reads = 1 .. Len(reads)
      /\ Len(reads) \in Nat \ {0}
      /\ \A i \in DOMAIN tail : tail[i] = reads[i + 1]
      /\ Head(reads) = reads[1] /\ Head(reads) \in {"names", "app", "group"}
  OBVIOUS
<1> HIDE DEF tail
<1>2. 1 \in DOMAIN reads /\ \A i \in DOMAIN tail : i + 1 \in DOMAIN reads /\ i + 1 # 1 /\ i \in Int
  BY <1>1
<1>3. \A j \in DOMAIN reads : j = 1 \/ (j - 1 \in DOMAIN tail /\ (j - 1) + 1 = j)
  BY <1>1
<1>4. Orderly(tail)
  <2> SUFFICES ASSUME NEW i \in DOMAIN tail
               PROVE  /\ tail[i] \in Parts => Uses(tail[i])
                      /\ \A j \in DOMAIN tail : tail[i] = tail[j] => i = j
                      /\ tail[i] = First /\ roleSource = "both" =>
                             \E j \in DOMAIN tail : j > i /\ tail[j] = Second
                      /\ tail[i] = "names" => \E j \in DOMAIN tail : j > i /\ tail[j] = "app"
    BY DEF Orderly
  <2>1. ASSUME NEW what, \E j \in DOMAIN reads : j > i + 1 /\ reads[j] = what
        PROVE  \E j \in DOMAIN tail : j > i /\ tail[j] = what
    <3>1. PICK j \in DOMAIN reads : j > i + 1 /\ reads[j] = what
      BY <2>1
    <3>2. j - 1 \in DOMAIN tail /\ j - 1 > i /\ tail[j - 1] = what
      BY <1>1, <1>2, <1>3, <3>1
    <3> QED BY <3>2
  <2>2. i + 1 \in DOMAIN reads /\ tail[i] = reads[i + 1]
    BY <1>1, <1>2
  <2>3. \A j \in DOMAIN tail : tail[i] = tail[j] => i = j
    <3> SUFFICES ASSUME NEW j \in DOMAIN tail, tail[i] = tail[j] PROVE i = j
      OBVIOUS
    <3>1. j + 1 \in DOMAIN reads /\ reads[i + 1] = reads[j + 1]
      BY <1>1, <1>2
    <3>2. i + 1 = j + 1
      BY <2>2, <3>1 DEF Orderly
    <3> QED BY <1>2, <3>2
  <2>4. tail[i] \in Parts => Uses(tail[i])
    BY <2>2 DEF Orderly
  <2>5. tail[i] = First /\ roleSource = "both" =>
            \E j \in DOMAIN reads : j > i + 1 /\ reads[j] = Second
    BY <2>2 DEF Orderly
  <2>6. tail[i] = "names" => \E j \in DOMAIN reads : j > i + 1 /\ reads[j] = "app"
    BY <2>2 DEF Orderly
  <2> QED BY <2>1, <2>3, <2>4, <2>5, <2>6
<1>5. Pending(reads, Head(reads)) /\ (Head(reads) \in Parts => Uses(Head(reads)))
  BY <1>1, <1>2 DEF Pending, Orderly
<1>6. ~Pending(tail, Head(reads))
  BY <1>1, <1>2 DEF Pending, Orderly
<1>7. \A what : Pending(tail, what) => Pending(reads, what)
  BY <1>1, <1>2 DEF Pending
<1>8. ASSUME NEW what, what # Head(reads), Pending(reads, what)
      PROVE  Pending(tail, what)
  <2>1. PICK j \in DOMAIN reads : reads[j] = what
    BY <1>8 DEF Pending
  <2>2. j - 1 \in DOMAIN tail /\ tail[j - 1] = what
    BY <1>1, <1>3, <1>8, <2>1
  <2> QED BY <2>2 DEF Pending
<1> QED BY <1>1, <1>4, <1>5, <1>6, <1>7, <1>8 DEF tail


LEMMA RolesStart == BaseInit /\ RolesInit => RolesInv
<1> SUFFICES ASSUME BaseInit, RolesInit PROVE RolesInv
  OBVIOUS
<1>1. now \in Time /\ now = 0 /\ impl \in Impls /\ 0 \in Moment /\ Never \in Moment /\ 0 # Never
  BY DEF BaseInit, Time, Moment
<1>2. NoLookup \in Asking /\ NoLookup.pc = "idle"
  BY <1>1 DEF NoLookup, Asking, Time
<1>3. lookups \in [Threads -> Asking] /\ \A t \in Threads : lookups[t].pc = "idle"
  BY <1>2 DEF RolesInit
<1>4. definedAt \in [Roles -> Moment]
  BY <1>1 DEF RolesInit
<1>5. /\ grants \in [Parts -> [Roles -> [from : Moment, until : Moment]]]
      /\ \A p \in Parts, r \in Roles : /\ grants[p][r].from # Never => grants[p][r].from = 0
                                       /\ grants[p][r].until = Never
  <2> DEFINE given == {[from |-> f, until |-> Never] : f \in {0, Never}}
  <2>1. /\ given \subseteq [from : Moment, until : Moment]
        /\ \A g \in given : (g.from # Never => g.from = 0) /\ g.until = Never
    BY <1>1
  <2>2. grants \in [Parts -> [Roles -> given]]
    BY DEF RolesInit
  <2> HIDE DEF given
  <2> QED BY <2>1, <2>2
<1>6. roleCache \in [at : Moment, roles : SUBSET Roles, failed : BOOLEAN] /\ roleCache.at = Never
  BY <1>1 DEF RolesInit, NoAnswer
<1>7. RolesType
  BY <1>3, <1>4, <1>5, <1>6, RolesAssumption DEF RolesInit, RolesType, Asking
<1>8. \A t \in Threads : LookupRelies(lookups[t])
  BY <1>3 DEF LookupRelies
<1> QED BY <1>1, <1>5, <1>6, <1>7, <1>8 DEF RolesInv, AnswerSound, NothingToCome, RolesInit

(* One thread's step; it may fill the cache or the role names.               *)
LEMMA AskMoves ==
  ASSUME RolesInv, NEW t \in Threads, NEW r \in Asking,
         lookups' = [lookups EXCEPT ![t] = r],
         UNCHANGED <<impl, now, roleSource, claims, definedAt, grants, roleEvents>>,
         roleCache' \in [at : Moment, roles : SUBSET Roles, failed : BOOLEAN],
         AnswerSound(roleCache'),
         roleNames' \in SUBSET Roles, (roleNames' = roleNames \/ Standing \subseteq roleNames'),
         roleNames' # {} => Standing \subseteq roleNames',
         r.pc = "read" =>
             /\ r.since <= now /\ now - r.since <= CallMax
             /\ Orderly(r.reads)
             /\ Pending(r.reads, "app") /\ ~Pending(r.reads, "names") =>
                    Standing \subseteq r.names \cap roleNames'
             /\ Backed(r.got, r.since)
             /\ r.failed => r.reads = <<>> /\ r.got = {}
             /\ ~r.failed => Given(r.reads, r.got, r.since),
         r.pc = "done" =>
             /\ Backed(r.got, now - Longest)
             /\ ~r.failed => Given(<<>>, r.got, now - Longest)
  PROVE  RolesInv'
<1>1. lookups' \in [Threads -> Asking]
  BY DEF RolesInv, RolesType, Asking
<1>2. \A u \in Threads : lookups'[u] = IF u = t THEN r ELSE lookups[u]
  BY DEF RolesInv, RolesType
<1>3. /\ \A got, time : Backed(got, time)' <=> Backed(got, time)
      /\ \A reads, got, time : Given(reads, got, time)' <=> Given(reads, got, time)
      /\ \A reads : Orderly(reads)' <=> Orderly(reads)
      /\ Standing' = Standing
  BY SameWorld
<1>4. RolesType'
  BY <1>1 DEF RolesInv, RolesType, Asking
<1>5. NothingToCome'
  BY DEF RolesInv, NothingToCome
<1>6. AnswerSound(roleCache)'
  BY <1>3 DEF AnswerSound
<1>7. LookupRelies(r)'
  BY <1>3 DEF LookupRelies, Pending, Longest
<1>8. ASSUME NEW l, LookupRelies(l) PROVE LookupRelies(l)'
  BY <1>3, <1>8 DEF LookupRelies, Pending, Longest
<1>9. ASSUME NEW u \in Threads PROVE LookupRelies(lookups[u])'
  <2>1. CASE u = t
    <3>1. lookups'[u] = r
      BY <1>2, <2>1
    <3> QED BY <1>7, <3>1 DEF LookupRelies
  <2>2. CASE u # t
    <3>1. lookups'[u] = lookups[u] /\ LookupRelies(lookups[u])
      BY <1>2, <2>2 DEF RolesInv
    <3>2. LookupRelies(lookups[u])'
      BY <1>8, <3>1 DEF LookupRelies
    <3> QED BY <3>2
  <2> QED BY <2>1, <2>2
<1> QED BY <1>3, <1>4, <1>5, <1>6, <1>9 DEF RolesInv, Time, Impls


LEMMA Unasked ==
  NoLookup \in Asking /\ NoLookup.got = {} /\ NoLookup.failed = FALSE /\ NoLookup.pc = "idle"
<1>1. 0 \in Time
  BY DEF Time
<1> QED BY <1>1 DEF NoLookup, Asking

LEMMA RolesForKeeps ==
  ASSUME RolesInv, NEW t \in Threads, RolesFor(t), UNCHANGED <<impl, now>>
  PROVE  RolesInv'
<1>1. /\ UNCHANGED <<impl, now, roleSource, claims, roleCache, roleNames, definedAt, grants, roleEvents>>
      /\ roleCache \in [at : Moment, roles : SUBSET Roles, failed : BOOLEAN]
      /\ AnswerSound(roleCache) /\ roleNames \in SUBSET Roles /\ now \in Time
      /\ roleNames # {} => Standing \subseteq roleNames
      /\ claims \in [roles : SUBSET Roles, mapped : SUBSET Roles, oid : BOOLEAN]
  BY DEF RolesFor, RolesInv, RolesType
<1>2. now \in Int /\ now - Longest \in Int
  BY <1>1, Ages
<1> DEFINE
      Right(r) ==
          /\ lookups' = [lookups EXCEPT ![t] = r]
          /\ r.pc = "read" =>
               /\ r.since <= now /\ now - r.since <= CallMax
               /\ Orderly(r.reads)
               /\ Pending(r.reads, "app") /\ ~Pending(r.reads, "names") =>
                      Standing \subseteq r.names \cap roleNames
               /\ Backed(r.got, r.since)
               /\ r.failed => r.reads = <<>> /\ r.got = {}
               /\ ~r.failed => Given(r.reads, r.got, r.since)
          /\ r.pc = "done" => /\ Backed(r.got, now - Longest)
                              /\ ~r.failed => Given(<<>>, r.got, now - Longest)
<1>3. SUFFICES \E r \in Asking : Right(r)
  BY <1>1, AskMoves
<1> HIDE DEF Right
<1>4. ASSUME NEW roles \in SUBSET Roles,
             lookups' = [lookups EXCEPT ![t] = [NoLookup EXCEPT !.pc = "claims", !.got = roles]]
      PROVE  \E r \in Asking : Right(r)
  <2> DEFINE r == [NoLookup EXCEPT !.pc = "claims", !.got = roles]
  <2>1. r \in Asking /\ r.pc = "claims"
    BY Unasked DEF Asking
  <2> HIDE DEF r
  <2> QED BY <1>4, <2>1 DEF r, Right
<1>5. CASE lookups' = [lookups EXCEPT ![t] =
                  [[NoLookup EXCEPT !.pc = "done", !.got = roleCache.roles]
                      EXCEPT !.failed = roleCache.failed]] /\ RoleHit
  <2> DEFINE r == [[NoLookup EXCEPT !.pc = "done", !.got = roleCache.roles]
                      EXCEPT !.failed = roleCache.failed]
  <2>1. r \in Asking /\ r.pc = "done" /\ r.got = roleCache.roles /\ r.failed = roleCache.failed
    BY <1>1, Unasked DEF Asking
  <2> HIDE DEF r
  <2>2. /\ roleCache.at # Never /\ roleCache.at \in Int /\ now - roleCache.at < RoleTtl
        /\ roleCache.at <= now
        /\ Backed(roleCache.roles, roleCache.at - CallMax)
        /\ ~roleCache.failed => Given(<<>>, roleCache.roles, roleCache.at - CallMax)
    BY <1>1, <1>5 DEF RoleHit, AnswerSound, Moment, Time
  <2>3. roleCache.at - CallMax \in Int /\ now - Longest <= roleCache.at - CallMax
    BY <1>2, <2>2, TimesAssumption, RolesAssumption DEF Longest
  <2>4. Backed(roleCache.roles, now - Longest)
    BY <1>1, <1>2, <2>2, <2>3, BackedBefore
  <2>5. ~roleCache.failed => Given(<<>>, roleCache.roles, now - Longest)
    BY <1>2, <2>2, <2>3, GivenBefore
  <2> QED BY <1>5, <2>1, <2>4, <2>5 DEF r, Right
<1>6. CASE lookups' = [lookups EXCEPT ![t] = [NoLookup EXCEPT !.pc = "read", !.reads = Reads,
                                                !.names = roleNames, !.since = now]]
  <2> DEFINE r == [NoLookup EXCEPT !.pc = "read", !.reads = Reads,
                                  !.names = roleNames, !.since = now]
  <2>1. Reads \in Seq({"names", "app", "group"})
    BY PlanOfAll
  <2>2. /\ r \in Asking /\ r.pc = "read" /\ r.got = {} /\ r.failed = FALSE
        /\ r.reads = Reads /\ r.names = roleNames /\ r.since = now
    BY <1>1, <2>1 DEF NoLookup, Asking
  <2> HIDE DEF r
  <2>3. Pending(Reads, "app") /\ ~Pending(Reads, "names") => Standing \subseteq roleNames
    BY <1>1, PlanOfAll
  <2>4. Given(Reads, {}, now)
    <3>1. roleSource = "both" => Uses(Second)
      BY DEF Uses
    <3>2. Second \in Parts
      BY Orders DEF RolesInv
    <3> QED BY <3>1, <3>2, PlanOfAll DEF Given, HeldSince, MovedSince
  <2>5. Backed({}, now)
    BY DEF Backed
  <2>6. now <= now /\ now - now <= CallMax
    BY <1>2, TimesAssumption
  <2> QED BY <1>6, <2>2, <2>3, <2>4, <2>5, <2>6, PlanOfAll DEF r, Right
<1>7. claims.roles \in SUBSET Roles /\ claims.mapped \in SUBSET Roles
  BY <1>1
<1> QED BY <1>4, <1>5, <1>6, <1>7 DEF RolesFor

LEMMA LookupKeeps ==
  ASSUME RolesInv, NEW t \in Threads, Lookup(t), UNCHANGED <<impl, now>>
  PROVE  RolesInv'
<1> DEFINE l == lookups[t]
           what == Head(l.reads)
           found == CASE what = "names" -> {}
                      [] what = "app"   -> Holds("app") \cap Named(t)
                      [] what = "group" -> Holds("group")
           named == IF what = "names" THEN roleNames' ELSE l.names
           read == [l EXCEPT !.reads = Tail(l.reads), !.got = l.got \cup found]
           r == [l EXCEPT !.reads = Tail(l.reads), !.got = l.got \cup found, !.names = named]
<1>1. /\ l \in Asking /\ l.pc = "read" /\ l.reads # <<>>
      /\ IF what = "names" THEN roleNames' \in NamesRead(t) ELSE roleNames' = roleNames
      /\ lookups' = [lookups EXCEPT ![t] = r]
      /\ UNCHANGED <<impl, now, roleSource, claims, roleCache, definedAt, grants, roleEvents>>
  <2>1. l \in Asking
    BY DEF RolesInv, RolesType, Asking
  <2>2. /\ l.pc = "read" /\ l.reads # <<>>
        /\ UNCHANGED <<impl, now, roleSource, claims, roleCache, definedAt, grants, roleEvents>>
    BY DEF Lookup
  <2>3. CASE what = "names"
    <3>1. PICK names \in NamesRead(t) :
              /\ roleNames' = names
              /\ lookups' = [lookups EXCEPT ![t] = [read EXCEPT !.names = names]]
      BY <2>3 DEF Lookup
    <3>2. [read EXCEPT !.names = names] = r
      BY <2>1, <2>3, <3>1 DEF Asking
    <3> QED BY <2>1, <2>2, <2>3, <3>1, <3>2
  <2>4. CASE what # "names"
    <3>1. lookups' = [lookups EXCEPT ![t] = read] /\ roleNames' = roleNames
      BY <2>4 DEF Lookup
    <3>2. read = r
      BY <2>1, <2>4 DEF Asking
    <3> QED BY <2>1, <2>2, <2>4, <3>1, <3>2
  <2> QED BY <2>3, <2>4
<1>2. /\ l.since <= now /\ now - l.since <= CallMax /\ Orderly(l.reads)
      /\ Pending(l.reads, "app") /\ ~Pending(l.reads, "names") =>
             Standing \subseteq l.names \cap roleNames
      /\ Backed(l.got, l.since)
      /\ ~l.failed /\ Given(l.reads, l.got, l.since)
  BY <1>1 DEF RolesInv, LookupRelies
<1>3. /\ l.reads \in Seq({"names", "app", "group"}) /\ l.got \in SUBSET Roles
      /\ l.names \in SUBSET Roles /\ roleNames \in SUBSET Roles
      /\ l.since \in Time /\ l.failed \in BOOLEAN
      /\ definedAt \in [Roles -> Moment]
  BY <1>1 DEF RolesInv, RolesType, Asking
<1>4. /\ roleNames' \in SUBSET Roles
      /\ what = "names" => Standing \subseteq roleNames'
  <2>1. ASSUME NEW time \in Time
        PROVE  DefinedAt(time) \in SUBSET Roles /\ Standing \subseteq DefinedAt(time)
    BY TimesAssumption DEF DefinedAt, Defined, Standing, Time
  <2>2. \A time \in l.since .. now : time \in Time
    BY <1>3 DEF RolesInv, Time
  <2>3. \A names \in NamesRead(t) : names \in SUBSET Roles /\ Standing \subseteq names
    BY <1>3, <2>1, <2>2 DEF RolesInv, NamesRead
  <2> QED BY <1>1, <1>3, <2>3
<1>5. /\ Orderly(Tail(l.reads)) /\ Tail(l.reads) \in Seq({"names", "app", "group"})
      /\ what \in {"names", "app", "group"}
      /\ what \in Parts => Uses(what)
      /\ Pending(l.reads, what) /\ ~Pending(Tail(l.reads), what)
      /\ \A w : w # what => (Pending(Tail(l.reads), w) <=> Pending(l.reads, w))
  BY <1>1, <1>2, <1>3, PlanGoesOn
<1>6. found \in SUBSET Roles
  BY <1>5 DEF Holds
<1>7. named \in SUBSET Roles
  BY <1>3, <1>4
<1>8. /\ r \in Asking /\ r.pc = "read" /\ r.since = l.since /\ r.failed = l.failed
      /\ r.reads = Tail(l.reads) /\ r.got = l.got \cup found /\ r.names = named
  BY <1>1, <1>3, <1>5, <1>6, <1>7 DEF Asking
<1>9. Backed(l.got \cup found, l.since)
  <2>1. \A x \in found : \E p \in Parts : Uses(p) /\ x \in Holds(p)
    BY <1>5 DEF Parts
  <2> HIDE DEF found
  <2> QED BY <1>2, <2>1 DEF Backed, Holds
<1>10. /\ roleNames' \in SUBSET Roles /\ (roleNames' = roleNames \/ Standing \subseteq roleNames')
       /\ roleNames' # {} => Standing \subseteq roleNames'
  BY <1>1, <1>3, <1>4 DEF RolesInv
<1>11. Pending(Tail(l.reads), "app") /\ ~Pending(Tail(l.reads), "names") =>
           Standing \subseteq named \cap roleNames'
  <2>1. CASE what = "names"
    BY <1>1, <1>4, <2>1
  <2>2. CASE what # "names"
    BY <1>1, <1>2, <1>5, <2>2
  <2> QED BY <2>1, <2>2
<1>12. what \in Parts => Standing \cap Holds(what) \subseteq found
  <2>1. what # "names" => (what = "app" => Standing \subseteq Named(t))
    <3>1. what = "app" => ~Pending(l.reads, "names")
      <4> SUFFICES ASSUME what = "app", Pending(l.reads, "names") PROVE FALSE
        OBVIOUS
      <4>1. PICK i \in DOMAIN l.reads : l.reads[i] = "names"
        BY DEF Pending
      <4>2. PICK j \in DOMAIN l.reads : j > i /\ l.reads[j] = "app"
        BY <1>2, <4>1 DEF Orderly
      <4>3. 1 \in DOMAIN l.reads /\ l.reads[1] = "app" /\ j # 1
        BY <1>1, <1>3, <4>1, <4>2
      <4> QED BY <1>2, <4>2, <4>3 DEF Orderly
    <3> QED BY <1>2, <1>5, <3>1 DEF Named
  <2> QED BY <2>1 DEF Parts
<1>13. Given(Tail(l.reads), l.got \cup found, l.since)
  <2> HIDE DEF found, what, l
  <2>1. First \in Parts /\ Second \in Parts /\ "names" \notin Parts
    BY Orders DEF RolesInv, Parts
  <2>2. ASSUME NEW x \in Standing, NEW p \in Parts,
               HeldSince(p, x, l.since), ~Pending(Tail(l.reads), p)
        PROVE  x \in l.got \cup found
    <3>1. CASE p = what
      <4>1. x \in Holds(p)
        BY <2>2 DEF HeldSince, Holds, Standing
      <4> QED BY <1>12, <3>1, <4>1
    <3>2. CASE p # what
      BY <1>2, <1>5, <2>2, <3>2 DEF Given
    <3> QED BY <3>1, <3>2
  <2>3. ASSUME NEW x \in Standing, MovedSince(x, l.since), ~Pending(Tail(l.reads), Second)
        PROVE  x \in l.got \cup found
    <3>1. CASE Second = what
      <4>1. x \in Holds(Second)
        BY <2>3 DEF MovedSince, Holds, Standing
      <4> QED BY <1>12, <2>1, <3>1, <4>1
    <3>2. CASE Second # what
      BY <1>2, <1>5, <2>3, <3>2 DEF Given
    <3> QED BY <3>1, <3>2
  <2> QED BY <2>2, <2>3 DEF Given
<1> HIDE DEF l, what, found, named, r, read
<1>14. /\ roleCache' \in [at : Moment, roles : SUBSET Roles, failed : BOOLEAN]
       /\ AnswerSound(roleCache')
  BY <1>1 DEF RolesInv, RolesType
<1> QED BY <1>1, <1>2, <1>5, <1>8, <1>9, <1>10, <1>11, <1>13, <1>14, AskMoves


LEMMA LookupFailsKeeps ==
  ASSUME RolesInv, NEW t \in Threads, LookupFails(t), UNCHANGED <<impl, now>>
  PROVE  RolesInv'
<1> DEFINE r == [lookups[t] EXCEPT !.reads = <<>>, !.got = {}, !.failed = TRUE]
<1>1. /\ lookups[t].pc = "read" /\ lookups' = [lookups EXCEPT ![t] = r]
      /\ UNCHANGED <<impl, now, roleSource, claims, roleCache, roleNames, definedAt, grants, roleEvents>>
  BY DEF LookupFails
<1>2. lookups[t] \in Asking /\ LookupRelies(lookups[t])
  BY DEF RolesInv, RolesType, Asking
<1>3. /\ r \in Asking /\ r.pc = "read" /\ r.since = lookups[t].since
      /\ r.reads = <<>> /\ r.got = {} /\ r.failed = TRUE
  <2>1. <<>> \in Seq({"names", "app", "group"}) /\ {} \in SUBSET Roles
    OBVIOUS
  <2> QED BY <1>1, <1>2, <2>1 DEF Asking
<1>4. lookups[t].since <= now /\ now - lookups[t].since <= CallMax
  BY <1>1, <1>2 DEF LookupRelies
<1>5. Backed({}, r.since)
  BY DEF Backed
<1>6. /\ roleCache' \in [at : Moment, roles : SUBSET Roles, failed : BOOLEAN]
      /\ AnswerSound(roleCache')
      /\ roleNames' \in SUBSET Roles /\ (roleNames' = roleNames \/ Standing \subseteq roleNames')
      /\ roleNames' # {} => Standing \subseteq roleNames'
  BY <1>1 DEF RolesInv, RolesType
<1> HIDE DEF r
<1> QED BY <1>1, <1>3, <1>4, <1>5, <1>6, NothingPending, AskMoves

LEMMA LookupDoneKeeps ==
  ASSUME RolesInv, NEW t \in Threads, LookupDone(t), UNCHANGED <<impl, now>>
  PROVE  RolesInv'
<1> DEFINE l == lookups[t]
           c == [at |-> now, roles |-> l.got, failed |-> l.failed]
           r == IF l.got = {} THEN [NoLookup EXCEPT !.pc = "claims", !.got = claims.roles]
                              ELSE [NoLookup EXCEPT !.pc = "done", !.got = l.got]
<1>1. /\ l.pc = "read" /\ l.reads = <<>>
      /\ roleCache' = c /\ lookups' = [lookups EXCEPT ![t] = r]
      /\ UNCHANGED <<impl, now, roleSource, claims, roleNames, definedAt, grants, roleEvents>>
  BY DEF LookupDone
<1>2. l \in Asking /\ LookupRelies(l)
  BY DEF RolesInv, RolesType, Asking
<1>3. /\ now \in Time /\ now \in Int /\ now # Never
      /\ now - CallMax \in Int /\ now - Longest \in Int /\ now - Longest <= now - CallMax
  BY Ages, TimesAssumption, RolesAssumption DEF RolesInv, Time, Longest
<1>4. /\ l.since \in Int /\ now - CallMax <= l.since /\ l.got \in SUBSET Roles
      /\ Backed(l.got, l.since) /\ l.failed \in BOOLEAN
      /\ l.failed => l.got = {}
      /\ ~l.failed => Given(<<>>, l.got, l.since)
  <2>1. l.since \in Int /\ l.got \in SUBSET Roles /\ l.failed \in BOOLEAN
    BY <1>2 DEF Asking, Time
  <2> QED BY <1>1, <1>2, <1>3, <2>1, TimesAssumption DEF LookupRelies
<1>5. Backed(l.got, now - CallMax) /\ Backed(l.got, now - Longest)
  BY <1>3, <1>4, BackedBefore
<1>6. ~l.failed => Given(<<>>, l.got, now - CallMax) /\ Given(<<>>, l.got, now - Longest)
  BY <1>3, <1>4, GivenBefore
<1>7. /\ c \in [at : Moment, roles : SUBSET Roles, failed : BOOLEAN]
      /\ c.at = now /\ c.roles = l.got /\ c.failed = l.failed
  BY <1>3, <1>4 DEF Moment
<1>8. AnswerSound(c)
  <2> HIDE DEF c, l
  <2> QED BY <1>3, <1>5, <1>6, <1>7 DEF AnswerSound
<1>9. /\ r \in Asking /\ r.pc \in {"claims", "done"}
      /\ r.pc = "done" => r.got = l.got /\ r.got # {}
  <2>1. claims.roles \in SUBSET Roles
    BY DEF RolesInv, RolesType
  <2>2. CASE l.got = {}
    BY <2>1, <2>2, Unasked DEF Asking
  <2>3. CASE l.got # {}
    BY <1>4, <2>3, Unasked DEF Asking
  <2> QED BY <2>2, <2>3
<1>10. /\ roleNames' \in SUBSET Roles /\ (roleNames' = roleNames \/ Standing \subseteq roleNames')
       /\ roleNames' # {} => Standing \subseteq roleNames'
  BY <1>1 DEF RolesInv, RolesType
<1> HIDE DEF l, c, r
<1>11. r.pc # "read"
  BY <1>9
<1>12. r.pc = "done" => /\ Backed(r.got, now - Longest)
                        /\ ~r.failed => Given(<<>>, r.got, now - Longest)
  BY <1>4, <1>5, <1>6, <1>9
<1> QED BY <1>1, <1>7, <1>8, <1>9, <1>10, <1>11, <1>12, AskMoves

LEMMA AnswerReturned ==
  ASSUME RolesInv, NEW t \in Threads, RolesReturn(t), UNCHANGED <<impl, now>>
  PROVE  RolesInv'
<1>1. /\ lookups' = [lookups EXCEPT ![t] = NoLookup]
      /\ UNCHANGED <<impl, now, roleSource, claims, roleCache, roleNames, definedAt, grants, roleEvents>>
  BY DEF RolesReturn
<1>2. /\ roleCache' \in [at : Moment, roles : SUBSET Roles, failed : BOOLEAN]
      /\ AnswerSound(roleCache')
      /\ roleNames' \in SUBSET Roles /\ (roleNames' = roleNames \/ Standing \subseteq roleNames')
      /\ roleNames' # {} => Standing \subseteq roleNames'
  BY <1>1 DEF RolesInv, RolesType
<1> QED BY <1>1, <1>2, Unasked, AskMoves

(* Time passes only while no answer is being used.                           *)
LEMMA LookupTickKeeps ==
  ASSUME RolesInv, Tick, RolesMayTick, UNCHANGED roleVars
  PROVE  RolesInv'
<1>1. /\ now \in Time /\ now' = now + 1 /\ now' \in Time /\ now \in Int
      /\ UNCHANGED <<impl, roleSource, claims, roleCache, roleNames, lookups, definedAt, grants, roleEvents>>
  BY DEF RolesInv, Tick, Time, roleVars
<1>2. /\ \A got, time : Backed(got, time)' <=> Backed(got, time)
      /\ \A reads, got, time : Given(reads, got, time)' <=> Given(reads, got, time)
      /\ \A reads : Orderly(reads)' <=> Orderly(reads)
      /\ Standing' = Standing
  BY <1>1, SameWorld
<1>3. RolesType'
  BY <1>1 DEF RolesInv, RolesType
<1>4. NothingToCome'
  <2>1. \A p \in Parts, r \in Roles : grants[p][r].from \in Int \cup {Never}
                                      /\ grants[p][r].until \in Int \cup {Never}
    BY DEF RolesInv, RolesType, Moment, Time
  <2>2. \A m \in Int : m <= now => m <= now'
    BY <1>1
  <2> QED BY <1>1, <2>1, <2>2 DEF RolesInv, NothingToCome
<1>5. AnswerSound(roleCache)'
  <2>1. roleCache.at \in Int \cup {Never}
    BY DEF RolesInv, RolesType, Moment, Time
  <2>2. \A m \in Int : m <= now => m <= now'
    BY <1>1
  <2> QED BY <1>1, <1>2, <2>1, <2>2 DEF RolesInv, AnswerSound
<1>6. ASSUME NEW t \in Threads PROVE LookupRelies(lookups[t])'
  <2>1. lookups'[t] = lookups[t] /\ lookups[t].since \in Int /\ LookupRelies(lookups[t])
    BY <1>1 DEF RolesInv, RolesType, Time
  <2>2. CASE lookups[t].pc = "idle"
    BY <2>1, <2>2 DEF LookupRelies
  <2>3. CASE lookups[t].pc # "idle"
    <3>1. lookups[t].pc = "read" /\ now - lookups[t].since < CallMax
      BY <2>3 DEF RolesMayTick
    <3>2. lookups[t].since <= now' /\ now' - lookups[t].since <= CallMax
      BY <1>1, <2>1, <3>1, TimesAssumption DEF LookupRelies
    <3> QED BY <1>1, <1>2, <2>1, <3>1, <3>2 DEF LookupRelies, Pending
  <2> QED BY <2>2, <2>3
<1> QED BY <1>1, <1>2, <1>3, <1>4, <1>5, <1>6 DEF RolesInv, Impls

THEOREM RolesSpecInv == RolesSpec => []RolesInv
<1>1. RolesInv /\ [RolesNext]_<<impl, now, roleVars>> => RolesInv'
  <2> SUFFICES ASSUME RolesInv, [RolesNext]_<<impl, now, roleVars>> PROVE RolesInv'
    OBVIOUS
  <2>1. CASE UNCHANGED <<impl, now, roleVars>>
    <3>1. UNCHANGED <<impl, now, roleSource, claims, roleCache, roleNames, lookups, definedAt, grants, roleEvents>>
      BY <2>1 DEF roleVars
    <3>2. TakesEffectNow
      BY <3>1 DEF TakesEffectNow, Standing
    <3>3. RolesType' /\ NothingToCome'
      BY <3>1 DEF RolesInv, RolesType, NothingToCome
    <3> QED BY <3>1, <3>2, <3>3, WorldKeeps
  <2>2. ASSUME NEW t \in Threads, RolesStep(t), UNCHANGED <<impl, now>> PROVE RolesInv'
    BY <2>2, RolesForKeeps, LookupKeeps, LookupFailsKeeps, LookupDoneKeeps, AnswerReturned
       DEF RolesStep
  <2> QED BY <2>1, <2>2, AdministerKeeps, LookupTickKeeps DEF RolesNext
<1> QED BY <1>1, RolesStart, PTL DEF RolesSpec

THEOREM RolesTyped == RolesSpec => []RolesType
<1>1. RolesInv => RolesType
  BY DEF RolesInv
<1> QED BY <1>1, RolesSpecInv, PTL

(* A role withdrawn from the directory is used for at most the life of a     *)
(* cached answer and of the lookup that made it.                             *)
THEOREM RevocationTakesEffect == RolesSpec => []RevokedInTime
<1>1. RolesInv => RevokedInTime
  <2> SUFFICES ASSUME RolesInv, NEW t \in Threads, NEW r \in Roles,
                      lookups[t].pc = "done", r \in lookups[t].got
               PROVE  \E p \in Parts : /\ Uses(p) /\ grants[p][r].from # Never
                                       /\ \/ grants[p][r].until = Never
                                          \/ now - grants[p][r].until <= Longest
    BY DEF RevokedInTime
  <2>1. Backed(lookups[t].got, now - Longest)
    BY DEF RolesInv, LookupRelies
  <2>2. PICK p \in Parts : /\ Uses(p) /\ grants[p][r].from # Never
                           /\ \/ grants[p][r].until = Never
                              \/ grants[p][r].until >= now - Longest
    BY <2>1 DEF Backed
  <2>3. grants[p][r].until \in Int \cup {Never} /\ now \in Int /\ Longest \in Int
    BY Ages DEF RolesInv, RolesType, Moment, Time
  <2>4. ASSUME grants[p][r].until # Never PROVE now - grants[p][r].until <= Longest
    BY <2>2, <2>3, <2>4
  <2> QED BY <2>2, <2>4
<1> QED BY <1>1, RolesSpecInv, PTL

(* A role held all along is in every answer but that of a lookup that        *)
(* failed, one moved from the part read first to the other included.         *)
THEOREM HeldRolesServe == RolesSpec => []HeldRoleKept
<1>1. RolesInv => HeldRoleKept
  <2> SUFFICES ASSUME RolesInv, NEW t \in Threads, NEW r \in Roles,
                      lookups[t].pc = "done", ~lookups[t].failed, HeldThroughout(r)
               PROVE  r \in lookups[t].got
    BY DEF HeldRoleKept
  <2>1. Given(<<>>, lookups[t].got, now - Longest)
    BY DEF RolesInv, LookupRelies
  <2>2. First \in Parts /\ Second \in Parts
    BY Orders DEF RolesInv
  <2>3. /\ \A p \in Parts : grants[p][r].from \in Int \cup {Never}
        /\ now \in Int /\ Longest \in Int
    BY Ages DEF RolesInv, RolesType, Moment, Time
  <2>4. \A p \in Parts : grants[p][r].from # Never /\ now - grants[p][r].from > Longest =>
                             grants[p][r].from # Never /\ grants[p][r].from < now - Longest
    BY <2>3
  <2>5. \/ HeldSince(First, r, now - Longest)
        \/ HeldSince(Second, r, now - Longest)
        \/ MovedSince(r, now - Longest)
    <3>1. roleSource = "both" => Uses(First)
      BY DEF Uses
    <3>2. CASE roleSource = "both" /\ grants[First][r].until # Never
      BY <2>2, <2>4, <3>2 DEF HeldThroughout, HeldSince, MovedSince, First, Second
    <3>3. CASE ~(roleSource = "both" /\ grants[First][r].until # Never)
      BY <2>2, <2>4, <3>1, <3>3 DEF HeldThroughout, HeldSince, First, Second
    <3> QED BY <3>2, <3>3
  <2>6. r \in Standing
    BY DEF HeldThroughout, Standing
  <2> QED BY <2>1, <2>2, <2>5, <2>6, NothingPending DEF Given
<1> QED BY <1>1, RolesSpecInv, PTL

(* Both: a directory's changes show in time, and no others do.               *)
THEOREM RolesFollowInTime == RolesSpec => []RolesInTime
  BY RevocationTakesEffect, HeldRolesServe, PTL DEF RolesInTime

=============================================================================
