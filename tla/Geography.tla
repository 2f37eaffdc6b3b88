------------------------------ MODULE Geography -----------------------------
(***************************************************************************)
(* Provinces, districts, cities, police stations and the seats of courts.  *)
(* Administrators add and delete rows and copy the courts of one city to   *)
(* another; two jobs, "seed" and "reset and reseed", find or create every  *)
(* row of a bundled data set, one query after the other, and then seat the *)
(* courts at the cities that are there.  Jobs wait for each other, the     *)
(* administrators for nobody.  The tree of places is cached for a while,   *)
(* and whoever writes drops the cache before the write.  Courts have only  *)
(* a name here, and the rows of the data set are constants.                *)
(***************************************************************************)
EXTENDS Naturals, Sequences, FiniteSets

CONSTANTS
    GeoSlot,        \* requests of administrators and pages that may be under way
    SeedRows,       \* the places of the data set, each after its parent, 0 for none
    SeatPlan,       \* the courts: entries of the file, tehsils, special courts
    PROVINCE_ALIAS, \* the name of a province for its label in the file
    CITY_ALIAS,     \* the name of a city for its name in the file
    GeoScenes       \* what happens besides reading the tree, and bounds

\* A place comes after its parent, and every court of the file has its city, by its name or
\* the alias of its name, in its province of the data set (pakistan-courts.json,
\* pakistan-geo.json: all 723 of the file).
ASSUME GeoAssumption ==
    /\ Len(SeedRows) \in Nat /\ Len(SeatPlan) \in Nat
    /\ \A n \in 1..Len(SeedRows) : SeedRows[n].up \in 0..(n - 1)
    /\ \A k \in 1..Len(SeatPlan) : SeatPlan[k].kind = "file" =>
          \E c \in 1..Len(SeedRows) :
             LET city == SeedRows[c]
                 province == SeedRows[SeedRows[city.up].up]
             IN  /\ city.level = "city" /\ city.up # 0 /\ SeedRows[city.up].up # 0
                 /\ city.name \in {SeatPlan[k].city, CITY_ALIAS[SeatPlan[k].city]}
                 /\ province.up = 0 /\ province.name = PROVINCE_ALIAS[SeatPlan[k].province]

VARIABLES
    geoScene,
    places,     \* rows: id, level, name, parent, and who wrote it
    nextPlace,
    seats,      \* CourtSeat: court, city, isPrincipalSeat
    jobs,       \* the chain geoSeedQueue
    geoReq,     \* the requests
    cached,     \* geoTreeCache
    spent       \* how often each bounded thing has happened

geoVars == <<geoScene, places, nextPlace, seats, jobs, geoReq, cached, spent>>

NoTree == [tree |-> {}, clean |-> FALSE, state |-> "none"]
NoRequest == [op |-> "none"]

Present(id) == id = 0 \/ \E r \in places : r.id = id
tree == {r \in places : r.level # "station"}

\* Something that will write to the tree has been asked for and is not over.
Pending ==
    \/ \E i \in 1..Len(jobs) : jobs[i].state \in {"queued", "running"}
    \/ \E q \in GeoSlot : geoReq[q].op \in {"create", "delete"}

May(act) == act \in DOMAIN geoScene /\ spent[act] < geoScene[act]
Spend(act) == spent' = [spent EXCEPT ![act] = @ + 1]

\* The cache is dropped; trees that are being built now may miss what is written.
Crossed == [q \in GeoSlot |->
              IF geoReq[q].op = "tree" THEN [geoReq[q] EXCEPT !.clean = FALSE] ELSE geoReq[q]]

GeoInit ==
    /\ geoScene \in GeoScenes
    /\ places = {} /\ nextPlace = 1 /\ seats = {}
    /\ jobs = <<>>
    /\ geoReq = [q \in GeoSlot |-> NoRequest]
    /\ cached = NoTree
    /\ spent = [act \in DOMAIN geoScene |-> 0]

-----------------------------------------------------------------------------
\* The tree.

\* fullTree, from the cache unless it has expired, or built.
FullTree(q) ==
    /\ May("trees") /\ Spend("trees")
    /\ geoReq[q] = NoRequest
    /\ cached.state # "fresh"
    /\ geoReq' = [geoReq EXCEPT ![q] = [op |-> "tree", tree |-> tree, clean |-> ~Pending]]
    /\ UNCHANGED <<geoScene, places, nextPlace, seats, jobs, cached>>

TreeBuilt(q) ==
    /\ geoReq[q].op = "tree"
    /\ cached' = [tree |-> geoReq[q].tree, clean |-> geoReq[q].clean, state |-> "fresh"]
    /\ geoReq' = [geoReq EXCEPT ![q] = NoRequest]
    /\ UNCHANGED <<geoScene, places, nextPlace, seats, jobs, spent>>

\* Five minutes pass.
CacheExpires ==
    /\ cached.state = "fresh"
    /\ cached' = [cached EXCEPT !.state = "expired"]
    /\ UNCHANGED <<geoScene, places, nextPlace, seats, jobs, geoReq, spent>>

-----------------------------------------------------------------------------
\* Administrators.

\* Mutant: the cache is not dropped.
CreatePlace_KeepCache(q, level, name, up) ==
    /\ May("creates") /\ Spend("creates")
    /\ geoReq[q] = NoRequest
    /\ geoReq' = [Crossed EXCEPT ![q] =
                    [op |-> "create", level |-> level, name |-> name, up |-> up]]
    /\ UNCHANGED <<geoScene, places, nextPlace, seats, jobs, cached>>

\* createProvince, createDistrict, createCity: the request, and its row.
CreatePlace(q, level, name, up) ==
    /\ May("creates") /\ Spend("creates")
    /\ geoReq[q] = NoRequest
    /\ cached' = NoTree
    /\ geoReq' = [Crossed EXCEPT ![q] =
                    [op |-> "create", level |-> level, name |-> name, up |-> up]]
    /\ UNCHANGED <<geoScene, places, nextPlace, seats, jobs>>

\* A parent that is gone and the second province of a name are refused by the database.
Fits(level, name, up) ==
    /\ Present(up)
    /\ level = "province" => ~\E r \in places : r.level = "province" /\ r.name = name

Insert(level, name, up, by) ==
    /\ places' = places \cup
         {[id |-> nextPlace, level |-> level, name |-> name, parent |-> up, by |-> by]}
    /\ nextPlace' = nextPlace + 1

PlaceCreated(q) ==
    LET c == geoReq[q] IN
    /\ c.op = "create"
    /\ IF Fits(c.level, c.name, c.up) THEN Insert(c.level, c.name, c.up, "admin")
       ELSE UNCHANGED <<places, nextPlace>>
    /\ geoReq' = [geoReq EXCEPT ![q] = NoRequest]
    /\ UNCHANGED <<geoScene, seats, jobs, cached, spent>>

\* deleteProvince, deleteDistrict, deleteCity, which look the row up first.
DeletePlace(q, id) ==
    /\ May("deletes") /\ Spend("deletes")
    /\ geoReq[q] = NoRequest
    /\ \E r \in places : r.id = id /\ r.level # "station"
    /\ cached' = NoTree
    /\ geoReq' = [Crossed EXCEPT ![q] = [op |-> "delete", id |-> id]]
    /\ UNCHANGED <<geoScene, places, nextPlace, seats, jobs>>

\* A row with rows below it is not deleted; the seats of a city go with it.
PlaceDeleted(q) ==
    LET id == geoReq[q].id
        goes == \A r \in places : r.parent # id
    IN
    /\ geoReq[q].op = "delete"
    /\ places' = IF goes THEN {r \in places : r.id # id} ELSE places
    /\ seats' = IF goes THEN {s \in seats : s.city # id} ELSE seats
    /\ jobs' = IF goes THEN [i \in 1..Len(jobs) |-> [jobs[i] EXCEPT !.disturbed = TRUE]] ELSE jobs
    /\ geoReq' = [geoReq EXCEPT ![q] = NoRequest]
    /\ UNCHANGED <<geoScene, nextPlace, cached, spent>>

\* copyCourtSeats: the seats of the source are read, then written unless they are there.
CopyCourtSeats(q, target, source) ==
    /\ May("copies") /\ Spend("copies")
    /\ geoReq[q] = NoRequest
    /\ target # source /\ Present(target) /\ Present(source)
    /\ geoReq' = [geoReq EXCEPT ![q] =
                    [op |-> "copy", target |-> target, copied |-> {s \in seats : s.city = source}]]
    /\ UNCHANGED <<geoScene, places, nextPlace, seats, jobs, cached>>

SeatsCopied(q) ==
    LET c == geoReq[q]
        new == {s \in c.copied : ~\E t \in seats : t.court = s.court /\ t.city = c.target}
    IN
    /\ c.op = "copy"
    /\ seats' = IF Present(c.target) THEN seats \cup {[s EXCEPT !.city = c.target] : s \in new}
                ELSE seats
    /\ geoReq' = [geoReq EXCEPT ![q] = NoRequest]
    /\ UNCHANGED <<geoScene, places, nextPlace, jobs, cached, spent>>

-----------------------------------------------------------------------------
\* The jobs.

Fail(i) == jobs' = [jobs EXCEPT ![i].state = "failed"]

\* seed and resetAndSeed: the request drops the cache and joins the chain.
Seed(kind) ==
    /\ May(kind) /\ Spend(kind)
    /\ cached' = NoTree
    /\ geoReq' = Crossed
    /\ jobs' = Append(jobs, [kind |-> kind, state |-> "queued", phase |-> "places", item |-> 1,
                             ids |-> <<>>, own |-> {}, any |-> {}, missing |-> "no",
                             disturbed |-> FALSE])
    /\ UNCHANGED <<geoScene, places, nextPlace, seats>>

\* runGeoSeedJob: after the one before, however that one ended.
startable(i) ==
    /\ jobs[i].state = "queued"
    /\ \A k \in 1..(i - 1) : jobs[k].state \notin {"queued", "running"}

StartJob(i) ==
    /\ startable(i)
    /\ jobs' = [jobs EXCEPT ![i].state = "running", ![i].disturbed = FALSE]
    /\ IF jobs[i].kind = "resets" THEN places' = {} /\ seats' = {} ELSE UNCHANGED <<places, seats>>
    /\ UNCHANGED <<geoScene, nextPlace, geoReq, cached, spent>>

\* seedUnsafe, one row: looked for below its parent, then created when it was missing.
Running(i, phase) == jobs[i].state = "running" /\ jobs[i].phase = phase
Up(j) == IF SeedRows[j.item].up = 0 THEN 0 ELSE j.ids[SeedRows[j.item].up]
Resolved(j, id) == [j EXCEPT !.item = @ + 1, !.ids = Append(@, id), !.missing = "no"]

FindRow(i) ==
    LET j == jobs[i]
        row == SeedRows[j.item]
        found == {r \in places : r.level = row.level /\ r.name = row.name /\ r.parent = Up(j)}
    IN
    /\ Running(i, "places") /\ j.missing = "no"
    /\ j.item \in 1..Len(SeedRows)
    /\ IF found = {} THEN jobs' = [jobs EXCEPT ![i].missing = "create"]
       ELSE \E r \in found : jobs' = [jobs EXCEPT ![i] = Resolved(j, r.id)]
    /\ UNCHANGED <<geoScene, places, nextPlace, seats, geoReq, cached, spent>>

CreateRow(i) ==
    LET j == jobs[i]
        row == SeedRows[j.item]
    IN
    /\ Running(i, "places") /\ j.missing = "create"
    /\ IF Fits(row.level, row.name, Up(j))
       THEN Insert(row.level, row.name, Up(j), "seed")
            /\ jobs' = [jobs EXCEPT ![i] = Resolved(j, nextPlace)]
       ELSE Fail(i) /\ UNCHANGED <<places, nextPlace>>
    /\ UNCHANGED <<geoScene, seats, geoReq, cached, spent>>

\* seedCourtsFromJson: the cities as they are now, one for each name of a province, and one
\* for each name anywhere.  Which one, when there are several, is not said.
cityRows ==
    UNION {UNION {{[province |-> p.name, name |-> c.name, id |-> c.id] :
                     c \in {r \in places : r.level = "city" /\ r.parent = d.id}} :
                   d \in {r \in places : r.parent = p.id}} :
             p \in {r \in places : r.parent = 0}}

ReadCities(i) ==
    /\ Running(i, "places") /\ jobs[i].item = Len(SeedRows) + 1
    /\ \E own \in SUBSET cityRows, any \in SUBSET cityRows :
        /\ \A c \in cityRows :
             /\ Cardinality({o \in own : o.name = c.name /\ o.province = c.province}) = 1
             /\ Cardinality({o \in any : o.name = c.name}) = 1
        /\ any \subseteq own
        /\ jobs' = [jobs EXCEPT ![i].phase = "courts", ![i].item = 1,
                                ![i].own = own, ![i].any = any]
    /\ UNCHANGED <<geoScene, places, nextPlace, seats, geoReq, cached, spent>>

\* Where an entry is seated, if anywhere.
named(cities, name) == {c.id : c \in {d \in cities : d.name = name}}
inProvince(j, e) == {o \in j.own : o.province = PROVINCE_ALIAS[e.province]}
FirstPlace(a, b, c) == IF a # {} THEN a ELSE IF b # {} THEN b ELSE c

resolve(j, e) ==
    CASE e.kind = "file" -> FirstPlace(named(inProvince(j, e), e.city),
                                       named(inProvince(j, e), CITY_ALIAS[e.city]),
                                       named(j.any, CITY_ALIAS[e.city]))
      [] e.kind = "tehsil" -> named(j.any, e.city)
      [] e.kind = "special" -> FirstPlace(named(j.any, e.city),
                                          named(j.any, CITY_ALIAS[e.city]), {})

\* upsertSeat; an entry without a city is only reported.
FindSeat(i) ==
    LET j == jobs[i]
        e == SeatPlan[j.item]
        at == resolve(j, e)
        old == {s \in seats : s.court = e.court /\ s.city \in at}
    IN
    /\ Running(i, "courts") /\ j.missing = "no"
    /\ j.item \in 1..Len(SeatPlan)
    /\ jobs' = [jobs EXCEPT ![i] =
         IF at = {} \/ \E s \in old : s.principal = e.principal THEN [j EXCEPT !.item = @ + 1]
         ELSE [j EXCEPT !.missing = IF old = {} THEN "create" ELSE "update"]]
    /\ UNCHANGED <<geoScene, places, nextPlace, seats, geoReq, cached, spent>>

WriteSeat(i) ==
    LET j == jobs[i]
        e == SeatPlan[j.item]
        at == resolve(j, e)
        old == {s \in seats : s.court = e.court /\ s.city \in at}
        new == {[court |-> e.court, city |-> c, principal |-> e.principal] : c \in at}
    IN
    /\ Running(i, "courts") /\ j.missing # "no"
    /\ IF (old = {}) = (j.missing = "create") /\ \A c \in at : Present(c)
       THEN /\ seats' = (seats \ old) \cup new
            /\ jobs' = [jobs EXCEPT ![i] = [j EXCEPT !.item = @ + 1, !.missing = "no"]]
       ELSE Fail(i) /\ UNCHANGED seats
    /\ UNCHANGED <<geoScene, places, nextPlace, geoReq, cached, spent>>

JobDone(i) ==
    /\ Running(i, "courts") /\ jobs[i].item = Len(SeatPlan) + 1
    /\ jobs' = [jobs EXCEPT ![i].state = "done"]
    /\ UNCHANGED <<geoScene, places, nextPlace, seats, geoReq, cached, spent>>

\* A query fails; or the process ends, and with it what was under way and the cache.
QueryFails(i) ==
    /\ May("faults") /\ Spend("faults")
    /\ jobs[i].state = "running"
    /\ Fail(i)
    /\ UNCHANGED <<geoScene, places, nextPlace, seats, geoReq, cached>>

GeoProcessEnds ==
    /\ May("crashes") /\ Spend("crashes")
    /\ jobs' = [i \in 1..Len(jobs) |->
                  IF jobs[i].state = "done" THEN jobs[i] ELSE [jobs[i] EXCEPT !.state = "failed"]]
    /\ geoReq' = [q \in GeoSlot |-> NoRequest]
    /\ cached' = NoTree
    /\ UNCHANGED <<geoScene, places, nextPlace, seats>>

GeoNext ==
    \/ \E q \in GeoSlot : FullTree(q) \/ TreeBuilt(q) \/ PlaceCreated(q) \/ PlaceDeleted(q)
                          \/ SeatsCopied(q)
    \/ \E q \in GeoSlot, n \in 1..Len(SeedRows) : \E up \in {0} \cup {r.id : r \in places} :
         /\ May("creates") /\ SeedRows[n].level # "station"
         /\ IF SeedRows[n].up = 0 THEN up = 0
            ELSE \E r \in places : r.id = up /\ r.level = SeedRows[SeedRows[n].up].level
         /\ CreatePlace(q, SeedRows[n].level, SeedRows[n].name, up)
    \/ \E q \in GeoSlot : \E r \in places : DeletePlace(q, r.id)
    \/ \E q \in GeoSlot : \E r, s \in {c \in places : c.level = "city"} :
         CopyCourtSeats(q, r.id, s.id)
    \/ CacheExpires \/ GeoProcessEnds
    \/ \E kind \in {"seeds", "resets"} : Seed(kind)
    \/ \E i \in 1..Len(jobs) :
         StartJob(i) \/ FindRow(i) \/ CreateRow(i) \/ ReadCities(i) \/ FindSeat(i) \/ WriteSeat(i)
         \/ JobDone(i) \/ QueryFails(i)

GeoSpec == GeoInit /\ [][GeoNext]_geoVars

-----------------------------------------------------------------------------
\* Properties.

\* Seeded once: of two rows of one name below one parent an administrator wrote at least
\* one; jobs do not repeat each other's rows, however many were asked for, failed or were
\* cut off.
SeededOnce ==
    \A r, s \in places :
        r # s /\ r.level = s.level /\ r.name = s.name /\ r.parent = s.parent
        => "admin" \in {r.by, s.by}

\* A seed is complete: when a job ends well and no row was deleted meanwhile, every place of
\* the data set is below its parent, and every court of the file has its seat in its own
\* province when the city is there, whatever earlier jobs left behind.
SeedEndsComplete ==
    \A i \in 1..Len(jobs) :
        jobs[i].state = "running" /\ jobs'[i].state = "done" /\ ~jobs[i].disturbed =>
        /\ \A n \in 1..Len(SeedRows) : \E r \in places :
              /\ r.id = jobs[i].ids[n] /\ r.name = SeedRows[n].name
              /\ r.parent = (IF SeedRows[n].up = 0 THEN 0 ELSE jobs[i].ids[SeedRows[n].up])
        /\ \A n \in 1..Len(SeatPlan) :
              LET e == SeatPlan[n]
                  own == {c \in cityRows : c.province = PROVINCE_ALIAS[e.province]
                                           /\ c.name \in {e.city, CITY_ALIAS[e.city]}}
              IN  e.kind = "file" /\ own # {} =>
                    \E s \in seats : s.court = e.court /\ \E c \in own : s.city = c.id

\* The cached tree is current: unless a write or a job was under way while it was built,
\* what pages are served from the cache is what the database holds, until it is dropped.
CachedTreeIsCurrent == cached.clean => cached.tree = tree

\* Seeding ends with every place and court seat of the file, once, and no stale tree is kept
\* from an undisturbed build, whatever failed or was cut off before (geo.service.ts:241-680).
GeographyIsSeeded == [][SeededOnce' /\ CachedTreeIsCurrent' /\ SeedEndsComplete]_geoVars
=============================================================================
