---------------------------- MODULE ServiceProofs ----------------------------
(***************************************************************************)
(* For any requests, addresses, capacities and builds: only complete       *)
(* answers are cached, no answer is older than the miss of its request, a  *)
(* field endpoint that passed its check is answered, and stale answers are *)
(* bounded.                                                                *)
(*                                                                         *)
(* The argument: the cache stores what a request in its last step holds,   *)
(* so what is promised of the cached answers has to hold of the answers    *)
(* under way. A database that is loaded stays loaded and is only ever      *)
(* replaced by a newer build, because the files only get newer; therefore  *)
(* what a request saw at its check or at its miss bounds all it finds      *)
(* later, although every step takes its locks anew. Stale answers are      *)
(* counted together with the requests that may still store one.            *)
(***************************************************************************)
EXTENDS Service, CacheProofs

(* The steps from the first lookup to the store. *)
Building == {"city", "asn", "resolve", "set"}

(* A request that is not idle has an address. *)
AsksInv == \A r \in Request : phase[r] # "idle" => asks[r] \in Addr

(* How far the reverse lookup of an answer got. *)
HostnameInv ==
  \A r \in Request :
    /\ phase[r] # "set" => answer[r].hostname = "none"
    /\ phase[r] = "resolve" => resolver /\ Complete(r)
    /\ phase[r] = "set" /\ Complete(r) =>
         answer[r].hostname \in
           IF resolver THEN {"named", "failed", "cut"} ELSE {"none"}
    /\ answer[r].hostname = "cut" => gone[r]

(* No database is ahead of its file. *)
FileInv == \A d \in Db : loaded[d] <= file[d]

(* What a request saw when it missed the cache is no newer than what is    *)
(* loaded.                                                                 *)
SinceInv ==
  \A r \in Request : phase[r] \in Building =>
    \A d \in Db : since[r][d] <= loaded[d]

(* The database of a field stays loaded once it was checked. *)
FieldInv ==
  \A r \in Request : wants[r] \in Db /\ phase[r] \notin {"idle", "check"} =>
    loaded[wants[r]] # 0

ServiceInv ==
  /\ TypeOK
  /\ CacheInv
  /\ AsksInv
  /\ HostnameInv
  /\ CompleteOnly
  /\ FileInv
  /\ SinceInv
  /\ AnswersSinceMiss
  /\ FieldInv
  /\ FieldIsAnswered

-----------------------------------------------------------------------------
(* What the methods of the cache leave in it: answers it held, and the one *)
(* that is stored.                                                         *)
LEMMA SetEntries ==
  ASSUME NEW c, NEW addr, NEW response, NEW a \in DOMAIN Set(c, addr, response).entries,
         DOMAIN c = {"capacity", "entries", "values", "evictions"}
  PROVE  \/ Set(c, addr, response).entries[a].response = response
         \/ /\ a \in DOMAIN c.entries
            /\ Set(c, addr, response).entries[a] = c.entries[a]
  <1> DEFINE r == Replaced(c, addr)
             m == MakeRoom(r)
             el == [addr |-> addr, response |-> response]
  <1>1. CASE c.capacity = 0
    BY <1>1 DEF Set
  <1>2. CASE c.capacity # 0
    <2>1. /\ DOMAIN r = DOMAIN c /\ DOMAIN r.entries \subseteq DOMAIN c.entries
          /\ \A b \in DOMAIN r.entries : r.entries[b] = c.entries[b]
      BY DEF Replaced, Without, Restrict
    <2> HIDE DEF r
    <2>2. /\ DOMAIN m = DOMAIN r /\ DOMAIN m.entries \subseteq DOMAIN r.entries
          /\ \A b \in DOMAIN m.entries : m.entries[b] = r.entries[b]
      BY <2>1 DEF MakeRoom, Evict, Restrict
    <2> HIDE DEF m
    <2>3. Set(c, addr, response) = PushBack(m, el)
      BY <1>2 DEF Set, m, r
    <2>4. /\ DOMAIN PushBack(m, el).entries = DOMAIN m.entries \cup {addr}
          /\ \A b \in DOMAIN m.entries \cup {addr} :
               PushBack(m, el).entries[b] = IF b = addr THEN el ELSE m.entries[b]
      BY <2>1, <2>2 DEF PushBack
    <2> QED
      BY <2>1, <2>2, <2>3, <2>4
  <1> QED
    BY <1>1, <1>2

(* The one that is stored has its address, the others are untouched.       *)
LEMMA OthersInSet ==
  ASSUME NEW c, NEW addr, NEW response, NEW a \in DOMAIN Set(c, addr, response).entries,
         DOMAIN c = {"capacity", "entries", "values", "evictions"}, a # addr
  PROVE  /\ a \in DOMAIN c.entries
         /\ Set(c, addr, response).entries[a] = c.entries[a]
  BY DEF Set, PushBack, MakeRoom, Replaced, Without, Evict, Restrict

(* A resize only drops entries. *)
LEMMA ResizedEntries ==
  ASSUME NEW c, NEW capacity, DOMAIN c = {"capacity", "entries", "values", "evictions"}
  PROVE  /\ DOMAIN Resized(c, capacity).entries \subseteq DOMAIN c.entries
         /\ \A a \in DOMAIN Resized(c, capacity).entries :
              Resized(c, capacity).entries[a] = c.entries[a]
  BY DEF Resized, Evict, Restrict

-----------------------------------------------------------------------------
(* The steps of Next, one by one. *)
LEMMA ServiceCases ==
  ASSUME [Next]_serviceVars
  PROVE  \/ UNCHANGED serviceVars
         \/ \E r \in Request, what \in Db \cup {"page"}, a \in Addr : Arrive(r, what, a)
         \/ \E r \in Request : Leave(r) \/ Refuse(r) \/ Admit(r) \/ Hit(r) \/ Miss(r)
         \/ \E r \in Request, d \in Db : LookUp(r, d)
         \/ \E r \in Request, outcome \in Hostname \ {"none"} : Resolve(r, outcome)
         \/ \E r \in Request : Store(r)
         \/ \E capacity \in Capacity : Resize(capacity)
         \/ \E builds \in [Db -> Builds] : Download(builds)
         \/ Reload
         \/ \E failed \in SUBSET Fragile : ReloadFails(failed)
         \/ Clear
  BY DEF Next, RequestStep, CallbackStep

(* A reload never loads anything older than what was loaded. *)
LEMMA LoadedGrows ==
  ASSUME TypeOK, FileInv, [Next]_serviceVars
  PROVE  /\ FileInv'
         /\ loaded' \in [Db -> Builds] /\ file' \in [Db -> Builds]
         /\ \A d \in Db : loaded[d] <= loaded'[d]
  <1> USE DEF TypeOK, FileInv, Builds
  <1>1. CASE loaded' = loaded /\ file' = file
    BY <1>1
  <1>2. ASSUME NEW builds \in [Db -> Builds], Download(builds)
        PROVE  /\ FileInv' /\ loaded' = loaded /\ file' \in [Db -> Builds]
    BY <1>2, MaxBuildAssumption DEF Download
  <1>3. ASSUME NEW failed, loaded' = Reloaded(failed), file' = file
        PROVE  /\ FileInv' /\ loaded' \in [Db -> Builds]
               /\ \A d \in Db : loaded[d] <= loaded'[d]
    BY <1>3, MaxBuildAssumption DEF Reloaded
  <1>4. \/ loaded' = loaded /\ file' = file
        \/ \E builds \in [Db -> Builds] : Download(builds)
        \/ \E failed : loaded' = Reloaded(failed) /\ file' = file
    BY ServiceCases DEF serviceVars, databaseVars, Arrive, Leave, Refuse, Admit, Hit,
       Miss, LookUp, Resolve, Store, Finish, Resize, Reload, ReloadFails, Clear
  <1> QED
    BY <1>1, <1>2, <1>3, <1>4, MaxBuildAssumption

(* The cache stays well formed, because every request that stores one has  *)
(* an address and an answer.                                               *)
LEMMA CacheKept ==
  ASSUME TypeOK, CacheInv, AsksInv, [Next]_serviceVars
  PROVE  CacheInv'
  <1> USE DEF CacheInv
  <1>1. CASE cache' = cache
    BY <1>1
  <1>2. ASSUME NEW r \in Request, Hit(r)
        PROVE  CacheInv'
    BY <1>2, GetFormed DEF Hit, AsksInv
  <1>3. ASSUME NEW r \in Request, Store(r)
        PROVE  CacheInv'
    <2>1. asks[r] \in Addr /\ answer[r] \in Answer
      BY <1>3, AnswerAssumption DEF Store, AsksInv, TypeOK
    <2> QED
      BY <1>3, <2>1, SetFormed DEF Store
  <1>4. ASSUME NEW capacity \in Capacity, Resize(capacity)
        PROVE  CacheInv'
    BY <1>4, ResizedFormed, CapacityAssumption DEF Resize
  <1>5. CASE Clear
    BY <1>5, ClearedFormed DEF Clear
  <1> QED
    BY <1>1, <1>2, <1>3, <1>4, <1>5, ServiceCases DEF serviceVars, Arrive, Leave, Refuse,
       Admit, Miss, LookUp, Resolve, Download, Reload, ReloadFails

(* Only what may be stored comes into the cache, and nothing else changes  *)
(* an entry.                                                               *)
LEMMA CompleteKept ==
  ASSUME CacheInv, HostnameInv, CompleteOnly, [Next]_serviceVars
  PROVE  CompleteOnly'
  <1> DEFINE Whole == IF resolver THEN {"named", "failed"} ELSE {"none"}
  <1>1. DOMAIN cache = {"capacity", "entries", "values", "evictions"}
    BY DEF CacheInv, Formed, Shape
  <1>2. resolver' = resolver
    BY ServiceCases DEF serviceVars, Arrive, Leave, Refuse, Admit, Hit, Miss, LookUp,
       Resolve, Store, Finish, Resize, Download, Reload, ReloadFails, Clear
  <1>3. \A a \in DOMAIN cache.entries : cache.entries[a].response.hostname \in Whole
    BY DEF CompleteOnly
  <1>4. SUFFICES ASSUME NEW a \in DOMAIN cache'.entries
                 PROVE  cache'.entries[a].response.hostname \in Whole
    BY <1>2 DEF CompleteOnly
  <1> HIDE DEF Whole
  <1>5. CASE cache' = cache
    BY <1>3, <1>5
  <1>6. ASSUME NEW r \in Request, Hit(r)
        PROVE  cache'.entries = cache.entries
    BY <1>1, <1>6 DEF Hit, Get
  <1>7. ASSUME NEW r \in Request, Store(r)
        PROVE  cache'.entries[a].response.hostname \in Whole
    <2>1. CASE ~ Storable(r)
      BY <1>3, <1>7, <2>1 DEF Store
    <2>2. CASE Storable(r)
      <3>1. cache' = Set(cache, asks[r], answer[r])
        BY <1>7, <2>2 DEF Store
      <3>2. answer[r].hostname \in Whole
        BY <1>7, <2>2 DEF Store, Storable, HostnameInv, Whole
      <3> QED
        BY <1>1, <1>3, <3>1, <3>2, SetEntries
    <2> QED
      BY <2>1, <2>2
  <1>8. ASSUME NEW capacity \in Capacity, Resize(capacity)
        PROVE  cache'.entries[a].response.hostname \in Whole
    BY <1>1, <1>3, <1>8, ResizedEntries DEF Resize
  <1>9. CASE Clear
    BY <1>1, <1>9 DEF Clear, Cleared
  <1> QED
    BY <1>3, <1>5, <1>6, <1>7, <1>8, <1>9, ServiceCases DEF serviceVars, Arrive, Leave,
       Refuse, Admit, Miss, LookUp, Resolve, Download, Reload, ReloadFails

-----------------------------------------------------------------------------
(* What a step of one request leaves of the others. *)
LEMMA FinishStep ==
  ASSUME TypeOK, NEW r \in Request, Finish(r)
  PROVE  /\ phase'[r] = "idle" /\ wants'[r] = "page" /\ asks'[r] = None
         /\ answer'[r] = Nothing /\ gone'[r] = FALSE
         /\ \A q \in Request \ {r} :
              /\ phase'[q] = phase[q] /\ wants'[q] = wants[q] /\ asks'[q] = asks[q]
              /\ answer'[q] = answer[q] /\ gone'[q] = gone[q] /\ since'[q] = since[q]
         /\ resolver' = resolver /\ loaded' = loaded
  BY DEF Finish, TypeOK, databaseVars

(* Whatever happens to a request: nothing at all, it arrives, its client   *)
(* leaves, it ends, or it takes one step in which it may look something    *)
(* up. Its wish and its address are those it arrived with.                 *)
Kept(q) ==
  /\ phase'[q] = phase[q] /\ wants'[q] = wants[q] /\ asks'[q] = asks[q]
  /\ answer'[q] = answer[q] /\ gone'[q] = gone[q] /\ since'[q] = since[q]

Arrived(q) ==
  /\ phase[q] = "idle" /\ phase'[q] = IF wants'[q] \in Db THEN "check" ELSE "get"
  /\ asks'[q] \in Addr
  /\ answer'[q] = answer[q] /\ gone'[q] = gone[q]

Left(q) ==
  /\ phase'[q] = phase[q] /\ wants'[q] = wants[q] /\ asks'[q] = asks[q]
  /\ answer'[q] = answer[q] /\ gone'[q] = TRUE /\ since'[q] = since[q]

Ended(q) ==
  /\ phase'[q] = "idle" /\ wants'[q] = "page"
  /\ answer'[q] = Nothing /\ gone'[q] = FALSE

Same(q) == wants'[q] = wants[q] /\ asks'[q] = asks[q] /\ gone'[q] = gone[q]

Checked(q) ==
  /\ phase[q] = "check" /\ phase'[q] = "get" /\ loaded[wants[q]] # 0
  /\ Same(q) /\ answer'[q] = answer[q]

Missed(q) ==
  /\ phase[q] = "get" /\ phase'[q] = "city" /\ since'[q] = loaded
  /\ Same(q) /\ answer'[q] = answer[q]

LookedUp(q, d) ==
  /\ phase[q] = d /\ phase'[q] = AfterLookup(q, d)
  /\ answer'[q] = [answer[q] EXCEPT !.built[d] = loaded[d]]
  /\ Same(q) /\ since'[q] = since[q]

Resolved(q, outcome) ==
  /\ phase[q] = "resolve" /\ phase'[q] = "set"
  /\ answer'[q] = [answer[q] EXCEPT !.hostname = outcome]
  /\ outcome = "cut" => gone[q]
  /\ Same(q) /\ since'[q] = since[q]

(* These are all the cases there are. *)
LEMMA RequestCases ==
  ASSUME TypeOK, [Next]_serviceVars, NEW q \in Request
  PROVE  /\ resolver' = resolver
         /\ \/ Kept(q)
            \/ Arrived(q)
            \/ Left(q)
            \/ Ended(q)
            \/ Checked(q) /\ loaded' = loaded
            \/ Missed(q) /\ loaded' = loaded
            \/ (\E d \in Db : LookedUp(q, d)) /\ loaded' = loaded
            \/ \E outcome \in Hostname \ {"none"} : Resolved(q, outcome)
  <1> USE DEF TypeOK
  <1>1. ASSUME NEW r \in Request, Finish(r)
        PROVE  resolver' = resolver /\ (Kept(q) \/ Ended(q))
    BY <1>1, FinishStep DEF Kept, Ended
  <1>2. ASSUME NEW r \in Request, NEW what \in Db \cup {"page"}, NEW a \in Addr,
               Arrive(r, what, a)
        PROVE  resolver' = resolver /\ (Kept(q) \/ Arrived(q))
    BY <1>2 DEF Arrive, Kept, Arrived
  <1>3. ASSUME NEW r \in Request, Leave(r)
        PROVE  resolver' = resolver /\ (Kept(q) \/ Left(q))
    BY <1>3 DEF Leave, Kept, Left
  <1>4. ASSUME NEW r \in Request, Admit(r)
        PROVE  resolver' = resolver /\ loaded' = loaded /\ (Kept(q) \/ Checked(q))
    BY <1>4 DEF Admit, Kept, Checked, Same, databaseVars
  <1>5. ASSUME NEW r \in Request, Miss(r)
        PROVE  resolver' = resolver /\ loaded' = loaded /\ (Kept(q) \/ Missed(q))
    BY <1>5 DEF Miss, Kept, Missed, Same, databaseVars
  <1>6. ASSUME NEW r \in Request, NEW d \in Db, LookUp(r, d)
        PROVE  resolver' = resolver /\ loaded' = loaded /\ (Kept(q) \/ LookedUp(q, d))
    BY <1>6 DEF LookUp, Kept, LookedUp, Same, databaseVars
  <1>7. ASSUME NEW r \in Request, NEW outcome \in Hostname \ {"none"}, Resolve(r, outcome)
        PROVE  resolver' = resolver /\ (Kept(q) \/ Resolved(q, outcome))
    BY <1>7 DEF Resolve, Kept, Resolved, Same
  <1>8. CASE UNCHANGED <<resolver, requestVars>>
    BY <1>8 DEF requestVars, Kept
  <1>9. CASE UNCHANGED serviceVars
    BY <1>8, <1>9 DEF serviceVars, requestVars
  <1>10. ASSUME NEW r \in Request, Refuse(r) \/ Hit(r) \/ Store(r)
         PROVE  resolver' = resolver /\ (Kept(q) \/ Ended(q))
    BY <1>1, <1>10 DEF Refuse, Hit, Store
  <1>11. ASSUME \/ \E capacity \in Capacity : Resize(capacity)
                \/ \E builds \in [Db -> Builds] : Download(builds)
                \/ Reload
                \/ \E failed \in SUBSET Fragile : ReloadFails(failed)
                \/ Clear
         PROVE  UNCHANGED <<resolver, requestVars>>
    BY <1>11 DEF Resize, Download, Reload, ReloadFails, Clear
  <1> HIDE DEF TypeOK
  <1> QED
    BY <1>2, <1>3, <1>4, <1>5, <1>6, <1>7, <1>8, <1>9, <1>10, <1>11, ServiceCases

-----------------------------------------------------------------------------
(* A request keeps its address until it ends. *)
LEMMA AsksKept ==
  ASSUME TypeOK, AsksInv, [Next]_serviceVars
  PROVE  AsksInv'
  <1> SUFFICES ASSUME NEW q \in Request, phase'[q] # "idle"
               PROVE  asks'[q] \in Addr
    BY DEF AsksInv
  <1>1. (asks'[q] = asks[q] /\ phase[q] # "idle") \/ asks'[q] \in Addr
    BY RequestCases DEF Kept, Arrived, Left, Ended, Checked, Missed, LookedUp, Resolved,
       Same, Db
  <1> QED
    BY <1>1 DEF AsksInv

(* An idle request has looked nothing up, and the reverse lookup is the    *)
(* last step before the store.                                             *)
LEMMA HostnameKept ==
  ASSUME TypeOK, HostnameInv, [Next]_serviceVars
  PROVE  HostnameInv'
  <1> SUFFICES ASSUME NEW q \in Request
               PROVE  /\ phase'[q] # "set" => answer'[q].hostname = "none"
                      /\ phase'[q] = "resolve" => resolver' /\ Complete(q)'
                      /\ phase'[q] = "set" /\ Complete(q)' =>
                           answer'[q].hostname \in
                             IF resolver' THEN {"named", "failed", "cut"} ELSE {"none"}
                      /\ answer'[q].hostname = "cut" => gone'[q]
    BY DEF HostnameInv
  <1> DEFINE Goal ==
        /\ phase'[q] # "set" => answer'[q].hostname = "none"
        /\ phase'[q] = "resolve" => resolver' /\ Complete(q)'
        /\ phase'[q] = "set" /\ Complete(q)' =>
             answer'[q].hostname \in
               IF resolver' THEN {"named", "failed", "cut"} ELSE {"none"}
        /\ answer'[q].hostname = "cut" => gone'[q]
  <1>1. answer[q] \in Response /\ resolver' = resolver
    BY RequestCases DEF TypeOK
  <1>2. CASE Kept(q)
    BY <1>1, <1>2 DEF Kept, HostnameInv, Complete
  <1>3. CASE Left(q)
    BY <1>1, <1>3 DEF Left, HostnameInv, Complete
  <1>4. CASE Arrived(q)
    BY <1>1, <1>4 DEF Arrived, HostnameInv, Complete
  <1>5. CASE Ended(q)
    BY <1>1, <1>5 DEF Ended, Nothing
  <1>6. CASE Checked(q) \/ Missed(q)
    BY <1>1, <1>6 DEF Checked, Missed, Same, HostnameInv
  <1>7. ASSUME NEW d \in Db, LookedUp(q, d)
        PROVE  Goal
    <2>1. answer'[q].hostname = answer[q].hostname /\ answer[q].hostname = "none"
      BY <1>1, <1>7 DEF LookedUp, Response, HostnameInv, Db
    <2>2. Complete(q)' <=> Complete(q)
      BY <1>1, <1>7 DEF LookedUp, Same, Complete
    <2>3. /\ phase'[q] = "resolve" => Complete(q) /\ resolver
          /\ phase'[q] = "set" => ~ (Complete(q) /\ resolver)
      BY <1>7 DEF LookedUp, AfterLookup
    <2> QED
      BY <1>1, <2>1, <2>2, <2>3
  <1>8. ASSUME NEW outcome \in Hostname \ {"none"}, Resolved(q, outcome)
        PROVE  Goal
    <2>1. answer'[q].hostname = outcome /\ outcome \in {"named", "failed", "cut"}
      BY <1>1, <1>8 DEF Resolved, Response, Hostname
    <2>2. resolver
      BY <1>8 DEF Resolved, HostnameInv
    <2> QED
      BY <1>1, <1>8, <2>1, <2>2 DEF Resolved, Same
  <1> QED
    BY <1>2, <1>3, <1>4, <1>5, <1>6, <1>7, <1>8, RequestCases

(* What is loaded only gets newer, so it stays at least as new as what a   *)
(* request saw at its miss.                                                *)
LEMMA SinceKept ==
  ASSUME TypeOK, FileInv, SinceInv, [Next]_serviceVars
  PROVE  SinceInv'
  <1> SUFFICES ASSUME NEW q \in Request, phase'[q] \in Building, NEW d \in Db
               PROVE  since'[q][d] <= loaded'[d]
    BY DEF SinceInv
  <1>1. /\ since[q][d] \in Builds /\ loaded[d] \in Builds /\ loaded'[d] \in Builds
        /\ loaded[d] <= loaded'[d]
    BY LoadedGrows DEF TypeOK
  <1>2. \/ since'[q] = since[q] /\ phase[q] \in Building
        \/ since'[q] = loaded /\ loaded' = loaded
    BY RequestCases DEF Kept, Arrived, Left, Ended, Checked, Missed, LookedUp, Resolved,
       Building, Db
  <1> QED
    BY <1>1, <1>2, MaxBuildAssumption DEF SinceInv, Builds

(* Each lookup finds what is loaded at its step. *)
LEMMA AnswersKept ==
  ASSUME TypeOK, FileInv, SinceInv, AnswersSinceMiss, [Next]_serviceVars
  PROVE  AnswersSinceMiss'
  <1> SUFFICES ASSUME NEW q \in Request, NEW d \in Db, d \in LookedIn(q)'
               PROVE  /\ since'[q][d] <= answer'[q].built[d]
                      /\ answer'[q].built[d] <= loaded'[d]
    BY DEF AnswersSinceMiss, LookedIn, Db
  <1>1. /\ since[q][d] \in Builds /\ loaded[d] \in Builds /\ loaded'[d] \in Builds
        /\ answer[q] \in Response /\ loaded[d] <= loaded'[d]
    BY LoadedGrows DEF TypeOK
  <1>2. phase'[q] \in {"asn", "resolve", "set"}
    BY DEF LookedIn
  <1>3. CASE /\ d \in LookedIn(q)
             /\ since'[q] = since[q]
             /\ answer'[q].built[d] = answer[q].built[d]
    <2>1. since[q][d] <= answer[q].built[d] /\ answer[q].built[d] <= loaded[d]
      BY <1>3 DEF AnswersSinceMiss
    <2> QED
      BY <1>1, <1>3, <2>1, MaxBuildAssumption DEF Builds, Response
  <1>4. ASSUME LookedUp(q, d), loaded' = loaded
        PROVE  since'[q][d] <= answer'[q].built[d] /\ answer'[q].built[d] <= loaded'[d]
    <2>1. answer'[q].built[d] = loaded[d] /\ since'[q] = since[q]
      BY <1>1, <1>4 DEF LookedUp, Response
    <2>2. since[q][d] <= loaded[d]
      BY <1>4 DEF LookedUp, SinceInv, Building, Db
    <2> QED
      BY <1>1, <1>4, <2>1, <2>2, MaxBuildAssumption DEF Builds
  <1>5. ASSUME NEW e \in Db, e # d, LookedUp(q, e)
        PROVE  d \in LookedIn(q) /\ since'[q] = since[q]
               /\ answer'[q].built[d] = answer[q].built[d]
    BY <1>1, <1>5 DEF LookedUp, LookedIn, AfterLookup, Response, Db
  <1>6. ASSUME NEW outcome, Resolved(q, outcome)
        PROVE  d \in LookedIn(q) /\ since'[q] = since[q]
               /\ answer'[q].built[d] = answer[q].built[d]
    BY <1>1, <1>6 DEF Resolved, LookedIn, Response
  <1>7. ASSUME Kept(q) \/ Left(q)
        PROVE  d \in LookedIn(q) /\ since'[q] = since[q]
               /\ answer'[q].built[d] = answer[q].built[d]
    BY <1>7 DEF Kept, Left, LookedIn
  <1>8. ~ (Arrived(q) \/ Ended(q) \/ Checked(q) \/ Missed(q))
    BY <1>2 DEF Arrived, Ended, Checked, Missed
  <1> QED
    BY <1>3, <1>4, <1>5, <1>6, <1>7, <1>8, RequestCases

(* The database of a field was loaded at the check, and loaded databases   *)
(* are never given up.                                                     *)
LEMMA FieldKept ==
  ASSUME TypeOK, FileInv, FieldInv, FieldIsAnswered, [Next]_serviceVars
  PROVE  FieldInv' /\ FieldIsAnswered'
  <1>1. ASSUME NEW q \in Request, NEW d \in Db, loaded[d] # 0
        PROVE  loaded'[d] # 0
    BY <1>1, LoadedGrows, MaxBuildAssumption DEF TypeOK, Builds
  <1>2. ASSUME NEW q \in Request, wants'[q] \in Db, phase'[q] \notin {"idle", "check"}
        PROVE  loaded'[wants'[q]] # 0
    <2>1. CASE Arrived(q) \/ Ended(q)
      BY <1>2, <2>1 DEF Arrived, Ended
    <2>2. CASE Checked(q)
      BY <1>1, <1>2, <2>2 DEF Checked, Same
    <2>3. CASE wants'[q] = wants[q] /\ phase[q] \notin {"idle", "check"}
      BY <1>1, <1>2, <2>3 DEF FieldInv
    <2> QED
      BY <1>2, <2>1, <2>2, <2>3, RequestCases DEF Kept, Left, Missed, LookedUp, Resolved,
         Same, Db
  <1>3. ASSUME NEW q \in Request, wants'[q] \in LookedIn(q)'
        PROVE  answer'[q].built[wants'[q]] # 0
    <2> DEFINE d == wants'[q]
    <2>1. d \in Db /\ phase'[q] \in {"asn", "resolve", "set"} /\ answer[q] \in Response
      BY <1>3 DEF LookedIn, TypeOK, Db
    <2>2. ~ (Arrived(q) \/ Ended(q) \/ Checked(q) \/ Missed(q))
      BY <2>1 DEF Arrived, Ended, Checked, Missed
    <2>3. wants'[q] = wants[q]
      BY <2>2, RequestCases DEF Kept, Left, LookedUp, Resolved, Same
    <2>4. CASE LookedUp(q, d)
      <3>1. answer'[q].built[d] = loaded[d]
        BY <2>1, <2>4 DEF LookedUp, Response
      <3>2. loaded[d] # 0
        BY <2>1, <2>3, <2>4 DEF LookedUp, FieldInv, Db
      <3> QED
        BY <3>1, <3>2
    <2>5. CASE d \in LookedIn(q) /\ answer'[q].built[d] = answer[q].built[d]
      BY <2>3, <2>5 DEF FieldIsAnswered
    <2>6. ASSUME NEW e \in Db, e # d, LookedUp(q, e)
          PROVE  d \in LookedIn(q) /\ answer'[q].built[d] = answer[q].built[d]
      <3>1. answer'[q].built[d] = answer[q].built[d]
        BY <2>1, <2>6 DEF LookedUp, Response
      <3>2. d \in LookedIn(q)
        BY <1>3, <2>1, <2>6 DEF LookedUp, LookedIn, AfterLookup, Db
      <3> QED
        BY <3>1, <3>2
    <2>7. ASSUME NEW outcome, Resolved(q, outcome)
          PROVE  d \in LookedIn(q) /\ answer'[q].built[d] = answer[q].built[d]
      BY <2>1, <2>7 DEF Resolved, LookedIn, Response
    <2>8. ASSUME Kept(q) \/ Left(q)
          PROVE  d \in LookedIn(q) /\ answer'[q].built[d] = answer[q].built[d]
      BY <1>3, <2>8 DEF Kept, Left, LookedIn
    <2> QED
      BY <2>2, <2>4, <2>5, <2>6, <2>7, <2>8, RequestCases
  <1> QED
    BY <1>2, <1>3 DEF FieldInv, FieldIsAnswered

-----------------------------------------------------------------------------
(* There are finitely many stale answers and finitely many requests. *)
LEMMA LeftoverIsNumber ==
  ASSUME NEW c, Formed(c), NEW l
  PROVE  Cardinality(Stale(c, l)) \in Nat /\ Cardinality(InFlight) \in Nat
  <1>1. IsFiniteSet(Stale(c, l))
    BY ListCountsMap, FS_Subset DEF Stale
  <1>2. IsFiniteSet(InFlight)
    BY RequestAssumption, FS_Subset DEF InFlight
  <1> QED
    BY <1>1, <1>2, FS_CardinalityType

(* Types are kept. *)
LEMMA ServiceTypeStep ==
  ASSUME TypeOK, CacheInv, AsksInv, FileInv, [Next]_serviceVars
  PROVE  TypeOK'
  <1>1. CacheTypeOK'
    BY CacheKept DEF CacheInv, Formed, Shape, CacheTypeOK
  <1>2. loaded' \in [Db -> Builds] /\ file' \in [Db -> Builds]
    BY LoadedGrows
  <1> DEFINE RequestTypes ==
        /\ resolver \in BOOLEAN
        /\ phase \in [Request -> {"idle", "check", "get", "city", "asn", "resolve", "set"}]
        /\ wants \in [Request -> Db \cup {"page"}]
        /\ asks \in [Request -> Addr \cup {None}]
        /\ answer \in [Request -> Response]
        /\ gone \in [Request -> BOOLEAN]
        /\ since \in [Request -> [Db -> Builds]]
      Rest == callback \in {"idle", "reload", "clear"} /\ leftover \in Nat
  <1>3. RequestTypes /\ Rest /\ loaded \in [Db -> Builds]
    BY DEF TypeOK
  <1>4. Nothing \in Response
    BY MaxBuildAssumption DEF Nothing, Response, Hostname, Builds
  <1>5. ASSUME NEW r \in Request, Finish(r)
        PROVE  RequestTypes' /\ Rest'
    <2>1. Nothing.built \in [Db -> Builds]
      BY <1>4 DEF Nothing, Response
    <2> QED
      BY <1>3, <1>4, <1>5, <2>1 DEF Finish, databaseVars
  <1>6. ASSUME NEW r \in Request, NEW what \in Db \cup {"page"}, NEW a \in Addr,
               Arrive(r, what, a)
        PROVE  RequestTypes' /\ Rest'
    BY <1>3, <1>6 DEF Arrive, databaseVars
  <1>7. ASSUME NEW r \in Request, Leave(r) \/ Admit(r) \/ Miss(r)
        PROVE  RequestTypes' /\ Rest'
    BY <1>3, <1>7 DEF Leave, Admit, Miss, databaseVars
  <1>8. ASSUME NEW r \in Request, NEW d \in Db, LookUp(r, d)
        PROVE  RequestTypes' /\ Rest'
    <2>1. AfterLookup(r, d) \in {"asn", "resolve", "set"}
      BY DEF AfterLookup
    <2>2. [answer[r] EXCEPT !.built[d] = loaded[d]] \in Response
      BY <1>3 DEF Response
    <2>3. answer' \in [Request -> Response]
      BY <1>3, <1>8, <2>2 DEF LookUp
    <2> QED
      BY <1>3, <1>8, <2>1, <2>3 DEF LookUp, databaseVars
  <1>9. ASSUME NEW r \in Request, NEW outcome \in Hostname \ {"none"}, Resolve(r, outcome)
        PROVE  RequestTypes' /\ Rest'
    <2>1. [answer[r] EXCEPT !.hostname = outcome] \in Response
      BY <1>3 DEF Response
    <2>2. answer' \in [Request -> Response]
      BY <1>3, <1>9, <2>1 DEF Resolve
    <2> QED
      BY <1>3, <1>9, <2>2 DEF Resolve, databaseVars
  <1>10. ASSUME UNCHANGED <<resolver, requestVars>>, Rest'
         PROVE  RequestTypes' /\ Rest'
    BY <1>3, <1>10 DEF requestVars
  <1>11. ASSUME NEW failed, ReloadFails(failed)
         PROVE  Rest'
    <2>1. Formed(cache)
      BY DEF CacheInv
    <2>2. leftover' \in Nat
      BY <1>11, <2>1, LeftoverIsNumber DEF ReloadFails
    <2> QED
      BY <1>11, <2>2 DEF ReloadFails
  <1>12. ASSUME Clear
         PROVE  UNCHANGED <<resolver, requestVars>> /\ Rest'
    <2>1. Formed(cache)
      BY DEF CacheInv
    <2>2. leftover' \in Nat
      BY <1>12, <2>1, LeftoverIsNumber DEF Clear
    <2> QED
      BY <1>12, <2>2 DEF Clear
  <1>13. ASSUME UNCHANGED serviceVars
         PROVE  RequestTypes' /\ Rest'
    BY <1>3, <1>10, <1>13 DEF serviceVars, requestVars, databaseVars
  <1>14. ASSUME \/ \E capacity \in Capacity : Resize(capacity)
                \/ \E builds \in [Db -> Builds] : Download(builds)
                \/ Reload
         PROVE  UNCHANGED <<resolver, requestVars>> /\ Rest'
    BY <1>3, <1>14 DEF Resize, Download, Reload, databaseVars
  <1>15. RequestTypes' /\ Rest'
    <2> HIDE DEF RequestTypes, Rest
    <2>1. ASSUME NEW r \in Request, Refuse(r) \/ Hit(r) \/ Store(r)
          PROVE  Finish(r)
      BY <2>1 DEF Refuse, Hit, Store
    <2>2. ASSUME NEW failed, ReloadFails(failed)
          PROVE  UNCHANGED <<resolver, requestVars>>
      BY <2>2 DEF ReloadFails
    <2> QED
      BY <1>5, <1>6, <1>7, <1>8, <1>9, <1>10, <1>11, <1>12, <1>13, <1>14, <2>1, <2>2,
         ServiceCases
  <1> QED
    BY <1>1, <1>2, <1>15 DEF TypeOK

-----------------------------------------------------------------------------
(* A server that has just opened its databases: nothing is cached, no      *)
(* request is under way, and what is loaded comes from the files.          *)
LEMMA ServiceInit == Init => ServiceInv
  <1> SUFFICES ASSUME Init
               PROVE  ServiceInv
    OBVIOUS
  <1>1. CacheInv
    BY NewFormed, CapacityAssumption DEF Init, CacheInv
  <1>2. CacheTypeOK
    BY <1>1 DEF CacheInv, Formed, Shape, CacheTypeOK
  <1>3. Nothing \in Response
    BY MaxBuildAssumption DEF Nothing, Response, Hostname, Builds
  <1>4. /\ file \in [Db -> Builds] /\ loaded \in [Db -> Builds]
        /\ FileInv
    BY MaxBuildAssumption DEF Init, Builds, FileInv
  <1>5. TypeOK
    <2>1. Nothing.built \in [Db -> Builds]
      BY <1>3 DEF Nothing, Response
    <2> QED
      BY <1>2, <1>3, <1>4, <2>1 DEF Init, TypeOK
  <1>6. /\ AsksInv /\ SinceInv /\ FieldInv
        /\ AnswersSinceMiss /\ FieldIsAnswered
    BY DEF Init, AsksInv, SinceInv, Building, FieldInv, AnswersSinceMiss, FieldIsAnswered,
       LookedIn, Db
  <1>7. HostnameInv
    BY DEF Init, HostnameInv, Nothing
  <1>8. CompleteOnly
    BY DEF Init, NewCache, CompleteOnly
  <1> QED
    BY <1>1, <1>4, <1>5, <1>6, <1>7, <1>8 DEF ServiceInv

(* The parts together: the invariant is inductive. *)
LEMMA ServiceInductive == ServiceInv /\ [Next]_serviceVars => ServiceInv'
  BY ServiceTypeStep, CacheKept, AsksKept, HostnameKept, CompleteKept, LoadedGrows,
     SinceKept, AnswersKept, FieldKept DEF ServiceInv

(* The invariant holds in every reachable state, for any requests,         *)
(* addresses, capacities and builds.                                       *)
THEOREM ServiceInvariance == Spec => []ServiceInv
  BY ServiceInit, ServiceInductive, PTL DEF Spec

(* Cache, databases and requests keep their types. *)
THEOREM ServiceTypeCorrect == Spec => []TypeOK
  <1>1. ServiceInv => TypeOK
    BY DEF ServiceInv
  <1> QED
    BY <1>1, ServiceInvariance, PTL

(* Only complete responses are cached (response.go:47): none without the   *)
(* reverse lookup, and none whose reverse lookup a leaving client cut.     *)
THEOREM OnlyCompleteCached == Spec => []CompleteOnly
  <1>1. ServiceInv => CompleteOnly
    BY DEF ServiceInv
  <1> QED
    BY <1>1, ServiceInvariance, PTL

(* No part of an answer is older than the miss of its request, whatever is *)
(* reloaded while it is made (response.go:54-81).                          *)
THEOREM NoAnswerFromBeforeTheMiss == Spec => []AnswersSinceMiss
  <1>1. ServiceInv => AnswersSinceMiss
    BY DEF ServiceInv
  <1> QED
    BY <1>1, ServiceInvariance, PTL

(* A field endpoint that passed its check looks in a loaded database       *)
(* (handler.go:198-202).                                                   *)
THEOREM CheckedFieldIsAnswered == Spec => []FieldIsAnswered
  <1>1. ServiceInv => FieldIsAnswered
    BY DEF ServiceInv
  <1> QED
    BY <1>1, ServiceInvariance, PTL

-----------------------------------------------------------------------------
(* StaleBound counts. What may still be stored stale is held by a request  *)
(* that missed before the last reload, so the invariant counts those, too. *)
Behind == {r \in InFlight : since[r] # loaded}

BoundInv ==
  callback # "clear" =>
    Cardinality(Stale(cache, loaded)) + Cardinality(Behind) <= leftover

(* Neither set is infinite, and a set that loses elements is no larger.    *)
LEMMA CountsAreNumbers ==
  ASSUME CacheInv
  PROVE  /\ IsFiniteSet(Stale(cache, loaded)) /\ IsFiniteSet(InFlight) /\ IsFiniteSet(Behind)
         /\ Cardinality(Stale(cache, loaded)) \in Nat
         /\ Cardinality(Behind) \in Nat /\ Cardinality(InFlight) \in Nat
         /\ Cardinality(Behind) <= Cardinality(InFlight)
  <1>1. IsFiniteSet(Stale(cache, loaded))
    BY ListCountsMap, FS_Subset DEF Stale, CacheInv
  <1>2. IsFiniteSet(InFlight)
    BY RequestAssumption, FS_Subset DEF InFlight
  <1>3. Behind \in SUBSET InFlight
    BY DEF Behind
  <1> QED
    BY <1>1, <1>2, <1>3, FS_Subset, FS_CardinalityType

(* A request that falls behind had missed before; only a miss makes it     *)
(* current.                                                                *)
LEMMA BehindKept ==
  ASSUME TypeOK, [Next]_serviceVars, loaded' = loaded
  PROVE  Behind' \subseteq Behind
  <1> SUFFICES ASSUME NEW q \in Request, phase'[q] \in Building, since'[q] # loaded
               PROVE  phase[q] \in Building /\ since[q] # loaded
    BY DEF Behind, InFlight, Building
  <1> QED
    BY RequestCases DEF Kept, Arrived, Left, Ended, Checked, Missed, LookedUp, Resolved,
       Building, Db

(* Fewer of both are bounded as before. *)
LEMMA FewerAreBounded ==
  ASSUME CacheInv, CacheInv', BoundInv, callback # "clear",
         Stale(cache, loaded)' \subseteq Stale(cache, loaded), Behind' \subseteq Behind,
         leftover \in Nat, leftover' = leftover
  PROVE  BoundInv'
  <1>1. /\ Cardinality(Stale(cache, loaded)') <= Cardinality(Stale(cache, loaded))
        /\ Cardinality(Behind') <= Cardinality(Behind)
    BY CountsAreNumbers, FS_Subset
  <1>2. /\ Cardinality(Stale(cache, loaded)') \in Nat /\ Cardinality(Behind') \in Nat
        /\ Cardinality(Stale(cache, loaded)) \in Nat /\ Cardinality(Behind) \in Nat
    BY CountsAreNumbers, FS_Subset, FS_CardinalityType
  <1>3. Cardinality(Stale(cache, loaded)) + Cardinality(Behind) <= leftover
    BY DEF BoundInv
  <1> QED
    BY <1>1, <1>2, <1>3 DEF BoundInv

(* A store adds one stale answer at most, and then from a request that was *)
(* behind and is gone now.                                                 *)
LEMMA StoreIsBounded ==
  ASSUME ServiceInv, CacheInv', BoundInv, callback # "clear", [Next]_serviceVars,
         NEW r \in Request, Store(r)
  PROVE  BoundInv'
  <1> DEFINE S == Stale(cache, loaded)
             T == Stale(cache', loaded)
             a == asks[r]
  <1>1. /\ callback' = callback /\ loaded' = loaded /\ leftover' = leftover
        /\ leftover \in Nat
    BY DEF Store, Finish, databaseVars, ServiceInv, TypeOK
  <1>2. Behind' \subseteq Behind \ {r}
    <2>1. r \notin Behind'
      BY FinishStep DEF Store, Behind, InFlight, ServiceInv
    <2> QED
      BY <1>1, <2>1, BehindKept DEF ServiceInv
  <1>3. DOMAIN cache = {"capacity", "entries", "values", "evictions"}
    BY DEF ServiceInv, CacheInv, Formed, Shape
  <1>4. \A b \in DOMAIN cache'.entries :
          \/ cache'.entries[b].response = answer[r]
          \/ b \in DOMAIN cache.entries /\ cache'.entries[b] = cache.entries[b]
    BY <1>3, SetEntries DEF Store
  <1>5. CASE since[r] = loaded
    <2>1. /\ loaded \in [Db -> Builds] /\ answer[r] \in Response
          /\ \A d \in Db : loaded[d] <= answer[r].built[d] /\ answer[r].built[d] <= loaded[d]
      BY <1>5 DEF Store, ServiceInv, TypeOK, AnswersSinceMiss, LookedIn
    <2>2. answer[r].built \in [Db -> Builds]
      BY <2>1 DEF Response
    <2>3. \A d \in Db : answer[r].built[d] = loaded[d]
      <3> SUFFICES ASSUME NEW d \in Db
                   PROVE  answer[r].built[d] = loaded[d]
        OBVIOUS
      <3>1. answer[r].built[d] \in Int /\ loaded[d] \in Int
        BY <2>1, <2>2, MaxBuildAssumption DEF Builds
      <3> QED
        BY <2>1, <3>1
    <2>4. answer[r].built = loaded
      BY <2>1, <2>2, <2>3
    <2>5. T \subseteq S
      BY <1>4, <2>4 DEF Stale
    <2> QED
      BY <1>1, <1>2, <2>5, FewerAreBounded DEF ServiceInv
  <1>6. CASE since[r] # loaded
    <2>1. r \in Behind
      BY <1>6 DEF Store, Behind, InFlight
    <2>2. T \subseteq S \cup {a}
      <3> SUFFICES ASSUME NEW b \in T, b # a
                   PROVE  b \in S
        OBVIOUS
      <3>1. CASE ~ Storable(r)
        BY <3>1 DEF Store, Stale
      <3>2. CASE Storable(r)
        <4>1. cache' = Set(cache, a, answer[r])
          BY <3>2 DEF Store
        <4>2. b \in DOMAIN cache.entries /\ cache'.entries[b] = cache.entries[b]
          BY <1>3, <4>1, OthersInSet DEF Stale
        <4> QED
          BY <4>2 DEF Stale
      <3> QED
        BY <3>1, <3>2
    <2>3. /\ IsFiniteSet(S) /\ Cardinality(S) \in Nat
          /\ IsFiniteSet(Behind) /\ Cardinality(Behind) \in Nat
      BY CountsAreNumbers DEF ServiceInv
    <2> HIDE DEF S, T, a
    <2>4. Cardinality(T) \in Nat /\ Cardinality(T) <= Cardinality(S) + 1
      <3>1. /\ IsFiniteSet(S \cup {a}) /\ Cardinality(S \cup {a}) \in Nat
            /\ Cardinality(S \cup {a}) <= Cardinality(S) + 1
        <4> DEFINE n == Cardinality(S)
                   m == Cardinality(S \cup {a})
        <4>1. IsFiniteSet(S \cup {a}) /\ m = IF a \in S THEN n ELSE n + 1
          BY <2>3, FS_AddElement
        <4>2. n \in Nat
          BY <2>3
        <4> HIDE DEF n, m
        <4>3. m \in Nat /\ m <= n + 1
          BY <4>1, <4>2
        <4> QED
          BY <4>1, <4>3 DEF n, m
      <3>2. /\ IsFiniteSet(T) /\ Cardinality(T) \in Nat
            /\ Cardinality(T) <= Cardinality(S \cup {a})
        BY <2>2, <3>1, FS_Subset, FS_CardinalityType
      <3> QED
        BY <2>3, <3>1, <3>2
    <2>5. Cardinality(Behind') \in Nat /\ Cardinality(Behind') <= Cardinality(Behind) - 1
      <3>1. /\ IsFiniteSet(Behind \ {r}) /\ Cardinality(Behind \ {r}) = Cardinality(Behind) - 1
        BY <2>1, <2>3, FS_RemoveElement
      <3> QED
        BY <1>2, <2>3, <3>1, FS_Subset, FS_CardinalityType
    <2>6. Cardinality(S) + Cardinality(Behind) <= leftover
      BY DEF BoundInv, S
    <2>7. Cardinality(T) + Cardinality(Behind') <= leftover
      BY <1>1, <2>3, <2>4, <2>5, <2>6
    <2> QED
      BY <1>1, <2>7 DEF BoundInv, T
  <1> QED
    BY <1>5, <1>6

LEMMA BoundKept ==
  ASSUME ServiceInv, BoundInv, [Next]_serviceVars
  PROVE  BoundInv'
  <1>1. CacheInv' /\ leftover \in Nat
    BY ServiceInductive DEF ServiceInv, TypeOK
  <1>2. DOMAIN cache = {"capacity", "entries", "values", "evictions"}
    BY DEF ServiceInv, CacheInv, Formed, Shape
  <1>3. ASSUME callback # "clear", loaded' = loaded, leftover' = leftover,
               \A b \in DOMAIN cache'.entries :
                 b \in DOMAIN cache.entries /\ cache'.entries[b] = cache.entries[b]
        PROVE  BoundInv'
    <2>1. Stale(cache, loaded)' \subseteq Stale(cache, loaded)
      BY <1>3 DEF Stale
    <2>2. Behind' \subseteq Behind
      BY <1>3, BehindKept DEF ServiceInv
    <2> QED
      BY <1>1, <1>3, <2>1, <2>2, FewerAreBounded DEF ServiceInv
  <1>4. ASSUME NEW r \in Request, Hit(r)
        PROVE  cache'.entries = cache.entries
    BY <1>2, <1>4 DEF Hit, Get
  <1>5. CASE \/ UNCHANGED serviceVars
             \/ \E r \in Request, what \in Db \cup {"page"}, b \in Addr : Arrive(r, what, b)
             \/ \E r \in Request : Leave(r) \/ Refuse(r) \/ Admit(r) \/ Hit(r) \/ Miss(r)
             \/ \E r \in Request, d \in Db : LookUp(r, d)
             \/ \E r \in Request, outcome \in Hostname \ {"none"} : Resolve(r, outcome)
    <2>1. /\ callback' = callback /\ loaded' = loaded /\ leftover' = leftover
          /\ cache'.entries = cache.entries
      BY <1>4, <1>5 DEF serviceVars, databaseVars, Arrive, Leave, Refuse, Admit, Hit, Miss,
         LookUp, Resolve, Finish
    <2> QED
      BY <1>3, <2>1 DEF BoundInv
  <1>6. CASE \E capacity \in Capacity : Resize(capacity)
    <2>1. PICK capacity \in Capacity : Resize(capacity)
      BY <1>6
    <2>2. callback' = callback /\ loaded' = loaded /\ leftover' = leftover
      BY <2>1 DEF Resize, databaseVars
    <2> QED
      BY <1>2, <1>3, <2>1, <2>2, ResizedEntries DEF Resize, BoundInv
  <1>7. CASE \E builds \in [Db -> Builds] : Download(builds)
    BY <1>3, <1>7 DEF Download
  <1>8. CASE \E r \in Request : Store(r)
    <2>1. PICK r \in Request : Store(r)
      BY <1>8
    <2>2. callback' = callback
      BY <2>1 DEF Store, Finish, databaseVars
    <2> QED
      BY <1>1, <2>1, <2>2, StoreIsBounded DEF BoundInv
  <1>9. CASE Reload
    BY <1>9 DEF Reload, BoundInv
  <1>10. CASE \E failed \in SUBSET Fragile : ReloadFails(failed)
    <2>1. /\ leftover' = Cardinality(Stale(cache, loaded)') + Cardinality(InFlight)
          /\ InFlight' = InFlight
      BY <1>10 DEF ReloadFails, Stale, InFlight, requestVars
    <2>2. /\ Cardinality(Behind') <= Cardinality(InFlight')
          /\ Cardinality(Behind') \in Nat /\ Cardinality(InFlight') \in Nat
          /\ Cardinality(Stale(cache, loaded)') \in Nat
      <3>1. Behind' \subseteq InFlight
        BY <2>1 DEF Behind
      <3>2. Cardinality(Stale(cache', loaded')) \in Nat
        BY <1>1, LeftoverIsNumber DEF CacheInv
      <3> QED
        BY <2>1, <3>1, <3>2, CountsAreNumbers, FS_Subset, FS_CardinalityType
           DEF ServiceInv, Stale
    <2> QED
      BY <2>1, <2>2 DEF BoundInv
  <1>11. CASE Clear
    <2>1. /\ leftover' = Cardinality(InFlight) /\ InFlight' = InFlight
          /\ Stale(cache, loaded)' = {}
      BY <1>2, <1>11 DEF Clear, Cleared, Stale, InFlight, requestVars
    <2>2. /\ Cardinality(Behind') <= Cardinality(InFlight')
          /\ Cardinality(Behind') \in Nat /\ Cardinality(InFlight') \in Nat
      <3>1. Behind' \subseteq InFlight
        BY <2>1 DEF Behind
      <3> QED
        BY <2>1, <3>1, CountsAreNumbers, FS_Subset, FS_CardinalityType DEF ServiceInv
    <2>3. Cardinality(Stale(cache, loaded)') = 0
      BY <2>1, FS_EmptySet
    <2> QED
      BY <2>1, <2>2, <2>3 DEF BoundInv
  <1> QED
    BY <1>5, <1>6, <1>7, <1>8, <1>9, <1>10, <1>11, ServiceCases

(* Between two reloads the stale answers in the cache are bounded by what  *)
(* the last reload left and the requests that were in flight then          *)
(* (main.go:196-203, response.go:54-62).                                   *)
THEOREM StaleIsBounded == Spec => []StaleBound
  <1>1. Init => BoundInv
    <2> SUFFICES ASSUME Init
                 PROVE  BoundInv
      OBVIOUS
    <2>1. Stale(cache, loaded) = {} /\ Behind = {} /\ leftover = 0
      BY DEF Init, NewCache, Stale, Behind, InFlight
    <2> QED
      BY <2>1, FS_EmptySet DEF BoundInv
  <1>2. ServiceInv /\ BoundInv /\ [Next]_serviceVars => BoundInv'
    BY BoundKept
  <1>3. ServiceInv /\ BoundInv => StaleBound
    BY CountsAreNumbers DEF ServiceInv, TypeOK, BoundInv, StaleBound
  <1> QED
    BY <1>1, <1>2, <1>3, ServiceInvariance, PTL DEF Spec

=============================================================================
