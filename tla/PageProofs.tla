----------------------------- MODULE PageProofs -----------------------------
(***************************************************************************)
(* For any requests, addresses, capacities and builds, a page agrees with  *)
(* itself, and rendering pages changes nothing of what Service promises.   *)
(*                                                                         *)
(* The argument: a response that is shown was made under the lock of each  *)
(* database, now or when it was cached, and what is loaded only gets newer *)
(* afterwards (LoadedGrows).                                               *)
(***************************************************************************)
EXTENDS Page, ServiceProofs

(* No cached answer is ahead of the databases. *)
CachedInv ==
  \A a \in DOMAIN cache.entries :
    LET response == cache.entries[a].response
    IN  response \in Response /\ \A d \in Db : response.built[d] <= loaded[d]

(* And so is none that is shown. *)
ShownInv ==
  /\ part \in [Request -> {"none", "city date", "asn date", "city buttons", "asn buttons"}]
  /\ shown \in [Request -> [Db -> Builds]]
  /\ \A r \in Request : part[r] # "none" => \A d \in Db : shown[r][d] <= loaded[d]

PageInv == ServiceInv /\ CachedInv /\ ShownInv

-----------------------------------------------------------------------------
(* A step of a page is none of the service. *)
LEMMA PageStep == [PageNext]_vars => [Next]_serviceVars
  BY DEF PageNext, Respond, PageArrive, Read, Next, vars

(* Every behaviour with pages is one of the service, so that all that      *)
(* ServiceProofs shows of it holds here.                                   *)
THEOREM PageIsService == PageSpec => Spec
  <1>1. PageInit => Init
    BY DEF PageInit
  <1> QED
    BY <1>1, PageStep, PTL DEF PageSpec, Spec

-----------------------------------------------------------------------------
(* What is stored was looked up, and what is loaded grows. *)
LEMMA CachedKept ==
  ASSUME ServiceInv, CachedInv, [Next]_serviceVars
  PROVE  CachedInv'
  <1> DEFINE Old(response, l) ==
        response \in Response /\ \A d \in Db : response.built[d] <= l[d]
  <1>1. DOMAIN cache = {"capacity", "entries", "values", "evictions"}
    BY DEF ServiceInv, CacheInv, Formed, Shape
  <1>2. /\ loaded \in [Db -> Builds] /\ loaded' \in [Db -> Builds]
        /\ \A d \in Db : loaded[d] <= loaded'[d]
    BY LoadedGrows DEF ServiceInv, TypeOK
  <1>3. ASSUME NEW response, Old(response, loaded)
        PROVE  Old(response, loaded')
    BY <1>2, <1>3, MaxBuildAssumption DEF Response, Builds
  <1>4. \A a \in DOMAIN cache.entries : Old(cache.entries[a].response, loaded)
    BY DEF CachedInv
  <1>5. SUFFICES ASSUME NEW a \in DOMAIN cache'.entries
                 PROVE  Old(cache'.entries[a].response, loaded')
    BY DEF CachedInv
  <1>6. SUFFICES Old(cache'.entries[a].response, loaded)
    BY <1>3
  <1> HIDE DEF Old
  <1>7. CASE cache' = cache
    BY <1>4, <1>7
  <1>8. ASSUME NEW r \in Request, Hit(r)
        PROVE  cache'.entries = cache.entries
    BY <1>1, <1>8 DEF Hit, Get
  <1>9. ASSUME NEW r \in Request, Store(r)
        PROVE  Old(cache'.entries[a].response, loaded)
    <2>1. Old(answer[r], loaded)
      BY <1>9 DEF Store, ServiceInv, TypeOK, AnswersSinceMiss, LookedIn, Old
    <2>2. CASE ~ Storable(r)
      BY <1>4, <1>9, <2>2 DEF Store
    <2>3. CASE Storable(r)
      <3>1. cache' = Set(cache, asks[r], answer[r])
        BY <1>9, <2>3 DEF Store
      <3> QED
        BY <1>1, <1>4, <2>1, <3>1, SetEntries
    <2> QED
      BY <2>2, <2>3
  <1>10. ASSUME NEW capacity \in Capacity, Resize(capacity)
         PROVE  Old(cache'.entries[a].response, loaded)
    BY <1>1, <1>4, <1>10, ResizedEntries DEF Resize
  <1>11. CASE Clear
    BY <1>1, <1>11 DEF Clear, Cleared
  <1> QED
    BY <1>4, <1>7, <1>8, <1>9, <1>10, <1>11, ServiceCases DEF serviceVars, Arrive, Leave,
       Refuse, Admit, Miss, LookUp, Resolve, Download, Reload, ReloadFails

(* The response a page begins with. *)
LEMMA RenderedIsOld ==
  ASSUME ServiceInv, CachedInv, NEW r \in Request, RequestStep(r), Answered(r)
  PROVE  BuiltFrom(r) \in [Db -> Builds] /\ \A d \in Db : BuiltFrom(r)[d] <= loaded[d]
  <1>1. CASE Hit(r)
    BY <1>1 DEF Hit, Cached, BuiltFrom, CachedInv, Response
  <1>2. CASE Store(r)
    BY <1>2 DEF Store, BuiltFrom, ServiceInv, TypeOK, AnswersSinceMiss, LookedIn, Response
  <1>3. ~ Refuse(r)
    BY DEF Refuse, Answered
  <1>4. phase[r] \in {"idle", "check", "get", "city", "asn", "resolve", "set"}
    BY DEF ServiceInv, TypeOK
  <1>5. ASSUME NEW d \in Db, LookUp(r, d) PROVE FALSE
    <2>1. phase'[r] = AfterLookup(r, d)
      BY <1>5 DEF LookUp, ServiceInv, TypeOK
    <2> QED
      BY <2>1 DEF AfterLookup, Answered
  <1>6. ~ (Admit(r) \/ Miss(r) \/ \E outcome \in Hostname \ {"none"} : Resolve(r, outcome))
    BY DEF Admit, Miss, Resolve, Answered, ServiceInv, TypeOK
  <1> QED
    BY <1>1, <1>2, <1>3, <1>5, <1>6 DEF RequestStep

(* What is no newer than a database stays so when that grows. *)
LEMMA StillOlder ==
  ASSUME NEW f \in [Db -> Builds], NEW g \in [Db -> Builds], NEW h \in [Db -> Builds],
         \A d \in Db : f[d] <= g[d], \A d \in Db : g[d] <= h[d], NEW d \in Db
  PROVE  f[d] <= h[d]
  <1>1. f[d] \in Builds /\ g[d] \in Builds /\ h[d] \in Builds
    OBVIOUS
  <1>2. f[d] <= g[d] /\ g[d] <= h[d]
    OBVIOUS
  <1> QED
    BY <1>1, <1>2, MaxBuildAssumption DEF Builds

(* What is shown stays no newer than what is loaded. *)
LEMMA ShownKept ==
  ASSUME PageInv, [PageNext]_vars
  PROVE  ShownInv'
  <1>1. /\ loaded \in [Db -> Builds] /\ loaded' \in [Db -> Builds]
        /\ \A d \in Db : loaded[d] <= loaded'[d]
    BY PageStep, LoadedGrows DEF PageInv, ServiceInv, TypeOK
  <1>2. Nothing.built \in [Db -> Builds]
    BY MaxBuildAssumption DEF Nothing, Builds
  <1>3. ASSUME UNCHANGED pageVars
        PROVE  ShownInv'
    <2>1. part' = part /\ shown' = shown
      BY <1>3 DEF pageVars
    <2>2. ASSUME NEW r \in Request, part[r] # "none", NEW d \in Db
          PROVE  shown[r][d] <= loaded'[d]
      <3>1. shown[r] \in [Db -> Builds] /\ \A e \in Db : shown[r][e] <= loaded[e]
        BY <2>2 DEF PageInv, ShownInv
      <3> QED
        BY <1>1, <3>1, StillOlder
    <2> QED
      BY <2>1, <2>2 DEF PageInv, ShownInv
  <1>4. ASSUME NEW r \in Request, RequestStep(r), Answered(r), Render(r)
        PROVE  ShownInv'
    <2>1. BuiltFrom(r) \in [Db -> Builds] /\ \A d \in Db : BuiltFrom(r)[d] <= loaded[d]
      BY <1>4, RenderedIsOld DEF PageInv
    <2> HIDE DEF BuiltFrom
    <2>2. /\ part' = [part EXCEPT ![r] = "city date"]
          /\ shown' = [shown EXCEPT ![r] = BuiltFrom(r)]
      BY <1>4 DEF Render
    <2>3. ASSUME NEW q \in Request, part'[q] # "none", NEW d \in Db
          PROVE  shown'[q][d] <= loaded[d]
      BY <2>1, <2>2, <2>3 DEF PageInv, ShownInv
    <2>4. /\ part' \in [Request -> {"none", "city date", "asn date", "city buttons", "asn buttons"}]
          /\ shown' \in [Request -> [Db -> Builds]]
      BY <2>1, <2>2 DEF PageInv, ShownInv
    <2>5. ASSUME NEW q \in Request, part'[q] # "none", NEW d \in Db
          PROVE  shown'[q][d] <= loaded'[d]
      <3>1. shown'[q] \in [Db -> Builds] /\ \A e \in Db : shown'[q][e] <= loaded[e]
        BY <2>3, <2>4, <2>5
      <3> QED
        BY <1>1, <3>1, StillOlder
    <2> QED
      BY <2>4, <2>5 DEF ShownInv
  <1>5. ASSUME NEW r \in Request, Read(r)
        PROVE  ShownInv'
    <2>1. loaded' = loaded
      BY <1>5 DEF Read, serviceVars, databaseVars
    <2>2. AfterPart(part[r]) \in {"none", "asn date", "city buttons", "asn buttons"}
      BY <1>5 DEF Read, AfterPart, PageInv, ShownInv
    <2>3. AfterPart("asn buttons") = "none"
      BY DEF AfterPart
    <2> QED
      BY <1>2, <1>5, <2>1, <2>2, <2>3 DEF Read, PageInv, ShownInv
  <1>6. [PageNext]_vars => \/ UNCHANGED pageVars
                           \/ \E r \in Request : RequestStep(r) /\ Answered(r) /\ Render(r)
                           \/ \E r \in Request : Read(r)
    BY DEF PageNext, Respond, PageArrive, vars
  <1> QED
    BY <1>3, <1>4, <1>5, <1>6

(* A database whose date or buttons a page reads is at least as new as     *)
(* what the page shows of it, whatever was reloaded since                  *)
(* (handler.go:302-308).                                                   *)
THEOREM PagesAgree == PageSpec => PageAgrees
  <1>1. ASSUME PageInit PROVE PageInv
    <2>1. ServiceInv
      BY <1>1, ServiceInit DEF PageInit
    <2>2. CachedInv
      BY <1>1 DEF PageInit, CachedInv, Init, NewCache
    <2>3. ShownInv
      BY <1>1, MaxBuildAssumption DEF PageInit, ShownInv, Nothing, Builds
    <2> QED
      BY <2>1, <2>2, <2>3 DEF PageInv
  <1>2. PageInv /\ [PageNext]_vars => PageInv'
    BY PageStep, ServiceInductive, CachedKept, ShownKept DEF PageInv
  <1>3. ASSUME PageInv, [PageNext]_vars, NEW r \in Request, part[r] # "none"
        PROVE  LET d == DbOf(part[r])
               IN  IF part[r] \in {"city date", "asn date"}
                   THEN shown[r][d] <= loaded[d]
                   ELSE shown[r][d] # 0 => loaded[d] # 0
    <2> DEFINE d == DbOf(part[r])
    <2>1. d \in Db
      BY DEF DbOf, Db
    <2>2. shown[r][d] \in Builds /\ loaded[d] \in Builds /\ shown[r][d] <= loaded[d]
      BY <1>3, <2>1 DEF PageInv, ShownInv, ServiceInv, TypeOK
    <2>3. shown[r][d] # 0 => loaded[d] # 0
      BY <2>2, MaxBuildAssumption DEF Builds
    <2> QED
      BY <2>2, <2>3
  <1>4. PageInv /\ [PageNext]_vars =>
          [\A r \in Request : part'[r] # part[r] /\ part[r] # "none" =>
             LET d == DbOf(part[r])
             IN  IF part[r] \in {"city date", "asn date"}
                 THEN shown[r][d] <= loaded[d]
                 ELSE shown[r][d] # 0 => loaded[d] # 0]_vars
    BY <1>3
  <1> QED
    BY <1>1, <1>2, <1>4, PTL DEF PageSpec, PageAgrees

=============================================================================
