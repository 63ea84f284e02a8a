------------------------------- MODULE Service -------------------------------
(***************************************************************************)
(* Requests, the response cache and the databases together: newResponse    *)
(* and lookup (server/response.go), the check of the field endpoints       *)
(* (server/handler.go), /debug/cache/resize, and the callback that reloads *)
(* the databases and clears the cache after a download                     *)
(* (cmd/echoip/main.go:196-203).                                           *)
(*                                                                         *)
(* A step is what happens under one lock, or outside of all: one method of *)
(* the cache (module Cache), one lookup or one reload of the databases     *)
(* (module GeoService, which GeoDatabase implements), one resolver call. A *)
(* response is reduced to what it was built from: the builds its lookups   *)
(* consulted, whatever they found there, and how the reverse lookup ended. *)
(***************************************************************************)
EXTENDS Cache

CONSTANTS
  Request,     \* the slots a request runs in, a goroutine of net/http each
  MaxBuild,    \* bound: the builds MaxMind publishes of each database
  Fragile,     \* the databases whose file may be missing or damaged
  None         \* no address

Db == {"city", "asn"}

Builds == 0..MaxBuild  \* 0: the database is not loaded

(* No resolver was asked, it named the address, it failed or timed out, or *)
(* the client left and the context cut it short.                           *)
Hostname == {"none", "named", "failed", "cut"}

Response == [built : [Db -> Builds], hostname : Hostname]

ASSUME MaxBuildAssumption == MaxBuild \in Nat \ {0}
ASSUME FragileAssumption == Fragile \subseteq Db
ASSUME NoneAssumption == None \notin Addr
ASSUME RequestAssumption == IsFiniteSet(Request)
ASSUME AnswerAssumption == Response \subseteq Answer

(* A definition marked `Fault' is a bug the one after it might have had;   *)
(* no specification uses it.                                               *)

VARIABLES
  resolver,  \* cfg.LookupAddr is set, -r
  file,      \* the build in the file of each database
  loaded,    \* the build each database answers from
  callback,  \* the next step of the callback
  phase,     \* the next step of each request
  wants,     \* the page or JSON, or a field of one database
  asks,      \* the address it is about
  answer,    \* the response as far as it is built
  gone,      \* its client left, so its context is done
  since,     \* history: what was loaded when it missed the cache
  leftover   \* history: how many stale entries the last reload may have left

requestVars == <<phase, wants, asks, answer, gone, since>>
databaseVars == <<file, loaded, callback>>
serviceVars == <<cache, resolver, requestVars, databaseVars, leftover>>

-----------------------------------------------------------------------------
Nothing == [built |-> [d \in Db |-> 0], hostname |-> "none"]

(* geo.Open has loaded the files that could be opened (main.go:186). *)
Init ==
  /\ \E capacity \in Capacity : cache = NewCache(capacity)
  /\ resolver \in BOOLEAN
  /\ file = [d \in Db |-> 1]
  /\ \E failed \in SUBSET Fragile :
       loaded = [d \in Db |-> IF d \in failed THEN 0 ELSE 1]
  /\ callback = "idle"
  /\ phase = [r \in Request |-> "idle"]
  /\ wants = [r \in Request |-> "page"]
  /\ asks = [r \in Request |-> None]
  /\ answer = [r \in Request |-> Nothing]
  /\ gone = [r \in Request |-> FALSE]
  /\ since = [r \in Request |-> Nothing.built]
  /\ leftover = 0

-----------------------------------------------------------------------------
(* A request arrives for one of the field endpoints of a database, which   *)
(* check it first, or for the page or /json.                               *)
Arrive(r, what, a) ==
  /\ phase[r] = "idle"
  /\ phase' = [phase EXCEPT ![r] = IF what \in Db THEN "check" ELSE "get"]
  /\ wants' = [wants EXCEPT ![r] = what]
  /\ asks' = [asks EXCEPT ![r] = a]
  /\ UNCHANGED <<cache, resolver, answer, gone, since, databaseVars, leftover>>

(* The client leaves, and net/http cancels the context of its request. *)
Leave(r) ==
  /\ phase[r] # "idle"
  /\ gone' = [gone EXCEPT ![r] = TRUE]
  /\ UNCHANGED <<cache, resolver, phase, wants, asks, answer, since,
                 databaseVars, leftover>>

(* The response is written, and the request is over. *)
Finish(r) ==
  /\ phase' = [phase EXCEPT ![r] = "idle"]
  /\ wants' = [wants EXCEPT ![r] = "page"]
  /\ asks' = [asks EXCEPT ![r] = None]
  /\ answer' = [answer EXCEPT ![r] = Nothing]
  /\ gone' = [gone EXCEPT ![r] = FALSE]
  /\ since' = [since EXCEPT ![r] = Nothing.built]
  /\ UNCHANGED <<resolver, databaseVars, leftover>>

(* cliField: 503 until the database is loaded. *)
Refuse(r) ==
  /\ phase[r] = "check"
  /\ loaded[wants[r]] = 0
  /\ Finish(r)
  /\ UNCHANGED cache

Admit(r) ==
  /\ phase[r] = "check"
  /\ loaded[wants[r]] # 0
  /\ phase' = [phase EXCEPT ![r] = "get"]
  /\ UNCHANGED <<cache, resolver, wants, asks, answer, gone, since,
                 databaseVars, leftover>>

(* newResponse answers from the cache. *)
Hit(r) ==
  /\ phase[r] = "get"
  /\ Cached(cache, asks[r])
  /\ cache' = Get(cache, asks[r])
  /\ Finish(r)

Miss(r) ==
  /\ phase[r] = "get"
  /\ ~ Cached(cache, asks[r])
  /\ phase' = [phase EXCEPT ![r] = "city"]
  /\ since' = [since EXCEPT ![r] = loaded]
  /\ UNCHANGED <<cache, resolver, wants, asks, answer, gone, databaseVars, leftover>>

(* The fields leave the hostname out, which is all that is missing. *)
Complete(r) == wants[r] \notin Db \/ ~ resolver

AfterLookup(r, d) ==
  IF d = "city" THEN "asn" ELSE IF Complete(r) /\ resolver THEN "resolve" ELSE "set"

(* Fault: the file is opened for every lookup. *)
LookUpInFile(r, d) ==
  /\ phase[r] = d
  /\ answer' = [answer EXCEPT ![r].built[d] = file[d]]
  /\ phase' = [phase EXCEPT ![r] = AfterLookup(r, d)]
  /\ UNCHANGED <<cache, resolver, wants, asks, gone, since, databaseVars, leftover>>

(* lookup: first the city database, then the ASN database. *)
LookUp(r, d) ==
  /\ phase[r] = d
  /\ answer' = [answer EXCEPT ![r].built[d] = loaded[d]]
  /\ phase' = [phase EXCEPT ![r] = AfterLookup(r, d)]
  /\ UNCHANGED <<cache, resolver, wants, asks, gone, since, databaseVars, leftover>>

(* LookupAddr: two seconds at most, less once the client has left. *)
Resolve(r, outcome) ==
  /\ phase[r] = "resolve"
  /\ outcome = "cut" => gone[r]
  /\ answer' = [answer EXCEPT ![r].hostname = outcome]
  /\ phase' = [phase EXCEPT ![r] = "set"]
  /\ UNCHANGED <<cache, resolver, wants, asks, gone, since, databaseVars, leftover>>

(* Fault: the response of a client that left is cached. *)
StorableAnyway(r) == Complete(r)

(* Only a complete response whose client is still there is cached. *)
Storable(r) == Complete(r) /\ ~ gone[r]

Store(r) ==
  /\ phase[r] = "set"
  /\ cache' = IF Storable(r) THEN Set(cache, asks[r], answer[r]) ELSE cache
  /\ Finish(r)

(* POST /debug/cache/resize, with -P. *)
Resize(capacity) ==
  /\ cache' = Resized(cache, capacity)
  /\ UNCHANGED <<resolver, requestVars, databaseVars, leftover>>

-----------------------------------------------------------------------------
(* The updater has replaced files by newer builds, not always the next     *)
(* ones, and calls the callback (maxmind.go:220-221). It does nothing else *)
(* until that returns.                                                     *)
Download(builds) ==
  /\ callback = "idle"
  /\ \A d \in Db : file[d] <= builds[d]
  /\ \E d \in Db : file[d] < builds[d]
  /\ file' = builds
  /\ callback' = "reload"
  /\ UNCHANGED <<cache, resolver, requestVars, loaded, leftover>>

(* The requests that missed the cache and have not stored yet. *)
InFlight == {r \in Request : phase[r] \in {"city", "asn", "resolve", "set"}}

(* The cached answers of c that were not built from the databases in l. *)
Stale(c, l) == {a \in DOMAIN c.entries : c.entries[a].response.built # l}

(* Fault: a database whose file does not open is given up. *)
ReloadedOrDropped(failed) == [d \in Db |-> IF d \in failed THEN 0 ELSE file[d]]

(* The files in `failed' did not open, their databases stay as they are. *)
Reloaded(failed) == [d \in Db |-> IF d \in failed THEN loaded[d] ELSE file[d]]

(* Fault: the callback forgets the cache. *)
ReloadOnly ==
  /\ callback = "reload"
  /\ loaded' = Reloaded({})
  /\ callback' = "idle"
  /\ UNCHANGED <<cache, resolver, requestVars, file, leftover>>

Reload ==
  /\ callback = "reload"
  /\ loaded' = Reloaded({})
  /\ callback' = "clear"
  /\ UNCHANGED <<cache, resolver, requestVars, file, leftover>>

(* The callback returns the error before it comes to Clear. *)
ReloadFails(failed) ==
  /\ callback = "reload"
  /\ failed # {}
  /\ loaded' = Reloaded(failed)
  /\ callback' = "idle"
  /\ leftover' = Cardinality(Stale(cache, Reloaded(failed))) + Cardinality(InFlight)
  /\ UNCHANGED <<cache, resolver, requestVars, file>>

Clear ==
  /\ callback = "clear"
  /\ cache' = Cleared(cache)
  /\ callback' = "idle"
  /\ leftover' = Cardinality(InFlight)
  /\ UNCHANGED <<resolver, requestVars, file, loaded>>

-----------------------------------------------------------------------------
RequestStep(r) ==
  \/ Refuse(r)
  \/ Admit(r)
  \/ Hit(r)
  \/ Miss(r)
  \/ \E d \in Db : LookUp(r, d)
  \/ \E outcome \in Hostname \ {"none"} : Resolve(r, outcome)
  \/ Store(r)

CallbackStep ==
  \/ Reload
  \/ \E failed \in SUBSET Fragile : ReloadFails(failed)
  \/ Clear

Next ==
  \/ \E r \in Request, what \in Db \cup {"page"}, a \in Addr : Arrive(r, what, a)
  \/ \E r \in Request : Leave(r)
  \/ \E r \in Request : RequestStep(r)
  \/ \E capacity \in Capacity : Resize(capacity)
  \/ \E builds \in [Db -> Builds] : Download(builds)
  \/ CallbackStep

Spec == Init /\ [][Next]_serviceVars

-----------------------------------------------------------------------------
(* Cache, databases and requests keep their types. *)
TypeOK ==
  /\ CacheTypeOK
  /\ resolver \in BOOLEAN
  /\ file \in [Db -> Builds]
  /\ loaded \in [Db -> Builds]
  /\ callback \in {"idle", "reload", "clear"}
  /\ phase \in [Request -> {"idle", "check", "get", "city", "asn", "resolve", "set"}]
  /\ wants \in [Request -> Db \cup {"page"}]
  /\ asks \in [Request -> Addr \cup {None}]
  /\ answer \in [Request -> Response]
  /\ gone \in [Request -> BOOLEAN]
  /\ since \in [Request -> [Db -> Builds]]
  /\ leftover \in Nat

(* The cache "holds complete responses only" (response.go:47): with a      *)
(* resolver, no answer of a field endpoint, which skips the reverse        *)
(* lookup, and none whose reverse lookup was cut short by a client that    *)
(* left, is ever handed to a request for the page.                         *)
CompleteOnly ==
  \A a \in DOMAIN cache.entries :
    cache.entries[a].response.hostname \in
      IF resolver THEN {"named", "failed"} ELSE {"none"}

(* The databases a request had looked in by its step. *)
LookedIn(r) ==
  {d \in Db : phase[r] \in {"resolve", "set"} \/ (d = "city" /\ phase[r] = "asn")}

(* City and ASN are looked up one after the other, so a reload between     *)
(* them gives an answer of two ages. Each half is still at least as new as *)
(* what was loaded when the request missed the cache, and was loaded when  *)
(* it was read (response.go:54-81, geo.go:57-58).                          *)
AnswersSinceMiss ==
  \A r \in Request : \A d \in LookedIn(r) :
    since[r][d] <= answer[r].built[d] /\ answer[r].built[d] <= loaded[d]

(* A field endpoint that passed its check has a database to look in,       *)
(* although the check and the lookup take the lock separately              *)
(* (handler.go:198-202): it never answers an empty line for want of one.   *)
FieldIsAnswered ==
  \A r \in Request :
    wants[r] \in LookedIn(r) => answer[r].built[wants[r]] # 0

(* Stale answers come only from before the last reload: the entries it did *)
(* not clear, and one from each request that was between its miss and its  *)
(* set. Nothing that starts later adds another (main.go:196-203).          *)
StaleBound ==
  callback # "clear" => Cardinality(Stale(cache, loaded)) <= leftover

(* "Cached responses were built from the previous databases"               *)
(* (main.go:200), which is why the callback clears them: while no reload   *)
(* is under way, no answer from an earlier database enters the cache.      *)
StoresCurrent ==
  [][callback = "idle" =>
       Stale(cache', loaded) \subseteq Stale(cache, loaded)]_serviceVars

(* "Only a real download triggers a reload and clears the cache"           *)
(* (CHANGELOG.md:142): when the callback has loaded a database, no answer  *)
(* of the one before is left in the cache.                                 *)
ReloadClears ==
  [][callback # "idle" /\ callback' = "idle" =>
       Stale(cache', loaded') = {}]_serviceVars

=============================================================================
