# echoip in TLA+

A verification project for echoip, the HTTP server that answers with the address of its caller and the GeoIP data of
that address. It models the parts of the server whose state several goroutines share or that outlive a request: the
response cache, the two GeoIP databases and their exchange while requests are running, the way a request is answered
from the two, and the updater that downloads new databases. It also models the chain of layers that one request passes,
where the order of a write, a failure and a panic decides what the client and the log get, and the life of the process,
from its flags to its exit status. The modules are translated from the Go code; comments name the lines.

## The system

| Component | Code | State it keeps | Operations | Hard about it |
|---|---|---|---|---|
| Response cache | `server/cache.go` | a map and a linked list of the same entries, the capacity, an eviction counter, a mutex | `set`, `get`, `Clear`, `resize`, `stats` | two containers changed one after the other; room counted on the map and made in the list; capacities 0 and negative |
| Databases | `iputil/geo/geo.go` | one reader per database, a read-write lock | `Open`, `Reload`, six methods that take the read lock | a reader is a memory map that is closed while others may decode from it; one of two files may fail; a reader may come with an error, or without one for a file of the wrong kind |
| Answering a request | `server/response.go`, `server/handler.go` | nothing between requests | `newResponse`, `lookup`, `cliField`, `cacheResizeHandler` and the other handlers | a request takes five locks one after the other, and the callback of the updater may run between any two |
| Reverse lookup | `iputil/iputil.go` | nothing | `LookupAddr` | fails, times out, or is cut short by a client that leaves |
| Updater | `maxmind/maxmind.go` | the failures in a row, the timer, and on disk the files, their modification times and temporary files | `Stale`, `Update`, `Run`, `download`, `verify`, `extract`, `touch` | MaxMind publishes between any two requests; every step may fail; the process ends at any step; a quota limits the checks |
| Start and callback | `cmd/echoip/main.go` | the options | `parseFlags`, the credentials, the check before `geo.Open`, the callback that reloads and clears | a reload that half succeeds; hours that wrap around; networks that trust more than was written |
| Listening and shutting down | `server/server.go`, `cmd/echoip/main.go` | the signal context, the listener and its channel, the connections | `run`, `ListenAndServe`, `Shutdown` | a signal at any point; a listener that fails while the context ends; requests that never end; the updater is not waited for |
| Page | `server/handler.go` | nothing between requests | `browserHandler`, `chips`, `geoBuilt` | the databases are read again, one lock at a time, after the answer was made or cached |
| Client address | `server/request.go`, `iputil/iputil.go` | nothing | `ipFromRequest`, `Public` | which header of which peer is trusted |
| Format negotiation | `server/request.go` | nothing | `negotiateFormat`, `preferredMediaType` | quality values, wildcards, the default of a route |
| Router and errors | `server/router.go`, `server/error.go` | the routes, built once | dispatch by path and method, `404`, `405` | exact paths before prefixes, what `Allow` lists |
| Panics and request log | `server/handler.go` | whether an answer was begun | `recoverPanic`, `trackingWriter`, `logRefused` | a panic after the first byte |
| Security headers, user agent | `server/security.go`, `useragent/` | nothing | constants, one header split | nothing that changes |

How they interact: a handler calls `newResponse`, which asks the cache, then looks in the city and the ASN database (one
read lock each), then asks the resolver, then stores the answer. The updater runs in a goroutine of its own; after a
download it calls the callback of `main.go:196-203`, which calls `Database.Reload` and then `Cache.Clear`. It publishes
the time of its next check in an atomic, which handlers read for `Retry-After`. A signal ends the context that the
updater and the listener share. Nothing else is shared. The updater reaches the databases only through files, which it
replaces by renames.

What makes each part correct:

- the cache: map and list agree, the capacity holds, what was used recently survives, a hit returns what was stored
  last;
- the databases: no lookup uses a closed reader, no reader is left open, a loaded database stays loaded and gives way to
  no reader that came with an error, a lookup and a reload behave as one step each, and neither starves the other;
- a request: only complete answers are cached, no answer is older than the moment it was looked for, a field endpoint
  that passed its check has something to answer, and stale answers are bounded;
- the page: no build date of a database older than what it shows, no "not loaded" next to data of that database;
- the updater: the file of a database is always a whole build and never goes back, temporary files go, a new build is
  not hidden by the modification time of the old one, failing checks spare the quota, and the checks go on;
- the chain of one request: one answer or a dropped connection, one line in the log for each refusal, failures in the
  format of a success, an `Allow` and a `Retry-After` that tell the truth, and an address that somebody trusted vouches
  for;
- the process: it updates if and only if it was asked to, `-T` trusts what is written, a signal ends it in time but not
  before the requests that run had theirs, and its status says how it ended.

`PROJECT.json` lists under `hazards` what is hard to test in this code, at its line, with the properties that cover it.

## Modules

| Module | Models | State in the code |
|---|---|---|
| `Cache` | `server/cache.go` | `cache` is the struct: `capacity`, `entries` (the map), `values` (the list), `evictions` |
| `CacheUse` | the cache with a history of use and the refinement of `LRU`. Extends `Cache` | `used`, the history, is not in the code |
| `LRU` | what the cache promises: a least recently used store without a list | - |
| `GeoService` | what the databases promise: lookups and reloads that are one step each | - |
| `GeoDatabase` | `iputil/geo/geo.go` | `handle` is `d.city` and `d.asn`, `writer` and `lookup` are `d.mu`, `fresh`, `failed` and `old` are the locals of `Reload` |
| `Service` | `server/response.go`, parts of `server/handler.go`, the callback of `main.go`. Extends `Cache`, whose methods its actions call, and uses the databases as `GeoService` promises them | `phase`, `wants`, `asks` and `answer` are the locals of a request, `gone` is its context, `callback` is where the callback stands |
| `Page` | the page of `server/handler.go`. Extends `Service`: the response of a page is a request of it | `part` is how far `browserHandler` got, `shown` the response it renders |
| `Updater` | `maxmind/maxmind.go`, the start of `main.go` | `file`, `age`, `confirmed` and `temps` are the disk, `failures` and `timer` are the locals of `Run`, `at`, `archive` and `recent` those of `download`; `published` is MaxMind |
| `Requests` | `server/request.go`: the address and the format of a request, as operators | nothing is kept |
| `Router` | the route table of `server/server.go` and the matching of `server/router.go`, as operators | nothing is kept |
| `Handlers` | the chain of `server/handler.go`: `logRefused` around `recoverPanic` around the router around the handlers, and `server/error.go`. Extends `Requests` and `Router` | `pc` is the layer, `written` is `trackingWriter.written`, `failure` is the `*appError` on its way out, `panicking` the value of a panic, `sent`, `body`, `allow` and `retryAfter` the answer, `logged` the log |
| `Flags` | `parseFlags`, `parsePrefix` and `missingCredential` of `cmd/echoip/main.go`, `Scheduled` and `Enabled` of the updater, as operators | nothing is kept |
| `Lifecycle` | `main` and `run` of `cmd/echoip/main.go`, `ListenAndServe` of `server/server.go`, the goroutine of `Updater.Run` from outside. Extends `Flags` | `stage` and `status` are main, `signalled` is the context, `listener` the goroutine and its channel, `conn` the connections, `expired` the timeout of the shutdown, `next` is `Updater.next` |
| `CacheProofs`, `CacheUseProofs`, `GeoDatabaseProofs`, `ServiceProofs`, `PageProofs`, `UpdaterProofs`, `HandlersProofs`, `LifecycleProofs` | the theorems; those of a page build on those of a request, and these on those of the cache | - |
| `MCCache`, `MCGeoDatabase`, `MCService`, `MCPage`, `MCUpdater`, `MCHandlers`, `MCLifecycle` | small instances for TLC, symmetry | - |

Conventions. An action is what happens under one lock, or between two: a method of the cache is one step because it
holds `c.mu` from its first to its last statement, while `Reload` is a step per statement because lookups run between
them. Names are those of the code. A definition whose comment begins with `Fault` is a plausible bug, written next to
the definition it would replace. No specification uses it: it is there to show that a property fails once the code goes
wrong in that way, and `PROJECT.json` lists under `mutants` which property that is.

Abstractions, and why they lose nothing the properties speak of:

- **Cache.** A list element is identified by its content. `Agreement` shows that an address is listed once at most, so a
  pointer would say no more. The eviction counter wraps at `Wrap`.
- **GeoDatabase.** City and ASN are indices of the same functions. A file may be replaced at any time by its owner, so
  any open may find any content, or fail. `geoip2.Open` reads the metadata and no more. For a file of a type it does not
  know it returns a reader together with its error: that is `Foreign`. A file of the other kind, such as GeoLite2-ASN
  for `-c`, and one whose data is damaged open without an error and are installed: those are `Broken`. A lookup in one
  may fail (`FindError`), or answer where it reads metadata or a record that is whole. `RWMutex` is modelled as
  documented, with a waiting writer that keeps new readers out. What a record holds is reduced to the build it came
  from.
- **Service.** A response is reduced to what it was built from: the build of each database and how the reverse lookup
  ended. Both databases have a path; the endpoints of one that has none are not registered. The updater is one action,
  `Download`, that puts newer builds in place, however many publications it missed. Several renames are one step there
  because only a reload reads the files, and the updater calls it after the last of them; that they only get newer is
  the theorem `FilesOnlyGetNewer`.
- **Page.** Four reads, one for each lock that `geoBuilt` and `chips` take. What the template makes of them is reduced
  to which build is credited and which database is called not loaded.
- **Updater.** A check takes no tick of the clock of `Interval`, because a download has ten minutes and a tick is half
  an hour. Whether MaxMind answers 304 depends on one comparison of two times, the file's and the last publication's; it
  is kept as the flag `confirmed`, which a publication resets. `recent` is the same flag of the temporary file. `verify`
  asks for a checksum after the archive, and gets the one of the build published by then. `retryDelay` is the lesser of
  the interval and half an hour, one tick. The quota is watched by the ages of the last four checks, which are kept up
  to an interval. The credentials, the end of `Run` and the time it publishes are in `Lifecycle`.
- **Lifecycle.** A check of the updater is one step that may last as long as it likes, as is the check before
  `geo.Open`, which has a timeout of its own. A connection carries one request. `net/http` appears as documented:
  `Shutdown` closes the listener and waits for the connections that are new or in a request. A signal ends the process
  where no context takes it, and changes nothing after the first where one does. `listener` is also what the channel
  holds, which has room for the one error.
- **Flags.** An address has `Bits4` or `Bits6` bits; one block of the addresses of 6 is the mapped form of those of 4.
  An address of 6 may have a zone, and keeps it as the address of a peer; a network holds no address with one, as
  `netip.Prefix.Contains` has it. A text of `-T` is an address, with its zone, and the bits of a network or none. `-u`
  is a number of hours that is multiplied as `int64` does. The other flags do not matter to what follows.
- **Handlers.** A path is the sequence of its parts, an address a host and whether it is written in its mapped form, an
  entry of `Accept` a type and a weight. One field endpoint of each database stands for all of it. `?ip=`, a header and
  the peer hold an address, something that does not parse, or nothing. Whether a database is missing, a page cannot be
  rendered or a handler panics is open at every point at which it can happen. The handlers of pprof belong to the
  standard library and answer with any status. What they refuse is not logged, because they return no error to
  `logRefused`; `README.md:226` says "Every 4xx and 5xx". `RefusalsLogged` is about the refusals the server makes
  itself.

## Runs

| Run | Instance | Shows |
|---|---|---|
| `cache` | 4 addresses, 2 answers, capacities -1 to 3, a counter of width 4; 2,333 states | `Agreement`, `WithinCapacity`, `RecentlyUsedSurvive`, and that the cache implements `LRU` |
| `geo` | 2 clients, 4 readers, 2 builds, 1 broken file, symmetric; 325,915 states | `NoUseAfterClose`, `NoLeak`, `StaysLoaded`, and that the detailed reload implements `GeoService` |
| `geo_live` | the same with 1 build, no broken file and no symmetry; 276,596 states | `ReloadEnds`, `LookupEnds` |
| `service` | 2 requests, 1 address, capacities -1 to 1, 2 builds, the city file fragile, with pages; 1,044,470 states | `CompleteOnly`, `AnswersSinceMiss`, `FieldIsAnswered`, `StaleBound`, `PageAgrees` |
| `updater` | an interval of 4 ticks, 2 builds, 1 exit, both downloads fragile; 130,472 states | `Paced`, `TempsRemoved`, `LoadedAfterCheck`, `OnlyNewerBuilds`, `RenameHidesNothing`, `ChecksGoOn` |
| `handlers` | three samples of requests under 20 configurations; 45,591 states | `OneAnswer`, `RefusalsLogged`, `FailsLikeSuccess`, `AllowIsHonest`, `AddressIsVouchedFor`, `PreferenceIsBest`, `RetryNotEarly` |
| `lifecycle` | every combination of the settings that decide on the updater, hours that fit and hours that wrap, every text of `-T` over addresses of 2 and 5 bits, with a zone or none, 3 connections; 49,248 states | `GraceKept`, `StatusTellsWhy`, `UpdatesAsAsked`, `RetryIsComing`, `TrustsAsWritten`, `SignalEnds` |
| `stale_store`, `partial_reload`, `reload_not_retried`, `touch_race`, `boot_not_counted` | as small as the counterexample allows | the findings below |

Why the bounds are enough. Four addresses are one more than the largest capacity, so an eviction has a choice and a
resize drops several entries at once; the width of the counter is passed; the theorems lift addresses, capacities and
the counter. Four readers are all that can be open at once: two handles and the two of a reload, which the owner
invariant of the proof confirms for every number of them. Two clients are a lookup that holds the lock and one that
waits. Two requests of one address are the race that matters, because requests of different addresses meet only in an
eviction; the theorems lift every property of this run from two requests and one address to any number, and to files
that are both fragile. Two builds are the old and the new one, and one broken file is enough, because a lookup is in one
file; liveness does without it, because it asks only that a lookup ends. An interval of four ticks has room for a check,
two retries, and a pause that is longer than either; here too the theorems lift every safety property to any interval,
builds and exits. `MaxBuild` and `MaxExits` are the only bounds that the code does not have, and they bound the
environment.

Three connections of `lifecycle` are one that is new, one in a request and one that is answered. Addresses of 2 and 5
bits have mapped addresses, addresses on both sides of them, networks of every length, one too long included, and peers
with a zone; that a network ends where it should is checked against every peer above it. An hour of 5 in durations up to
7 lets one hour fit, two turn negative and four come out positive and short. This run ends with the process, so deadlock
is not checked; `SignalEnds` says that it does end.

The samples of `handlers` are exhaustive each in its own dimension: every method on nine paths, one of them under a
prefix and one that no route takes; four values of `?ip=`, four of each header and three peers; every `Accept` of two
entries at most, of four types and four weights, malformed ones included. Nothing one sample varies is read by what
another is about; the theorems hold for every request and an `Accept` of any length. A second is four units long, so
that waits fall on, before and after whole seconds. This run stops where the request ends, so deadlock is not checked;
`OneAnswer` says what the end looks like. One request is enough, because the chain keeps nothing from one request to the
next; what requests share is in `Service`.

### Fairness

`GeoDatabase` assumes weak fairness of the lookup of each client and of `Reload`: goroutines that can run are scheduled.
It assumes nothing of who comes first at the lock; that a waiting writer keeps new readers out is enough. Nothing makes
a client ask or the updater reload. `Updater` assumes weak fairness of the updater, of time while the updater waits, and
of a supervisor that starts the process again (`docker-compose.yml:19`). Publications, failures and exits are never
forced, and a download that fails every time is allowed. `Lifecycle` assumes weak fairness of `main` and of the timer of
the shutdown, and nothing of the requests: that `SignalEnds` holds although a request may never end is the point of it.

### Findings

Five properties state what a comment or a doc says, and TLC finds each violated by what the code does.

- `StoresCurrent`: a request that looked up before a reload stores its answer after `Clear`. "Cached responses were
  built from the previous databases" (`main.go:200`), and then some still are, until the next download. `StaleBound`
  bounds how many: one from each request that was in flight.
- `ReloadClears`: `Reload` replaces the database that opened and returns the error of the other one, and the callback
  returns before `Clear`. "Only a real download triggers a reload and clears the cache" (`CHANGELOG.md:142`).
- `WaitsForSuccessAtMost`: a check reloads only what it has replaced itself. When a reload failed, the next check gets
  304, counts as a success, and the new file waits on disk until the next build: "so it does not wait on disk until a
  check succeeds as a whole" (`maxmind.go:218-219`).
- `ConfirmedIsCurrent`: `touch` takes the time when the 304 has arrived. A build published between MaxMind's answer and
  the touch is older than the file, so the next conditional request hides it: "the last time this edition was confirmed
  current" (`maxmind.go:248-249`).
- `PacedFromTheStart`: `Run` counts the check before `geo.Open` only if a database is still stale. A check that brought
  the stale database up to date, by a 304 and a touch or by a download, and failed on one that is nearly due is
  forgotten, and three more follow: "retried twice, 30 minutes apart. After that the next check follows the refresh
  interval" (`README.md:241-242`).

Two more texts differ from the code, and no run is spent on them, because the definitions show them.

- `-T fe80::1%eth0` is accepted, and `PrefixFrom` drops its zone, "which is what makes this match" (`main_test.go:107`).
  It does not match the peer it names: `peerAddr` keeps the zone (`request.go:169`), and `Contains` is false for an
  address with one. `TrustsAsWritten` therefore says that no peer with a zone is trusted.
- "a half written or corrupt file does not take working lookups down" (`geo.go:56-58`) is true of a file that
  `geoip2.Open` finds corrupt. One with a damaged data section, or of the other kind, opens and takes the place of a
  database that works. `StaysLoaded` therefore says no more than that a database stays loaded, and that no reader that
  came with an error takes its place.

## Proofs

TLAPS checks the theorems below for every value of the constants, from the assumptions named in the modules: that
capacities are integers, `Wrap`, `MaxBuild` and `Interval` positive, `None` no address, reader or build, `Foreign` no
file that opens, no broken file a build and `Error` none of what a lookup finds, that no zone is the empty one, requests
finitely many, that the answers of the cache include the responses of the service, that waits are integers and a second
is positive, that requests and configurations hold addresses and header names, that the weights of `Accept` are at most
1 or garbage, that an hour is a `Duration`, and that command lines have the shape `parseFlags` reads. TLC evaluates
every one of them.

- **`CacheProofs`**: `CacheTypeCorrect`, `MapAndListAgree`, `NeverOverCapacity`. The invariant `CacheInv` is all three
  together, and none is inductive alone: `set` and `resize` count the keys of the map and evict from the list, so the
  capacity follows from the agreement (`ListCountsMap`: the list is as long as the map has keys), and the agreement
  needs the shape. Each method has a lemma that it keeps any well-formed struct well formed, which `ServiceProofs`
  reuses.
- **`CacheUseProofs`**: `UseInvariance`, `RecentSurvive`, `CacheImplementsLRU`, `UseIsCache`. Both properties compare
  the list with a history of use that the code does not keep: `used` is a relation, which addresses were used before
  which, and needs no clock. `UseInv` adds to `CacheInv` that the list is in the order of use (`InOrder`). An eviction
  then drops what was used before everything that stays (`EvictDropsOldest`), which is the property of `set` and of
  `resize` alike, and is the choice `LRU` makes without a list (`StepMaps`, with each method as a lemma). `UseIsCache`
  says that the cache with its history does what the cache does, so what `CacheProofs` shows holds here too.
- **`GeoDatabaseProofs`**: `TypeCorrect`, `NeverUsedAfterClose`, `NothingLeaks`, `AlwaysStaysLoaded`,
  `GeoDatabaseImplementsGeoService`. `NoLeak` speaks of the moments between two reloads and says nothing of the steps.
  The invariant gives every open reader an owner at every step: a handle or, besides it, one spare per database
  (`OwnerInv`), and nobody shares (`DistinctInv`). The exchange swaps the two, a close ends the spare. `LookupInv` says
  that a lookup uses the current handle, `LockInv` that none is under way at the exchange; so no lookup uses a spare.
  `ContentInv` adds that a handle never is a reader that came with an error. The refinement maps each step to a step of
  `GeoService` or a stutter: only the exchange changes what is loaded, only a lookup that returns changes a result, and
  one that fails looked in what is loaded and broken.
- **`ServiceProofs`**: `ServiceTypeCorrect`, `OnlyCompleteCached`, `NoAnswerFromBeforeTheMiss`,
  `CheckedFieldIsAnswered`, `StaleIsBounded`. What is cached was held by a request at its last step, so `HostnameInv`
  follows the reverse lookup of an answer under way. `FileInv` (no database is ahead of its file) makes `loaded`
  monotone, and then what a request saw at its check or miss bounds what it finds under later locks (`SinceInv`,
  `FieldInv`). `StaleBound` alone is not inductive, because a store may add a stale answer. `BoundInv` adds the requests
  that are behind, those that missed before the last reload: a store turns one of them into at most one stale answer,
  and no request falls behind without a reload.
- **`PageProofs`**: `PageIsService` maps every behaviour with pages to one of `Service`, so the theorems of a request
  hold with pages too; `PagesAgree` follows because neither the cached answers nor what a page shows is ever newer than
  what is loaded, and a loaded database stays loaded.
- **`UpdaterProofs`**: `UpdaterTypeCorrect`, `QuotaIsSpared`, `NoTempIsLeft`, `ReplacedIsLoaded`, `FilesOnlyGetNewer`,
  `NewBuildsStayVisible`. `DownloadInv` carries to the rename what `verify` found, that the archive is published and no
  older than the file, and that `recent` tells whether it still is the last build. `TempInv` counts a temporary file for
  each exit and the one being written. `LoadInv` says between checks that only a file that does not open is unloaded.
  The quota needs two invariants: after a check that succeeded every file is fresh (`FreshInv`), so the timer runs for a
  whole interval (`RefreshBounds`), and otherwise the failures in a row say which of the last checks lies an interval
  back (`PaceInv`).
- **`LifecycleProofs`**: `LifecycleTypeCorrect`, `RequestsGetTheirTime`, `StatusIsTold`, `PublishedIsAwaited`,
  `RunsAsAsked`, `TrustIsWritten`. The invariant ties each stage of `main` to what has happened by then: a status to its
  cause, the updater to the settings, a published time to the goroutine that waits for it. `RunsAsAsked` rests on the
  arithmetic of the hours, which do not wrap up to the limit it names. `TrustIsWritten` is about every text that is
  accepted and every peer, for any number of bits of either kind of address and any zones: a network is the block of
  addresses that begins at a multiple of a power of two, and holds them and no others (`BlockHolds`, in both
  directions), what is accepted begins at the address written and has the size of its bits (`AcceptedText`), and the
  mapped addresses are the second block of their length (`SecondBlock`), so that neither a peer nor what is written is
  one. The library has no theorem on exponents; that a power of two is positive comes from the count of subsets
  (`PowerOfTwo`).
- **`HandlersProofs`**: `EveryRequestIsAnsweredOnce`, `EveryRefusalIsLogged`, `FailuresLookLikeSuccesses`,
  `AllowTellsTheTruth`, `AddressesAreVouchedFor`, `RetryAfterIsNotEarly`, `ChainTypeCorrect`. The properties of the run
  look at the end of a request. `ChainInv` says of every layer what was written by then (`SentInv`), whether there is a
  failure or a panic (`FailureInv`) and what was logged (`LoggedInv`): nothing is written before a handler writes,
  afterwards it cannot fail but only panic, and `written` tells the two panics apart. `FormatInv` adds that a failure
  carries the format of the route it came from; that this is the format of the handler's success is a fact about every
  entry of the route table (`RoutesAreKnown`), whichever databases are configured. `SecondsRoundUp` is the arithmetic of
  `Retry-After`. `BestIsPreferred` is for `Accept` headers of any length: the weights are a recursive function of the
  entries read, whose values the library's induction cannot give here. `Recursion` takes its place, by the least prefix
  at which the function would differ from what it should be; `WeightsOfTypes` then says what each type weighs, and
  `PreferredIsBest` that the comparison of the types in turn ends with the heaviest.

Every invariant, every action property and both refinements of the passing runs are theorems. Only model-checked is
liveness (`ReloadEnds`, `LookupEnds`, `ChecksGoOn`, `SignalEnds`), because the prover has no fairness and no `ENABLED`.
What the code does not keep is found by TLC alone.

## Not modelled

The eviction counter as `stats` shows it, what bodies and log lines say, the templates, styles and the box of the map;
the grammar of `Accept`, which ranges of addresses are public, and the clients that count as a command line; the limits
that `http.Server` is given; the security headers, whose policy is computed once from the templates, and the user agent,
which is one string. The resolver, the file system, `net/http`, `sync`, and MaxMind appear as what the code relies on. A
power loss, which may lose what was written but not synced, is outside of the model.

## Plan

Done: cache, databases, service, updater, the chain of one request, the life of the process and the page, each with its
safety properties before its liveness, and the proofs of all of them. What is left, in this order:

1. The exact grammar of one `Accept` entry and of its weight, as operators against a reference definition.
2. `Updater` composed with `Lifecycle`, where a check is one step: that the time published by `Run` is the one its timer
   was set to.
