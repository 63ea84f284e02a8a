----------------------------- MODULE GeoDatabase -----------------------------
(***************************************************************************)
(* geo.Database, iputil/geo/geo.go: lookups that hold the read lock for    *)
(* their whole duration, and Reload, which opens the files outside the     *)
(* lock, exchanges the handles inside it and closes what is left over      *)
(* after it.                                                               *)
(*                                                                         *)
(* Reload runs in one goroutine at a time: Open calls it before the server *)
(* listens (cmd/echoip/main.go:186), and afterwards only the callback of   *)
(* Updater.Run does (main.go:196-198).                                     *)
(*                                                                         *)
(* The city and the ASN database are treated alike, so they are indices    *)
(* here, and the steps of Reload name them in the order of the code. A     *)
(* file may be replaced at any time, by the updater or by its owner, so    *)
(* every open may find any content and the files are no state. A lookup is *)
(* any method that takes the read lock: City, ASN, CityLoaded, ASNLoaded,  *)
(* CityBuilt or ASNBuilt; what it finds stands for the build it answers    *)
(* from.                                                                   *)
(*                                                                         *)
(* geoip2.Open reads the metadata of a file and no more. It fails for a    *)
(* type it does not know, and then returns a reader all the same; a known  *)
(* type of the wrong kind and a damaged data section it does not notice.   *)
(***************************************************************************)
EXTENDS Integers

CONSTANTS
  Client,   \* the request goroutines
  Handle,   \* the readers geoip2.Open may return
  Build,    \* the builds of its own kind a database file may hold
  Broken,   \* files that open and hold no such build: of another kind, or damaged
  Foreign,  \* a file of a type geoip2 does not know: a reader and an error
  Error,    \* what a lookup returns that fails
  None      \* the nil reader, and the answer of a lookup without a database

Db == {"city", "asn"}

(* What geoip2.Open takes without an error. *)
Openable == Build \cup Broken

ASSUME NoneAssumption == None \notin Handle /\ None \notin Openable
ASSUME ForeignAssumption == Foreign \notin Openable /\ Foreign # None
ASSUME BrokenAssumption == Build \cap Broken = {}
ASSUME ErrorAssumption == Error \notin Openable \cup {Foreign, None}

VARIABLES
  configured,  \* the databases with a path, from -c and -a
  handle,      \* d.city and d.asn
  opened,      \* what each open reader was opened on; a rename leaves it that
  writer,      \* the writer side of d.mu: none, waiting or holding
  lookup,      \* where the lookup of each client stands
  target,      \* the database it looks in
  using,       \* the reader it looks in
  result,      \* what its last lookup found
  reload,      \* the next step of Reload
  fresh,       \* the readers Reload opened
  failed,      \* the databases whose file did not open
  old,         \* the handles Reload exchanged
  ready        \* Open has returned

lookupVars == <<lookup, target, using, result>>
localVars == <<fresh, failed, old>>
vars == <<configured, handle, opened, writer, lookupVars, reload, localVars, ready>>

Open == DOMAIN opened

(* The clients that hold the read lock. *)
Holders == {c \in Client : lookup[c] \in {"locked", "using"}}

NoReaders == [d \in Db |-> None]

-----------------------------------------------------------------------------
Init ==
  /\ configured \in SUBSET Db
  /\ handle = NoReaders
  /\ opened = [h \in {} |-> None]
  /\ writer = "none"
  /\ lookup = [c \in Client |-> "idle"]
  /\ target = [c \in Client |-> None]
  /\ using = [c \in Client |-> None]
  /\ result = [c \in Client |-> None]
  /\ reload = "city"
  /\ fresh = NoReaders
  /\ failed = {}
  /\ old = NoReaders
  /\ ready = FALSE

-----------------------------------------------------------------------------
(* A definition marked `Fault' is a bug the one after it might have had;   *)
(* no specification uses it.                                               *)

(* Fault: a lookup does not take the lock. *)
NeverWaits == "locked"

(* Fault: a reader overtakes a writer that waits. *)
OvertakesWriter == IF writer = "holding" THEN "blocked" ELSE "locked"

(* RLock of sync.RWMutex: a writer that waits keeps new readers out. *)
Entered == IF writer = "none" THEN "locked" ELSE "blocked"

RLock(c, d) ==
  /\ ready
  /\ lookup[c] = "idle"
  /\ lookup' = [lookup EXCEPT ![c] = Entered]
  /\ target' = [target EXCEPT ![c] = d]
  /\ UNCHANGED <<configured, handle, opened, writer, using, result, reload,
                 localVars, ready>>

(* The lookup returns what it found, and the deferred RUnlock runs. *)
Return(c, found) ==
  /\ result' = [result EXCEPT ![c] = found]
  /\ lookup' = [lookup EXCEPT ![c] = "idle"]
  /\ target' = [target EXCEPT ![c] = None]
  /\ using' = [using EXCEPT ![c] = None]
  /\ UNCHANGED <<configured, handle, opened, writer, reload, localVars, ready>>

(* Without a reader the answer is empty. *)
FindNothing(c) ==
  /\ lookup[c] = "locked"
  /\ handle[target[c]] = None
  /\ Return(c, None)

TakeReader(c) ==
  /\ lookup[c] = "locked"
  /\ handle[target[c]] # None
  /\ using' = [using EXCEPT ![c] = handle[target[c]]]
  /\ lookup' = [lookup EXCEPT ![c] = "using"]
  /\ UNCHANGED <<configured, handle, opened, writer, target, result, reload,
                 localVars, ready>>

(* The record is decoded, or the metadata read, while the lock is held. *)
FindRecord(c) ==
  /\ lookup[c] = "using"
  /\ Return(c, opened[using[c]])

(* City and ASN fail on a reader of another kind, and where the data is    *)
(* damaged. The methods that read metadata, and records that are whole,    *)
(* answer from it all the same.                                            *)
FindError(c) ==
  /\ lookup[c] = "using"
  /\ opened[using[c]] \notin Build
  /\ Return(c, Error)

-----------------------------------------------------------------------------
BeginReload ==
  /\ ready
  /\ reload = "idle"
  /\ reload' = "city"
  /\ UNCHANGED <<configured, handle, opened, writer, lookupVars, localVars, ready>>

AfterOpen(d) == IF d = "city" THEN "asn" ELSE "lock"

(* openReader: no reader for an empty path, which is no error either. *)
OpenNothing(d) ==
  /\ reload = d
  /\ d \notin configured
  /\ reload' = AfterOpen(d)
  /\ UNCHANGED <<configured, handle, opened, writer, lookupVars, localVars, ready>>

(* The file is missing or cannot be parsed: no reader, and an error. *)
OpenFails(d) ==
  /\ reload = d
  /\ d \in configured
  /\ failed' = failed \cup {d}
  /\ reload' = AfterOpen(d)
  /\ UNCHANGED <<configured, handle, opened, writer, lookupVars, fresh, old, ready>>

(* geoip2.Open has a reader, and an error with it if the type is unknown. *)
OpenReader(d, h, what) ==
  /\ reload = d
  /\ d \in configured
  /\ h \notin Open
  /\ opened' = [g \in Open \cup {h} |-> IF g = h THEN what ELSE opened[g]]
  /\ fresh' = [fresh EXCEPT ![d] = h]
  /\ failed' = IF what = Foreign THEN failed \cup {d} ELSE failed
  /\ reload' = AfterOpen(d)
  /\ UNCHANGED <<configured, handle, writer, lookupVars, old, ready>>

(* Fault: the writer does not wait for the readers. *)
ReadersIgnored == TRUE

ReadersLeft == Holders = {}

(* Lock announces the writer first and then waits for the readers to leave. *)
Lock ==
  /\ reload = "lock"
  /\ writer' = "waiting"
  /\ reload' = "wait"
  /\ UNCHANGED <<configured, handle, opened, lookupVars, localVars, ready>>

Acquire ==
  /\ reload = "wait"
  /\ ReadersLeft
  /\ writer' = "holding"
  /\ reload' = "held"
  /\ UNCHANGED <<configured, handle, opened, lookupVars, localVars, ready>>

(* Fault: what did not open is exchanged as well. *)
FreshInAnyCase(d) == fresh[d]

Exchanged(d) == IF d \in failed THEN handle[d] ELSE fresh[d]

(* Fault: Unlock is forgotten for the readers that wait. *)
NobodyWoken == lookup

Woken == [c \in Client |-> IF lookup[c] = "blocked" THEN "locked" ELSE lookup[c]]

(* The exchange and Unlock, which lets the readers that waited in. *)
Install ==
  /\ reload = "held"
  /\ old' = handle
  /\ handle' = [d \in Db |-> Exchanged(d)]
  /\ writer' = "none"
  /\ lookup' = Woken
  /\ reload' = "close city"
  /\ UNCHANGED <<configured, opened, target, using, result, fresh, failed, ready>>

(* Fault: an error is taken to mean that there is no reader. *)
OldOnly(d) == IF d \in failed THEN None ELSE old[d]

(* What is left over: the handle that was exchanged, or the reader that    *)
(* came with an error.                                                     *)
LeftOver(d) == IF d \in failed THEN fresh[d] ELSE old[d]

(* Fault: a closed reader is not removed. *)
CloseInPlace(h) == opened' = [g \in Open |-> IF g = h THEN None ELSE opened[g]]

(* closeReader ignores nil, which is never among the open readers. *)
Close(h) == opened' = [g \in Open \ {h} |-> opened[g]]

CloseCity ==
  /\ reload = "close city"
  /\ Close(LeftOver("city"))
  /\ reload' = "close asn"
  /\ UNCHANGED <<configured, handle, writer, lookupVars, localVars, ready>>

(* The last close, and the return of Reload, where its locals end. *)
CloseASN ==
  /\ reload = "close asn"
  /\ Close(LeftOver("asn"))
  /\ reload' = "idle"
  /\ fresh' = NoReaders
  /\ failed' = {}
  /\ old' = NoReaders
  /\ ready' = TRUE
  /\ UNCHANGED <<configured, handle, writer, lookupVars>>

-----------------------------------------------------------------------------
LookupStep(c) == FindNothing(c) \/ TakeReader(c) \/ FindRecord(c) \/ FindError(c)

ReloadNext ==
  \/ \E d \in Db : OpenNothing(d)
  \/ \E d \in Db : OpenFails(d)
  \/ \E d \in Db, h \in Handle, what \in Openable \cup {Foreign} : OpenReader(d, h, what)
  \/ Lock
  \/ Acquire
  \/ Install
  \/ CloseCity
  \/ CloseASN

Next ==
  \/ \E c \in Client, d \in Db : RLock(c, d)
  \/ \E c \in Client : LookupStep(c)
  \/ BeginReload
  \/ ReloadNext

(* A started lookup and a started reload are run to their end by the Go    *)
(* scheduler. Nothing makes a client ask or the updater reload.            *)
Fairness ==
  /\ \A c \in Client : WF_vars(LookupStep(c))
  /\ WF_vars(ReloadNext)

Spec == Init /\ [][Next]_vars

FairSpec == Spec /\ Fairness

-----------------------------------------------------------------------------
ReloadSteps == {"idle", "city", "asn", "lock", "wait", "held",
                "close city", "close asn"}

(* The readers, the lock, the lookups and the locals of Reload keep their  *)
(* types.                                                                  *)
TypeOK ==
  /\ configured \subseteq Db
  /\ handle \in [Db -> Handle \cup {None}]
  /\ Open \subseteq Handle
  /\ opened \in [Open -> Openable \cup {Foreign}]
  /\ writer \in {"none", "waiting", "holding"}
  /\ lookup \in [Client -> {"idle", "blocked", "locked", "using"}]
  /\ target \in [Client -> Db \cup {None}]
  /\ using \in [Client -> Handle \cup {None}]
  /\ result \in [Client -> Openable \cup {Foreign, Error, None}]
  /\ reload \in ReloadSteps
  /\ fresh \in [Db -> Handle \cup {None}]
  /\ failed \subseteq Db
  /\ old \in [Db -> Handle \cup {None}]
  /\ ready \in BOOLEAN

(* "Reload cannot close a database that is still in use" (geo.go:37-38): a *)
(* lookup that holds a reader holds an open one, whatever Reload does in   *)
(* the meantime.                                                           *)
NoUseAfterClose ==
  \A c \in Client : lookup[c] = "using" => using[c] \in Open

(* Between two reloads the open readers are exactly the two handles: what  *)
(* was exchanged is closed, and so is a reader that came with an error     *)
(* (geo.go:73-82). A reader left open would keep its file mapped forever.  *)
NoLeak ==
  reload = "idle" => Open = {handle[d] : d \in Db} \ {None}

(* A database that was loaded stays loaded, through failed reloads as well *)
(* (geo.go:56-58), and no reader that came with an error takes its place.  *)
(* What opened without one does, also if its lookups fail.                 *)
StaysLoaded ==
  [][\A d \in Db :
       handle[d] # None =>
         /\ handle'[d] \in DOMAIN opened'
         /\ opened'[handle'[d]] # Foreign]_vars

(* A reload ends although clients keep looking up: a waiting writer keeps  *)
(* new readers out.                                                        *)
ReloadEnds == reload # "idle" ~> reload = "idle"

(* A lookup ends, also one that a reload kept waiting for the lock. *)
LookupEnds == \A c \in Client : lookup[c] # "idle" ~> lookup[c] = "idle"

(* The handles, read through what they were opened on, are the loaded      *)
(* builds of GeoService.                                                   *)
Promise == INSTANCE GeoService WITH
  loaded <- [d \in Db |-> IF handle[d] \in Open THEN opened[handle[d]] ELSE None]

(* Lookups and reloads behave as if each were one step (geo.go:36-38): no  *)
(* lookup answers from a reader that is not installed, or fails without    *)
(* one that is broken, and a reload shows both of its databases at once.   *)
ImplementsGeoService == Promise!GeoSpec

=============================================================================
