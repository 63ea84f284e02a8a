------------------------------ MODULE GeoService ------------------------------
(***************************************************************************)
(* What geo.Database promises the handlers (iputil/geo/geo.go:36-38,       *)
(* 56-58): a lookup answers, in one step, from the database that is loaded *)
(* at that step, and fails only if that one is broken. A reload exchanges  *)
(* in one step those databases whose file could be opened and leaves the   *)
(* others as they are. Handles, the lock and closing do not appear here.   *)
(***************************************************************************)
CONSTANTS
  Client,  \* the request goroutines
  Db,      \* the databases, city and ASN
  Build,   \* the builds of its own kind a file may hold
  Broken,  \* what else opens: a database of another kind, or a damaged one
  Error,   \* what a lookup returns that fails
  None     \* no database loaded

VARIABLES
  loaded,  \* the build each database answers from, or None
  result   \* what the last lookup of each client found

geoVars == <<loaded, result>>

GeoInit ==
  /\ loaded = [d \in Db |-> None]
  /\ result = [c \in Client |-> None]

Lookup(c, d) ==
  /\ result' = [result EXCEPT ![c] = loaded[d]]
  /\ UNCHANGED loaded

LookupFails(c, d) ==
  /\ loaded[d] \in Broken
  /\ result' = [result EXCEPT ![c] = Error]
  /\ UNCHANGED loaded

(* The databases in D were opened, and hold what b says. *)
Replace(D, b) ==
  /\ loaded' = [d \in Db |-> IF d \in D THEN b[d] ELSE loaded[d]]
  /\ UNCHANGED result

GeoNext ==
  \/ \E c \in Client, d \in Db : Lookup(c, d) \/ LookupFails(c, d)
  \/ \E D \in SUBSET Db, b \in [Db -> Build \cup Broken] : Replace(D, b)

GeoSpec == GeoInit /\ [][GeoNext]_geoVars

=============================================================================
