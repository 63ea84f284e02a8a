------------------------------- MODULE CacheUse -------------------------------
(***************************************************************************)
(* The cache with a history of use, and the abstract least recently used   *)
(* store it implements.                                                    *)
(*                                                                         *)
(* The history is kept apart from the list, so that the order of the list  *)
(* has to follow it. It is a relation and not a sequence: an address that  *)
(* is used comes after every other one, which is all a use changes.        *)
(***************************************************************************)
EXTENDS Cache

VARIABLE used  \* history: <<a, b>> when b was used and a not used since

useVars == <<cache, used>>

(* The history once addr has been used. *)
Use(addr) ==
  {p \in used : p[1] # addr /\ p[2] # addr} \cup {<<b, addr>> : b \in Addr \ {addr}}

(* The addresses used since addr was used last. *)
UsedAfter(addr) == {b \in Addr : <<addr, b>> \in used}

UseInit == CacheInit /\ used = {}

(* An answer that is stored was used, and so is one that is read. *)
UseNext ==
  \/ \E addr \in Addr, response \in Answer :
       /\ SetStep(addr, response)
       /\ used' = IF cache.capacity = 0 THEN used ELSE Use(addr)
  \/ \E addr \in Addr :
       /\ GetStep(addr)
       /\ used' = IF Cached(cache, addr) THEN Use(addr) ELSE used
  \/ ClearStep /\ used' = {}
  \/ \E capacity \in Capacity : ResizeStep(capacity) /\ UNCHANGED used

UseSpec == UseInit /\ [][UseNext]_useVars

-----------------------------------------------------------------------------
(* "A client that keeps asking survives any number of one-time visitors"   *)
(* (cache.go:11-12): storing one response never drops any of the           *)
(* capacity - 1 addresses used last, by a read or by a store, so an entry  *)
(* that is read once between two stores of others stays in a cache of two. *)
RecentlyUsedSurvive ==
  [][\A addr \in Addr, response \in Answer :
       SetStep(addr, response) =>
         \A a \in DOMAIN cache.entries :
           Cardinality(UsedAfter(a)) < cache.capacity - 1
             => Cached(cache', a)]_useVars

(* The store is the map, the order of use is the history. *)
Recency == INSTANCE LRU WITH
  limit <- cache.capacity,
  store <- [a \in DOMAIN cache.entries |-> cache.entries[a].response],
  older <- {p \in used : Cached(cache, p[1]) /\ Cached(cache, p[2])},
  drops <- cache.evictions

(* Every run of the cache is a run of the least recently used store: what  *)
(* it returns, what it drops and how many drops it counts.                 *)
ImplementsLRU == Recency!Spec

=============================================================================
