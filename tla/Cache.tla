-------------------------------- MODULE Cache --------------------------------
(***************************************************************************)
(* The response cache, server/cache.go: a map from addresses to the        *)
(* elements of a doubly linked list. The front of the list is the entry    *)
(* read longest ago. Every method runs under c.mu from its first to its    *)
(* last statement, so each of them is one step.                            *)
(*                                                                         *)
(* `cache' is the struct. A list element is identified by its content,     *)
(* which is sound because the list holds at most one element per address   *)
(* (Agreement below).                                                      *)
(***************************************************************************)
EXTENDS Integers, Sequences, FiniteSets, SequencesExt

CONSTANTS
  Addr,      \* the addresses, unmapped by ipFromRequest
  Answer,    \* the responses newResponse stores
  Capacity,  \* what -C and POST /debug/cache/resize may ask for, negatives too
  Wrap       \* the width of the eviction counter, 2^64 in the code

ASSUME CapacityAssumption == Capacity \subseteq Int
ASSUME WrapAssumption == Wrap \in Nat \ {0}

VARIABLE cache

Element == [addr : Addr, response : Answer]

-----------------------------------------------------------------------------
(* The methods, as operators on the struct. A definition marked `Fault' is *)
(* a bug the one after it might have had; no specification uses it.        *)

(* Fault: a negative capacity is kept. *)
NewCacheUnclamped(capacity) ==
  [capacity |-> capacity, entries |-> << >>, values |-> << >>, evictions |-> 0]

NewCache(capacity) ==
  [capacity  |-> IF capacity < 0 THEN 0 ELSE capacity,
   entries   |-> << >>,
   values    |-> << >>,
   evictions |-> 0]

Cached(c, addr) == addr \in DOMAIN c.entries

(* Where the element of addr stands in the list. *)
Position(c, addr) ==
  CHOOSE i \in 1..Len(c.values) : c.values[i] = c.entries[addr]

(* c.values.Remove and delete(c.entries, ...) on one address. *)
Without(c, addr) ==
  [c EXCEPT !.entries = Restrict(@, DOMAIN @ \ {addr}),
            !.values  = RemoveAt(@, Position(c, addr))]

(* Fault: the end of the list that was used last is evicted. *)
EvictNewest(c, n) ==
  LET k == IF n < 0 THEN 0 ELSE IF n > Len(c.values) THEN Len(c.values) ELSE n
      rest == SubSeq(c.values, 1, Len(c.values) - k)
  IN  [c EXCEPT !.entries   = Restrict(@, {rest[i].addr : i \in 1..Len(rest)}),
                !.values    = rest,
                !.evictions = (@ + k) % Wrap]

(* The loop of evict removes from the front and stops at the end of the    *)
(* list. A call with n <= 0 does nothing.                                  *)
Evict(c, n) ==
  LET k == IF n < 0 THEN 0 ELSE IF n > Len(c.values) THEN Len(c.values) ELSE n
      dropped == {c.values[i].addr : i \in 1..k}
  IN  [c EXCEPT !.entries   = Restrict(@, DOMAIN @ \ dropped),
                !.values    = SubSeq(@, k + 1, Len(@)),
                !.evictions = (@ + k) % Wrap]

(* Fault: the old element stays in the list. *)
ReplacedInMapOnly(c, addr) == c

(* An entry of the same address goes first, so overwriting evicts nobody. *)
Replaced(c, addr) == IF Cached(c, addr) THEN Without(c, addr) ELSE c

(* Fault: the new entry is not counted. *)
MakeRoomForNone(c) == Evict(c, Cardinality(DOMAIN c.entries) - c.capacity)

MakeRoom(c) == Evict(c, Cardinality(DOMAIN c.entries) - c.capacity + 1)

PushBack(c, el) ==
  [c EXCEPT !.entries = [a \in DOMAIN @ \cup {el.addr} |->
                           IF a = el.addr THEN el ELSE @[a]],
            !.values  = Append(@, el)]

Set(c, addr, response) ==
  IF c.capacity = 0
  THEN c
  ELSE PushBack(MakeRoom(Replaced(c, addr)),
                [addr |-> addr, response |-> response])

(* Fault: a hit does not count as use. *)
GetInPlace(c, addr) == c

(* A hit moves its element to the back, a miss changes nothing. *)
Get(c, addr) ==
  IF Cached(c, addr)
  THEN LET i == Position(c, addr)
       IN  [c EXCEPT !.values = Append(RemoveAt(@, i), @[i])]
  ELSE c

Cleared(c) == [c EXCEPT !.entries = << >>, !.values = << >>]

(* Fault: any capacity is accepted. *)
ResizedUnchecked(c, capacity) ==
  [Evict([c EXCEPT !.capacity = capacity], Cardinality(DOMAIN c.entries) - capacity)
     EXCEPT !.evictions = 0]

Resized(c, capacity) ==
  IF capacity < 0
  THEN c
  ELSE [Evict([c EXCEPT !.capacity = capacity],
              Cardinality(DOMAIN c.entries) - capacity)
          EXCEPT !.evictions = 0]

-----------------------------------------------------------------------------
CacheInit == \E capacity \in Capacity : cache = NewCache(capacity)

SetStep(addr, response) == cache' = Set(cache, addr, response)
GetStep(addr) == cache' = Get(cache, addr)
ClearStep == cache' = Cleared(cache)
ResizeStep(capacity) == cache' = Resized(cache, capacity)

CacheNext ==
  \/ \E addr \in Addr, response \in Answer : SetStep(addr, response)
  \/ \E addr \in Addr : GetStep(addr)
  \/ ClearStep
  \/ \E capacity \in Capacity : ResizeStep(capacity)

CacheSpec == CacheInit /\ [][CacheNext]_cache

-----------------------------------------------------------------------------
(* The struct keeps its shape: a map from addresses to elements, a list of *)
(* elements, a capacity that is no longer negative, and a counter that     *)
(* wraps at its width.                                                     *)
CacheTypeOK ==
  /\ DOMAIN cache = {"capacity", "entries", "values", "evictions"}
  /\ cache.capacity \in Nat
  /\ DOMAIN cache.entries \subseteq Addr
  /\ cache.entries \in [DOMAIN cache.entries -> Element]
  /\ cache.values \in Seq(Element)
  /\ cache.evictions \in 0..(Wrap - 1)

(* Map and list describe the same entries: every element of the list is    *)
(* the one the map holds for its address, no address is listed twice, and  *)
(* no key of the map points at an element that left the list. set, evict   *)
(* and Clear each change both (cache.go:56-62, 85-86, 124-125).            *)
Agreement ==
  /\ \A i \in 1..Len(cache.values) :
       /\ cache.values[i].addr \in DOMAIN cache.entries
       /\ cache.entries[cache.values[i].addr] = cache.values[i]
  /\ \A i, j \in 1..Len(cache.values) :
       cache.values[i].addr = cache.values[j].addr => i = j
  /\ \A a \in DOMAIN cache.entries :
       \E i \in 1..Len(cache.values) : cache.values[i].addr = a

(* The cache never holds more than the capacity in force, also right after *)
(* /debug/cache/resize lowered it (cache.go:61, 100).                      *)
WithinCapacity == Len(cache.values) <= cache.capacity

=============================================================================
