---------------------------- MODULE CacheUseProofs ----------------------------
(***************************************************************************)
(* For any addresses, answers, capacities and counter width: the cache is  *)
(* a least recently used store.                                            *)
(*                                                                         *)
(* What makes it one is that the list stands in the order of use. Each     *)
(* method is proved to keep that order, and what evict drops is then what  *)
(* was used before everything that stays.                                  *)
(***************************************************************************)
EXTENDS CacheUse, CacheProofs

(* The history u once addr has been used, as Use has it. *)
Using(u, addr) ==
  {p \in u : p[1] # addr /\ p[2] # addr} \cup {<<b, addr>> : b \in Addr \ {addr}}

(* The list of c stands in the order of use. *)
InOrder(c, u) ==
  \A i, j \in 1..Len(c.values) :
    i < j => <<c.values[i].addr, c.values[j].addr>> \in u

(* No more addresses were used since an address was than a call can name. *)
FiniteSince(u) == \A a \in Addr : IsFiniteSet({b \in Addr : <<a, b>> \in u})

-----------------------------------------------------------------------------
(* Removing one element leaves the rest in order. *)
LEMMA WithoutInOrder ==
  ASSUME NEW c, Formed(c), NEW addr \in DOMAIN c.entries,
         NEW u, InOrder(c, u)
  PROVE  /\ InOrder(Without(c, addr), u)
         /\ Without(c, addr).evictions = c.evictions
         /\ DOMAIN Without(c, addr).entries = DOMAIN c.entries \ {addr}
         /\ \A a \in DOMAIN c.entries \ {addr} :
              Without(c, addr).entries[a] = c.entries[a]
  <1> DEFINE p == Position(c, addr)
             w == Without(c, addr)
             rest == RemoveAt(c.values, p)
  <1>1. p \in 1..Len(c.values)
    BY PositionOfCached
  <1>2. c.values \in Seq(Element) /\ Len(c.values) \in Nat
    BY LenProperties DEF Formed, Shape
  <1>3. /\ Len(rest) = Len(c.values) - 1
        /\ \A i \in 1..(Len(c.values) - 1) :
             rest[i] = IF i < p THEN c.values[i] ELSE c.values[i + 1]
    BY <1>1, <1>2, RemoveAtProperties
  <1>4. /\ w.values = rest
        /\ w.evictions = c.evictions
        /\ DOMAIN w.entries = DOMAIN c.entries \ {addr}
        /\ \A a \in DOMAIN c.entries \ {addr} : w.entries[a] = c.entries[a]
    BY DEF Without, Restrict, Formed, Shape
  <1> HIDE DEF w, rest, p
  <1>5. ASSUME NEW i \in 1..Len(rest), NEW j \in 1..Len(rest), i < j
        PROVE  <<rest[i].addr, rest[j].addr>> \in u
    <2> DEFINE k(n) == IF n < p THEN n ELSE n + 1
    <2>1. /\ k(i) \in 1..Len(c.values) /\ rest[i] = c.values[k(i)]
          /\ k(j) \in 1..Len(c.values) /\ rest[j] = c.values[k(j)]
          /\ k(i) < k(j)
      BY <1>1, <1>2, <1>3, <1>5
    <2> HIDE DEF k
    <2> QED
      BY <2>1 DEF InOrder
  <1> QED
    BY <1>4, <1>5 DEF InOrder, w

(* Adding an element at the back keeps the order, when the history puts    *)
(* its address after all that are cached.                                  *)
LEMMA PushBackInOrder ==
  ASSUME NEW c, Formed(c), NEW el \in Element, el.addr \notin DOMAIN c.entries,
         NEW u, InOrder(c, u), DOMAIN c.entries \subseteq Addr
  PROVE  /\ InOrder(PushBack(c, el), Using(u, el.addr))
         /\ PushBack(c, el).evictions = c.evictions
         /\ DOMAIN PushBack(c, el).entries = DOMAIN c.entries \cup {el.addr}
         /\ PushBack(c, el).entries[el.addr] = el
         /\ \A a \in DOMAIN c.entries : PushBack(c, el).entries[a] = c.entries[a]
  <1> DEFINE n == Len(c.values)
             longer == Append(c.values, el)
             b == PushBack(c, el)
  <1>1. c.values \in Seq(Element) /\ n \in Nat
    BY LenProperties DEF Formed, Shape
  <1>2. /\ Len(longer) = n + 1
        /\ \A i \in 1..n : longer[i] = c.values[i]
        /\ longer[n + 1] = el
    BY <1>1, AppendProperties
  <1>3. /\ b.values = longer
        /\ b.evictions = c.evictions
        /\ DOMAIN b.entries = DOMAIN c.entries \cup {el.addr}
        /\ \A a \in DOMAIN c.entries : b.entries[a] = c.entries[a]
        /\ b.entries[el.addr] = el
    BY DEF PushBack, Formed, Shape
  <1> HIDE DEF longer, b
  <1>4. \A i \in 1..n : c.values[i].addr \in Addr \ {el.addr}
    BY DEF Formed, Agree
  <1>5. ASSUME NEW i \in 1..(n + 1), NEW j \in 1..(n + 1), i < j
        PROVE  <<longer[i].addr, longer[j].addr>> \in Using(u, el.addr)
    <2>1. i \in 1..n /\ longer[i] = c.values[i]
      BY <1>1, <1>2, <1>5
    <2>2. CASE j = n + 1
      BY <1>2, <1>4, <2>1, <2>2 DEF Using
    <2>3. CASE j # n + 1
      <3>1. j \in 1..n /\ longer[j] = c.values[j]
        BY <1>1, <1>2, <2>3
      <3>2. <<c.values[i].addr, c.values[j].addr>> \in u
        BY <1>5, <2>1, <3>1 DEF InOrder
      <3> QED
        BY <1>4, <2>1, <3>1, <3>2 DEF Using
    <2> QED
      BY <2>2, <2>3
  <1> QED
    BY <1>2, <1>3, <1>5 DEF InOrder, b

(* What evict drops was used before everything that stays, and is as much  *)
(* as it was asked for.                                                    *)
LEMMA EvictDropsOldest ==
  ASSUME NEW c, Formed(c), NEW n \in Int, n <= Len(c.values),
         NEW u, InOrder(c, u)
  PROVE  LET e == Evict(c, n)
             V == DOMAIN c.entries \ DOMAIN e.entries
         IN  /\ InOrder(e, u)
             /\ DOMAIN e.entries \subseteq DOMAIN c.entries
             /\ \A a \in DOMAIN e.entries : e.entries[a] = c.entries[a]
             /\ \A v \in V, s \in DOMAIN e.entries : <<v, s>> \in u
             /\ IsFiniteSet(V)
             /\ Cardinality(V) = IF n > 0 THEN n ELSE 0
             /\ e.evictions = (c.evictions + Cardinality(V)) % Wrap
  <1> DEFINE k == IF n < 0 THEN 0 ELSE IF n > Len(c.values) THEN Len(c.values) ELSE n
             dropped == {c.values[i].addr : i \in 1..k}
             e == Evict(c, n)
             rest == SubSeq(c.values, k + 1, Len(c.values))
             V == DOMAIN c.entries \ DOMAIN e.entries
  <1>1. c.values \in Seq(Element) /\ Len(c.values) \in Nat
    BY LenProperties DEF Formed, Shape
  <1>2. k \in 0..Len(c.values) /\ k = IF n > 0 THEN n ELSE 0
    BY <1>1
  <1>3. /\ e.values = rest
        /\ e.evictions = (c.evictions + k) % Wrap
        /\ DOMAIN e.entries = DOMAIN c.entries \ dropped
        /\ \A a \in DOMAIN c.entries \ dropped : e.entries[a] = c.entries[a]
    BY DEF Evict, Restrict, Formed, Shape
  <1> HIDE DEF k
  <1>4. /\ Len(rest) = Len(c.values) - k
        /\ \A i \in 1..(Len(c.values) - k) : rest[i] = c.values[k + i]
    <2> k \in 0..Len(c.values)
      BY <1>2
    <2>1. \A i \in (k + 1)..Len(c.values) : c.values[i] \in Element
      BY <1>1, ElementOfSeq
    <2>2. /\ rest \in Seq(Element)
          /\ Len(rest) = IF k + 1 <= Len(c.values)
                         THEN Len(c.values) - (k + 1) + 1 ELSE 0
          /\ \A i \in 1..(Len(c.values) - (k + 1) + 1) :
               rest[i] = c.values[(k + 1) + i - 1]
      BY <1>1, <2>1, SubSeqProperties
    <2> QED
      BY <1>1, <2>2
  <1> HIDE DEF e, rest
  <1>5. ASSUME NEW i \in 1..Len(rest), NEW j \in 1..Len(rest), i < j
        PROVE  <<rest[i].addr, rest[j].addr>> \in u
    <2>1. /\ k + i \in 1..Len(c.values) /\ rest[i] = c.values[k + i]
          /\ k + j \in 1..Len(c.values) /\ rest[j] = c.values[k + j]
          /\ k + i < k + j
      BY <1>1, <1>2, <1>4, <1>5
    <2> QED
      BY <2>1 DEF InOrder
  <1>6. \A i \in 1..k : i \in 1..Len(c.values) /\ c.values[i].addr \in DOMAIN c.entries
    <2>1. \A i \in 1..k : i \in 1..Len(c.values)
      BY <1>1, <1>2
    <2> QED
      BY <2>1 DEF Formed, Agree
  <1>7. V = dropped
    BY <1>3, <1>6
  <1>8. ASSUME NEW v \in dropped, NEW s \in DOMAIN e.entries
        PROVE  <<v, s>> \in u
    <2>1. PICK i \in 1..k : v = c.values[i].addr
      OBVIOUS
    <2>2. PICK j \in 1..Len(c.values) : c.values[j].addr = s
      BY <1>3 DEF Formed, Agree
    <2>3. j \notin 1..k
      BY <1>3, <2>2
    <2>4. i \in 1..Len(c.values) /\ i < j
      BY <1>1, <1>2, <2>1, <2>2, <2>3
    <2> QED
      BY <2>1, <2>2, <2>4 DEF InOrder
  <1>9. IsFiniteSet(dropped) /\ Cardinality(dropped) = k
    <2> DEFINE place == [i \in 1..k |-> c.values[i].addr]
    <2>1. \A i, j \in 1..k : place[i] = place[j] => i = j
      BY <1>6 DEF Formed, Agree
    <2>2. place \in Bijection(1..k, dropped)
      BY <2>1 DEF Bijection, Injection, Surjection, IsInjective
    <2>3. ExistsBijection(1..k, dropped)
      BY <2>2 DEF ExistsBijection
    <2>4. IsFiniteSet(1..k) /\ Cardinality(1..k) = k
      BY <1>1, <1>2, FS_Interval
    <2> QED
      BY <2>3, <2>4, FS_Bijection
  <1> HIDE DEF dropped, V
  <1>10. InOrder(e, u)
    BY <1>3, <1>5 DEF InOrder
  <1>11. /\ InOrder(e, u)
         /\ DOMAIN e.entries \subseteq DOMAIN c.entries
         /\ \A a \in DOMAIN e.entries : e.entries[a] = c.entries[a]
         /\ \A v \in V, s \in DOMAIN e.entries : <<v, s>> \in u
         /\ IsFiniteSet(V)
         /\ Cardinality(V) = IF n > 0 THEN n ELSE 0
         /\ e.evictions = (c.evictions + Cardinality(V)) % Wrap
    BY <1>2, <1>3, <1>7, <1>8, <1>9, <1>10
  <1> QED
    BY <1>11 DEF e, V

(* How c becomes d when an answer is stored and V is dropped: V was used   *)
(* before everything that stays, and is no more than makes room.           *)
Stores(c, d, addr, response, u, V) ==
  LET others == DOMAIN c.entries \ {addr}
      excess == Cardinality(others) + 1 - c.capacity
  IN  /\ V \subseteq others
      /\ \A v \in V, s \in others \ V : <<v, s>> \in u
      /\ Cardinality(V) = IF excess > 0 THEN excess ELSE 0
      /\ DOMAIN d.entries = (others \ V) \cup {addr}
      /\ d.entries[addr].response = response
      /\ \A b \in others \ V : d.entries[b] = c.entries[b]
      /\ d.evictions = (c.evictions + Cardinality(V)) % Wrap

(* How c becomes d when its capacity is set and V is dropped. *)
Shrinks(c, d, capacity, u, V) ==
  LET D == DOMAIN c.entries
      excess == Cardinality(D) - capacity
  IN  /\ V \subseteq D
      /\ \A v \in V, s \in D \ V : <<v, s>> \in u
      /\ Cardinality(V) = IF excess > 0 THEN excess ELSE 0
      /\ DOMAIN d.entries = D \ V
      /\ \A b \in D \ V : d.entries[b] = c.entries[b]

(* Storing an answer drops what was used before everything that stays, as  *)
(* much of it as it takes to make room, and uses its address.              *)
LEMMA SetDropsOldest ==
  ASSUME NEW c, Formed(c), Fits(c), c.capacity # 0,
         NEW addr \in Addr, NEW response \in Answer,
         NEW u, InOrder(c, u)
  PROVE  /\ IsFiniteSet(DOMAIN c.entries)
         /\ c.capacity > 0
         /\ Set(c, addr, response).capacity = c.capacity
         /\ InOrder(Set(c, addr, response), Using(u, addr))
         /\ \E V : Stores(c, Set(c, addr, response), addr, response, u, V)
  <1> DEFINE others == DOMAIN c.entries \ {addr}
             excess == Cardinality(others) + 1 - c.capacity
             r == Replaced(c, addr)
             m == MakeRoom(r)
             el == [addr |-> addr, response |-> response]
             d == PushBack(m, el)
             V == DOMAIN r.entries \ DOMAIN m.entries
  <1>1. Set(c, addr, response) = d
    BY DEF Set
  <1>2. c.capacity \in Nat /\ c.capacity > 0
    BY DEF Formed, Shape
  <1>3. /\ Formed(r) /\ r.capacity = c.capacity /\ r.evictions = c.evictions
        /\ InOrder(r, u)
        /\ DOMAIN r.entries = others
        /\ \A a \in others : r.entries[a] = c.entries[a]
    <2>1. CASE addr \in DOMAIN c.entries
      BY <2>1, WithoutFormed, WithoutInOrder DEF Replaced, Cached
    <2>2. CASE addr \notin DOMAIN c.entries
      BY <2>2 DEF Replaced, Cached
    <2> QED
      BY <2>1, <2>2
  <1> HIDE DEF r
  <1>4. /\ IsFiniteSet(others) /\ Cardinality(others) = Len(r.values)
        /\ Len(r.values) \in Nat
    BY <1>3, ListCountsMap
  <1> HIDE DEF others
  <1>5. /\ m = Evict(r, excess)
        /\ excess \in Int /\ excess <= Len(r.values)
    <2>1. m = Evict(r, Cardinality(others) - c.capacity + 1)
      BY <1>3 DEF MakeRoom
    <2>2. Cardinality(others) - c.capacity + 1 = excess
      BY <1>2, <1>4
    <2> QED
      BY <1>2, <1>4, <2>1, <2>2
  <1> HIDE DEF m, excess
  <1>6. /\ Formed(m) /\ m.capacity = r.capacity
        /\ DOMAIN m.entries \subseteq DOMAIN r.entries
    BY <1>3, <1>5, EvictFormed
  <1>7. /\ InOrder(m, u)
        /\ \A a \in DOMAIN m.entries : m.entries[a] = r.entries[a]
        /\ \A v \in V, s \in DOMAIN m.entries : <<v, s>> \in u
        /\ Cardinality(V) = IF excess > 0 THEN excess ELSE 0
        /\ m.evictions = (r.evictions + Cardinality(V)) % Wrap
    BY <1>3, <1>5, EvictDropsOldest
  <1>8. el \in Element /\ el.addr = addr /\ el.response = response
    BY DEF Element
  <1>9. el.addr \notin DOMAIN m.entries /\ DOMAIN m.entries \subseteq Addr
    BY <1>3, <1>6, <1>8 DEF others, Formed, Shape
  <1> HIDE DEF el
  <1>10. d.capacity = m.capacity
    BY <1>6, <1>8, <1>9, PushBackFormed
  <1>11. /\ InOrder(d, Using(u, addr))
         /\ d.evictions = m.evictions
         /\ DOMAIN d.entries = DOMAIN m.entries \cup {addr}
         /\ d.entries[addr] = el
         /\ \A a \in DOMAIN m.entries : d.entries[a] = m.entries[a]
    BY <1>6, <1>7, <1>8, <1>9, PushBackInOrder
  <1>12. V \subseteq others /\ DOMAIN m.entries = others \ V
    BY <1>3, <1>6
  <1> HIDE DEF V, d
  <1>13. /\ \A v \in V, s \in others \ V : <<v, s>> \in u
         /\ Cardinality(V) = IF excess > 0 THEN excess ELSE 0
         /\ DOMAIN d.entries = (others \ V) \cup {addr}
         /\ d.entries[addr].response = response
         /\ \A b \in others \ V : d.entries[b] = c.entries[b]
         /\ d.evictions = (c.evictions + Cardinality(V)) % Wrap
    BY <1>3, <1>7, <1>8, <1>11, <1>12
  <1> QED
    <2>1. Stores(c, d, addr, response, u, V)
      BY <1>12, <1>13 DEF Stores, others, excess
    <2>2. IsFiniteSet(DOMAIN c.entries)
      BY ListCountsMap
    <2> QED
      BY <1>1, <1>2, <1>3, <1>6, <1>10, <1>11, <2>1, <2>2

(* A hit changes the order of use and nothing else. *)
LEMMA GetUses ==
  ASSUME NEW c, Formed(c), NEW addr \in DOMAIN c.entries,
         NEW u, InOrder(c, u)
  PROVE  /\ InOrder(Get(c, addr), Using(u, addr))
         /\ Get(c, addr).capacity = c.capacity
         /\ Get(c, addr).entries = c.entries
         /\ Get(c, addr).evictions = c.evictions
  <1> DEFINE w == Without(c, addr)
             el == c.entries[addr]
  <1>1. /\ Formed(w) /\ addr \notin DOMAIN w.entries
        /\ InOrder(w, u)
        /\ DOMAIN w.entries \subseteq Addr
    BY WithoutFormed, WithoutInOrder DEF Formed, Shape
  <1>2. el \in Element /\ el.addr = addr
    BY PositionOfCached DEF Formed, Shape
  <1>3. InOrder(PushBack(w, el), Using(u, addr))
    BY <1>1, <1>2, PushBackInOrder
  <1>4. InOrder(Get(c, addr), Using(u, addr))
    BY <1>3, GetMoves
  <1>5. /\ Get(c, addr).capacity = c.capacity
        /\ Get(c, addr).entries = c.entries
        /\ Get(c, addr).evictions = c.evictions
    BY DEF Get, Cached, Formed, Shape
  <1> QED
    BY <1>4, <1>5

(* A resize drops what was used before everything that stays, as much of   *)
(* it as there is no room for, and starts counting again.                  *)
LEMMA ResizeDropsOldest ==
  ASSUME NEW c, Formed(c), Fits(c), NEW capacity \in Nat,
         NEW u, InOrder(c, u)
  PROVE  /\ Resized(c, capacity).capacity = capacity
         /\ Resized(c, capacity).evictions = 0
         /\ InOrder(Resized(c, capacity), u)
         /\ \E V : Shrinks(c, Resized(c, capacity), capacity, u, V)
  <1> DEFINE D == DOMAIN c.entries
             excess == Cardinality(D) - capacity
             r == [c EXCEPT !.capacity = capacity]
             e == Evict(r, excess)
             d == [e EXCEPT !.evictions = 0]
             V == DOMAIN r.entries \ DOMAIN e.entries
  <1>1. Resized(c, capacity) = d
    BY DEF Resized
  <1>2. /\ Formed(r) /\ r.capacity = capacity /\ r.values = c.values
        /\ r.entries = c.entries
    BY DEF Formed, Shape, Agree
  <1>3. /\ Len(r.values) \in Nat /\ Cardinality(D) = Len(r.values)
    BY <1>2, ListCountsMap
  <1>4. excess \in Int /\ excess <= Len(r.values)
    BY <1>3
  <1>5. InOrder(r, u)
    BY <1>2 DEF InOrder
  <1> HIDE DEF r, excess
  <1>6. /\ Formed(e) /\ e.capacity = capacity
        /\ DOMAIN e.entries \subseteq D
    BY <1>2, <1>4, EvictFormed
  <1>7. /\ InOrder(e, u)
        /\ \A a \in DOMAIN e.entries : e.entries[a] = r.entries[a]
        /\ \A v \in V, s \in DOMAIN e.entries : <<v, s>> \in u
        /\ Cardinality(V) = IF excess > 0 THEN excess ELSE 0
    BY <1>2, <1>4, <1>5, EvictDropsOldest
  <1> HIDE DEF e
  <1>8. /\ d.capacity = capacity /\ d.evictions = 0
        /\ d.entries = e.entries /\ d.values = e.values
    BY <1>6 DEF Formed, Shape
  <1> HIDE DEF d
  <1>9. InOrder(d, u)
    BY <1>7, <1>8 DEF InOrder
  <1>10. V \subseteq D /\ DOMAIN e.entries = D \ V
    BY <1>2, <1>6
  <1> HIDE DEF V
  <1>11. /\ \A v \in V, s \in D \ V : <<v, s>> \in u
         /\ Cardinality(V) = IF excess > 0 THEN excess ELSE 0
         /\ DOMAIN d.entries = D \ V
         /\ \A b \in D \ V : d.entries[b] = c.entries[b]
    BY <1>2, <1>7, <1>8, <1>10
  <1> QED
    <2>1. Shrinks(c, d, capacity, u, V)
      BY <1>10, <1>11 DEF Shrinks, excess
    <2> QED
      BY <1>1, <1>8, <1>9, <2>1

-----------------------------------------------------------------------------
(* The inductive invariant: the cache is well formed, its list stands in   *)
(* the order of use, and finitely many addresses were used since any other.*)
UseInv == CacheInv /\ InOrder(cache, used) /\ FiniteSince(used)

(* A use adds no more than one address to what was used since another. *)
LEMMA UsingFinite ==
  ASSUME NEW u, FiniteSince(u), NEW addr \in Addr
  PROVE  FiniteSince(Using(u, addr))
  <1> SUFFICES ASSUME NEW a \in Addr
               PROVE  IsFiniteSet({b \in Addr : <<a, b>> \in Using(u, addr)})
    BY DEF FiniteSince
  <1> DEFINE since == {b \in Addr : <<a, b>> \in u}
  <1>1. IsFiniteSet(since \cup {addr})
    BY FS_AddElement DEF FiniteSince
  <1>2. {b \in Addr : <<a, b>> \in Using(u, addr)} \subseteq since \cup {addr}
    BY DEF Using
  <1> QED
    BY <1>1, <1>2, FS_Subset

(* Each call keeps the list in the order of use. *)
LEMMA UseInductive == UseInv /\ [UseNext]_useVars => UseInv'
  <1> SUFFICES ASSUME CacheInv, InOrder(cache, used), FiniteSince(used),
                      [UseNext]_useVars
               PROVE  CacheInv' /\ InOrder(cache', used') /\ FiniteSince(used')
    BY DEF UseInv
  <1>1. [CacheNext]_cache
    BY DEF UseNext, CacheNext, useVars
  <1>2. CacheInv'
    BY <1>1, CacheInductive
  <1>3. Formed(cache) /\ Fits(cache)
    BY DEF CacheInv
  <1>4. \A addr \in Addr : Use(addr) = Using(used, addr)
    BY DEF Use, Using
  <1>5. ASSUME NEW addr \in Addr, NEW response \in Answer,
               SetStep(addr, response),
               used' = IF cache.capacity = 0 THEN used ELSE Use(addr)
        PROVE  InOrder(cache', used') /\ FiniteSince(used')
    <2>1. CASE cache.capacity = 0
      BY <1>5, <2>1 DEF SetStep, Set
    <2>2. CASE cache.capacity # 0
      <3>1. InOrder(Set(cache, addr, response), Using(used, addr))
        BY <1>3, <2>2, SetDropsOldest
      <3> QED
        BY <1>4, <1>5, <2>2, <3>1, UsingFinite DEF SetStep
    <2> QED
      BY <2>1, <2>2
  <1>6. ASSUME NEW addr \in Addr, GetStep(addr),
               used' = IF Cached(cache, addr) THEN Use(addr) ELSE used
        PROVE  InOrder(cache', used') /\ FiniteSince(used')
    <2>1. CASE addr \in DOMAIN cache.entries
      <3>1. InOrder(Get(cache, addr), Using(used, addr))
        BY <1>3, <2>1, GetUses
      <3> QED
        BY <1>4, <1>6, <2>1, <3>1, UsingFinite DEF GetStep, Cached
    <2>2. CASE addr \notin DOMAIN cache.entries
      BY <1>6, <2>2 DEF GetStep, Get, Cached
    <2> QED
      BY <2>1, <2>2
  <1>7. ASSUME ClearStep, used' = {}
        PROVE  InOrder(cache', used') /\ FiniteSince(used')
    <2>1. Len(cache'.values) = 0
      BY <1>3, <1>7 DEF ClearStep, Cleared, Formed, Shape
    <2>2. FiniteSince({})
      BY FS_EmptySet DEF FiniteSince
    <2> QED
      BY <1>7, <2>1, <2>2 DEF InOrder
  <1>8. ASSUME NEW capacity \in Capacity, ResizeStep(capacity), UNCHANGED used
        PROVE  InOrder(cache', used') /\ FiniteSince(used')
    <2>1. CASE capacity < 0
      BY <1>8, <2>1 DEF ResizeStep, Resized
    <2>2. CASE ~ capacity < 0
      <3>1. capacity \in Nat
        BY <2>2, CapacityAssumption
      <3>2. InOrder(Resized(cache, capacity), used)
        BY <1>3, <3>1, ResizeDropsOldest
      <3> QED
        BY <1>8, <3>2 DEF ResizeStep
    <2> QED
      BY <2>1, <2>2
  <1>9. ASSUME UNCHANGED useVars
        PROVE  InOrder(cache', used') /\ FiniteSince(used')
    BY <1>9 DEF useVars
  <1>10. InOrder(cache', used') /\ FiniteSince(used')
    BY <1>5, <1>6, <1>7, <1>8, <1>9 DEF UseNext
  <1> QED
    BY <1>2, <1>10

(* Through any sequence of calls the list stands in the order of use. *)
THEOREM UseInvariance == UseSpec => []UseInv
  <1>1. UseInit => UseInv
    <2> SUFFICES ASSUME CacheInit, used = {}
                 PROVE  CacheInv /\ InOrder(cache, used) /\ FiniteSince(used)
      BY DEF UseInit, UseInv
    <2>1. CacheInv
      BY NewFormed, CapacityAssumption DEF CacheInit, CacheInv
    <2>2. Len(cache.values) = 0
      BY DEF CacheInit, NewCache
    <2>3. FiniteSince({})
      BY FS_EmptySet DEF FiniteSince
    <2> QED
      BY <2>1, <2>2, <2>3 DEF InOrder
  <1> QED
    BY <1>1, UseInductive, PTL DEF UseSpec

-----------------------------------------------------------------------------
(* Storing one response drops none of the capacity - 1 addresses used      *)
(* last: whatever is dropped was used before capacity - 1 others that      *)
(* stay.                                                                   *)
THEOREM RecentSurvive == UseSpec => RecentlyUsedSurvive
  <1> DEFINE Survive ==
               \A addr \in Addr, response \in Answer :
                 SetStep(addr, response) =>
                   \A a \in DOMAIN cache.entries :
                     Cardinality(UsedAfter(a)) < cache.capacity - 1
                       => Cached(cache', a)
  <1>1. UseInv => Survive
    <2> SUFFICES ASSUME Formed(cache), Fits(cache), InOrder(cache, used),
                        FiniteSince(used),
                        NEW addr \in Addr, NEW response \in Answer,
                        SetStep(addr, response),
                        NEW a \in DOMAIN cache.entries,
                        a \notin DOMAIN cache'.entries
                 PROVE  ~ Cardinality(UsedAfter(a)) < cache.capacity - 1
      BY DEF UseInv, CacheInv, Cached
    <2>1. cache' = Set(cache, addr, response)
      BY DEF SetStep
    <2>2. cache.capacity # 0
      BY <2>1 DEF Set
    <2> DEFINE others == DOMAIN cache.entries \ {addr}
               excess == Cardinality(others) + 1 - cache.capacity
    <2>3. /\ IsFiniteSet(DOMAIN cache.entries)
          /\ \E V : Stores(cache, cache', addr, response, used, V)
      BY <2>1, <2>2, SetDropsOldest
    <2>4. PICK V : Stores(cache, cache', addr, response, used, V)
      BY <2>3
    <2>5. /\ V \subseteq others
          /\ \A v \in V, s \in others \ V : <<v, s>> \in used
          /\ Cardinality(V) = IF excess > 0 THEN excess ELSE 0
          /\ DOMAIN cache'.entries = (others \ V) \cup {addr}
      BY <2>4 DEF Stores
    <2>6. /\ IsFiniteSet(others) /\ a \in V
          /\ DOMAIN cache.entries \subseteq Addr /\ cache.capacity \in Nat
      BY <2>3, <2>5, FS_Subset DEF Formed, Shape
    <2>7. others \ V \subseteq UsedAfter(a)
      BY <2>5, <2>6 DEF UsedAfter
    <2>8. IsFiniteSet(UsedAfter(a))
      BY <2>6 DEF FiniteSince, UsedAfter
    <2>9. /\ Cardinality(others \ V) \in Nat
          /\ Cardinality(UsedAfter(a)) \in Nat
          /\ Cardinality(others \ V) <= Cardinality(UsedAfter(a))
      BY <2>7, <2>8, FS_Subset, FS_CardinalityType
    <2>10. /\ Cardinality(others) \in Nat
           /\ Cardinality(V) \in Nat /\ Cardinality(V) # 0
           /\ Cardinality(others \ V) = Cardinality(others) - Cardinality(V)
      <3>1. IsFiniteSet(V) /\ others \cap V = V
        BY <2>5, <2>6, FS_Subset
      <3>2. Cardinality(V) # 0
        BY <2>6, <3>1, FS_EmptySet
      <3>3. Cardinality(others \ V) = Cardinality(others) - Cardinality(others \cap V)
        BY <2>6, FS_Difference
      <3> QED
        BY <2>6, <3>1, <3>2, <3>3, FS_CardinalityType
    <2> HIDE DEF others
    <2>11. Cardinality(V) = Cardinality(others) + 1 - cache.capacity
      BY <2>5, <2>10
    <2> QED
      BY <2>6, <2>9, <2>10, <2>11
  <1>2. UseInv => [Survive]_useVars
    BY <1>1
  <1> QED
    BY <1>2, UseInvariance, PTL DEF RecentlyUsedSurvive

-----------------------------------------------------------------------------
(* The mapped store and order of use, of any struct and history. *)
StoreOf(c) == [a \in DOMAIN c.entries |-> c.entries[a].response]
OlderOf(c, u) == {p \in u : p[1] \in DOMAIN c.entries /\ p[2] \in DOMAIN c.entries}

(* What the use of addr makes of the order among the addresses in S and    *)
(* addr itself, when all of them but addr were cached before.              *)
LEMMA UsedLastOf ==
  ASSUME NEW D, NEW S, NEW u, NEW addr, S \subseteq D, D \subseteq Addr
  PROVE  {p \in Using(u, addr) : p[1] \in S \cup {addr} /\ p[2] \in S \cup {addr}}
         = {p \in {q \in u : q[1] \in D /\ q[2] \in D} :
              p[1] \in S \ {addr} /\ p[2] \in S \ {addr}}
           \cup {<<b, addr>> : b \in S \ {addr}}
  BY DEF Using

(* The abstract store counts as the cache does. *)
LEMMA SameCardinality == \A S : Recency!Cardinality(S) = Cardinality(S)
  BY DEF Recency!Cardinality, Cardinality

(* Storing an answer stores it in the least recently used store. *)
LEMMA SetStores ==
  ASSUME UseInv, NEW addr \in Addr, NEW response \in Answer,
         SetStep(addr, response), cache.capacity # 0, used' = Using(used, addr)
  PROVE  Recency!Store(addr, response)
  <1> DEFINE D == DOMAIN cache.entries
             others == D \ {addr}
  <1>1. Formed(cache) /\ Fits(cache) /\ InOrder(cache, used) /\ D \subseteq Addr
    BY DEF UseInv, CacheInv, Formed, Shape
  <1>2. cache' = Set(cache, addr, response)
    BY DEF SetStep
  <1>3. /\ cache.capacity > 0 /\ cache'.capacity = cache.capacity
        /\ \E V : Stores(cache, cache', addr, response, used, V)
    BY <1>1, <1>2, SetDropsOldest
  <1>4. PICK V : Stores(cache, cache', addr, response, used, V)
    BY <1>3
  <1>5. /\ V \subseteq others
        /\ \A v \in V, s \in others \ V : <<v, s>> \in used
        /\ DOMAIN cache'.entries = (others \ V) \cup {addr}
        /\ cache'.entries[addr].response = response
        /\ \A b \in others \ V : cache'.entries[b] = cache.entries[b]
        /\ cache'.evictions = (cache.evictions + Cardinality(V)) % Wrap
    BY <1>4 DEF Stores
  <1>6. Cardinality(V) = IF Cardinality(others) + 1 - cache.capacity > 0
                         THEN Cardinality(others) + 1 - cache.capacity ELSE 0
    BY <1>4 DEF Stores
  <1>7. StoreOf(cache') = [b \in (others \ V) \cup {addr} |->
                             IF b = addr THEN response ELSE StoreOf(cache)[b]]
    BY <1>5 DEF StoreOf
  <1>8. OlderOf(cache', used')
          = {p \in OlderOf(cache, used) :
               p[1] \in (others \ V) \ {addr} /\ p[2] \in (others \ V) \ {addr}}
            \cup {<<b, addr>> : b \in (others \ V) \ {addr}}
    <2> DEFINE S == others \ V
    <2>1. S \subseteq D
      OBVIOUS
    <2> HIDE DEF S, D
    <2>2. {p \in Using(used, addr) : p[1] \in S \cup {addr} /\ p[2] \in S \cup {addr}}
          = {p \in {q \in used : q[1] \in D /\ q[2] \in D} :
              p[1] \in S \ {addr} /\ p[2] \in S \ {addr}}
           \cup {<<b, addr>> : b \in S \ {addr}}
      BY <1>1, <2>1, UsedLastOf
    <2> USE DEF S, D
    <2> QED
      BY <1>5, <2>2 DEF OlderOf
  <1>9. \A v \in V, s \in others \ V : <<v, s>> \in OlderOf(cache, used)
    BY <1>5 DEF OlderOf
  <1>10. Recency!Live = D
    BY DEF Recency!Live
  <1>11. V \in SUBSET others /\ Recency!Droppable(V, others)
    BY <1>5, <1>9 DEF Recency!Droppable, OlderOf, Cached
  <1>12. {p \in used' : Cached(cache', p[1]) /\ Cached(cache', p[2])}
         = Recency!UsedLast(addr, others \ V)
    BY <1>8 DEF Recency!UsedLast, Recency!OlderAmong, OlderOf, Cached
  <1>13. [a \in DOMAIN cache'.entries |-> cache'.entries[a].response]
         = [b \in (others \ V) \cup {addr} |->
              IF b = addr THEN response
              ELSE [a \in DOMAIN cache.entries |-> cache.entries[a].response][b]]
    BY <1>7 DEF StoreOf
  <1> HIDE DEF others
  <1> QED
    BY <1>3, <1>5, <1>6, <1>10, <1>11, <1>12, <1>13, SameCardinality
       DEF Recency!Store, others

(* A hit is a use. *)
LEMMA GetIsUse ==
  ASSUME UseInv, NEW addr \in Addr, addr \in DOMAIN cache.entries,
         GetStep(addr), used' = Using(used, addr)
  PROVE  Recency!Use(addr)
  <1> DEFINE D == DOMAIN cache.entries
  <1>1. Formed(cache) /\ InOrder(cache, used) /\ D \subseteq Addr
    BY DEF UseInv, CacheInv, Formed, Shape
  <1>2. cache' = Get(cache, addr)
    BY DEF GetStep
  <1>3. /\ cache'.capacity = cache.capacity
        /\ cache'.entries = cache.entries
        /\ cache'.evictions = cache.evictions
    BY <1>1, <1>2, GetUses
  <1>4. {p \in Using(used, addr) : p[1] \in D /\ p[2] \in D}
        = {p \in {q \in used : q[1] \in D /\ q[2] \in D} :
             p[1] \in D \ {addr} /\ p[2] \in D \ {addr}}
          \cup {<<b, addr>> : b \in D \ {addr}}
    <2> HIDE DEF D
    <2>1. addr \in D /\ D \subseteq Addr
      BY <1>1 DEF D
    <2> QED
      BY <2>1 DEF Using
  <1>5. {p \in used' : Cached(cache', p[1]) /\ Cached(cache', p[2])}
        = Recency!UsedLast(addr, D)
    BY <1>3, <1>4 DEF Recency!UsedLast, Recency!OlderAmong, Cached
  <1>6. Recency!Live = D
    BY DEF Recency!Live
  <1> QED
    BY <1>3, <1>5, <1>6 DEF Recency!Use

(* Clear forgets everything but how much was evicted. *)
LEMMA ClearForgets ==
  ASSUME UseInv, ClearStep, used' = {}
  PROVE  Recency!Forget
  <1>1. /\ cache'.entries = << >>
        /\ cache'.capacity = cache.capacity
        /\ cache'.evictions = cache.evictions
    BY DEF UseInv, CacheInv, ClearStep, Cleared, Formed, Shape
  <1>2. [a \in DOMAIN cache'.entries |-> cache'.entries[a].response] = << >>
    BY <1>1
  <1> QED
    BY <1>1, <1>2 DEF Recency!Forget

(* A resize sets the limit. *)
LEMMA ResizeSetsLimit ==
  ASSUME UseInv, NEW capacity \in Nat, ResizeStep(capacity), UNCHANGED used
  PROVE  Recency!SetLimit(capacity)
  <1> DEFINE D == DOMAIN cache.entries
  <1>1. Formed(cache) /\ Fits(cache) /\ InOrder(cache, used)
    BY DEF UseInv, CacheInv
  <1>2. cache' = Resized(cache, capacity)
    BY DEF ResizeStep
  <1>3. /\ cache'.capacity = capacity /\ cache'.evictions = 0
        /\ \E V : Shrinks(cache, cache', capacity, used, V)
    BY <1>1, <1>2, ResizeDropsOldest
  <1>4. PICK V : Shrinks(cache, cache', capacity, used, V)
    BY <1>3
  <1>5. /\ V \subseteq D
        /\ \A v \in V, s \in D \ V : <<v, s>> \in used
        /\ DOMAIN cache'.entries = D \ V
        /\ \A b \in D \ V : cache'.entries[b] = cache.entries[b]
    BY <1>4 DEF Shrinks
  <1>6. Cardinality(V) = IF Cardinality(D) - capacity > 0
                         THEN Cardinality(D) - capacity ELSE 0
    BY <1>4 DEF Shrinks
  <1>7. Recency!Live = D
    BY DEF Recency!Live
  <1>8. V \in SUBSET D /\ Recency!Droppable(V, D)
    BY <1>5 DEF Recency!Droppable, Cached
  <1>9. {p \in used' : Cached(cache', p[1]) /\ Cached(cache', p[2])}
        = Recency!OlderAmong(D \ V)
    BY <1>5 DEF Recency!OlderAmong, Cached
  <1>10. [a \in DOMAIN cache'.entries |-> cache'.entries[a].response]
         = [b \in D \ V |->
              [a \in DOMAIN cache.entries |-> cache.entries[a].response][b]]
    BY <1>5
  <1>11. cache'.capacity = capacity /\ cache'.evictions = 0 /\ capacity >= 0
    BY <1>3
  <1> HIDE DEF D
  <1> QED
    BY <1>6, <1>7, <1>8, <1>9, <1>10, <1>11, SameCardinality DEF Recency!SetLimit

(* Every step of the cache is a step of the store, or leaves it alone: a   *)
(* miss, a negative resize and a set of a disabled cache do nothing.       *)
LEMMA StepMaps ==
  ASSUME UseInv, [UseNext]_useVars
  PROVE  [Recency!Next]_(Recency!lruVars)
  <1>1. ASSUME UNCHANGED <<cache, used>>
        PROVE  UNCHANGED Recency!lruVars
    BY <1>1 DEF Recency!lruVars, Cached
  <1>2. \A addr \in Addr : Use(addr) = Using(used, addr)
    BY DEF Use, Using
  <1>3. ASSUME NEW addr \in Addr, NEW response \in Answer,
               SetStep(addr, response),
               used' = IF cache.capacity = 0 THEN used ELSE Use(addr)
        PROVE  [Recency!Next]_(Recency!lruVars)
    <2>1. CASE cache.capacity = 0
      BY <1>1, <1>3, <2>1 DEF SetStep, Set
    <2>2. CASE cache.capacity # 0
      BY <1>2, <1>3, <2>2, SetStores DEF Recency!Next
    <2> QED
      BY <2>1, <2>2
  <1>4. ASSUME NEW addr \in Addr, GetStep(addr),
               used' = IF Cached(cache, addr) THEN Use(addr) ELSE used
        PROVE  [Recency!Next]_(Recency!lruVars)
    <2>1. CASE Cached(cache, addr)
      BY <1>2, <1>4, <2>1, GetIsUse DEF Recency!Next, Cached
    <2>2. CASE ~ Cached(cache, addr)
      BY <1>1, <1>4, <2>2 DEF GetStep, Get
    <2> QED
      BY <2>1, <2>2
  <1>5. ASSUME ClearStep, used' = {}
        PROVE  [Recency!Next]_(Recency!lruVars)
    BY <1>5, ClearForgets DEF Recency!Next
  <1>6. ASSUME NEW capacity \in Capacity, ResizeStep(capacity), UNCHANGED used
        PROVE  [Recency!Next]_(Recency!lruVars)
    <2>1. CASE capacity < 0
      BY <1>1, <1>6, <2>1 DEF ResizeStep, Resized
    <2>2. CASE ~ capacity < 0
      <3>1. capacity \in Nat
        BY <2>2, CapacityAssumption
      <3> QED
        BY <1>6, <3>1, ResizeSetsLimit DEF Recency!Next
    <2> QED
      BY <2>1, <2>2
  <1> QED
    BY <1>1, <1>3, <1>4, <1>5, <1>6 DEF UseNext, useVars

(* A new cache is an empty store with the limit it was asked for. *)
LEMMA InitMaps == UseInit => Recency!Init
  <1> SUFFICES ASSUME NEW capacity \in Capacity, cache = NewCache(capacity),
                      used = {}
               PROVE  Recency!Init
    BY DEF UseInit, CacheInit
  <1>1. /\ cache.capacity = IF capacity < 0 THEN 0 ELSE capacity
        /\ cache.entries = << >>
        /\ cache.evictions = 0
    BY DEF NewCache
  <1>2. cache.capacity \in {n \in Nat : \E c \in Capacity : n = IF c < 0 THEN 0 ELSE c}
    <2>1. capacity \in Int
      BY CapacityAssumption
    <2>2. cache.capacity \in Nat
      BY <1>1, <2>1
    <2> QED
      BY <1>1, <2>2
  <1>3. [a \in DOMAIN cache.entries |-> cache.entries[a].response] = << >>
    BY <1>1
  <1> QED
    BY <1>1, <1>2, <1>3 DEF Recency!Init

(* The cache is a least recently used store: it returns what was stored    *)
(* last, drops what was used longest ago and no more than it must, and     *)
(* counts what it drops.                                                   *)
THEOREM CacheImplementsLRU == UseSpec => ImplementsLRU
  <1>1. UseInv /\ [UseNext]_useVars => [Recency!Next]_(Recency!lruVars)
    BY StepMaps
  <1> QED
    BY <1>1, InitMaps, UseInvariance, PTL DEF UseSpec, ImplementsLRU, Recency!Spec

(* The history changes nothing of the cache, so what is proved of the      *)
(* cache holds with it.                                                    *)
THEOREM UseIsCache == UseSpec => CacheSpec
  <1>1. [UseNext]_useVars => [CacheNext]_cache
    BY DEF UseNext, CacheNext, useVars
  <1> QED
    BY <1>1, PTL DEF UseSpec, UseInit, CacheSpec

=============================================================================
