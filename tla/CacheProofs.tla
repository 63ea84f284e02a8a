----------------------------- MODULE CacheProofs -----------------------------
(***************************************************************************)
(* For any addresses, answers, capacities and counter width: the map and   *)
(* the list of the cache describe the same entries, and there are no more  *)
(* of them than the capacity in force.                                     *)
(*                                                                         *)
(* Every method is proved to keep the struct well formed, whatever it is   *)
(* called on; the theorems about the specification follow. That the two    *)
(* agree is what makes the capacity hold, because the code counts the map  *)
(* and evicts from the list.                                               *)
(***************************************************************************)
EXTENDS Cache, TLAPS, SequenceTheorems, FiniteSetTheorems

(* The parts of the invariant, as CacheTypeOK, Agreement and                *)
(* WithinCapacity state them, of any struct c.                             *)
Shape(c) ==
  /\ DOMAIN c = {"capacity", "entries", "values", "evictions"}
  /\ c.capacity \in Nat
  /\ DOMAIN c.entries \subseteq Addr
  /\ c.entries \in [DOMAIN c.entries -> Element]
  /\ c.values \in Seq(Element)
  /\ c.evictions \in 0..(Wrap - 1)

Agree(c) ==
  /\ \A i \in 1..Len(c.values) :
       /\ c.values[i].addr \in DOMAIN c.entries
       /\ c.entries[c.values[i].addr] = c.values[i]
  /\ \A i, j \in 1..Len(c.values) :
       c.values[i].addr = c.values[j].addr => i = j
  /\ \A a \in DOMAIN c.entries :
       \E i \in 1..Len(c.values) : c.values[i].addr = a

Formed(c) == Shape(c) /\ Agree(c)

Fits(c) == Len(c.values) <= c.capacity

-----------------------------------------------------------------------------
(* What is left of a sequence once one element has been removed. *)
LEMMA RemoveAtProperties ==
  ASSUME NEW S, NEW s \in Seq(S), NEW p \in 1..Len(s)
  PROVE  /\ RemoveAt(s, p) \in Seq(S)
         /\ Len(RemoveAt(s, p)) = Len(s) - 1
         /\ \A i \in 1..(Len(s) - 1) :
              RemoveAt(s, p)[i] = IF i < p THEN s[i] ELSE s[i + 1]
  <1> DEFINE front == SubSeq(s, 1, p - 1)
             back == SubSeq(s, p + 1, Len(s))
  <1>1. Len(s) \in Nat /\ \A i \in 1..Len(s) : s[i] \in S
    BY ElementOfSeq, LenProperties
  <1>2. /\ front \in Seq(S) /\ Len(front) = p - 1
        /\ \A i \in 1..(p - 1) : front[i] = s[i]
    <2>1. /\ SubSeq(s, 1, p - 1) \in Seq(S)
          /\ Len(SubSeq(s, 1, p - 1)) = IF 1 <= p - 1 THEN (p - 1) - 1 + 1 ELSE 0
          /\ \A i \in 1..((p - 1) - 1 + 1) : SubSeq(s, 1, p - 1)[i] = s[1 + i - 1]
      <3>1. \A i \in 1..(p - 1) : s[i] \in S
        BY <1>1
      <3> QED
        BY <1>1, <3>1, SubSeqProperties
    <2> QED
      BY <1>1, <2>1
  <1>3. /\ back \in Seq(S) /\ Len(back) = Len(s) - p
        /\ \A i \in 1..(Len(s) - p) : back[i] = s[p + i]
    <2>1. /\ SubSeq(s, p + 1, Len(s)) \in Seq(S)
          /\ Len(SubSeq(s, p + 1, Len(s))) =
               IF p + 1 <= Len(s) THEN Len(s) - (p + 1) + 1 ELSE 0
          /\ \A i \in 1..(Len(s) - (p + 1) + 1) :
               SubSeq(s, p + 1, Len(s))[i] = s[p + 1 + i - 1]
      <3>1. \A i \in (p + 1)..Len(s) : s[i] \in S
        BY <1>1
      <3> QED
        BY <1>1, <3>1, SubSeqProperties
    <2> QED
      BY <1>1, <2>1
  <1>4. /\ front \o back \in Seq(S)
        /\ Len(front \o back) = Len(front) + Len(back)
        /\ \A i \in 1..(Len(front) + Len(back)) : (front \o back)[i] =
             IF i <= Len(front) THEN front[i] ELSE back[i - Len(front)]
    BY <1>2, <1>3, ConcatProperties
  <1>5. RemoveAt(s, p) = front \o back
    BY DEF RemoveAt
  <1> HIDE DEF front, back
  <1>6. ASSUME NEW i \in 1..(Len(s) - 1)
        PROVE  (front \o back)[i] = IF i < p THEN s[i] ELSE s[i + 1]
    <2>1. CASE i < p
      BY <1>1, <1>2, <1>3, <1>4, <2>1
    <2>2. CASE ~ i < p
      <3>1. (front \o back)[i] = back[i - (p - 1)]
        BY <1>1, <1>2, <1>3, <1>4, <2>2
      <3>2. i - (p - 1) \in 1..(Len(s) - p) /\ p + (i - (p - 1)) = i + 1
        BY <1>1, <2>2
      <3>3. back[i - (p - 1)] = s[p + (i - (p - 1))]
        BY <1>3, <3>2
      <3>4. (front \o back)[i] = s[i + 1]
        BY <3>1, <3>2, <3>3
      <3> QED
        BY <2>2, <3>4
    <2> QED
      BY <2>1, <2>2
  <1>7. Len(front \o back) = Len(s) - 1
    BY <1>1, <1>2, <1>3, <1>4
  <1> QED
    BY <1>4, <1>5, <1>6, <1>7

-----------------------------------------------------------------------------
(* The list of a well formed cache is as long as its map has keys, which   *)
(* is why counting the keys tells how much to evict from the list.         *)
LEMMA ListCountsMap ==
  ASSUME NEW c, Formed(c)
  PROVE  /\ IsFiniteSet(DOMAIN c.entries)
         /\ Cardinality(DOMAIN c.entries) = Len(c.values)
         /\ Len(c.values) \in Nat
  <1> DEFINE place == [i \in 1..Len(c.values) |-> c.values[i].addr]
  <1>1. Len(c.values) \in Nat
    BY LenProperties DEF Formed, Shape
  <1>2. place \in Bijection(1..Len(c.values), DOMAIN c.entries)
    BY DEF Formed, Agree, Bijection, Injection, Surjection, IsInjective
  <1>3. ExistsBijection(1..Len(c.values), DOMAIN c.entries)
    BY <1>2 DEF ExistsBijection
  <1>4. IsFiniteSet(1..Len(c.values)) /\ Cardinality(1..Len(c.values)) = Len(c.values)
    BY <1>1, FS_Interval
  <1> QED
    BY <1>1, <1>3, <1>4, FS_Bijection

(* A cached address has its element in the list. *)
LEMMA PositionOfCached ==
  ASSUME NEW c, Formed(c), NEW addr \in DOMAIN c.entries
  PROVE  /\ Position(c, addr) \in 1..Len(c.values)
         /\ c.values[Position(c, addr)] = c.entries[addr]
         /\ c.values[Position(c, addr)].addr = addr
  <1>1. PICK i \in 1..Len(c.values) : c.values[i].addr = addr
    BY DEF Formed, Agree
  <1>2. c.values[i] = c.entries[addr]
    BY <1>1 DEF Formed, Agree
  <1>3. /\ Position(c, addr) \in 1..Len(c.values)
        /\ c.values[Position(c, addr)] = c.entries[addr]
    BY <1>1, <1>2 DEF Position
  <1> QED
    BY <1>1, <1>2, <1>3

(* Removing one address keeps map and list in agreement. *)
LEMMA WithoutFormed ==
  ASSUME NEW c, Formed(c), NEW addr \in DOMAIN c.entries
  PROVE  /\ Formed(Without(c, addr))
         /\ Len(Without(c, addr).values) = Len(c.values) - 1
         /\ Without(c, addr).capacity = c.capacity
         /\ addr \notin DOMAIN Without(c, addr).entries
  <1> DEFINE p == Position(c, addr)
             w == Without(c, addr)
             rest == RemoveAt(c.values, p)
  <1>1. p \in 1..Len(c.values) /\ c.values[p].addr = addr
    BY PositionOfCached
  <1>2. c.values \in Seq(Element) /\ Len(c.values) \in Nat
    BY LenProperties DEF Formed, Shape
  <1>3. /\ rest \in Seq(Element)
        /\ Len(rest) = Len(c.values) - 1
        /\ \A i \in 1..(Len(c.values) - 1) :
             rest[i] = IF i < p THEN c.values[i] ELSE c.values[i + 1]
    BY <1>1, <1>2, RemoveAtProperties
  <1>4. /\ w.values = rest
        /\ w.capacity = c.capacity
        /\ w.evictions = c.evictions
        /\ DOMAIN w = DOMAIN c
        /\ DOMAIN w.entries = DOMAIN c.entries \ {addr}
        /\ \A a \in DOMAIN c.entries \ {addr} : w.entries[a] = c.entries[a]
        /\ w.entries \in [DOMAIN w.entries -> Element]
    BY DEF Without, Restrict, Formed, Shape
  <1> HIDE DEF w, rest, p
  <1>5. Shape(w)
    BY <1>3, <1>4 DEF Formed, Shape
  <1>6. ASSUME NEW i \in 1..Len(rest)
        PROVE  rest[i].addr \in DOMAIN w.entries /\ w.entries[rest[i].addr] = rest[i]
    <2> DEFINE j == IF i < p THEN i ELSE i + 1
    <2>1. j \in 1..Len(c.values) /\ j # p /\ rest[i] = c.values[j]
      BY <1>1, <1>2, <1>3
    <2> HIDE DEF j
    <2>2. c.values[j].addr # addr
      BY <1>1, <2>1 DEF Formed, Agree
    <2>3. /\ c.values[j].addr \in DOMAIN c.entries
          /\ c.entries[c.values[j].addr] = c.values[j]
      BY <2>1 DEF Formed, Agree
    <2>4. w.entries[c.values[j].addr] = c.values[j]
      BY <1>4, <2>2, <2>3
    <2> QED
      BY <1>4, <2>1, <2>2, <2>3, <2>4
  <1>7. ASSUME NEW i \in 1..Len(rest), NEW j \in 1..Len(rest),
               rest[i].addr = rest[j].addr
        PROVE  i = j
    <2> DEFINE k(n) == IF n < p THEN n ELSE n + 1
    <2>1. /\ k(i) \in 1..Len(c.values) /\ rest[i] = c.values[k(i)]
          /\ k(j) \in 1..Len(c.values) /\ rest[j] = c.values[k(j)]
      BY <1>1, <1>2, <1>3
    <2>2. k(i) = k(j)
      <3> HIDE DEF k
      <3> QED
        BY <1>7, <2>1 DEF Formed, Agree
    <2> QED
      BY <1>1, <1>2, <1>3, <2>2
  <1>8. ASSUME NEW a \in DOMAIN w.entries
        PROVE  \E i \in 1..Len(rest) : rest[i].addr = a
    <2>1. PICK j \in 1..Len(c.values) : c.values[j].addr = a
      BY <1>4 DEF Formed, Agree
    <2>2. j # p
      BY <1>1, <1>4, <2>1
    <2> DEFINE i == IF j < p THEN j ELSE j - 1
    <2>3. i \in 1..Len(rest) /\ rest[i] = c.values[j]
      BY <1>1, <1>2, <1>3, <2>1, <2>2
    <2> QED
      BY <2>1, <2>3
  <1>9. Agree(w)
    BY <1>4, <1>6, <1>7, <1>8 DEF Agree
  <1> QED
    BY <1>3, <1>4, <1>5, <1>9 DEF Formed, w, rest

(* Evicting from the front keeps map and list in agreement, and makes the  *)
(* list shorter by n, or by less where n says so.                          *)
LEMMA EvictFormed ==
  ASSUME NEW c, Formed(c), NEW n \in Int
  PROVE  /\ Formed(Evict(c, n))
         /\ Evict(c, n).capacity = c.capacity
         /\ DOMAIN Evict(c, n).entries \subseteq DOMAIN c.entries
         /\ Len(Evict(c, n).values) <= Len(c.values)
         /\ n <= Len(c.values) => Len(Evict(c, n).values) <= Len(c.values) - n
  <1> DEFINE k == IF n < 0 THEN 0 ELSE IF n > Len(c.values) THEN Len(c.values) ELSE n
             dropped == {c.values[i].addr : i \in 1..k}
             rest == SubSeq(c.values, k + 1, Len(c.values))
             e == Evict(c, n)
  <1>1. c.values \in Seq(Element) /\ Len(c.values) \in Nat
    BY LenProperties DEF Formed, Shape
  <1>2. k \in 0..Len(c.values)
    BY <1>1
  <1>3. n <= Len(c.values) => n <= k
    BY <1>1
  <1>4. /\ e.values = rest
        /\ e.capacity = c.capacity
        /\ e.evictions = (c.evictions + k) % Wrap
        /\ DOMAIN e = DOMAIN c
        /\ DOMAIN e.entries = DOMAIN c.entries \ dropped
        /\ \A a \in DOMAIN c.entries \ dropped : e.entries[a] = c.entries[a]
        /\ e.entries \in [DOMAIN e.entries -> Element]
    BY DEF Evict, Restrict, Formed, Shape
  <1>5. /\ rest \in Seq(Element)
        /\ Len(rest) = Len(c.values) - k
        /\ \A i \in 1..(Len(c.values) - k) : rest[i] = c.values[k + i]
    <2> HIDE DEF k
    <2>1. \A i \in (k + 1)..Len(c.values) : c.values[i] \in Element
      BY <1>1, <1>2, ElementOfSeq
    <2>2. /\ rest \in Seq(Element)
          /\ Len(rest) = IF k + 1 <= Len(c.values)
                         THEN Len(c.values) - (k + 1) + 1 ELSE 0
          /\ \A i \in 1..(Len(c.values) - (k + 1) + 1) :
               rest[i] = c.values[(k + 1) + i - 1]
      BY <1>1, <1>2, <2>1, SubSeqProperties
    <2> QED
      BY <1>1, <1>2, <2>2
  <1>6. e.evictions \in 0..(Wrap - 1)
    <2> HIDE DEF k
    <2>1. c.evictions + k \in Nat
      BY <1>1, <1>2 DEF Formed, Shape
    <2> QED
      BY <1>4, <2>1, WrapAssumption
  <1> HIDE DEF e, rest, k
  <1>7. Shape(e)
    BY <1>4, <1>5, <1>6 DEF Formed, Shape
  <1>8. ASSUME NEW i \in 1..Len(rest)
        PROVE  rest[i].addr \in DOMAIN e.entries /\ e.entries[rest[i].addr] = rest[i]
    <2>1. k + i \in 1..Len(c.values) /\ rest[i] = c.values[k + i] /\ k + i \notin 1..k
      BY <1>1, <1>2, <1>5
    <2>2. c.values[k + i].addr \in DOMAIN c.entries
      BY <2>1 DEF Formed, Agree
    <2>3. ASSUME NEW j \in 1..k
          PROVE  c.values[j].addr # c.values[k + i].addr
      <3>1. j \in 1..Len(c.values) /\ j # k + i
        BY <1>1, <1>2, <2>1
      <3> QED
        BY <2>1, <3>1 DEF Formed, Agree
    <2>4. c.values[k + i].addr \notin dropped
      BY <2>3
    <2> HIDE DEF dropped
    <2>5. e.entries[c.values[k + i].addr] = c.values[k + i]
      BY <1>4, <2>1, <2>2, <2>4 DEF Formed, Agree
    <2> QED
      BY <1>4, <2>1, <2>2, <2>4, <2>5
  <1>9. ASSUME NEW i \in 1..Len(rest), NEW j \in 1..Len(rest),
               rest[i].addr = rest[j].addr
        PROVE  i = j
    <2>1. /\ k + i \in 1..Len(c.values) /\ rest[i] = c.values[k + i]
          /\ k + j \in 1..Len(c.values) /\ rest[j] = c.values[k + j]
      BY <1>1, <1>2, <1>5
    <2>2. k + i = k + j
      BY <1>9, <2>1 DEF Formed, Agree
    <2> QED
      BY <1>1, <1>2, <2>2
  <1>10. ASSUME NEW a \in DOMAIN e.entries
         PROVE  \E i \in 1..Len(rest) : rest[i].addr = a
    <2>1. PICK j \in 1..Len(c.values) : c.values[j].addr = a
      BY <1>4 DEF Formed, Agree
    <2>2. j \notin 1..k
      BY <1>4, <2>1
    <2>3. j - k \in 1..Len(rest) /\ k + (j - k) = j
      BY <1>1, <1>2, <1>5, <2>1, <2>2
    <2>4. rest[j - k] = c.values[k + (j - k)]
      BY <1>5, <2>3
    <2> QED
      BY <2>1, <2>3, <2>4
  <1>11. Agree(e)
    BY <1>4, <1>8, <1>9, <1>10 DEF Agree
  <1>12. /\ Len(e.values) <= Len(c.values)
         /\ n <= Len(c.values) => Len(e.values) <= Len(c.values) - n
    BY <1>1, <1>2, <1>3, <1>4, <1>5
  <1>13. DOMAIN e.entries \subseteq DOMAIN c.entries
    BY <1>4
  <1> QED
    BY <1>4, <1>7, <1>11, <1>12, <1>13 DEF Formed, e

(* Adding the element of an address that is not cached keeps map and list  *)
(* in agreement, and makes the list longer by one.                         *)
LEMMA PushBackFormed ==
  ASSUME NEW c, Formed(c), NEW el \in Element, el.addr \notin DOMAIN c.entries
  PROVE  /\ Formed(PushBack(c, el))
         /\ PushBack(c, el).capacity = c.capacity
         /\ Len(PushBack(c, el).values) = Len(c.values) + 1
  <1> DEFINE n == Len(c.values)
             longer == Append(c.values, el)
             b == PushBack(c, el)
  <1>1. c.values \in Seq(Element) /\ n \in Nat
    BY LenProperties DEF Formed, Shape
  <1>2. /\ longer \in Seq(Element)
        /\ Len(longer) = n + 1
        /\ \A i \in 1..n : longer[i] = c.values[i]
        /\ longer[n + 1] = el
    BY <1>1, AppendProperties
  <1>3. /\ b.values = longer
        /\ b.capacity = c.capacity
        /\ b.evictions = c.evictions
        /\ DOMAIN b = DOMAIN c
        /\ DOMAIN b.entries = DOMAIN c.entries \cup {el.addr}
        /\ \A a \in DOMAIN c.entries : b.entries[a] = c.entries[a]
        /\ b.entries[el.addr] = el
        /\ b.entries \in [DOMAIN b.entries -> Element]
    BY DEF PushBack, Formed, Shape
  <1> HIDE DEF longer, b
  <1>4. Shape(b)
    BY <1>2, <1>3 DEF Formed, Shape, Element
  <1>5. ASSUME NEW i \in 1..(n + 1)
        PROVE  longer[i].addr \in DOMAIN b.entries /\ b.entries[longer[i].addr] = longer[i]
    <2>1. CASE i = n + 1
      BY <1>2, <1>3, <2>1
    <2>2. CASE i \in 1..n
      <3>1. longer[i] = c.values[i]
        BY <1>2, <2>2
      <3>2. /\ c.values[i].addr \in DOMAIN c.entries
            /\ c.entries[c.values[i].addr] = c.values[i]
        BY <2>2 DEF Formed, Agree
      <3>3. b.entries[c.values[i].addr] = c.values[i]
        BY <1>3, <3>2
      <3> QED
        BY <1>3, <3>1, <3>2, <3>3
    <2> QED
      BY <1>1, <2>1, <2>2
  <1>6. ASSUME NEW i \in 1..(n + 1), NEW j \in 1..(n + 1),
               longer[i].addr = longer[j].addr
        PROVE  i = j
    <2>1. \A m \in 1..n : longer[m] = c.values[m] /\ c.values[m].addr # el.addr
      BY <1>2 DEF Formed, Agree
    <2>2. CASE i \in 1..n /\ j \in 1..n
      BY <1>6, <2>1, <2>2 DEF Formed, Agree
    <2>3. CASE i = n + 1 \/ j = n + 1
      BY <1>1, <1>2, <1>6, <2>1, <2>3
    <2> QED
      BY <1>1, <2>2, <2>3
  <1>7. ASSUME NEW a \in DOMAIN b.entries
        PROVE  \E i \in 1..(n + 1) : longer[i].addr = a
    <2>1. CASE a = el.addr
      BY <1>1, <1>2, <2>1
    <2>2. CASE a \in DOMAIN c.entries
      <3>1. PICK i \in 1..n : c.values[i].addr = a
        BY <2>2 DEF Formed, Agree
      <3>2. i \in 1..(n + 1) /\ longer[i].addr = a
        BY <1>1, <1>2, <3>1
      <3> QED
        BY <3>2
    <2> QED
      BY <1>3, <2>1, <2>2
  <1>8. Agree(b)
    BY <1>2, <1>3, <1>5, <1>6, <1>7 DEF Agree
  <1> QED
    BY <1>2, <1>3, <1>4, <1>8 DEF Formed, b

(* Whatever set is called with, the cache stays well formed and within its *)
(* capacity: evicting count - capacity + 1 leaves room for one more.       *)
LEMMA SetFormed ==
  ASSUME NEW c, Formed(c), Fits(c), NEW addr \in Addr, NEW response \in Answer
  PROVE  Formed(Set(c, addr, response)) /\ Fits(Set(c, addr, response))
  <1>1. CASE c.capacity = 0
    BY <1>1 DEF Set
  <1>2. CASE c.capacity # 0
    <2> DEFINE r == Replaced(c, addr)
               m == MakeRoom(r)
               el == [addr |-> addr, response |-> response]
    <2>1. /\ Formed(r) /\ r.capacity = c.capacity
          /\ Len(r.values) <= Len(c.values)
          /\ addr \notin DOMAIN r.entries
      <3>1. CASE addr \in DOMAIN c.entries
        <4>1. Len(c.values) \in Nat
          BY ListCountsMap
        <4> QED
          BY <3>1, <4>1, WithoutFormed DEF Replaced, Cached
      <3>2. CASE addr \notin DOMAIN c.entries
        BY <3>2, ListCountsMap DEF Replaced, Cached
      <3> QED
        BY <3>1, <3>2
    <2>2. /\ Len(c.values) \in Nat /\ Len(r.values) \in Nat
          /\ Cardinality(DOMAIN r.entries) = Len(r.values)
      BY <2>1, ListCountsMap
    <2>3. c.capacity \in Nat
      BY DEF Formed, Shape
    <2> DEFINE excess == Cardinality(DOMAIN r.entries) - r.capacity + 1
    <2>4. excess \in Int /\ excess <= Len(r.values)
      BY <1>2, <2>1, <2>2, <2>3
    <2>5. /\ Formed(m) /\ m.capacity = c.capacity
          /\ DOMAIN m.entries \subseteq DOMAIN r.entries
          /\ Len(m.values) <= Len(r.values) - excess
      <3> HIDE DEF r, excess
      <3>1. m = Evict(r, excess)
        BY DEF MakeRoom, excess
      <3> QED
        BY <2>1, <2>4, <3>1, EvictFormed
    <2>6. Len(m.values) + 1 <= c.capacity
      <3>1. Len(m.values) \in Nat
        BY <2>5, ListCountsMap
      <3> QED
        BY <2>1, <2>2, <2>3, <2>5, <3>1
    <2>7. el \in Element /\ el.addr = addr /\ el.addr \notin DOMAIN m.entries
      BY <2>1, <2>5 DEF Element
    <2> HIDE DEF m, el
    <2>8. /\ Formed(PushBack(m, el))
          /\ PushBack(m, el).capacity = c.capacity
          /\ Len(PushBack(m, el).values) = Len(m.values) + 1
      BY <2>5, <2>7, PushBackFormed
    <2>9. Set(c, addr, response) = PushBack(m, el)
      BY <1>2 DEF Set, m, el
    <2> QED
      BY <2>6, <2>8, <2>9 DEF Fits
  <1> QED
    BY <1>1, <1>2

(* Moving an element to the back is removing it and adding it again. *)
LEMMA GetMoves ==
  ASSUME NEW c, Formed(c), NEW addr \in DOMAIN c.entries
  PROVE  Get(c, addr) = PushBack(Without(c, addr), c.entries[addr])
  <1> DEFINE w == Without(c, addr)
             el == c.entries[addr]
             p == Position(c, addr)
  <1>1. el \in Element /\ el.addr = addr /\ c.values[p] = el
    BY PositionOfCached DEF Formed, Shape
  <1>2. Get(c, addr) = [c EXCEPT !.values = Append(RemoveAt(c.values, p), c.values[p])]
    BY DEF Get, Cached
  <1>3. /\ w = [c EXCEPT !.entries = Restrict(c.entries, DOMAIN c.entries \ {addr}),
                         !.values  = RemoveAt(c.values, p)]
        /\ w.values = RemoveAt(c.values, p)
        /\ w.entries = Restrict(c.entries, DOMAIN c.entries \ {addr})
    BY DEF Without, Formed, Shape
  <1>4. [a \in DOMAIN w.entries \cup {el.addr} |->
           IF a = el.addr THEN el ELSE w.entries[a]] = c.entries
    <2> DEFINE D == DOMAIN c.entries
               added == [a \in DOMAIN w.entries \cup {el.addr} |->
                           IF a = el.addr THEN el ELSE w.entries[a]]
    <2>1. /\ DOMAIN w.entries = D \ {addr}
          /\ \A a \in D \ {addr} : w.entries[a] = c.entries[a]
      BY <1>3 DEF Restrict
    <2>2. DOMAIN added = D /\ \A a \in D : added[a] = c.entries[a]
      BY <1>1, <2>1
    <2>3. added \in [D -> Element] /\ c.entries \in [D -> Element]
      BY <1>1, <2>1, <2>2 DEF Formed, Shape
    <2> QED
      BY <2>2, <2>3
  <1> QED
    BY <1>1, <1>2, <1>3, <1>4 DEF PushBack, Formed, Shape

(* A read keeps the cache well formed and of the same size. *)
LEMMA GetFormed ==
  ASSUME NEW c, Formed(c), Fits(c), NEW addr \in Addr
  PROVE  Formed(Get(c, addr)) /\ Fits(Get(c, addr))
  <1>1. CASE addr \notin DOMAIN c.entries
    BY <1>1 DEF Get, Cached
  <1>2. CASE addr \in DOMAIN c.entries
    <2> DEFINE w == Without(c, addr)
               el == c.entries[addr]
    <2>1. /\ Formed(w) /\ Len(w.values) = Len(c.values) - 1
          /\ w.capacity = c.capacity /\ addr \notin DOMAIN w.entries
      BY <1>2, WithoutFormed
    <2>2. el \in Element /\ el.addr = addr
      BY <1>2, PositionOfCached DEF Formed, Shape
    <2>3. /\ Formed(PushBack(w, el))
          /\ PushBack(w, el).capacity = c.capacity
          /\ Len(PushBack(w, el).values) = Len(w.values) + 1
      BY <2>1, <2>2, PushBackFormed
    <2>4. Get(c, addr) = PushBack(w, el)
      BY <1>2, GetMoves
    <2>5. Len(c.values) \in Nat
      BY ListCountsMap
    <2> QED
      BY <2>1, <2>3, <2>4, <2>5 DEF Fits
  <1> QED
    BY <1>1, <1>2

(* Clear empties both. *)
LEMMA ClearedFormed ==
  ASSUME NEW c, Formed(c)
  PROVE  Formed(Cleared(c)) /\ Fits(Cleared(c))
  <1>1. /\ Cleared(c).entries = << >> /\ Cleared(c).values = << >>
        /\ Cleared(c).capacity = c.capacity
        /\ Cleared(c).evictions = c.evictions
        /\ DOMAIN Cleared(c) = DOMAIN c
    BY DEF Cleared, Formed, Shape
  <1>2. << >> \in Seq(Element) /\ Len(<< >>) = 0 /\ DOMAIN << >> = {}
    OBVIOUS
  <1>3. << >> \in [{} -> Element]
    OBVIOUS
  <1> QED
    BY <1>1, <1>2, <1>3 DEF Formed, Shape, Agree, Fits

(* A resize evicts what the new capacity has no room for. *)
LEMMA ResizedFormed ==
  ASSUME NEW c, Formed(c), Fits(c), NEW capacity \in Int
  PROVE  Formed(Resized(c, capacity)) /\ Fits(Resized(c, capacity))
  <1>1. CASE capacity < 0
    BY <1>1 DEF Resized
  <1>2. CASE ~ capacity < 0
    <2> DEFINE r == [c EXCEPT !.capacity = capacity]
               excess == Cardinality(DOMAIN c.entries) - capacity
               e == Evict(r, excess)
    <2>1. capacity \in Nat
      BY <1>2
    <2>2. Formed(r) /\ r.capacity = capacity /\ r.values = c.values
      BY <2>1 DEF Formed, Shape, Agree
    <2>3. /\ Len(c.values) \in Nat
          /\ Cardinality(DOMAIN c.entries) = Len(c.values)
      BY ListCountsMap
    <2>4. excess \in Int /\ excess <= Len(r.values)
      BY <2>1, <2>2, <2>3
    <2>5. /\ Formed(e) /\ e.capacity = capacity
          /\ Len(e.values) <= Len(r.values) - excess
      <3> HIDE DEF r, excess
      <3> QED
        BY <2>2, <2>4, EvictFormed
    <2>6. Len(r.values) - excess = capacity
      BY <2>1, <2>2, <2>3
    <2> HIDE DEF e
    <2>7. /\ Formed([e EXCEPT !.evictions = 0])
          /\ Fits([e EXCEPT !.evictions = 0])
      BY <2>1, <2>5, <2>6, WrapAssumption DEF Formed, Shape, Agree, Fits
    <2>8. Resized(c, capacity) = [e EXCEPT !.evictions = 0]
      BY <1>2 DEF Resized, e
    <2> QED
      BY <2>7, <2>8
  <1> QED
    BY <1>1, <1>2

(* A new cache is empty, whatever capacity it was asked for. *)
LEMMA NewFormed ==
  ASSUME NEW capacity \in Int
  PROVE  Formed(NewCache(capacity)) /\ Fits(NewCache(capacity))
  <1> DEFINE c == NewCache(capacity)
  <1>1. /\ c.entries = << >> /\ c.values = << >> /\ c.evictions = 0
        /\ c.capacity \in Nat
        /\ DOMAIN c = {"capacity", "entries", "values", "evictions"}
    BY DEF NewCache
  <1>2. << >> \in Seq(Element) /\ Len(<< >>) = 0 /\ DOMAIN << >> = {}
    OBVIOUS
  <1>3. << >> \in [{} -> Element]
    OBVIOUS
  <1> HIDE DEF c
  <1>4. Formed(c) /\ Fits(c)
    BY <1>1, <1>2, <1>3, WrapAssumption DEF Formed, Shape, Agree, Fits
  <1> QED
    BY <1>4 DEF c

-----------------------------------------------------------------------------
(* The inductive invariant. *)
CacheInv == Formed(cache) /\ Fits(cache)

(* Each call keeps it. *)
LEMMA CacheInductive == CacheInv /\ [CacheNext]_cache => CacheInv'
  <1> SUFFICES ASSUME Formed(cache), Fits(cache), [CacheNext]_cache
               PROVE  Formed(cache') /\ Fits(cache')
    BY DEF CacheInv
  <1>1. ASSUME NEW addr \in Addr, NEW response \in Answer, SetStep(addr, response)
        PROVE  Formed(cache') /\ Fits(cache')
    BY <1>1, SetFormed DEF SetStep
  <1>2. ASSUME NEW addr \in Addr, GetStep(addr)
        PROVE  Formed(cache') /\ Fits(cache')
    BY <1>2, GetFormed DEF GetStep
  <1>3. CASE ClearStep
    BY <1>3, ClearedFormed DEF ClearStep
  <1>4. ASSUME NEW capacity \in Capacity, ResizeStep(capacity)
        PROVE  Formed(cache') /\ Fits(cache')
    BY <1>4, ResizedFormed, CapacityAssumption DEF ResizeStep
  <1>5. CASE UNCHANGED cache
    BY <1>5
  <1> QED
    BY <1>1, <1>2, <1>3, <1>4, <1>5 DEF CacheNext

(* Through any sequence of calls the struct stays well formed and within   *)
(* its capacity.                                                           *)
THEOREM CacheInvariance == CacheSpec => []CacheInv
  <1>1. CacheInit => CacheInv
    BY NewFormed, CapacityAssumption DEF CacheInit, CacheInv
  <1> QED
    BY <1>1, CacheInductive, PTL DEF CacheSpec

(* The struct keeps its shape, with a counter that wraps. *)
THEOREM CacheTypeCorrect == CacheSpec => []CacheTypeOK
  <1>1. CacheInv => CacheTypeOK
    BY DEF CacheInv, Formed, Shape, CacheTypeOK
  <1> QED
    BY <1>1, CacheInvariance, PTL

(* Map and list always describe the same entries. *)
THEOREM MapAndListAgree == CacheSpec => []Agreement
  <1>1. CacheInv => Agreement
    BY DEF CacheInv, Formed, Agree, Agreement
  <1> QED
    BY <1>1, CacheInvariance, PTL

(* The cache never holds more than its capacity, also right after it was   *)
(* lowered.                                                                *)
THEOREM NeverOverCapacity == CacheSpec => []WithinCapacity
  <1>1. CacheInv => WithinCapacity
    BY DEF CacheInv, Fits, WithinCapacity
  <1> QED
    BY <1>1, CacheInvariance, PTL

=============================================================================
