--------------------------------- MODULE LRU ---------------------------------
(***************************************************************************)
(* What the response cache promises (server/cache.go:10-12): it holds at   *)
(* most `limit' answers, a hit returns what was stored last, and the       *)
(* entries dropped for lack of room are the ones used longest ago. There   *)
(* is no list here: `older' is the order of last use, as a relation, and   *)
(* an eviction may drop exactly a set that is closed downwards in it.      *)
(***************************************************************************)
EXTENDS Integers, FiniteSets

CONSTANTS Addr, Answer, Capacity, Wrap

VARIABLES
  limit,   \* the capacity in force
  store,   \* the stored answers, a function on some of the addresses
  older,   \* <<a, b>> when a was used before b
  drops    \* how many entries were evicted since the limit was set

lruVars == <<limit, store, older, drops>>

Live == DOMAIN store

(* The order of use among the members of S. *)
OlderAmong(S) == {p \in older : p[1] \in S /\ p[2] \in S}

(* The order on S and a, once a has been used. *)
UsedLast(a, S) == OlderAmong(S \ {a}) \cup {<<b, a>> : b \in S \ {a}}

(* V may be dropped from S: whatever stays was used after all of V. *)
Droppable(V, S) ==
  /\ V \subseteq S
  /\ \A v \in V, s \in S \ V : <<v, s>> \in older

-----------------------------------------------------------------------------
Init ==
  /\ limit \in {n \in Nat : \E c \in Capacity : n = IF c < 0 THEN 0 ELSE c}
  /\ store = << >>
  /\ older = {}
  /\ drops = 0

(* Storing an answer drops no more than it takes to make room for it. *)
Store(a, answer) ==
  LET others == Live \ {a}
      excess == Cardinality(others) + 1 - limit
  IN  /\ limit > 0
      /\ \E V \in SUBSET others :
           /\ Droppable(V, others)
           /\ Cardinality(V) = IF excess > 0 THEN excess ELSE 0
           /\ store' = [b \in (others \ V) \cup {a} |->
                          IF b = a THEN answer ELSE store[b]]
           /\ older' = UsedLast(a, others \ V)
           /\ drops' = (drops + Cardinality(V)) % Wrap
      /\ UNCHANGED limit

Use(a) ==
  /\ a \in Live
  /\ older' = UsedLast(a, Live)
  /\ UNCHANGED <<limit, store, drops>>

Forget ==
  /\ store' = << >>
  /\ older' = {}
  /\ UNCHANGED <<limit, drops>>

SetLimit(n) ==
  LET excess == Cardinality(Live) - n
  IN  /\ n >= 0
      /\ limit' = n
      /\ drops' = 0
      /\ \E V \in SUBSET Live :
           /\ Droppable(V, Live)
           /\ Cardinality(V) = IF excess > 0 THEN excess ELSE 0
           /\ store' = [b \in Live \ V |-> store[b]]
           /\ older' = OlderAmong(Live \ V)

Next ==
  \/ \E a \in Addr, answer \in Answer : Store(a, answer)
  \/ \E a \in Addr : Use(a)
  \/ Forget
  \/ \E n \in Capacity : SetLimit(n)

Spec == Init /\ [][Next]_lruVars

=============================================================================
