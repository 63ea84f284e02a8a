-------------------------- MODULE GeoDatabaseProofs --------------------------
(***************************************************************************)
(* For any number of clients, readers and builds: no lookup uses a closed  *)
(* reader, no reload leaves one open, and a loaded database stays loaded.  *)
(*                                                                         *)
(* The argument: at every step of Reload each open reader has exactly one  *)
(* owner, which is a handle or, besides it, one spare per database: the    *)
(* reader that was opened before the exchange, and what is left over after *)
(* it. The exchange only swaps the two. A lookup uses a handle, and no     *)
(* lookup is under way when the handles change, because the writer has the *)
(* lock to itself; so what is closed is a spare that nobody uses.          *)
(***************************************************************************)
EXTENDS GeoDatabase, TLAPS

(* The reader Reload holds for a database besides its handle. *)
Spare(d) ==
  CASE reload \in {"city", "asn", "lock", "wait", "held"} -> fresh[d]
    [] reload = "close city" -> LeftOver(d)
    [] reload = "close asn" /\ d = "asn" -> LeftOver(d)
    [] OTHER -> None

(* The writer's side of the lock follows the steps of Reload. *)
LockInv ==
  /\ writer = "waiting" <=> reload = "wait"
  /\ writer = "holding" <=> reload = "held"
  /\ writer = "holding" => Holders = {}

(* A lookup under way looks in a database, and uses its handle. *)
LookupInv ==
  \A c \in Client :
    /\ lookup[c] # "idle" => target[c] \in Db
    /\ lookup[c] = "using" =>
         using[c] = handle[target[c]] /\ using[c] # None

(* Reload starts without readers, and opens one after the other. *)
LocalInv ==
  /\ reload \in {"idle", "city"} => fresh = NoReaders /\ failed = {}
  /\ reload = "asn" => fresh["asn"] = None /\ failed \subseteq {"city"}

(* The open readers are the handles and the spares. *)
OwnerInv ==
  Open = ({handle[d] : d \in Db} \cup {Spare(d) : d \in Db}) \ {None}

(* Nobody shares a reader. *)
DistinctInv ==
  \A d, e \in Db :
    /\ handle[d] # None => handle[d] # Spare(e)
    /\ handle[d] # None /\ d # e => handle[d] # handle[e]
    /\ Spare(d) # None /\ d # e => Spare(d) # Spare(e)

Inv ==
  /\ TypeOK
  /\ LockInv
  /\ LookupInv
  /\ LocalInv
  /\ OwnerInv
  /\ DistinctInv

-----------------------------------------------------------------------------
(* The steps of Next, one by one. *)
LEMMA NextCases ==
  ASSUME [Next]_vars
  PROVE  \/ UNCHANGED vars
         \/ \E c \in Client, d \in Db : RLock(c, d)
         \/ \E c \in Client : FindNothing(c) \/ TakeReader(c) \/ FindRecord(c) \/ FindError(c)
         \/ BeginReload
         \/ \E d \in Db : OpenNothing(d) \/ OpenFails(d)
         \/ \E d \in Db, h \in Handle, what \in Openable \cup {Foreign} : OpenReader(d, h, what)
         \/ Lock \/ Acquire \/ Install \/ CloseCity \/ CloseASN
  BY DEF Next, LookupStep, ReloadNext

(* Before Open has loaded anything there is no reader and no lookup.       *)
LEMMA InitInv == Init => Inv
  <1> SUFFICES ASSUME Init PROVE Inv
    OBVIOUS
  <1>1. TypeOK
    BY DEF Init, TypeOK, Open, NoReaders, Db, ReloadSteps
  <1>2. LockInv /\ LookupInv /\ LocalInv
    BY DEF Init, LockInv, LookupInv, LocalInv, NoReaders, Db
  <1>3. OwnerInv /\ DistinctInv
    BY DEF Init, OwnerInv, DistinctInv, Open, Spare, NoReaders, Db
  <1> QED
    BY <1>1, <1>2, <1>3 DEF Inv

(* Types are kept. A lookup that is using a reader uses an open one, which *)
(* is where the type of its result comes from.                             *)
LEMMA TypeStep ==
  ASSUME TypeOK, LookupInv, OwnerInv, [Next]_vars
  PROVE  TypeOK'
  <1> USE DEF TypeOK, Open, ReloadSteps
  <1>1. CASE UNCHANGED vars
    BY <1>1 DEF vars, lookupVars, localVars
  <1>2. ASSUME NEW c \in Client, NEW d \in Db, RLock(c, d) PROVE TypeOK'
    BY <1>2 DEF RLock, Entered, localVars
  <1>3. ASSUME NEW c \in Client, FindNothing(c) PROVE TypeOK'
    BY <1>3 DEF FindNothing, Return, localVars
  <1>4. ASSUME NEW c \in Client, TakeReader(c) PROVE TypeOK'
    <2>1. handle[target[c]] \in Handle \cup {None}
      BY <1>4 DEF TakeReader, LookupInv
    <2> QED
      BY <1>4, <2>1 DEF TakeReader, localVars
  <1>5. ASSUME NEW c \in Client, FindRecord(c) PROVE TypeOK'
    <2>1. using[c] \in DOMAIN opened
      BY <1>5 DEF FindRecord, LookupInv, OwnerInv
    <2>2. opened[using[c]] \in Openable \cup {Foreign}
      BY <2>1
    <2> QED
      BY <1>5, <2>2 DEF FindRecord, Return, localVars
  <1>15. ASSUME NEW c \in Client, FindError(c) PROVE TypeOK'
    BY <1>15 DEF FindError, Return, localVars
  <1>6. CASE BeginReload
    BY <1>6 DEF BeginReload, lookupVars, localVars
  <1>7. ASSUME NEW d \in Db, OpenNothing(d) PROVE TypeOK'
    BY <1>7 DEF OpenNothing, AfterOpen, lookupVars, localVars
  <1>8. ASSUME NEW d \in Db, OpenFails(d) PROVE TypeOK'
    BY <1>8 DEF OpenFails, AfterOpen, lookupVars
  <1>9. ASSUME NEW d \in Db, NEW h \in Handle, NEW what \in Openable \cup {Foreign},
               OpenReader(d, h, what)
        PROVE  TypeOK'
    BY <1>9 DEF OpenReader, AfterOpen, lookupVars
  <1>10. CASE Lock
    BY <1>10 DEF Lock, lookupVars, localVars
  <1>11. CASE Acquire
    BY <1>11 DEF Acquire, ReadersLeft, lookupVars, localVars
  <1>12. CASE Install
    BY <1>12 DEF Install, Exchanged, Woken
  <1>13. CASE CloseCity
    BY <1>13 DEF CloseCity, Close, lookupVars, localVars
  <1>14. CASE CloseASN
    BY <1>14 DEF CloseASN, Close, lookupVars, NoReaders
  <1> QED
    BY <1>1, <1>2, <1>3, <1>4, <1>5, <1>6, <1>7, <1>8, <1>9, <1>10, <1>11,
       <1>12, <1>13, <1>14, <1>15, NextCases

(* The lock: readers enter only while no writer waits, and the writer      *)
(* enters only when they have left.                                        *)
LEMMA LockStep ==
  ASSUME TypeOK, LockInv, [Next]_vars
  PROVE  LockInv'
  <1> USE DEF TypeOK, LockInv, Holders
  <1>1. CASE UNCHANGED vars
    BY <1>1 DEF vars, lookupVars, localVars
  <1>2. ASSUME NEW c \in Client, NEW d \in Db, RLock(c, d) PROVE LockInv'
    BY <1>2 DEF RLock, Entered
  <1>3. ASSUME NEW c \in Client, FindNothing(c) PROVE LockInv'
    BY <1>3 DEF FindNothing, Return
  <1>4. ASSUME NEW c \in Client, TakeReader(c) PROVE LockInv'
    BY <1>4 DEF TakeReader
  <1>5. ASSUME NEW c \in Client, FindRecord(c) \/ FindError(c) PROVE LockInv'
    BY <1>5 DEF FindRecord, FindError, Return
  <1>6. CASE BeginReload
    BY <1>6 DEF BeginReload, lookupVars
  <1>7. ASSUME NEW d \in Db, OpenNothing(d) PROVE LockInv'
    BY <1>7 DEF OpenNothing, AfterOpen, lookupVars, Db
  <1>8. ASSUME NEW d \in Db, OpenFails(d) PROVE LockInv'
    BY <1>8 DEF OpenFails, AfterOpen, lookupVars, Db
  <1>9. ASSUME NEW d \in Db, NEW h \in Handle, NEW what \in Openable \cup {Foreign},
               OpenReader(d, h, what)
        PROVE  LockInv'
    BY <1>9 DEF OpenReader, AfterOpen, lookupVars, Db
  <1>10. CASE Lock
    BY <1>10 DEF Lock, lookupVars
  <1>11. CASE Acquire
    BY <1>11 DEF Acquire, ReadersLeft, lookupVars
  <1>12. CASE Install
    BY <1>12 DEF Install, Exchanged, Woken
  <1>13. CASE CloseCity
    BY <1>13 DEF CloseCity, lookupVars
  <1>14. CASE CloseASN
    BY <1>14 DEF CloseASN, lookupVars
  <1> QED
    BY <1>1, <1>2, <1>3, <1>4, <1>5, <1>6, <1>7, <1>8, <1>9, <1>10, <1>11,
       <1>12, <1>13, <1>14, NextCases

(* The handles change only while the writer holds the lock, and then       *)
(* nobody uses one.                                                        *)
LEMMA LookupStepInv ==
  ASSUME TypeOK, LockInv, LookupInv, [Next]_vars
  PROVE  LookupInv'
  <1> USE DEF TypeOK, LookupInv
  <1>1. CASE UNCHANGED vars
    BY <1>1 DEF vars, lookupVars, localVars
  <1>2. ASSUME NEW c \in Client, NEW d \in Db, RLock(c, d) PROVE LookupInv'
    BY <1>2 DEF RLock, Entered
  <1>3. ASSUME NEW c \in Client, FindNothing(c) PROVE LookupInv'
    BY <1>3 DEF FindNothing, Return
  <1>4. ASSUME NEW c \in Client, TakeReader(c) PROVE LookupInv'
    BY <1>4 DEF TakeReader
  <1>5. ASSUME NEW c \in Client, FindRecord(c) \/ FindError(c) PROVE LookupInv'
    BY <1>5 DEF FindRecord, FindError, Return
  <1>6. CASE BeginReload
    BY <1>6 DEF BeginReload, lookupVars
  <1>7. ASSUME NEW d \in Db, OpenNothing(d) PROVE LookupInv'
    BY <1>7 DEF OpenNothing, lookupVars
  <1>8. ASSUME NEW d \in Db, OpenFails(d) PROVE LookupInv'
    BY <1>8 DEF OpenFails, lookupVars
  <1>9. ASSUME NEW d \in Db, NEW h \in Handle, NEW what \in Openable \cup {Foreign},
               OpenReader(d, h, what)
        PROVE  LookupInv'
    BY <1>9 DEF OpenReader, lookupVars
  <1>10. CASE Lock
    BY <1>10 DEF Lock, lookupVars
  <1>11. CASE Acquire
    BY <1>11 DEF Acquire, ReadersLeft, lookupVars
  <1>12. CASE Install
    <2>1. \A c \in Client : lookup[c] \in {"idle", "blocked"}
      BY <1>12 DEF Install, Exchanged, Woken, LockInv, Holders
    <2> QED
      BY <1>12, <2>1 DEF Install, Exchanged, Woken
  <1>13. CASE CloseCity
    BY <1>13 DEF CloseCity, lookupVars
  <1>14. CASE CloseASN
    BY <1>14 DEF CloseASN, lookupVars
  <1> QED
    BY <1>1, <1>2, <1>3, <1>4, <1>5, <1>6, <1>7, <1>8, <1>9, <1>10, <1>11,
       <1>12, <1>13, <1>14, NextCases

(* A reload begins without readers of its own and opens them in the order  *)
(* of the code.                                                            *)
LEMMA LocalStep ==
  ASSUME TypeOK, LocalInv, [Next]_vars
  PROVE  LocalInv'
  <1> USE DEF TypeOK, LocalInv
  <1>1. CASE UNCHANGED vars
    BY <1>1 DEF vars, localVars
  <1>2. ASSUME NEW c \in Client, NEW d \in Db, RLock(c, d) PROVE LocalInv'
    BY <1>2 DEF RLock, Entered, localVars
  <1>3. ASSUME NEW c \in Client, FindNothing(c) \/ FindRecord(c) \/ FindError(c) PROVE LocalInv'
    BY <1>3 DEF FindNothing, FindRecord, FindError, Return, localVars
  <1>4. ASSUME NEW c \in Client, TakeReader(c) PROVE LocalInv'
    BY <1>4 DEF TakeReader, localVars
  <1>6. CASE BeginReload
    BY <1>6 DEF BeginReload, localVars
  <1>7. ASSUME NEW d \in Db, OpenNothing(d) PROVE LocalInv'
    BY <1>7 DEF OpenNothing, AfterOpen, localVars, NoReaders, Db
  <1>8. ASSUME NEW d \in Db, OpenFails(d) PROVE LocalInv'
    BY <1>8 DEF OpenFails, AfterOpen, NoReaders, Db
  <1>9. ASSUME NEW d \in Db, NEW h \in Handle, NEW what \in Openable \cup {Foreign},
               OpenReader(d, h, what)
        PROVE  LocalInv'
    BY <1>9 DEF OpenReader, AfterOpen, NoReaders, Db
  <1>10. CASE Lock \/ Acquire
    BY <1>10 DEF Lock, Acquire, ReadersLeft, localVars
  <1>12. CASE Install
    BY <1>12 DEF Install, Exchanged, Woken
  <1>13. CASE CloseCity
    BY <1>13 DEF CloseCity, localVars
  <1>14. CASE CloseASN
    BY <1>14 DEF CloseASN
  <1> QED
    BY <1>1, <1>2, <1>3, <1>4, <1>6, <1>7, <1>8, <1>9, <1>10, <1>12, <1>13,
       <1>14, NextCases

-----------------------------------------------------------------------------
(* The owners of the open readers. Most steps leave handles, spares and    *)
(* readers alone.                                                          *)
LEMMA OwnersKept ==
  ASSUME OwnerInv, DistinctInv,
         UNCHANGED <<handle, opened>>,
         \A d \in Db : Spare(d)' = Spare(d)
  PROVE  OwnerInv' /\ DistinctInv'
  BY DEF OwnerInv, DistinctInv, Open

(* A reader that is opened belongs to the reload alone. *)
LEMMA OwnersOpenReader ==
  ASSUME TypeOK, LocalInv, OwnerInv, DistinctInv,
         NEW d \in Db, NEW h \in Handle, NEW what \in Openable \cup {Foreign},
         OpenReader(d, h, what)
  PROVE  OwnerInv' /\ DistinctInv'
  <1>1. reload = d /\ reload' \in {"asn", "lock"} /\ fresh' = [fresh EXCEPT ![d] = h]
    BY DEF OpenReader, AfterOpen
  <1>2. Spare(d) = None /\ \A e \in Db : Spare(e) = fresh[e]
    BY <1>1 DEF Spare, LocalInv, NoReaders, Db
  <1>3. Spare(d)' = h /\ \A e \in Db \ {d} : Spare(e)' = Spare(e)
    BY <1>1, <1>2 DEF Spare, TypeOK
  <1>4. Open' = Open \cup {h} /\ h \notin Open /\ handle' = handle /\ h # None
    BY NoneAssumption DEF OpenReader, Open
  <1>5. OwnerInv'
    BY <1>2, <1>3, <1>4 DEF OwnerInv
  <1>6. \A e \in Db : handle[e] # h /\ Spare(e) # h
    BY <1>4 DEF OwnerInv
  <1> QED
    BY <1>3, <1>4, <1>5, <1>6 DEF DistinctInv

(* The exchange makes the readers of the databases that opened handles,    *)
(* and the handles they had spares.                                        *)
LEMMA OwnersInstall ==
  ASSUME TypeOK, OwnerInv, DistinctInv, Install
  PROVE  OwnerInv' /\ DistinctInv'
  <1>1. reload = "held" /\ reload' = "close city" /\ Open' = Open
    BY DEF Install, Exchanged, Woken, Open
  <1>2. \A d \in Db : Spare(d) = fresh[d] /\ Spare(d)' = LeftOver(d)'
    BY <1>1 DEF Spare
  <1>3. \A d \in Db :
          IF d \in failed THEN handle'[d] = handle[d] /\ Spare(d)' = Spare(d)
                          ELSE handle'[d] = Spare(d) /\ Spare(d)' = handle[d]
    BY <1>2 DEF Install, Exchanged, Woken, LeftOver, TypeOK
  <1>4. OwnerInv'
    BY <1>1, <1>3 DEF OwnerInv
  <1> QED
    BY <1>3, <1>4 DEF DistinctInv

(* What is closed is a spare, which stops being one. *)
LEMMA OwnersClose ==
  ASSUME TypeOK, OwnerInv, DistinctInv, CloseCity \/ CloseASN
  PROVE  OwnerInv' /\ DistinctInv'
  <1>1. CASE CloseCity
    <2>1. Spare("city") = LeftOver("city") /\ Spare("city")' = None
      BY <1>1 DEF CloseCity, Spare
    <2>2. Spare("asn")' = Spare("asn") /\ handle' = handle
      BY <1>1 DEF CloseCity, Spare, LeftOver, localVars
    <2>3. Open' = Open \ {Spare("city")}
      BY <1>1, <2>1 DEF CloseCity, Close, Open
    <2>4. OwnerInv'
      BY <2>1, <2>2, <2>3 DEF OwnerInv, DistinctInv, Db
    <2> QED
      BY <2>1, <2>2, <2>4 DEF DistinctInv, Db
  <1>2. CASE CloseASN
    <2>1. /\ Spare("asn") = LeftOver("asn") /\ Spare("city") = None
          /\ \A d \in Db : Spare(d)' = None
      BY <1>2 DEF CloseASN, Spare
    <2>2. Open' = Open \ {Spare("asn")} /\ handle' = handle
      BY <1>2, <2>1 DEF CloseASN, Close, Open
    <2>3. OwnerInv'
      BY <2>1, <2>2 DEF OwnerInv, DistinctInv, Db
    <2> QED
      BY <2>1, <2>2, <2>3 DEF DistinctInv, Db
  <1> QED
    BY <1>1, <1>2

(* Every step keeps each open reader with one owner: the open, the         *)
(* exchange and the closes are the lemmas above, the other steps touch     *)
(* none.                                                                   *)
LEMMA OwnerStep ==
  ASSUME TypeOK, LocalInv, OwnerInv, DistinctInv, [Next]_vars
  PROVE  OwnerInv' /\ DistinctInv'
  <1>1. CASE UNCHANGED vars
    <2>1. \A d \in Db : Spare(d)' = Spare(d)
      BY <1>1 DEF vars, localVars, Spare, LeftOver
    <2> QED
      BY <1>1, <2>1, OwnersKept DEF vars
  <1>2. ASSUME NEW c \in Client,
               \/ \E d \in Db : RLock(c, d)
               \/ FindNothing(c) \/ TakeReader(c) \/ FindRecord(c) \/ FindError(c)
        PROVE  OwnerInv' /\ DistinctInv'
    <2>1. UNCHANGED <<handle, opened, reload, fresh, failed, old>>
      BY <1>2 DEF RLock, Entered, FindNothing, TakeReader, FindRecord, FindError, Return, localVars
    <2>2. \A d \in Db : Spare(d)' = Spare(d)
      BY <2>1 DEF Spare, LeftOver
    <2> QED
      BY <2>1, <2>2, OwnersKept
  <1>3. CASE BeginReload
    <2>1. UNCHANGED <<handle, opened, fresh>> /\ reload = "idle" /\ reload' = "city"
      BY <1>3 DEF BeginReload, localVars
    <2>2. \A d \in Db : Spare(d)' = Spare(d)
      BY <2>1 DEF Spare, LocalInv, NoReaders
    <2> QED
      BY <2>1, <2>2, OwnersKept
  <1>4. ASSUME NEW d \in Db, OpenNothing(d) \/ OpenFails(d)
        PROVE  OwnerInv' /\ DistinctInv'
    <2>1. /\ UNCHANGED <<handle, opened, fresh>>
          /\ reload \in {"city", "asn"} /\ reload' \in {"asn", "lock"}
      BY <1>4 DEF OpenNothing, OpenFails, AfterOpen, localVars, Db
    <2>2. \A e \in Db : Spare(e)' = Spare(e)
      BY <2>1 DEF Spare
    <2> QED
      BY <2>1, <2>2, OwnersKept
  <1>5. CASE Lock \/ Acquire
    <2>1. /\ UNCHANGED <<handle, opened, fresh>>
          /\ reload \in {"lock", "wait"} /\ reload' \in {"wait", "held"}
      BY <1>5 DEF Lock, Acquire, ReadersLeft, localVars
    <2>2. \A d \in Db : Spare(d)' = Spare(d)
      BY <2>1 DEF Spare
    <2> QED
      BY <2>1, <2>2, OwnersKept
  <1> QED
    BY <1>1, <1>2, <1>3, <1>4, <1>5, NextCases, OwnersOpenReader,
       OwnersInstall, OwnersClose

-----------------------------------------------------------------------------
(* The parts together: the invariant is inductive.                         *)
LEMMA Inductive == Inv /\ [Next]_vars => Inv'
  BY TypeStep, LockStep, LookupStepInv, LocalStep, OwnerStep DEF Inv

(* The invariant holds in every reachable state, for any clients, readers  *)
(* and builds.                                                             *)
THEOREM Invariance == Spec => []Inv
  BY InitInv, Inductive, PTL DEF Spec

(* Readers, lock, lookups and locals keep their types. *)
THEOREM TypeCorrect == Spec => []TypeOK
  <1>1. Inv => TypeOK
    BY DEF Inv
  <1> QED
    BY <1>1, Invariance, PTL

(* No lookup ever uses a reader that Reload has closed (geo.go:36-38). *)
THEOREM NeverUsedAfterClose == Spec => []NoUseAfterClose
  <1>1. Inv => NoUseAfterClose
    BY DEF Inv, NoUseAfterClose, LookupInv, OwnerInv
  <1> QED
    BY <1>1, Invariance, PTL

(* Between two reloads nothing is open but the handles (geo.go:73-82). *)
THEOREM NothingLeaks == Spec => []NoLeak
  <1>1. Inv => NoLeak
    BY DEF Inv, NoLeak, OwnerInv, Spare
  <1> QED
    BY <1>1, Invariance, PTL

-----------------------------------------------------------------------------
(* What the handles were opened on. Before the exchange a configured       *)
(* database either failed or has a reader that came without an error, so   *)
(* neither nothing nor a reader that came with one replaces a handle.      *)

Opening == {"asn", "lock", "wait", "held"}

ContentInv ==
  /\ \A d \in Db : handle[d] # None =>
       d \in configured /\ opened[handle[d]] # Foreign
  /\ reload \in Opening =>
       /\ \A d \in Db : fresh[d] # None =>
            d \in configured /\ (d \notin failed => opened[fresh[d]] # Foreign)
       /\ \A d \in Db : d \in configured \ failed =>
            fresh[d] # None \/ (reload = "asn" /\ d = "asn")

(* The handles and the readers just opened are among the open ones. *)
LEMMA OwnedAreOpen ==
  ASSUME OwnerInv
  PROVE  /\ \A d \in Db : handle[d] # None => handle[d] \in Open
         /\ reload \in Opening => \A d \in Db : fresh[d] # None => fresh[d] \in Open
  BY DEF OwnerInv, Spare, Opening

(* A reader that came with an error belongs to a failed database and is    *)
(* installed by nobody.                                                    *)
LEMMA ContentOpenReader ==
  ASSUME Inv, ContentInv,
         NEW d \in Db, NEW h \in Handle, NEW what \in Openable \cup {Foreign},
         OpenReader(d, h, what)
  PROVE  ContentInv'
  <1>1. /\ d \in configured /\ configured' = configured /\ handle' = handle
        /\ reload = d /\ reload' = AfterOpen(d) /\ h \notin Open /\ h # None
        /\ fresh' = [fresh EXCEPT ![d] = h]
        /\ failed' = IF what = Foreign THEN failed \cup {d} ELSE failed
    BY NoneAssumption DEF OpenReader
  <1>2. opened'[h] = what /\ \A g \in Open : opened'[g] = opened[g]
    BY <1>1 DEF OpenReader, Open
  <1>3. \A e \in Db : handle'[e] # None =>
          e \in configured' /\ opened'[handle'[e]] # Foreign
    BY <1>1, <1>2, OwnedAreOpen DEF Inv, ContentInv
  <1>4. \A e \in Db \ {d} : fresh[e] # None =>
          /\ fresh[e] \in Open /\ e \in configured
          /\ e \notin failed => opened[fresh[e]] # Foreign
    <2>1. CASE d = "city"
      BY <1>1, <2>1 DEF Inv, LocalInv, NoReaders
    <2>2. CASE d = "asn"
      BY <1>1, <2>2, OwnedAreOpen DEF Inv, ContentInv, Opening
    <2> QED
      BY <2>1, <2>2 DEF Db
  <1>5. \A e \in Db \ {d} : e \in configured \ failed =>
          fresh[e] # None \/ (reload' = "asn" /\ e = "asn")
    BY <1>1 DEF ContentInv, Opening, AfterOpen, Db
  <1>6. fresh'[d] = h /\ \A e \in Db \ {d} : fresh'[e] = fresh[e]
    BY <1>1 DEF Inv, TypeOK
  <1>7. d \notin failed' => what # Foreign
    BY <1>1
  <1>8. \A e \in Db : fresh'[e] # None =>
          e \in configured' /\ (e \notin failed' => opened'[fresh'[e]] # Foreign)
    BY <1>1, <1>2, <1>4, <1>6, <1>7
  <1>9. \A e \in Db : e \in configured' \ failed' =>
          fresh'[e] # None \/ (reload' = "asn" /\ e = "asn")
    BY <1>1, <1>5, <1>6
  <1> QED
    BY <1>3, <1>8, <1>9 DEF ContentInv

(* The exchange installs only readers that came without an error.          *)
LEMMA ContentInstall ==
  ASSUME Inv, ContentInv, Install
  PROVE  ContentInv'
  <1>1. \A d \in Db : handle'[d] = IF d \in failed THEN handle[d] ELSE fresh[d]
    BY DEF Install, Exchanged, Woken
  <1>2. reload = "held" /\ reload' = "close city" /\ UNCHANGED <<configured, opened>>
    BY DEF Install, Exchanged, Woken
  <1> QED
    BY <1>1, <1>2 DEF ContentInv, Opening

(* What is closed is no handle. *)
LEMMA ClosedIsNoHandle ==
  ASSUME Inv, CloseCity \/ CloseASN, NEW d \in Db, handle[d] # None
  PROVE  handle[d] \in Open' /\ opened'[handle[d]] = opened[handle[d]]
  <1>1. PICK e \in Db : Close(LeftOver(e)) /\ Spare(e) = LeftOver(e)
    BY DEF CloseCity, CloseASN, Spare, Db
  <1>2. handle[d] # LeftOver(e) /\ handle[d] \in Open
    BY <1>1, OwnedAreOpen DEF Inv, DistinctInv
  <1> QED
    BY <1>1, <1>2 DEF Close, Open

(* Every step keeps what is installed, and what would be installed, to     *)
(* files that opened without an error.                                     *)
LEMMA ContentStep ==
  ASSUME Inv, ContentInv, [Next]_vars
  PROVE  ContentInv'
  <1> USE DEF Opening
  <1>1. CASE UNCHANGED vars
    BY <1>1 DEF vars, localVars, ContentInv
  <1>2. ASSUME NEW c \in Client,
               \/ \E d \in Db : RLock(c, d)
               \/ FindNothing(c) \/ TakeReader(c) \/ FindRecord(c) \/ FindError(c)
        PROVE  ContentInv'
    BY <1>2 DEF RLock, Entered, FindNothing, TakeReader, FindRecord, FindError, Return, localVars, ContentInv
  <1>3. CASE BeginReload
    BY <1>3 DEF BeginReload, localVars, ContentInv
  <1>4. ASSUME NEW d \in Db, OpenNothing(d) PROVE ContentInv'
    <2>1. /\ UNCHANGED <<configured, handle, opened, fresh, failed>>
          /\ reload = d /\ reload' = AfterOpen(d) /\ d \notin configured
      BY <1>4 DEF OpenNothing, localVars
    <2>2. reload = "city" => fresh = NoReaders
      BY DEF Inv, LocalInv
    <2> QED
      BY <2>1, <2>2 DEF ContentInv, AfterOpen, NoReaders, Db
  <1>5. ASSUME NEW d \in Db, OpenFails(d) PROVE ContentInv'
    <2>1. /\ UNCHANGED <<configured, handle, opened, fresh>> /\ failed' = failed \cup {d}
          /\ reload = d /\ reload' = AfterOpen(d)
      BY <1>5 DEF OpenFails
    <2>2. reload = "city" => fresh = NoReaders
      BY DEF Inv, LocalInv
    <2> QED
      BY <2>1, <2>2 DEF ContentInv, AfterOpen, NoReaders, Db
  <1>6. CASE Lock \/ Acquire
    BY <1>6 DEF Lock, Acquire, ReadersLeft, localVars, ContentInv
  <1>7. CASE CloseCity \/ CloseASN
    <2>1. UNCHANGED <<configured, handle>> /\ reload' \in {"close asn", "idle"}
      BY <1>7 DEF CloseCity, CloseASN
    <2> QED
      BY <1>7, <2>1, ClosedIsNoHandle DEF ContentInv
  <1> QED
    BY <1>1, <1>2, <1>3, <1>4, <1>5, <1>6, <1>7, NextCases, ContentOpenReader,
       ContentInstall

(* Nothing is installed in the beginning.                                  *)
LEMMA ContentInit == Init => ContentInv
  BY DEF Init, ContentInv, NoReaders, Db, Opening

(* No reachable state answers from a reader that came with an error.       *)
THEOREM ContentInvariance == Spec => []ContentInv
  BY Invariance, ContentInit, ContentStep, PTL DEF Spec

-----------------------------------------------------------------------------
(* Handles change only in the exchange, and never to nothing. *)
LEMMA HandlesStay ==
  ASSUME Inv, ContentInv, [Next]_vars, NEW d \in Db, handle[d] # None
  PROVE  handle'[d] # None
  <1>1. CASE Install
    BY <1>1 DEF Install, Exchanged, Woken, ContentInv, Opening
  <1>2. CASE ~ Install
    <2>1. handle' = handle
      BY <1>2, NextCases DEF vars, RLock, Entered, FindNothing, TakeReader, FindRecord, FindError,
         Return, BeginReload, OpenNothing, OpenFails, OpenReader, Lock, Acquire, ReadersLeft,
         CloseCity, CloseASN
    <2> QED
      BY <2>1
  <1> QED
    BY <1>1, <1>2

(* A database that was loaded stays loaded, through reloads that fail as   *)
(* well, and no reader that came with an error takes its place             *)
(* (geo.go:56-58).                                                         *)
THEOREM AlwaysStaysLoaded == Spec => StaysLoaded
  <1>1. ASSUME Inv, ContentInv, [Next]_vars
        PROVE  [\A d \in Db :
                  handle[d] # None =>
                    /\ handle'[d] \in DOMAIN opened'
                    /\ opened'[handle'[d]] # Foreign]_vars
    <2>1. Inv' /\ ContentInv'
      BY <1>1, Inductive, ContentStep
    <2>2. \A d \in Db : handle'[d] # None =>
            handle'[d] \in DOMAIN opened' /\ opened'[handle'[d]] # Foreign
      BY <2>1 DEF Inv, OwnerInv, ContentInv, Open
    <2> QED
      BY <1>1, <2>2, HandlesStay
  <1> QED
    BY <1>1, Invariance, ContentInvariance, PTL DEF Spec, StaysLoaded

-----------------------------------------------------------------------------
(* GeoService: every step of a lookup or a reload is one of its steps, or  *)
(* leaves the loaded builds and the results alone.                         *)

Loaded == [d \in Db |-> IF handle[d] \in Open THEN opened[handle[d]] ELSE None]

(* In the beginning nothing is loaded and nothing has been found.          *)
LEMMA RefineInit == Init => Promise!GeoInit
  BY NoneAssumption DEF Init, Promise!GeoInit, NoReaders, Open

(* Only the exchange changes what the handles answer from. *)
LEMMA LoadedKept ==
  ASSUME Inv, [Next]_vars, ~ Install
  PROVE  Loaded' = Loaded
  <1>1. handle' = handle
    BY NextCases DEF vars, RLock, Entered, FindNothing, TakeReader, FindRecord, FindError,
       Return, BeginReload, OpenNothing, OpenFails, OpenReader, Lock, Acquire, ReadersLeft,
       CloseCity, CloseASN
  <1>2. None \notin Open /\ None \notin Open'
    BY Inductive, NoneAssumption DEF Inv, TypeOK
  <1>3. ASSUME NEW d \in Db, handle[d] # None
        PROVE  handle[d] \in Open' /\ opened'[handle[d]] = opened[handle[d]]
    <2>1. handle[d] \in Open
      BY <1>3, OwnedAreOpen DEF Inv
    <2>2. CASE opened' = opened
      BY <2>1, <2>2 DEF Open
    <2>3. ASSUME NEW e \in Db, NEW h \in Handle, NEW what \in Openable \cup {Foreign},
                 OpenReader(e, h, what)
          PROVE  handle[d] \in Open' /\ opened'[handle[d]] = opened[handle[d]]
      BY <2>1, <2>3 DEF OpenReader, Open
    <2>4. CASE CloseCity \/ CloseASN
      BY <1>3, <2>4, ClosedIsNoHandle
    <2> QED
      BY <2>2, <2>3, <2>4, NextCases DEF vars, RLock, Entered, FindNothing, TakeReader,
         FindRecord, FindError, Return, BeginReload, OpenNothing, OpenFails, Lock, Acquire, ReadersLeft
  <1>4. \A d \in Db : handle[d] # None => handle[d] \in Open
    BY OwnedAreOpen DEF Inv
  <1>5. \A d \in Db :
          (IF handle'[d] \in Open' THEN opened'[handle'[d]] ELSE None)
            = (IF handle[d] \in Open THEN opened[handle[d]] ELSE None)
    BY <1>1, <1>2, <1>3, <1>4
  <1> QED
    BY <1>5 DEF Loaded

(* A lookup that returns is the Lookup of GeoService at that step: the     *)
(* handle it took is still installed, because the writer waits for it. It  *)
(* fails only on a broken database, because no foreign one is installed.   *)
LEMMA RefineLookup ==
  ASSUME Inv, ContentInv, NEW c \in Client, FindNothing(c) \/ FindRecord(c) \/ FindError(c)
  PROVE  Promise!GeoNext
  <1>1. target[c] \in Db
    BY DEF FindNothing, FindRecord, FindError, Inv, LookupInv
  <1>2. Loaded' = Loaded
    BY DEF FindNothing, FindRecord, FindError, Return, Loaded, Open
  <1>3. CASE FindNothing(c)
    <2>1. result' = [result EXCEPT ![c] = Loaded[target[c]]]
      BY <1>1, <1>3, NoneAssumption DEF FindNothing, Return, Loaded, Inv, TypeOK
    <2> QED
      BY <1>1, <1>2, <2>1 DEF Promise!GeoNext, Promise!Lookup, Loaded
  <1>4. ASSUME lookup[c] = "using"
        PROVE  using[c] \in Open /\ Loaded[target[c]] = opened[using[c]]
    <2>1. using[c] = handle[target[c]] /\ using[c] \in Open
      BY <1>4 DEF Inv, LookupInv, OwnerInv
    <2> QED
      BY <1>1, <2>1 DEF Loaded
  <1>5. CASE FindRecord(c)
    <2>1. result' = [result EXCEPT ![c] = Loaded[target[c]]]
      BY <1>4, <1>5 DEF FindRecord, Return
    <2> QED
      BY <1>1, <1>2, <2>1 DEF Promise!GeoNext, Promise!Lookup, Loaded
  <1>6. CASE FindError(c)
    <2>1. opened[using[c]] \in Openable /\ opened[using[c]] \notin Build
      <3>1. using[c] = handle[target[c]] /\ handle[target[c]] # None
        BY <1>6 DEF FindError, Inv, LookupInv
      <3>2. opened[using[c]] # Foreign
        BY <1>1, <3>1 DEF ContentInv
      <3>3. opened[using[c]] \in Openable \cup {Foreign}
        BY <1>4, <1>6 DEF FindError, Inv, TypeOK
      <3> QED
        BY <1>6, <3>2, <3>3 DEF FindError
    <2>2. Loaded[target[c]] \in Broken
      BY <1>4, <1>6, <2>1 DEF FindError, Openable
    <2>3. result' = [result EXCEPT ![c] = Error]
      BY <1>6 DEF FindError, Return
    <2> QED
      BY <1>1, <1>2, <2>2, <2>3 DEF Promise!GeoNext, Promise!LookupFails, Loaded
  <1> QED
    BY <1>3, <1>5, <1>6

(* The exchange is the Replace of GeoService.                              *)
LEMMA RefineInstall ==
  ASSUME Inv, ContentInv, Install
  PROVE  Promise!GeoNext \/ UNCHANGED Promise!geoVars
  <1> DEFINE D == {d \in Db : d \notin failed /\ fresh[d] # None}
  <1>1. /\ \A d \in Db : handle'[d] = IF d \in failed THEN handle[d] ELSE fresh[d]
        /\ opened' = opened /\ Open' = Open /\ result' = result /\ reload = "held"
    BY DEF Install, Exchanged, Woken, Open
  <1>2. \A d \in D : fresh[d] \in Open /\ opened[fresh[d]] \in Openable
    BY <1>1, OwnedAreOpen DEF Inv, TypeOK, ContentInv, Opening
  <1>3. \A d \in Db \ D : handle'[d] = handle[d]
    BY <1>1 DEF ContentInv, Opening
  <1>4. \A d \in Db :
          (IF handle'[d] \in Open' THEN opened'[handle'[d]] ELSE None)
            = IF d \in D THEN opened[fresh[d]] ELSE Loaded[d]
    BY <1>1, <1>2, <1>3 DEF Loaded
  <1>5. Loaded' = [d \in Db |-> IF d \in D THEN opened[fresh[d]] ELSE Loaded[d]]
    BY <1>4 DEF Loaded
  <1>6. CASE D = {}
    BY <1>1, <1>5, <1>6 DEF Promise!geoVars, Loaded
  <1>7. CASE D # {}
    <2>1. PICK first \in D : TRUE
      BY <1>7
    <2> DEFINE b == [d \in Db |-> IF d \in D THEN opened[fresh[d]] ELSE opened[fresh[first]]]
    <2>2. b \in [Db -> Build \cup Broken]
      BY <1>2, <2>1 DEF Openable
    <2>3. Loaded' = [d \in Db |-> IF d \in D THEN b[d] ELSE Loaded[d]]
      BY <1>5
    <2>4. D \in SUBSET Db
      OBVIOUS
    <2> HIDE DEF b, D
    <2> QED
      BY <1>1, <2>2, <2>3, <2>4 DEF Promise!GeoNext, Promise!Replace, Loaded
  <1> QED
    BY <1>6, <1>7

(* Every step is a step of GeoService or changes nothing there.            *)
LEMMA RefineStep ==
  ASSUME Inv, ContentInv, [Next]_vars
  PROVE  [Promise!GeoNext]_Promise!geoVars
  <1>1. CASE Install
    BY <1>1, RefineInstall
  <1>2. ASSUME NEW c \in Client, FindNothing(c) \/ FindRecord(c) \/ FindError(c)
        PROVE  Promise!GeoNext
    BY <1>2, RefineLookup
  <1>3. CASE ~ Install /\ \A c \in Client : ~ (FindNothing(c) \/ FindRecord(c) \/ FindError(c))
    <2>1. Loaded' = Loaded
      BY <1>3, LoadedKept
    <2>2. result' = result
      BY <1>3, NextCases DEF vars, lookupVars, RLock, Entered, TakeReader, BeginReload,
         OpenNothing, OpenFails, OpenReader, Lock, Acquire, ReadersLeft, CloseCity, CloseASN
    <2> QED
      BY <2>1, <2>2 DEF Promise!geoVars, Loaded
  <1> QED
    BY <1>1, <1>2, <1>3

(* geo.Database, with its lock and its closing of readers, implements the  *)
(* database whose lookups and reloads are single steps (geo.go:36-38).     *)
THEOREM GeoDatabaseImplementsGeoService == Spec => ImplementsGeoService
  BY RefineInit, RefineStep, Invariance, ContentInvariance, PTL
     DEF Spec, ImplementsGeoService, Promise!GeoSpec

=============================================================================
