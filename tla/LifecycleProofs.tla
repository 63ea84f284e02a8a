--------------------------- MODULE LifecycleProofs ---------------------------
(***************************************************************************)
(* For any command lines, address sizes and number of connections, the     *)
(* exit status tells why the process ended, no request is cut before its   *)
(* time, the updater runs as asked, and the time it publishes is one it    *)
(* waits for.                                                              *)
(*                                                                         *)
(* None of these is inductive. LifecycleInv adds what main has done at     *)
(* each stage: what the flags were found to be, that a server which was    *)
(* told to stop or lost its listener is the only one that returns, and     *)
(* that no connection is accepted from then on.                            *)
(***************************************************************************)
EXTENDS Lifecycle, TLAPS, FiniteSetTheorems

NoConn == \A c \in Conn : conn[c] = "none"

(* Before Boot nothing else runs. *)
StartInv ==
  /\ stage \in {"flags", "boot"} => listener = "none" /\ updater = "none" /\ next = "idle"
  /\ listener = "none" => NoConn
  /\ Alive => listener # "none"

(* Only the shutdown closes the listener, and only a signal brings it. *)
ServeInv ==
  /\ stage = "select" => listener # "closed"
  /\ stage = "shutdown" => signalled

(* How main may return. *)
EndInv ==
  stage \in {"returned", "exited"} /\ listener # "none" =>
    /\ ~ NoConn => (expired \/ listener = "error") /\ status # 0
    /\ ~ signalled => status = 1 /\ listener = "error"
    /\ status = 1 => listener = "error" \/ expired

(* What was checked before the server started. *)
FlagsInv ==
  /\ stage = "boot" \/ Alive => ParseFlags(args) = "options" /\ MissingCredential(args) = ""
  /\ Alive => (updater # "none" <=> Enabled(args))
  /\ next = "ahead" => updater = "wait"

LifecycleInv == TypeOK /\ StartInv /\ ServeInv /\ EndInv /\ FlagsInv

-----------------------------------------------------------------------------
(* What main finds in the flags. *)
LEMMA Ends ==
  /\ EndsEarly \in {Running, 0, 1, 2}
  /\ EndsEarly = Running => ParseFlags(args) = "options" /\ MissingCredential(args) = ""
  <1>1. ParseFlags(args) \in {"error", "help", "options"}
    BY DEF ParseFlags
  <1>2. CASE ParseFlags(args) = "error"
    BY <1>2 DEF EndsEarly, Running
  <1>3. CASE ParseFlags(args) = "help"
    BY <1>3 DEF EndsEarly, Running
  <1>4. CASE ParseFlags(args) = "options"
    <2>1. EndsEarly = IF args.version THEN 0
                      ELSE IF MissingCredential(args) # "" THEN 1
                      ELSE Running
      BY <1>4 DEF EndsEarly
    <2>2. Running # 0 /\ Running # 1
      BY DEF Running
    <2>3. CASE args.version
      BY <2>1, <2>2, <2>3
    <2>4. CASE ~ args.version /\ MissingCredential(args) # ""
      BY <2>1, <2>2, <2>4
    <2>5. CASE ~ args.version /\ MissingCredential(args) = ""
      BY <1>4, <2>1, <2>5
    <2> QED
      BY <2>3, <2>4, <2>5
  <1> QED
    BY <1>1, <1>2, <1>3, <1>4

(* Steps that leave conn alone leave NoConn alone. *)
LEMMA ConnKept == conn' = conn => (NoConn' <=> NoConn)
  BY DEF NoConn

(* A connection moves and nothing else does. *)
LEMMA ConnStep ==
  ASSUME NEW c \in Conn, Connect(c) \/ Request(c) \/ Answer(c) \/ Drop(c), TypeOK
  PROVE  /\ Alive
         /\ conn' \in [Conn -> {"none", "new", "request"}]
         /\ NoConn => NoConn' \/ (~ ShuttingDown /\ listener = "open")
         /\ UNCHANGED <<args, stage, status, signalled, listener, expired, updaterVars>>
  BY DEF Connect, Request, Answer, Drop, Moves, TypeOK, NoConn

LEMMA LifecycleInit == Init => LifecycleInv
  BY DEF Init, LifecycleInv, TypeOK, StartInv, ServeInv, EndInv, FlagsInv, NoConn, Alive,
         Running, Killed

(* Each part of LifecycleInv is kept by every step. *)
LEMMA TypeKept ==
  ASSUME LifecycleInv, [Next]_vars
  PROVE  TypeOK'
  <1> USE DEF LifecycleInv, TypeOK, Alive, Running, Killed
  <1>1. CASE Parse
    BY <1>1, Ends DEF Parse, serverVars, updaterVars
  <1>2. CASE Boot \/ ContextDone \/ Exit
    BY <1>2 DEF Boot, ContextDone, Exit, serverVars, updaterVars
  <1>3. CASE ReceiveError \/ Drained \/ GiveUp
    BY <1>3 DEF ReceiveError, Drained, GiveUp, Return, ListenerStatus,
          serverVars, updaterVars
  <1>4. CASE Expire
    BY <1>4 DEF Expire, serverVars, updaterVars
  <1>5. CASE Listen \/ ListenerFails \/ ListenerCloses
    BY <1>5 DEF Listen, ListenerFails, ListenerCloses, ListenerBecomes, ShuttingDown, updaterVars
  <1>6. ASSUME NEW c \in Conn, Connect(c) \/ Request(c) \/ Answer(c) \/ Drop(c)
       PROVE  TypeOK'
    BY <1>6, ConnStep DEF ShuttingDown, updaterVars
  <1>7. CASE UpdaterStep
    BY <1>7 DEF UpdaterStep, RunStarts, TimeComes, CheckBegins, CheckEnds, RunReturns,
          UpdaterBecomes, serverVars
  <1>8. CASE UNCHANGED vars
    BY <1>8 DEF vars, serverVars, updaterVars
  <1>9. CASE Kill
    BY <1>9 DEF Kill, serverVars, updaterVars
  <1>10. CASE Signal
    BY <1>10 DEF Signal, serverVars, updaterVars
  <1> QED
    BY <1>1, <1>2, <1>3, <1>4, <1>5, <1>6, <1>7, <1>8, <1>9, <1>10 DEF Next, MainStep

LEMMA StartKept ==
  ASSUME LifecycleInv, [Next]_vars
  PROVE  StartInv'
  <1> USE DEF LifecycleInv, TypeOK, StartInv, Alive, Running
  <1>1. CASE Parse
    BY <1>1, ConnKept, Ends DEF Parse, serverVars, updaterVars
  <1>2. CASE Boot \/ ContextDone \/ Exit
    BY <1>2, ConnKept DEF Boot, ContextDone, Exit, serverVars, updaterVars
  <1>3. CASE ReceiveError \/ Drained \/ GiveUp
    BY <1>3, ConnKept DEF ReceiveError, Drained, GiveUp, Return, ListenerStatus,
          serverVars, updaterVars
  <1>4. CASE Expire \/ Signal \/ Kill
    BY <1>4, ConnKept DEF Expire, Signal, Kill, serverVars, updaterVars
  <1>5. CASE Listen \/ ListenerFails \/ ListenerCloses
    BY <1>5, ConnKept DEF Listen, ListenerFails, ListenerCloses, ListenerBecomes, ShuttingDown, updaterVars
  <1>6. ASSUME NEW c \in Conn, Connect(c) \/ Request(c) \/ Answer(c) \/ Drop(c)
       PROVE  StartInv'
    BY <1>6, ConnStep DEF ShuttingDown, updaterVars
  <1>7. CASE UpdaterStep
    BY <1>7, ConnKept DEF UpdaterStep, RunStarts, TimeComes, CheckBegins, CheckEnds, RunReturns,
          UpdaterBecomes, serverVars
  <1>8. CASE UNCHANGED vars
    BY <1>8, ConnKept DEF vars, serverVars, updaterVars
  <1> QED
    BY <1>1, <1>2, <1>3, <1>4, <1>5, <1>6, <1>7, <1>8 DEF Next, MainStep

LEMMA ServeKept ==
  ASSUME LifecycleInv, [Next]_vars
  PROVE  ServeInv'
  <1> USE DEF LifecycleInv, TypeOK, StartInv, ServeInv, Alive, Running
  <1>1. CASE Parse
    BY <1>1, ConnKept, Ends DEF Parse, serverVars, updaterVars
  <1>2. CASE Boot \/ ContextDone \/ Exit
    BY <1>2, ConnKept DEF Boot, ContextDone, Exit, serverVars, updaterVars
  <1>3. CASE ReceiveError \/ Drained \/ GiveUp
    BY <1>3, ConnKept DEF ReceiveError, Drained, GiveUp, Return, ListenerStatus,
          serverVars, updaterVars
  <1>4. CASE Expire \/ Signal \/ Kill
    BY <1>4, ConnKept DEF Expire, Signal, Kill, serverVars, updaterVars
  <1>5. CASE Listen \/ ListenerFails \/ ListenerCloses
    BY <1>5, ConnKept DEF Listen, ListenerFails, ListenerCloses, ListenerBecomes, ShuttingDown, updaterVars
  <1>6. ASSUME NEW c \in Conn, Connect(c) \/ Request(c) \/ Answer(c) \/ Drop(c)
       PROVE  ServeInv'
    BY <1>6, ConnStep DEF ShuttingDown, updaterVars
  <1>7. CASE UpdaterStep
    BY <1>7, ConnKept DEF UpdaterStep, RunStarts, TimeComes, CheckBegins, CheckEnds, RunReturns,
          UpdaterBecomes, serverVars
  <1>8. CASE UNCHANGED vars
    BY <1>8, ConnKept DEF vars, serverVars, updaterVars
  <1> QED
    BY <1>1, <1>2, <1>3, <1>4, <1>5, <1>6, <1>7, <1>8 DEF Next, MainStep

LEMMA EndKept ==
  ASSUME LifecycleInv, [Next]_vars
  PROVE  EndInv'
  <1> USE DEF LifecycleInv, TypeOK, StartInv, ServeInv, EndInv, Alive, Running, Killed
  <1>1. CASE Parse
    BY <1>1, ConnKept, Ends DEF Parse, serverVars, updaterVars
  <1>2. CASE Boot \/ ContextDone \/ Exit
    BY <1>2, ConnKept DEF Boot, ContextDone, Exit, serverVars, updaterVars
  <1>3. CASE ReceiveError
    BY <1>3, ConnKept DEF ReceiveError, Return, ListenerStatus, serverVars, updaterVars
  <1>4. CASE Expire \/ Signal
    BY <1>4, ConnKept DEF Expire, Signal, serverVars, updaterVars
  <1>5. CASE Listen \/ ListenerFails \/ ListenerCloses
    BY <1>5, ConnKept DEF Listen, ListenerFails, ListenerCloses, ListenerBecomes, ShuttingDown, updaterVars
  <1>6. ASSUME NEW c \in Conn, Connect(c) \/ Request(c) \/ Answer(c) \/ Drop(c)
       PROVE  EndInv'
    BY <1>6, ConnStep DEF ShuttingDown, updaterVars
  <1>7. CASE UpdaterStep
    BY <1>7, ConnKept DEF UpdaterStep, RunStarts, TimeComes, CheckBegins, CheckEnds, RunReturns,
          UpdaterBecomes, serverVars
  <1>8. CASE UNCHANGED vars
    BY <1>8, ConnKept DEF vars, serverVars, updaterVars
  <1>9. CASE Drained
    BY <1>9, ConnKept DEF Drained, Return, NoConn, serverVars, updaterVars
  <1>10. CASE GiveUp
    BY <1>10, ConnKept DEF GiveUp, Return, serverVars, updaterVars
  <1>11. CASE Kill
    BY <1>11, ConnKept DEF Kill, serverVars, updaterVars
  <1> QED
    BY <1>1, <1>2, <1>3, <1>4, <1>5, <1>6, <1>7, <1>8, <1>9, <1>10, <1>11
       DEF Next, MainStep

LEMMA FlagsKept ==
  ASSUME LifecycleInv, [Next]_vars
  PROVE  FlagsInv'
  <1> USE DEF LifecycleInv, TypeOK, StartInv, FlagsInv, Alive, Running
  <1>1. CASE Parse
    BY <1>1, ConnKept, Ends DEF Parse, serverVars, updaterVars
  <1>2. CASE Boot \/ ContextDone \/ Exit
    BY <1>2, ConnKept DEF Boot, ContextDone, Exit, serverVars, updaterVars
  <1>3. CASE ReceiveError \/ Drained \/ GiveUp
    BY <1>3, ConnKept DEF ReceiveError, Drained, GiveUp, Return, ListenerStatus,
          serverVars, updaterVars
  <1>4. CASE Expire \/ Signal \/ Kill
    BY <1>4, ConnKept DEF Expire, Signal, Kill, serverVars, updaterVars
  <1>5. CASE Listen \/ ListenerFails \/ ListenerCloses
    BY <1>5, ConnKept DEF Listen, ListenerFails, ListenerCloses, ListenerBecomes, ShuttingDown, updaterVars
  <1>6. ASSUME NEW c \in Conn, Connect(c) \/ Request(c) \/ Answer(c) \/ Drop(c)
       PROVE  FlagsInv'
    BY <1>6, ConnStep DEF ShuttingDown, updaterVars
  <1>7. CASE UpdaterStep
    BY <1>7, ConnKept DEF UpdaterStep, RunStarts, TimeComes, CheckBegins, CheckEnds, RunReturns,
          UpdaterBecomes, serverVars
  <1>8. CASE UNCHANGED vars
    BY <1>8, ConnKept DEF vars, serverVars, updaterVars
  <1> QED
    BY <1>1, <1>2, <1>3, <1>4, <1>5, <1>6, <1>7, <1>8 DEF Next, MainStep

LEMMA LifecycleInductive == LifecycleInv /\ [Next]_vars => LifecycleInv'
  BY TypeKept, StartKept, ServeKept, EndKept, FlagsKept DEF LifecycleInv

THEOREM LifecycleInvariance == Spec => []LifecycleInv
  BY LifecycleInit, LifecycleInductive, PTL DEF Spec

-----------------------------------------------------------------------------
(* Settings, goroutines and connections keep their types. *)
THEOREM LifecycleTypeCorrect == Spec => []TypeOK
  <1>1. LifecycleInv => TypeOK
    BY DEF LifecycleInv
  <1> QED
    BY <1>1, LifecycleInvariance, PTL

(* Unless the listener failed, a request is cut only when the ten seconds  *)
(* are over, and never under status 0 (server.go:169-171).                 *)
THEOREM RequestsGetTheirTime == Spec => []GraceKept
  <1>1. LifecycleInv => GraceKept
    BY DEF LifecycleInv, StartInv, EndInv, NoConn, GraceKept, Cut
  <1> QED
    BY <1>1, LifecycleInvariance, PTL

(* Status 1 means a lost listener or requests that were given up, and a    *)
(* server that was not told to stop ends with nothing else                 *)
(* (main.go:155-158, 210-214).                                             *)
THEOREM StatusIsTold == Spec => []StatusTellsWhy
  <1>1. LifecycleInv => StatusTellsWhy
    BY DEF LifecycleInv, EndInv, StatusTellsWhy
  <1> QED
    BY <1>1, LifecycleInvariance, PTL

(* A published time is one that Run waits for (maxmind.go:158, 176-180). *)
THEOREM PublishedIsAwaited == Spec => []RetryIsComing
  <1>1. LifecycleInv => RetryIsComing
    BY DEF LifecycleInv, FlagsInv, RetryIsComing
  <1> QED
    BY <1>1, LifecycleInvariance, PTL

-----------------------------------------------------------------------------
(* Hours that a Duration holds do not wrap around. *)
LEMMA NoWrap ==
  ASSUME NEW a \in Args, a.hours \in Nat, a.hours <= MaxDuration \div Hour
  PROVE  UpdateInterval(a) = a.hours * Hour
  <1> DEFINE q == MaxDuration \div Hour
             x == a.hours * Hour
             m == 2 * (MaxDuration + 1)
  <1>1. q \in Nat /\ q * Hour <= MaxDuration
    BY DurationAssumption
  <1>2. a.hours * Hour <= q * Hour
    BY <1>1, DurationAssumption
  <1>3. x \in Nat /\ x <= MaxDuration
    BY <1>1, <1>2, DurationAssumption
  <1> HIDE DEF x
  <1>4. (x + MaxDuration + 1) % m = x + MaxDuration + 1
    BY <1>3, DurationAssumption
  <1>5. x - (0 - MaxDuration - 1) = x + MaxDuration + 1
    BY <1>3, DurationAssumption
  <1> QED
    BY <1>3, <1>4, <1>5, DurationAssumption DEF UpdateInterval, x

(* The updater runs if and only if -u and a database ask for it            *)
(* (main.go:171-173, 228-239, maxmind.go:89-97).                           *)
THEOREM RunsAsAsked == Spec => []UpdatesAsAsked
  <1>1. ASSUME LifecycleInv, Alive, args.hours <= MaxDuration \div Hour
        PROVE  updater # "none" <=> args.hours # 0 /\ (args.city \/ args.asn)
    <2>1. args \in Args /\ args.hours \in Nat
      <3>1. args \in Args /\ args.hours \in Int
        BY <1>1, ArgsAssumption DEF LifecycleInv, TypeOK
      <3>2. ~ (args.hours < 0)
        BY <1>1 DEF LifecycleInv, FlagsInv, ParseFlags
      <3> QED
        BY <3>1, <3>2
    <2>2. UpdateInterval(args) > 0 <=> args.hours # 0
      BY <1>1, <2>1, NoWrap, DurationAssumption
    <2>3. Editions(args) # {} <=> args.city \/ args.asn
      BY DEF Editions
    <2>4. Scheduled(args) <=> Enabled(args)
      BY <1>1, <2>1 DEF LifecycleInv, FlagsInv, MissingCredential, Enabled
    <2> QED
      BY <1>1, <2>2, <2>3, <2>4 DEF LifecycleInv, FlagsInv, Scheduled
  <1>2. LifecycleInv => UpdatesAsAsked
    BY <1>1 DEF UpdatesAsAsked
  <1> QED
    BY <1>2, LifecycleInvariance, PTL

-----------------------------------------------------------------------------
(* A power of two is positive: it counts the subsets of some set. *)
LEMMA PowerOfTwo ==
  ASSUME NEW k \in Nat
  PROVE  2^k \in Nat \ {0}
  <1>1. IsFiniteSet(1..k) /\ Cardinality(1..k) = k
    BY FS_Interval
  <1>2. IsFiniteSet(SUBSET (1..k)) /\ Cardinality(SUBSET (1..k)) = 2^k
    BY <1>1, FS_SUBSET
  <1>3. SUBSET (1..k) # {}
    OBVIOUS
  <1> QED
    BY <1>2, <1>3, FS_CardinalityType, FS_EmptySet

LEMMA Multiples ==
  ASSUME NEW d \in Nat \ {0}, NEW p \in Nat, NEW q \in Nat, p > q
  PROVE  d * p >= d * q + d
  <1>1. p - q - 1 \in Nat
    OBVIOUS
  <1>2. d * (p - q - 1) \in Nat
    BY <1>1
  <1>3. d * (p - q - 1) = d * p - d * q - d
    OBVIOUS
  <1> QED
    BY <1>2, <1>3

(* The block of d numbers that begins at b, a multiple of d. *)
LEMMA BlockHolds ==
  ASSUME NEW a \in Nat, NEW b \in Nat, NEW d \in Nat \ {0}, b % d = 0
  PROVE  a \div d = b \div d <=> a \in b..(b + d - 1)
  <1> DEFINE p == a \div d
             q == b \div d
  <1>1. p \in Nat /\ q \in Nat
    OBVIOUS
  <1>2. b = d * q
    OBVIOUS
  <1>3. a = d * p + (a % d) /\ a % d \in 0..(d - 1)
    OBVIOUS
  <1>4. d * p \in Nat /\ d * q \in Nat /\ a % d \in Nat
    BY <1>1, <1>3
  <1> HIDE DEF p, q
  <1>5. ASSUME p = q
        PROVE  a \in b..(b + d - 1)
    BY <1>2, <1>3, <1>5
  <1>6. ASSUME a \in b..(b + d - 1)
        PROVE  p = q
    <2>1. ~ (p > q)
      BY <1>1, <1>2, <1>3, <1>4, <1>6, Multiples
    <2>2. ~ (q > p)
      BY <1>1, <1>2, <1>3, <1>4, <1>6, Multiples
    <2> QED
      BY <1>1, <2>1, <2>2
  <1>7. p = q <=> a \in b..(b + d - 1)
    BY <1>5, <1>6
  <1> QED
    BY <1>7 DEF p, q

LEMMA SecondBlock ==
  ASSUME NEW a \in Nat, NEW d \in Nat \ {0}, a \div d = 1
  PROVE  a - d \in 0..(d - 1)
  <1>1. a = d * (a \div d) + (a % d) /\ a % d \in 0..(d - 1)
    OBVIOUS
  <1> QED
    BY <1>1

LEMMA BlocksOfOne ==
  ASSUME NEW a \in Nat
  PROVE  a \div 1 = a /\ a % 1 = 0
  OBVIOUS

(* An address that is unmapped is an address, and no longer a mapped one. *)
LEMMA UnmappedIsAddress ==
  ASSUME NEW a \in Address
  PROVE  Unmapped(a) \in Address /\ ~ Is4In6(Unmapped(a))
  <1>1. 2^Bits4 \in Nat \ {0} /\ 2^Bits6 \in Nat
    BY PowerOfTwo, BitsAssumption
  <1>2. CASE Is4In6(a)
    <2>1. a.family = 6 /\ a.n \in Nat /\ a.n \div 2^Bits4 = 1
      BY <1>1, <1>2 DEF Address, Is4In6
    <2>2. a.n - 2^Bits4 \in 0..(2^Bits4 - 1)
      BY <1>1, <2>1, SecondBlock
    <2> QED
      BY <1>2, <2>2 DEF Unmapped, Address, Is4In6
  <1>3. CASE ~ Is4In6(a)
    BY <1>3 DEF Unmapped
  <1> QED
    BY <1>2, <1>3

(* A text that is accepted names a network whose first address is the one *)
(* written, and one that is no prefix names that address alone.            *)
LEMMA AcceptedText ==
  ASSUME NEW text \in Text, ParsePrefix(text) # Refused
  PROVE  LET prefix == ParsePrefix(text)
             written == Unmapped(text.addr)
             size == BlockSize(prefix.addr.family, prefix.bits)
         IN  /\ prefix.addr.family = written.family /\ prefix.addr.n = written.n
             /\ size = IF IsAddr(text) THEN 1 ELSE 2^(BitLen(written.family) - text.bits)
             /\ size \in Nat \ {0}
             /\ written.n % size = 0
  <1> DEFINE prefix == ParsePrefix(text)
             written == Unmapped(text.addr)
             size == BlockSize(prefix.addr.family, prefix.bits)
             goal == /\ prefix.addr.family = written.family /\ prefix.addr.n = written.n
                     /\ size = IF IsAddr(text) THEN 1 ELSE 2^(BitLen(written.family) - text.bits)
                     /\ size \in Nat \ {0}
                     /\ written.n % size = 0
  <1>1. text.addr \in Address /\ written \in Address
    BY UnmappedIsAddress DEF Text
  <1>2. CASE IsPrefix(text)
    <2>1. /\ ~ Is4In6(text.addr) /\ ~ HostBits(text)
          /\ prefix = Network(text.addr, text.bits)
      BY <1>2 DEF ParsePrefix
    <2>2. /\ prefix.addr = text.addr /\ prefix.bits = text.bits
          /\ written = text.addr
      BY <2>1 DEF Network, Unmapped
    <2>3. BitLen(text.addr.family) \in Nat
      BY BitsAssumption DEF BitLen
    <2>4. text.bits \in 0..BitLen(text.addr.family) /\ ~ IsAddr(text)
      BY <1>2, <2>3 DEF IsPrefix, IsAddr, NoBits
    <2>5. size \in Nat \ {0}
      <3>1. BitLen(text.addr.family) - text.bits \in Nat
        BY <2>3, <2>4
      <3> QED
        BY <2>2, <3>1, PowerOfTwo DEF BlockSize
    <2>6. size = 2^(BitLen(written.family) - text.bits)
      BY <2>2 DEF BlockSize
    <2>7. written.n % size = 0
      BY <2>1, <2>2 DEF HostBits
    <2> QED
      BY <2>2, <2>4, <2>5, <2>6, <2>7
  <1>3. CASE ~ IsPrefix(text)
    <2>1. IsAddr(text) /\ prefix = Single(written)
      BY <1>3 DEF ParsePrefix
    <2>2. /\ prefix.addr.family = written.family /\ prefix.addr.n = written.n
          /\ prefix.bits = BitLen(written.family)
      BY <1>1, <2>1 DEF Single, Network, Address
    <2>3. BitLen(written.family) \in Nat
      BY BitsAssumption DEF BitLen
    <2>4. BitLen(written.family) - BitLen(written.family) = 0 /\ 2^0 = 1
      BY <2>3
    <2>5. size = 1
      BY <2>2, <2>4 DEF BlockSize
    <2>6. written.n \in Nat
      BY <1>1, PowerOfTwo, BitsAssumption DEF Address
    <2>7. written.n % size = 0
      BY <2>5, <2>6, BlocksOfOne
    <2> QED
      BY <2>1, <2>2, <2>5, <2>7
  <1>4. goal
    BY <1>2, <1>3
  <1> QED
    BY <1>4

(* What -T accepts trusts exactly the peers from the address written to    *)
(* the last one of its bits: an address alone trusts itself, and no peer   *)
(* that has a zone is trusted (main.go:54-73, request.go:156-170).         *)
THEOREM TrustIsWritten == Spec => []TrustsAsWritten
  <1>1. ASSUME LifecycleInv, ParseFlags(args) # "error",
               NEW text \in args.proxies, NEW peer \in Peer
        PROVE  LET written == Unmapped(text.addr)
                   last == IF text.addr.zone # NoZone \/ text.bits = NoBits
                           THEN written.n
                           ELSE written.n + 2^(BitLen(written.family) - text.bits) - 1
               IN  Contains(ParsePrefix(text), peer) <=>
                     /\ peer.family = written.family
                     /\ peer.zone = NoZone
                     /\ peer.n \in written.n..last
    <2> DEFINE prefix == ParsePrefix(text)
               written == Unmapped(text.addr)
               size == BlockSize(prefix.addr.family, prefix.bits)
    <2>1. text \in Text /\ prefix # Refused
      <3>1. args \in Args
        BY <1>1 DEF LifecycleInv, TypeOK
      <3>2. text \in Text
        BY <1>1, <3>1, ArgsAssumption
      <3>3. Refused \notin TrustedProxies(args)
        BY <1>1 DEF ParseFlags
      <3> QED
        BY <1>1, <3>2, <3>3 DEF TrustedProxies
    <2>2. written \in Address /\ peer \in Address
      BY <1>1, <2>1, UnmappedIsAddress DEF Text, Peer
    <2>3. /\ prefix.addr.family = written.family /\ prefix.addr.n = written.n
          /\ size = IF IsAddr(text) THEN 1 ELSE 2^(BitLen(written.family) - text.bits)
          /\ size \in Nat \ {0}
          /\ written.n % size = 0
      BY <2>1, AcceptedText
    <2>4. written.n \in Nat /\ peer.n \in Nat
      BY <2>2, PowerOfTwo, BitsAssumption DEF Address
    <2>5. Contains(prefix, peer) <=>
            /\ peer.family = written.family
            /\ peer.zone = NoZone
            /\ peer.n \div size = written.n \div size
      BY <2>3 DEF Contains
    <2> DEFINE last == IF text.addr.zone # NoZone \/ text.bits = NoBits
                       THEN written.n
                       ELSE written.n + 2^(BitLen(written.family) - text.bits) - 1
    <2>6. last = written.n + size - 1
      BY <2>3, <2>4 DEF IsAddr
    <2> HIDE DEF prefix, written, size, last
    <2>7. peer.n \div size = written.n \div size <=> peer.n \in written.n..last
      <3>1. size \in Nat \ {0} /\ written.n % size = 0
        BY <2>3
      <3>2. peer.n \div size = written.n \div size
              <=> peer.n \in written.n..(written.n + size - 1)
        BY <2>4, <3>1, BlockHolds, Zenon
      <3> QED
        BY <2>6, <3>2, Zenon
    <2>8. Contains(prefix, peer) <=>
            /\ peer.family = written.family
            /\ peer.zone = NoZone
            /\ peer.n \in written.n..last
      BY <2>5, <2>7
    <2> QED
      BY <2>8 DEF last, written, prefix
  <1>2. LifecycleInv => TrustsAsWritten
    BY <1>1 DEF TrustsAsWritten
  <1> QED
    BY <1>2, LifecycleInvariance, PTL

=============================================================================
