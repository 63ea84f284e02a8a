--------------------------- MODULE HandlersProofs ---------------------------
(***************************************************************************)
(* For any configurations, requests and times of the next check: every     *)
(* request ends in one answer or in a dropped connection, every refusal in *)
(* one line of the log, Allow lists what would be answered, Retry-After is *)
(* not early, and the format is the one that Accept prefers.               *)
(*                                                                         *)
(* The argument: nothing is written before a handler writes, and then it   *)
(* cannot fail any more, only panic, and the panic is told apart by what   *)
(* was written. So a failure on its way out has an unwritten answer in     *)
(* front of it, which it becomes, after it has been logged once.           *)
(*                                                                         *)
(* What Accept prefers is a recursive function of its entries. Its values  *)
(* follow from the least prefix at which they would be other than claimed. *)
(***************************************************************************)
EXTENDS Handlers, TLAPS, WellFoundedInduction

Blank == ~ written /\ sent = << >>

Written ==
  /\ written
  /\ Len(sent) = 1
  /\ body # "external" => sent \in {<<200>>, <<204>>}

Refused == <<StatusOf(failure.problem)>>

(* What was written so far, at each layer. *)
SentInv ==
  /\ pc \in {"route", "handle"} => Blank
  /\ pc = "wrote" => Written
  /\ pc = "recover" => Blank \/ Written
  /\ pc \in {"returned", "answer"} =>
       IF failure = NoFailure THEN Written ELSE Blank
  /\ pc = "done" /\ ~ dropped =>
       IF failure = NoFailure
       THEN Written
       ELSE sent = Refused /\ body # "external"
  /\ Len(sent) <= 1

(* Where there is a failure, and why, and where a panic. *)
FailureInv ==
  /\ failure.problem \in Problem
  /\ failure # NoFailure => failure.problem # None
  /\ pc \in {"route", "handle", "wrote", "recover"} => failure = NoFailure
  /\ pc \in {"route", "handle", "wrote"} => panicking = None
  /\ pc \in {"returned", "answer", "done"} /\ ~ dropped /\ panicking # None =>
       failure = Failure("internal", "negotiated")
  /\ dropped => pc = "done"

(* When the line is written. *)
LoggedInv ==
  /\ pc \in {"route", "handle", "wrote", "recover", "returned"} => logged = << >>
  /\ pc \in {"answer", "done"} /\ ~ dropped =>
       logged = IF failure = NoFailure THEN << >> ELSE Refused

ChainInv == SentInv /\ FailureInv /\ LoggedInv

-----------------------------------------------------------------------------
(* Why an address may be refused. *)
LEMMA AddressProblems ==
  ASSUME NEW c, NEW r
  PROVE  IPFromRequest(c, r).problem
           \in {None, "invalid-address", "not-public-address", "internal"}
PROOF
<1>1. \A value : SuppliedAddr(value).problem
                   \in {None, "invalid-address", "not-public-address"}
  BY DEF SuppliedAddr, Refuses, Reports, None
<1>2. CASE r.ip # Missing
  BY <1>1, <1>2 DEF IPFromRequest
<1>3. CASE r.ip = Missing /\ Forwarded(c, r) # Missing
  BY <1>1, <1>3 DEF IPFromRequest
<1>4. CASE r.ip = Missing /\ Forwarded(c, r) = Missing
  BY <1>4 DEF IPFromRequest, Refuses, Reports, None
<1> QED BY <1>2, <1>3, <1>4

(* Every failure is answered with the status of an error. *)
LEMMA RefusalStatus ==
  ASSUME NEW problem \in Problem \ {None}
  PROVE  StatusOf(problem) \in {400, 404, 405, 500, 503}
PROOF BY DEF Problem, None, StatusOf

LEMMA ChainInit == Init => ChainInv
PROOF BY DEF Init, ChainInv, SentInv, FailureInv, LoggedInv, Blank, NoFailure,
             Failure, None, Problem

(* A handler fails before it writes. *)
LEMMA FailKeepsChain ==
  ASSUME ChainInv, pc = "handle",
         NEW problem \in Problem \ {None}, Fail(problem)
  PROVE  ChainInv'
PROOF
<1> DEFINE f == Failure(problem, RouteTable[route].format)
<1>1. /\ failure' = f /\ f.problem = problem /\ f # NoFailure
      /\ pc' = "returned"
      /\ UNCHANGED <<written, panicking, sent, body, dropped, logged>>
  BY DEF Fail, Routed, Failure, NoFailure
<1>2. Blank /\ panicking = None /\ ~ dropped /\ logged = << >>
  BY DEF ChainInv, SentInv, FailureInv, LoggedInv
<1>3. SentInv'
  BY <1>1, <1>2 DEF SentInv, Blank, ChainInv
<1>4. FailureInv'
  BY <1>1, <1>2 DEF FailureInv
<1>5. LoggedInv'
  BY <1>1, <1>2 DEF LoggedInv
<1> QED BY <1>3, <1>4, <1>5 DEF ChainInv

LEMMA ChainNext == ChainInv /\ [Next]_vars => ChainInv'
PROOF
<1> SUFFICES ASSUME ChainInv, [Next]_vars PROVE ChainInv'
  OBVIOUS
<1> USE DEF ChainInv, SentInv, FailureInv, LoggedInv, Blank, Written
<1>1. ASSUME NEW i \in DOMAIN RouteTable, RouteTo(i) PROVE ChainInv'
  BY <1>1 DEF RouteTo, answerVars
<1>2. CASE NotFound
  <2>1. /\ failure' = Failure("not-found", "negotiated")
        /\ failure' # NoFailure /\ failure'.problem = "not-found"
        /\ pc = "route" /\ pc' = "returned"
        /\ UNCHANGED <<written, panicking, sent, body, dropped, logged>>
    BY <1>2 DEF NotFound, answerVars, Failure, NoFailure, None
  <2> QED BY <2>1 DEF Problem, None
<1>3. CASE MethodNotAllowed
  <2> DEFINE f == Failure("method-not-allowed",
                          RouteTable[Min(Serving(RouteTable, request.path))].format)
  <2>1. /\ failure' = f
        /\ f # NoFailure /\ f.problem = "method-not-allowed"
        /\ pc = "route" /\ pc' = "returned"
        /\ UNCHANGED <<written, panicking, sent, body, dropped, logged>>
    BY <1>3 DEF MethodNotAllowed, OtherMethodsOnly, Failure, NoFailure, None
  <2> HIDE DEF f
  <2> QED BY <2>1 DEF Problem, None
<1>4. CASE Options
  <2>1. /\ pc = "route" /\ pc' = "returned"
        /\ sent' = Append(sent, 204) /\ written' = TRUE
        /\ UNCHANGED <<panicking, failure, body, dropped, logged>>
    BY <1>4 DEF Options, OtherMethodsOnly
  <2>2. sent' = <<204>>
    BY <2>1
  <2> QED BY <2>1, <2>2
<1>5. ASSUME NEW wait \in Wait, Unavailable(wait) PROVE ChainInv'
  BY <1>5, FailKeepsChain DEF Unavailable, Problem, None
<1>6. CASE BadAddress
  <2>1. IPFromRequest(config, request).problem \in Problem \ {None}
    BY <1>6, AddressProblems DEF BadAddress, Problem
  <2> QED BY <1>6, <2>1, FailKeepsChain DEF BadAddress
<1>7. CASE BadCapacity
  BY <1>7, FailKeepsChain DEF BadCapacity, Problem, None
<1>8. CASE BadRendering
  BY <1>8, FailKeepsChain DEF BadRendering, Problem, None
<1>9. CASE Write
  <2>1. /\ pc = "handle" /\ pc' = "wrote"
        /\ sent' = Append(sent, 200) /\ written' = TRUE
        /\ UNCHANGED <<panicking, failure, dropped, logged>>
    BY <1>9 DEF Write
  <2>2. sent' = <<200>>
    BY <2>1
  <2> QED BY <2>1, <2>2
<1>10. ASSUME NEW status \in {200, 400, 404, 500}, WriteExternal(status)
       PROVE  ChainInv'
  <2>1. /\ pc = "handle" /\ pc' = "wrote"
        /\ sent' = Append(sent, status) /\ body' = "external" /\ written' = TRUE
        /\ UNCHANGED <<panicking, failure, dropped, logged>>
    BY <1>10 DEF WriteExternal
  <2>2. sent' = <<status>>
    BY <2>1
  <2> QED BY <2>1, <2>2
<1>11. CASE Return
  BY <1>11 DEF Return, chainVars, answerVars
<1>12. ASSUME NEW value \in {"value", "abort"}, Panic(value) PROVE ChainInv'
  BY <1>12 DEF Panic, answerVars
<1>13. CASE Recover
  <2>1. /\ failure' = Failure("internal", "negotiated")
        /\ failure' # NoFailure /\ failure'.problem = "internal"
        /\ pc = "recover" /\ pc' = "returned" /\ ~ written
        /\ UNCHANGED <<written, panicking, sent, body, dropped, logged>>
    BY <1>13 DEF Recover, answerVars, Failure, NoFailure, None
  <2> QED BY <2>1 DEF Problem, None
<1>14. CASE Drop
  BY <1>14 DEF Drop, chainVars
<1>15. CASE LogRefused
  <2>1. /\ pc = "returned" /\ pc' = "answer" /\ logged = << >>
        /\ logged' = IF failure # NoFailure
                     THEN Append(logged, StatusOf(failure.problem)) ELSE logged
        /\ UNCHANGED <<written, panicking, failure, sent, body, dropped>>
    BY <1>15 DEF LogRefused, chainVars, answerVars
  <2>2. Refused' = Refused
    BY <2>1 DEF Refused
  <2>3. Append(<< >>, StatusOf(failure.problem)) = Refused
    BY DEF Refused
  <2>4. LoggedInv'
    BY <2>1, <2>2, <2>3
  <2> QED BY <2>1, <2>4
<1>16. CASE Succeed
  BY <1>16 DEF Succeed, chainVars, answerVars
<1>17. ASSUME NEW kind \in {"json", "text", "html"}, WriteFailure(kind)
       PROVE  ChainInv'
  <2>1. /\ pc = "answer" /\ pc' = "done" /\ failure # NoFailure
        /\ sent' = Append(sent, StatusOf(failure.problem)) /\ body' # "external"
        /\ UNCHANGED <<written, panicking, failure, dropped, logged>>
    BY <1>17 DEF WriteFailure, chainVars
  <2>2. sent' = Refused' /\ Refused' = Refused
    BY <2>1 DEF Refused
  <2>3. SentInv'
    <3>1. sent' = Refused' /\ body' # "external" /\ failure' # NoFailure
      BY <2>1, <2>2
    <3>2. Len(sent') <= 1
      BY <2>1
    <3> QED BY <2>1, <3>1, <3>2
  <2>4. FailureInv'
    BY <2>1
  <2>5. LoggedInv'
    BY <2>1, <2>2
  <2> QED BY <2>3, <2>4, <2>5
<1>18. CASE UNCHANGED vars
  BY <1>18 DEF vars, chainVars, answerVars, Refused
<1> HIDE DEF ChainInv, SentInv, FailureInv, LoggedInv, Blank, Written
<1> QED
  BY <1>1, <1>2, <1>3, <1>4, <1>5, <1>6, <1>7, <1>8, <1>9, <1>10, <1>11, <1>12,
     <1>13, <1>14, <1>15, <1>16, <1>17, <1>18 DEF Next

(* The invariant holds of every state. *)
LEMMA ChainHolds == Spec => []ChainInv
PROOF
<1>1. Init => ChainInv
  BY ChainInit
<1>2. ChainInv /\ [Next]_vars => ChainInv'
  BY ChainNext
<1> QED BY <1>1, <1>2, PTL DEF Spec

-----------------------------------------------------------------------------
(* Whatever fails or panics, a request ends in one answer or in a dropped  *)
(* connection: recoverPanic and trackingWriter (handler.go:30-78).         *)
THEOREM EveryRequestIsAnsweredOnce == Spec => []OneAnswer
PROOF
<1>1. ChainInv => OneAnswer
  <2> SUFFICES ASSUME ChainInv PROVE OneAnswer
    OBVIOUS
  <2>1. Len(sent) <= 1
    BY DEF ChainInv, SentInv
  <2>2. ASSUME pc = "done", ~ dropped, failure = NoFailure
        PROVE  Len(sent) = 1 /\ panicking = None
    BY <2>2 DEF ChainInv, SentInv, FailureInv, Written, NoFailure, Failure, None
  <2>3. ASSUME pc = "done", ~ dropped, failure # NoFailure
        PROVE  Len(sent) = 1 /\ (panicking # None => sent = <<500>>)
    <3>1. sent = <<StatusOf(failure.problem)>>
      BY <2>3 DEF ChainInv, SentInv, Refused
    <3>2. panicking # None => failure.problem = "internal"
      BY <2>3 DEF ChainInv, FailureInv, Failure
    <3>3. StatusOf("internal") = 500
      BY DEF StatusOf
    <3> QED BY <3>1, <3>2, <3>3
  <2> QED BY <2>1, <2>2, <2>3 DEF OneAnswer
<1> QED BY <1>1, ChainHolds, PTL

(* The log has a line for each refusal the server made, with the status    *)
(* the client got, and no other line: logRefused (handler.go:14-28).       *)
THEOREM EveryRefusalIsLogged == Spec => []RefusalsLogged
PROOF
<1>1. ChainInv => RefusalsLogged
  <2> SUFFICES ASSUME ChainInv, pc = "done", ~ dropped, body # "external"
               PROVE  logged = IF sent[1] >= 400 THEN sent ELSE << >>
    BY DEF RefusalsLogged
  <2>1. CASE failure = NoFailure
    <3>1. sent \in {<<200>>, <<204>>} /\ logged = << >>
      BY <2>1 DEF ChainInv, SentInv, LoggedInv, Written
    <3>2. ~ (sent[1] >= 400)
      BY <3>1
    <3> QED BY <3>1, <3>2
  <2>2. CASE failure # NoFailure
    <3>1. failure.problem \in Problem \ {None}
      BY <2>2 DEF ChainInv, FailureInv
    <3>2. sent = Refused /\ logged = Refused
      BY <2>2 DEF ChainInv, SentInv, LoggedInv
    <3>3. sent[1] >= 400
      BY <3>1, <3>2, RefusalStatus DEF Refused
    <3> QED BY <3>2, <3>3
  <2> QED BY <2>1, <2>2
<1> QED BY <1>1, ChainHolds, PTL

-----------------------------------------------------------------------------
(* A non-empty set of natural numbers has a least one. *)
LEMMA MinIsLeast ==
  ASSUME NEW S \in SUBSET Nat, S # {}
  PROVE  Min(S) \in S /\ \A i \in S : Min(S) <= i
PROOF
<1> DEFINE R == OpToRel(<, Nat)
<1>1. \E least \in S : \A i \in S : <<i, least>> \notin R
  BY WFMin, NatLessThanWellFounded
<1>2. \A i, j \in Nat : <<i, j>> \in R <=> i < j
  BY DEF OpToRel
<1> HIDE DEF R
<1>3. PICK least \in S : \A i \in S : <<i, least>> \notin R
  BY <1>1
<1>4. ASSUME NEW i \in S PROVE least <= i
  <2>1. i \in Nat /\ least \in Nat /\ <<i, least>> \notin R
    BY <1>3
  <2>2. ~ (i < least)
    BY <1>2, <2>1
  <2> QED BY <2>1, <2>2
<1> QED BY <1>4 DEF Min

(* Allow is empty, or what the path of this request allows. *)
AllowInv == allow = {} \/ allow = Allowed(RouteTable, request.path)

(* Allow lists the methods that the router answers on this path, and no    *)
(* other: appendMethods and Handler (router.go:54-84).                     *)
THEOREM AllowTellsTheTruth == Spec => []AllowIsHonest
PROOF
<1>1. Init => AllowInv
  BY DEF Init, AllowInv
<1>2. AllowInv /\ [Next]_vars => AllowInv'
  <2> SUFFICES ASSUME AllowInv, [Next]_vars PROVE AllowInv'
    OBVIOUS
  <2>1. UNCHANGED <<config, request>>
    BY DEF Next, vars, RouteTo, NotFound, MethodNotAllowed, Options, Unavailable,
           BadAddress, BadCapacity, BadRendering, Fail, Write, WriteExternal,
           Return, Panic, Recover, Drop, LogRefused, Succeed, WriteFailure
  <2>2. allow' = allow \/ allow' = Allowed(RouteTable, request.path)
    BY DEF Next, vars, answerVars, OtherMethodsOnly,
           RouteTo, NotFound, MethodNotAllowed, Options, Unavailable,
           BadAddress, BadCapacity, BadRendering, Fail, Write, WriteExternal,
           Return, Panic, Recover, Drop, LogRefused, Succeed, WriteFailure
  <2> QED BY <2>1, <2>2 DEF AllowInv, RouteTable
<1>3. AllowInv => AllowIsHonest
  <2> SUFFICES ASSUME NEW routes, NEW path, NEW method \in {"GET", "HEAD", "POST"}
               PROVE  method \in Allowed(routes, path) <=>
                        Answering(routes, path, method) # {}
    BY DEF AllowInv, AllowIsHonest, Method
  <2> DEFINE serving == Serving(routes, path)
  <2>1. method \in Allowed(routes, path) <=>
          \E i \in serving : \/ routes[i].method = method
                             \/ method = "HEAD" /\ routes[i].method = "GET"
    BY DEF Allowed
  <2>2. Answering(routes, path, method) # {} <=>
          \E i \in serving : MatchesMethod(routes[i], method)
    BY DEF Answering
  <2> QED BY <2>1, <2>2 DEF MatchesMethod
<1> QED BY <1>1, <1>2, <1>3, PTL DEF Spec

(* Where Retry-After comes from. *)
RetryInv == retryAfter # Missing => next \in Int /\ retryAfter = Seconds(next)

(* Rounding up is the least number of whole seconds. *)
LEMMA SecondsRoundUp ==
  ASSUME NEW wait \in Int
  PROVE  /\ Seconds(wait) * Second >= wait
         /\ (Seconds(wait) - 1) * Second < wait
PROOF
<1>1. Second \in Nat \ {0}
  BY WaitAssumption
<1> DEFINE n == wait + Second - 1
           q == n \div Second
<1>2. n \in Int /\ q \in Int /\ n = q * Second + (n % Second) /\ n % Second \in 0..(Second - 1)
  BY <1>1
<1> QED BY <1>1, <1>2 DEF Seconds

(* A client that waits for Retry-After comes back after the next check of  *)
(* the updater and within a second of it: setRetryAfter (handler.go:211).  *)
THEOREM RetryAfterIsNotEarly == Spec => []RetryNotEarly
PROOF
<1>1. Init => RetryInv
  BY DEF Init, RetryInv
<1>2. RetryInv /\ [Next]_vars => RetryInv'
  <2> SUFFICES ASSUME RetryInv, [Next]_vars PROVE RetryInv'
    OBVIOUS
  <2>1. ASSUME NEW wait \in Wait, Unavailable(wait) PROVE RetryInv'
    BY <2>1, WaitAssumption DEF Unavailable, RetryInv, Seconds
  <2>2. ASSUME ~ \E wait \in Wait : Unavailable(wait)
        PROVE  UNCHANGED <<retryAfter, next>>
    BY <2>2 DEF Next, vars, answerVars,
           RouteTo, NotFound, MethodNotAllowed, Options,
           BadAddress, BadCapacity, BadRendering, Write, WriteExternal,
           Return, Panic, Recover, Drop, LogRefused, Succeed, WriteFailure
  <2> QED BY <2>1, <2>2 DEF RetryInv, Seconds
<1>3. RetryInv => RetryNotEarly
  BY SecondsRoundUp DEF RetryInv, RetryNotEarly
<1> QED BY <1>1, <1>2, <1>3, PTL DEF Spec

-----------------------------------------------------------------------------
(* The routes answer in the format that a success of their handler has,    *)
(* those of pprof apart.                                                   *)
FormatOf(handler) ==
  CASE handler \in {"city", "asn", "ip"} -> "text"
    [] handler \in {"health", "json", "cache", "resize"} -> "json"
    [] handler \in {"root", "pprof"} -> "negotiated"

RoutePath ==
  {<<"">>, <<"health">>, <<"json">>, <<"ip">>, <<"city">>, <<"asn">>,
   <<"debug", "cache", "resize">>, <<"debug", "cache", "">>,
   <<"debug", "pprof", "profile">>, <<"debug", "pprof", "">>}

KnownRoute ==
  {r \in [method : {"GET", "POST"}, path : RoutePath, prefix : BOOLEAN,
          format : {"negotiated", "json", "text"},
          handler : {"root", "health", "json", "ip", "city", "asn", "resize",
                     "cache", "pprof"}] : r.format = FormatOf(r.handler)}

LEMMA RoutesAreKnown == ASSUME NEW c PROVE Routes(c) \in Seq(KnownRoute)
PROOF
<1>1. ASSUME NEW method \in {"GET", "POST"}, NEW path \in RoutePath,
             NEW handler \in {"root", "health", "json", "ip", "city", "asn",
                              "resize", "cache", "pprof"}
      PROVE  Exactly(method, path, FormatOf(handler), handler) \in KnownRoute
  <2>1. FormatOf(handler) \in {"negotiated", "json", "text"}
    BY DEF FormatOf
  <2> QED BY <2>1 DEF Exactly, KnownRoute
<1>2. /\ FormatOf("root") = "negotiated" /\ FormatOf("pprof") = "negotiated"
      /\ \A handler \in {"health", "json", "resize", "cache"} : FormatOf(handler) = "json"
      /\ \A handler \in {"ip", "city", "asn"} : FormatOf(handler) = "text"
  BY DEF FormatOf
<1>3. ServerRoutes \in Seq(KnownRoute)
  <2> DEFINE home == Exactly("GET", <<"">>, "negotiated", "root")
             health == Exactly("GET", <<"health">>, "json", "health")
             json == Exactly("GET", <<"json">>, "json", "json")
             ip == Exactly("GET", <<"ip">>, "text", "ip")
  <2>1. /\ <<"">> \in RoutePath /\ <<"health">> \in RoutePath
        /\ <<"json">> \in RoutePath /\ <<"ip">> \in RoutePath
    BY DEF RoutePath
  <2>2. /\ home \in KnownRoute /\ health \in KnownRoute
        /\ json \in KnownRoute /\ ip \in KnownRoute
    BY <1>1, <1>2, <2>1
  <2>3. ServerRoutes = <<home, health, json, ip>>
    BY DEF ServerRoutes
  <2> HIDE DEF home, health, json, ip
  <2> QED BY <2>2, <2>3
<1>4. \A db \in {"city", "asn"} : << FieldRoute(db) >> \in Seq(KnownRoute)
  <2> SUFFICES ASSUME NEW db \in {"city", "asn"} PROVE FieldRoute(db) \in KnownRoute
    OBVIOUS
  <2>1. <<db>> \in RoutePath
    BY DEF RoutePath
  <2> QED BY <1>1, <1>2, <2>1 DEF FieldRoute
<1>5. DebugRoutes \in Seq(KnownRoute)
  <2> DEFINE resize == <<"debug", "cache", "resize">>
             cache == <<"debug", "cache", "">>
             profile == <<"debug", "pprof", "profile">>
             pprof == <<"debug", "pprof", "">>
             rest == [method |-> "GET", path |-> pprof, prefix |-> TRUE,
                      format |-> "negotiated", handler |-> "pprof"]
  <2>1. /\ resize \in RoutePath /\ cache \in RoutePath
        /\ profile \in RoutePath /\ pprof \in RoutePath
    BY DEF RoutePath
  <2>2. DebugRoutes = << Exactly("POST", resize, "json", "resize"),
                         Exactly("GET", cache, "json", "cache"),
                         Exactly("GET", profile, "negotiated", "pprof"), rest >>
    BY DEF DebugRoutes
  <2> HIDE DEF resize, cache, profile, pprof
  <2>3. rest \in KnownRoute
    BY <1>2, <2>1 DEF KnownRoute
  <2>4. /\ Exactly("POST", resize, "json", "resize") \in KnownRoute
        /\ Exactly("GET", cache, "json", "cache") \in KnownRoute
        /\ Exactly("GET", profile, "negotiated", "pprof") \in KnownRoute
    BY <1>1, <1>2, <2>1
  <2> HIDE DEF rest
  <2> QED BY <2>2, <2>3, <2>4
<1> QED BY <1>3, <1>4, <1>5 DEF Routes

LEMMA RouteFormats ==
  /\ DOMAIN RouteTable \subseteq Nat \ {0}
  /\ \A i \in DOMAIN RouteTable :
       LET handler == RouteTable[i].handler
       IN  handler # "pprof" =>
             Success(handler) = IF RouteTable[i].format = "negotiated"
                                THEN NegotiateFormat(request)
                                ELSE RouteTable[i].format
PROOF
<1>1. RouteTable \in Seq(KnownRoute)
  BY RoutesAreKnown DEF RouteTable
<1>2. DOMAIN RouteTable \subseteq Nat \ {0}
  BY <1>1
<1>3. ASSUME NEW known \in KnownRoute, known.handler # "pprof"
      PROVE  Success(known.handler) = IF known.format = "negotiated"
                                      THEN NegotiateFormat(request)
                                      ELSE known.format
  BY <1>3 DEF KnownRoute, FormatOf, Success, Fields
<1>4. \A i \in DOMAIN RouteTable : RouteTable[i] \in KnownRoute
  BY <1>1
<1> QED BY <1>2, <1>3, <1>4

(* The route a failure takes its format from. *)
Origin ==
  IF route # 0 THEN route ELSE Min(Serving(RouteTable, request.path))

(* The format a failure is written in. *)
Kind ==
  IF failure.format = "negotiated" THEN NegotiateFormat(request) ELSE failure.format

(* A failure has the format of its route from the start, unless it was     *)
(* made of a panic, or no route is on the path.                            *)
FormatInv ==
  /\ route \in {0} \cup DOMAIN RouteTable
  /\ pc = "route" => route = 0
  /\ pc = "handle" => route # 0
  /\ pc = "recover" => panicking # None
  /\ failure # NoFailure /\ panicking = None =>
       \/ failure.format = RouteTable[Origin].format
       \/ Serving(RouteTable, request.path) = {}
  /\ pc = "done" /\ failure # NoFailure =>
       \/ body = Kind
       \/ body = "text" /\ Kind = "html"

LEMMA RequestIsFixed ==
  [Next]_vars => UNCHANGED <<config, request, RouteTable>>
PROOF
BY DEF Next, vars, RouteTable, OtherMethodsOnly, Fail,
       RouteTo, NotFound, MethodNotAllowed, Options, Unavailable, BadAddress,
       BadCapacity, BadRendering, Write, WriteExternal, Return, Panic, Recover,
       Drop, LogRefused, Succeed, WriteFailure

LEMMA FormatNext == ChainInv /\ FormatInv /\ [Next]_vars => FormatInv'
PROOF
<1> SUFFICES ASSUME ChainInv, FormatInv, [Next]_vars PROVE FormatInv'
  OBVIOUS
<1>1. UNCHANGED <<config, request, RouteTable>>
  BY RequestIsFixed
<1>2. /\ pc \in {"route", "handle", "wrote", "recover"} => failure = NoFailure
      /\ pc \in {"route", "handle", "wrote"} => panicking = None
  BY DEF ChainInv, FailureInv
<1>3. ASSUME NEW i \in DOMAIN RouteTable, RouteTo(i) PROVE FormatInv'
  BY <1>1, <1>2, <1>3, RouteFormats DEF RouteTo, FormatInv
<1>4. CASE NotFound
  BY <1>1, <1>4 DEF NotFound, FormatInv
<1>5. CASE MethodNotAllowed
  BY <1>1, <1>5 DEF MethodNotAllowed, OtherMethodsOnly, FormatInv, Origin, Failure
<1>6. CASE Options
  BY <1>1, <1>2, <1>6 DEF Options, OtherMethodsOnly, FormatInv
<1>7. ASSUME NEW problem, pc = "handle", Fail(problem) PROVE FormatInv'
  BY <1>1, <1>7 DEF Fail, Routed, Failure, FormatInv, Origin
<1>8. CASE (\E wait \in Wait : Unavailable(wait)) \/ BadAddress \/ BadCapacity \/ BadRendering
  BY <1>7, <1>8 DEF Unavailable, BadAddress, BadCapacity, BadRendering
<1>9. CASE Write \/ \E status \in {200, 400, 404, 500} : WriteExternal(status)
  BY <1>1, <1>2, <1>9 DEF Write, WriteExternal, FormatInv
<1>10. CASE Return \/ \E value \in {"value", "abort"} : Panic(value)
  BY <1>1, <1>2, <1>10 DEF Return, Panic, chainVars, FormatInv, None
<1>11. CASE Recover \/ Drop
  BY <1>1, <1>2, <1>11 DEF Recover, Drop, chainVars, FormatInv
<1>12. CASE LogRefused \/ Succeed
  BY <1>1, <1>12 DEF LogRefused, Succeed, chainVars, answerVars, FormatInv, Origin
<1>13. ASSUME NEW kind \in {"json", "text", "html"}, WriteFailure(kind)
       PROVE  FormatInv'
  <2>1. /\ pc = "answer" /\ pc' = "done" /\ failure # NoFailure
        /\ body' = kind
        /\ kind = Kind \/ (kind = "text" /\ Kind = "html")
        /\ UNCHANGED <<route, panicking, failure>>
    BY <1>13 DEF WriteFailure, chainVars, Kind
  <2>2. UNCHANGED <<Kind, Origin>>
    BY <1>1, <2>1 DEF Kind, Origin
  <2> QED BY <1>1, <2>1, <2>2 DEF FormatInv
<1>14. CASE UNCHANGED vars
  BY <1>1, <1>14 DEF vars, chainVars, answerVars, FormatInv, Origin, Kind
<1> QED
  BY <1>3, <1>4, <1>5, <1>6, <1>8, <1>9, <1>10, <1>11, <1>12, <1>13, <1>14 DEF Next

(* The invariant of the formats holds of every state. *)
LEMMA FormatHolds == Spec => []FormatInv
PROOF
<1>1. Init => FormatInv
  BY DEF Init, FormatInv
<1> QED BY <1>1, FormatNext, ChainHolds, PTL DEF Spec

(* A failure comes in the format a success would have come in: Format and  *)
(* Handler of the router, write of the error (router.go:54, error.go:61).  *)
THEOREM FailuresLookLikeSuccesses == Spec => []FailsLikeSuccess
PROOF
<1>1. FormatInv => FailsLikeSuccess
  <2> SUFFICES ASSUME FormatInv, pc = "done", failure # NoFailure,
                      panicking = None,
                      Serving(RouteTable, request.path) # {},
                      RouteTable[Origin].handler # "pprof"
               PROVE  \/ body = Success(RouteTable[Origin].handler)
                      \/ body = "text" /\ Success(RouteTable[Origin].handler) = "html"
    BY DEF FailsLikeSuccess, Origin
  <2>1. Serving(RouteTable, request.path) \subseteq DOMAIN RouteTable
    BY DEF Serving
  <2>2. Origin \in DOMAIN RouteTable
    BY <2>1, RouteFormats, MinIsLeast DEF Origin, FormatInv
  <2>3. Success(RouteTable[Origin].handler) = Kind
    BY <2>2, RouteFormats DEF FormatInv, Kind
  <2> QED BY <2>3 DEF FormatInv
<1> QED BY <1>1, FormatHolds, PTL

-----------------------------------------------------------------------------
(* What the headers say is an address, or is none. *)
LEMMA ForwardedValue ==
  ASSUME NEW c \in Config, NEW r \in Request
  PROVE  Forwarded(c, r) \in Value
PROOF
<1> DEFINE value(i) == HeaderValue(r, c.headers[i])
           set == {i \in DOMAIN c.headers : value(i) # Missing}
<1>1. \A i \in DOMAIN c.headers : value(i) \in Value
  <2> SUFFICES ASSUME NEW i \in DOMAIN c.headers PROVE value(i) \in Value
    OBVIOUS
  <2>1. r.headers[c.headers[i]] \in Seq(Value)
    BY RequestAssumption
  <2>2. ASSUME NEW entries \in Seq(Value), NEW header
        PROVE  (CASE Len(entries) = 0 -> Missing
                  [] Len(entries) > 0 /\ header = "X-Forwarded-For" -> entries[1]
                  [] Len(entries) = 1 /\ header # "X-Forwarded-For" -> entries[1]
                  [] OTHER -> Garbage) \in Value
    <3> HIDE DEF Value
    <3>1. Missing \in Value /\ Garbage \in Value
      BY DEF Value
    <3>2. Len(entries) > 0 => entries[1] \in Value
      OBVIOUS
    <3> QED BY <3>1, <3>2
  <2> QED BY <2>1, <2>2 DEF HeaderValue
<1>2. set # {} => Min(set) \in DOMAIN c.headers
  <2>1. c.headers \in Seq(STRING)
    BY ConfigAssumption
  <2>2. set \in SUBSET Nat
    BY <2>1
  <2> QED BY <2>2, MinIsLeast
<1> QED BY <1>1, <1>2 DEF Forwarded, Value

(* The configuration and the request do not change. *)
LEMMA FixedHolds == Spec => [](config \in Config /\ request \in Request)
PROOF
<1>1. Init => config \in Config /\ request \in Request
  BY DEF Init
<1>2. config \in Config /\ request \in Request /\ [Next]_vars =>
        (config \in Config /\ request \in Request)'
  BY RequestIsFixed
<1> QED BY <1>1, <1>2, PTL DEF Spec

(* An address the server reports is the peer or a public one, unmapped,    *)
(* and headers of a peer that is not trusted change nothing: ipFromRequest *)
(* and forwarded (request.go:111-162).                                     *)
THEOREM AddressesAreVouchedFor == Spec => []AddressIsVouchedFor
PROOF
<1>1. ASSUME NEW c \in Config, NEW r \in Request,
             IPFromRequest(c, r).problem = None
      PROVE  /\ ~ IPFromRequest(c, r).addr.mapped
             /\ \/ IPFromRequest(c, r).addr.host \in PublicHost
                \/ IPFromRequest(c, r).addr = PeerAddr(r)
  <2>1. ASSUME NEW value \in Value \ {Missing}, SuppliedAddr(value).problem = None
        PROVE  /\ ~ SuppliedAddr(value).addr.mapped
               /\ SuppliedAddr(value).addr.host \in PublicHost
    <3>1. value \in Address /\ value.host \in PublicHost
      BY <2>1 DEF SuppliedAddr, Refuses, None, Value
    <3>2. SuppliedAddr(value).addr = [value EXCEPT !.mapped = FALSE]
      BY <3>1, ValueAssumption DEF SuppliedAddr, Reports, Unmap
    <3> QED BY <3>1, <3>2 DEF Address
  <2>2. CASE r.ip # Missing
    BY <1>1, <2>1, <2>2, RequestAssumption DEF IPFromRequest
  <2>3. CASE r.ip = Missing /\ Forwarded(c, r) # Missing
    BY <1>1, <2>1, <2>3, ForwardedValue DEF IPFromRequest
  <2>4. CASE r.ip = Missing /\ Forwarded(c, r) = Missing
    <3>1. PeerAddr(r) # Garbage
      BY <1>1, <2>4 DEF IPFromRequest, Refuses, None
    <3>2. IPFromRequest(c, r).addr = PeerAddr(r)
      BY <2>4, <3>1 DEF IPFromRequest, Reports
    <3>3. ~ PeerAddr(r).mapped
      BY <3>1, RequestAssumption DEF PeerAddr, Unmap, Address
    <3> QED BY <3>2, <3>3
  <2> QED BY <2>2, <2>3, <2>4
<1>2. ASSUME NEW c \in Config, NEW r \in Request, ~ Trusts(c, PeerAddr(r))
      PROVE  IPFromRequest(c, r) = IPFromRequest([c EXCEPT !.headers = << >>], r)
  <2> DEFINE bare == [c EXCEPT !.headers = << >>]
  <2>1. Forwarded(c, r) = Missing
    BY <1>2 DEF Forwarded
  <2>2. bare.headers = << >>
    BY ConfigAssumption
  <2> HIDE DEF bare
  <2>3. Forwarded(bare, r) = Missing
    BY <2>2 DEF Forwarded
  <2> QED BY <2>1, <2>3 DEF IPFromRequest, bare
<1>3. config \in Config /\ request \in Request => AddressIsVouchedFor
  BY <1>1, <1>2 DEF AddressIsVouchedFor
<1> QED BY <1>3, FixedHolds, PTL

-----------------------------------------------------------------------------
LEMMA NegotiatedFormat ==
  ASSUME NEW r PROVE NegotiateFormat(r) \in {"json", "text", "html"}
PROOF
BY DEF NegotiateFormat

LEMMA RouteTypes ==
  /\ \A i \in DOMAIN RouteTable :
       RouteTable[i].format \in {"negotiated", "json", "text"}
  /\ \A path : Allowed(RouteTable, path) \subseteq Method
  /\ \A path : Serving(RouteTable, path) # {} =>
       Min(Serving(RouteTable, path)) \in DOMAIN RouteTable
  /\ \A i \in DOMAIN RouteTable :
       Success(RouteTable[i].handler) \in {"json", "text", "html", "external"}
PROOF
<1>1. RouteTable \in Seq(KnownRoute)
  BY RoutesAreKnown DEF RouteTable
<1>2. \A i \in DOMAIN RouteTable : RouteTable[i] \in KnownRoute
  BY <1>1
<1>3. \A known \in KnownRoute : /\ known.format \in {"negotiated", "json", "text"}
                                /\ known.method \in {"GET", "POST"}
  BY DEF KnownRoute
<1>4. \A path : Allowed(RouteTable, path) \subseteq Method
  BY <1>2, <1>3 DEF Allowed, Serving, Method
<1>5. ASSUME NEW path, Serving(RouteTable, path) # {}
      PROVE  Min(Serving(RouteTable, path)) \in DOMAIN RouteTable
  <2>1. Serving(RouteTable, path) \subseteq DOMAIN RouteTable
    BY DEF Serving
  <2> QED BY <1>5, <2>1, RouteFormats, MinIsLeast
<1>6. ASSUME NEW known \in KnownRoute
      PROVE  Success(known.handler) \in {"json", "text", "html", "external"}
  BY NegotiatedFormat DEF KnownRoute, Success, Fields
<1> QED BY <1>2, <1>3, <1>4, <1>5, <1>6

LEMMA TypeNext == TypeOK /\ ChainInv /\ FormatInv /\ [Next]_vars => TypeOK'
PROOF
<1> SUFFICES ASSUME TypeOK, ChainInv, FormatInv, [Next]_vars PROVE TypeOK'
  OBVIOUS
<1>1. UNCHANGED <<config, request, RouteTable>>
  BY RequestIsFixed
<1> USE DEF TypeOK
<1>2. ASSUME NEW i \in DOMAIN RouteTable, RouteTo(i) PROVE TypeOK'
  BY <1>1, <1>2 DEF RouteTo, answerVars
<1>3. CASE NotFound
  BY <1>1, <1>3 DEF NotFound, answerVars, Failure, Problem
<1>4. CASE MethodNotAllowed
  BY <1>1, <1>4, RouteTypes DEF MethodNotAllowed, OtherMethodsOnly, Failure, Problem
<1>5. CASE Options
  BY <1>1, <1>5, RouteTypes DEF Options, OtherMethodsOnly
<1>6. ASSUME NEW problem \in Problem, pc = "handle", Fail(problem),
             retryAfter' \in Nat \cup {Missing}, next' \in Wait \cup {Missing}
      PROVE  TypeOK'
  <2>1. failure' = Failure(problem, RouteTable[route].format)
    BY <1>6 DEF Fail, Routed
  <2>2. failure'.problem \in Problem /\ failure'.format \in {"negotiated", "json", "text"}
    BY <1>6, <2>1, RouteTypes DEF Failure, FormatInv
  <2> QED BY <1>1, <1>6, <2>2 DEF Fail
<1>7. ASSUME NEW wait \in Wait, Unavailable(wait) PROVE TypeOK'
  <2>1. wait > 0 => Seconds(wait) \in Nat
    BY WaitAssumption DEF Seconds
  <2>2. retryAfter' \in Nat \cup {Missing} /\ next' \in Wait \cup {Missing}
    BY <1>7, <2>1 DEF Unavailable
  <2> QED BY <1>6, <1>7, <2>2 DEF Unavailable, Problem
<1>8. CASE BadAddress
  <2>1. IPFromRequest(config, request).problem \in Problem
    BY AddressProblems DEF Problem
  <2> QED BY <1>6, <1>8, <2>1 DEF BadAddress
<1>9. CASE BadCapacity \/ BadRendering
  BY <1>6, <1>9 DEF BadCapacity, BadRendering, Problem
<1>10. CASE Write
  <2>1. Success(Handler) \in {"json", "text", "html", "external"}
    BY <1>10, RouteTypes DEF Write, Handler, FormatInv
  <2> QED BY <1>1, <1>10, <2>1 DEF Write
<1>11. ASSUME NEW status \in {200, 400, 404, 500}, WriteExternal(status)
       PROVE  TypeOK'
  BY <1>1, <1>11 DEF WriteExternal
<1>12. CASE Return \/ \E value \in {"value", "abort"} : Panic(value)
  BY <1>1, <1>12 DEF Return, Panic, chainVars, answerVars
<1>13. CASE Recover
  <2>1. /\ failure'.problem = "internal" /\ failure'.format = "negotiated"
        /\ pc' = "returned"
        /\ UNCHANGED <<route, written, panicking, answerVars, logged>>
    BY <1>13 DEF Recover, Failure
  <2> QED BY <1>1, <2>1 DEF answerVars, Problem
<1>14. CASE Drop
  BY <1>1, <1>14 DEF Drop, chainVars
<1>15. failure # NoFailure =>
         StatusOf(failure.problem) \in {400, 404, 405, 500, 503}
  BY RefusalStatus DEF ChainInv, FailureInv
<1>16. CASE LogRefused
  <2>1. logged' = logged \/ (/\ logged' = Append(logged, StatusOf(failure.problem))
                            /\ failure # NoFailure)
    BY <1>16 DEF LogRefused
  <2>2. logged' \in Seq({400, 404, 405, 500, 503})
    BY <1>15, <2>1
  <2> QED BY <1>1, <1>16, <2>2 DEF LogRefused, chainVars, answerVars
<1>17. CASE Succeed
  BY <1>1, <1>17 DEF Succeed, chainVars, answerVars
<1>18. ASSUME NEW kind \in {"json", "text", "html"}, WriteFailure(kind)
       PROVE  TypeOK'
  <2>1. /\ sent' = Append(sent, StatusOf(failure.problem)) /\ failure # NoFailure
        /\ body' \in {"json", "text", "html"} /\ pc' = "done"
        /\ UNCHANGED <<route, written, panicking, failure, allow, retryAfter,
                       dropped, next, logged>>
    BY <1>18 DEF WriteFailure, chainVars
  <2>2. sent' \in Seq({200, 204, 400, 404, 405, 500, 503})
    BY <1>15, <2>1
  <2> QED BY <1>1, <2>1, <2>2
<1>19. CASE UNCHANGED vars
  BY <1>1, <1>19 DEF vars, chainVars, answerVars
<1> QED
  BY <1>2, <1>3, <1>4, <1>5, <1>7, <1>8, <1>9, <1>10, <1>11, <1>12, <1>13,
     <1>14, <1>16, <1>17, <1>18, <1>19 DEF Next

(* The chain keeps its types: the states of server/handler.go. *)
THEOREM ChainTypeCorrect == Spec => []TypeOK
PROOF
<1>1. Init => TypeOK
  <2> SUFFICES ASSUME Init PROVE TypeOK
    OBVIOUS
  <2>1. failure.problem = None /\ failure.format = "negotiated"
    BY DEF Init, Failure, NoFailure
  <2>2. /\ << >> \in Seq({200, 204, 400, 404, 405, 500, 503})
        /\ << >> \in Seq({400, 404, 405, 500, 503})
    OBVIOUS
  <2> QED BY <2>1, <2>2 DEF Init, TypeOK, Problem
<1> QED BY <1>1, TypeNext, ChainHolds, FormatHolds, PTL DEF Spec

-----------------------------------------------------------------------------
(* f begins with first and takes a step for each number up to N. *)
Recurs(f, first, N, step) ==
  f = [n \in 0..N |-> IF n = 0 THEN first ELSE step[<<f[n - 1], n>>]]

(* A recursion over the first n numbers has a solution. *)
LEMMA Recursion ==
  ASSUME NEW T, NEW first \in T, NEW N \in Nat, NEW step \in [T \X (1..N) -> T]
  PROVE  \E f \in [0..N -> T] : Recurs(f, first, N, step)
PROOF
<1> DEFINE Solves(f, m) ==
             f[0] = first /\ \A n \in 1..m : f[n] = step[<<f[n - 1], n>>]
           unsolved == {m \in 0..N : ~ \E f \in [0..m -> T] : Solves(f, m)}
<1>1. unsolved = {}
  <2> SUFFICES ASSUME unsolved # {} PROVE FALSE
    OBVIOUS
  <2> DEFINE m == Min(unsolved)
  <2>1. m \in unsolved /\ \A i \in unsolved : m <= i
    <3>1. unsolved \in SUBSET Nat
      OBVIOUS
    <3> HIDE DEF unsolved
    <3> QED BY <3>1, MinIsLeast
  <2> HIDE DEF m
  <2>2. m \in 0..N /\ ~ \E f \in [0..m -> T] : Solves(f, m)
    BY <2>1
  <2>3. CASE m = 0
    <3> DEFINE f == [n \in 0..0 |-> first]
    <3>1. f \in [0..0 -> T] /\ Solves(f, 0)
      OBVIOUS
    <3> QED BY <2>2, <2>3, <3>1
  <2>4. CASE m # 0
    <3>1. m - 1 \in 0..N /\ m - 1 \notin unsolved /\ m \in 1..N
      BY <2>1, <2>2, <2>4
    <3>2. PICK g \in [0..(m - 1) -> T] : Solves(g, m - 1)
      BY <3>1
    <3> DEFINE f == [n \in 0..m |-> IF n = m THEN step[<<g[m - 1], m>>] ELSE g[n]]
    <3>3. m - 1 \in 0..(m - 1) /\ step[<<g[m - 1], m>>] \in T
      BY <2>2, <2>4, <3>1, <3>2
    <3>4. /\ f \in [0..m -> T]
          /\ f[m] = step[<<g[m - 1], m>>]
          /\ \A n \in 0..(m - 1) : f[n] = g[n]
      BY <3>1, <3>2, <3>3
    <3> HIDE DEF f
    <3>5. ASSUME NEW n \in 1..m PROVE f[n] = step[<<f[n - 1], n>>]
      <4>1. CASE n = m
        BY <3>1, <3>3, <3>4, <4>1
      <4>2. CASE n # m
        <5>1. n \in 1..(m - 1) /\ n - 1 \in 0..(m - 1) /\ n \in 0..(m - 1)
          BY <3>1, <4>2
        <5> QED BY <3>2, <3>4, <5>1
      <4> QED BY <4>1, <4>2
    <3>6. f[0] = first
      <4>1. 0 \in 0..(m - 1)
        BY <3>1
      <4> QED BY <3>2, <3>4, <4>1
    <3> QED BY <2>2, <3>4, <3>5, <3>6
  <2> QED BY <2>3, <2>4
<1>2. PICK f \in [0..N -> T] : Solves(f, N)
  BY <1>1
<1>3. \A n \in 0..N : f[n] = IF n = 0 THEN first ELSE step[<<f[n - 1], n>>]
  <2> SUFFICES ASSUME NEW n \in 0..N, n # 0 PROVE f[n] = step[<<f[n - 1], n>>]
    BY <1>2
  <2>1. n \in 1..N
    OBVIOUS
  <2> QED BY <1>2, <2>1
<1> QED BY <1>2, <1>3 DEF Recurs


-----------------------------------------------------------------------------
Weight == (0..FullWeight) \cup {Garbage}
AcceptEntry == [type : STRING, weight : Weight]
Unweighed == [type \in NegotiableType |-> Garbage]

(* The map of weights after each entry. *)
LEMMA WeightsByEntry ==
  ASSUME NEW accept \in Seq(AcceptEntry)
  PROVE  \E f :
           /\ Weights(accept) = f[Len(accept)]
           /\ f[0] = Unweighed
           /\ \A n \in 1..Len(accept) : f[n] = Weigh(f[n - 1], accept[n])
PROOF
<1> DEFINE T == [NegotiableType -> Weight]
           N == Len(accept)
           step == [p \in T \X (1..N) |-> Weigh(p[1], accept[p[2]])]
           Equation(f) == f = [n \in 0..N |-> IF n = 0 THEN Unweighed
                                              ELSE Weigh(f[n - 1], accept[n])]
<1>1. N \in Nat /\ Unweighed \in T
  BY DEF Weight, Unweighed
<1>2. step \in [T \X (1..N) -> T]
  <2>1. ASSUME NEW weights \in T, NEW entry \in AcceptEntry
        PROVE  Weigh(weights, entry) \in T
    BY DEF Weigh, AcceptEntry
  <2>2. \A n \in 1..N : accept[n] \in AcceptEntry
    OBVIOUS
  <2> HIDE DEF T
  <2> QED BY <2>1, <2>2
<1>3. PICK f \in [0..N -> T] : Recurs(f, Unweighed, N, step)
  <2> HIDE DEF T, step, N
  <2> QED BY <1>1, <1>2, Recursion
<1>4. Equation(f)
  <2>1. ASSUME NEW n \in 0..N, n # 0
        PROVE  step[<<f[n - 1], n>>] = Weigh(f[n - 1], accept[n])
    <3>1. n \in 1..N /\ n - 1 \in 0..N
      BY <1>1, <2>1
    <3>2. f[n - 1] \in T
      <4> HIDE DEF T, step
      <4> QED BY <1>3, <3>1
    <3> HIDE DEF T
    <3> QED BY <3>1, <3>2
  <2> HIDE DEF T, step
  <2>2. \A n \in 0..N : (IF n = 0 THEN Unweighed ELSE step[<<f[n - 1], n>>])
                        = (IF n = 0 THEN Unweighed ELSE Weigh(f[n - 1], accept[n]))
    BY <2>1
  <2> QED BY <1>3, <2>2 DEF Recurs
<1> DEFINE after == CHOOSE g : Equation(g)
<1>5. Equation(after)
  BY <1>4
<1>6. Weights(accept) = after[N]
  BY DEF Weights, Unweighed
<1> HIDE DEF after
<1>7. after[0] = Unweighed /\ \A n \in 1..N : after[n] = Weigh(after[n - 1], accept[n])
  BY <1>1, <1>5
<1> QED BY <1>6, <1>7

(* The least element of a set, known by being it. *)
LEMMA MinIs ==
  ASSUME NEW S \in SUBSET Nat, NEW x \in S, \A i \in S : x <= i
  PROVE  Min(S) = x
PROOF
<1>1. Min(S) \in S /\ Min(S) <= x
  BY MinIsLeast
<1>2. Min(S) \in Nat /\ x \in Nat /\ x <= Min(S)
  BY <1>1
<1> QED BY <1>1, <1>2

(* The first n entries that give the type a weight. *)
Found(accept, type, n) ==
  {i \in 1..n : accept[i].type = type /\ accept[i].weight # Garbage}

(* The weight of the first of them. *)
FirstWeight(accept, type, n) ==
  IF Found(accept, type, n) = {} THEN Garbage
  ELSE accept[Min(Found(accept, type, n))].weight

(* One more entry. *)
LEMMA FoundMore ==
  ASSUME NEW accept \in Seq(AcceptEntry), NEW type \in NegotiableType,
         NEW n \in 1..Len(accept)
  PROVE  FirstWeight(accept, type, n) =
           IF FirstWeight(accept, type, n - 1) = Garbage /\ accept[n].type = type
           THEN accept[n].weight
           ELSE FirstWeight(accept, type, n - 1)
PROOF
<1> DEFINE before == Found(accept, type, n - 1)
           now == Found(accept, type, n)
<1>1. n \in Nat /\ n \in 1..n /\ n \notin 1..(n - 1) /\ before \in SUBSET Nat /\ now \in SUBSET Nat
  BY DEF Found
<1>2. /\ before \subseteq now /\ now \subseteq before \cup {n}
      /\ n \in now <=> accept[n].type = type /\ accept[n].weight # Garbage
      /\ \A i \in before : i < n /\ accept[i].weight # Garbage
  BY <1>1 DEF Found
<1>3. CASE before # {}
  <2>1. Min(before) \in before /\ \A i \in before : Min(before) <= i
    <3> HIDE DEF before
    <3> QED BY <1>1, <1>3, MinIsLeast
  <2>2. Min(before) \in now /\ \A i \in now : Min(before) <= i
    <3> HIDE DEF before, now
    <3>1. Min(before) < n /\ Min(before) \in Nat
      BY <1>1, <1>2, <2>1
    <3> QED BY <1>1, <1>2, <2>1, <3>1
  <2>3. Min(now) = Min(before)
    <3> HIDE DEF before, now
    <3> QED BY <1>1, <2>2, MinIs
  <2> QED BY <1>2, <1>3, <2>1, <2>2, <2>3 DEF FirstWeight
<1>4. CASE before = {}
  <2>1. CASE n \in now
    <3>1. Min(now) = n
      <4> HIDE DEF before, now
      <4>1. \A i \in now : n <= i
        BY <1>1, <1>2, <1>4
      <4> QED BY <1>1, <2>1, <4>1, MinIs
    <3> QED BY <1>2, <1>4, <2>1, <3>1 DEF FirstWeight
  <2>2. CASE n \notin now
    <3>1. now = {}
      BY <1>2, <1>4, <2>2
    <3> QED BY <1>2, <1>4, <2>2, <3>1 DEF FirstWeight
  <2> QED BY <2>1, <2>2
<1> QED BY <1>3, <1>4

(* A type weighs what the first entry says that gives it a weight. *)
LEMMA WeightsOfTypes ==
  ASSUME NEW accept \in Seq(AcceptEntry)
  PROVE  Weights(accept) = [type \in NegotiableType |-> FirstWeight(accept, type, Len(accept))]
PROOF
<1> DEFINE N == Len(accept)
           firsts(n) == [type \in NegotiableType |-> FirstWeight(accept, type, n)]
           wrong(f) == {n \in 0..N : f[n] # firsts(n)}
<1>1. PICK f : /\ Weights(accept) = f[N]
               /\ f[0] = Unweighed
               /\ \A n \in 1..N : f[n] = Weigh(f[n - 1], accept[n])
  BY WeightsByEntry
<1>2. wrong(f) = {}
  <2> SUFFICES ASSUME wrong(f) # {} PROVE FALSE
    OBVIOUS
  <2> DEFINE n == Min(wrong(f))
  <2>1. n \in wrong(f) /\ \A i \in wrong(f) : n <= i
    <3>1. wrong(f) \in SUBSET Nat
      OBVIOUS
    <3> HIDE DEF wrong
    <3> QED BY <3>1, MinIsLeast
  <2> HIDE DEF n
  <2>2. n \in 0..N /\ N \in Nat /\ f[n] # firsts(n)
    BY <2>1
  <2>3. n # 0
    <3>1. firsts(0) = Unweighed
      BY DEF FirstWeight, Found, Unweighed
    <3> QED BY <1>1, <2>2, <3>1
  <2>4. n \in 1..N /\ n - 1 \in 0..N /\ ~ (n <= n - 1)
    BY <2>2, <2>3
  <2>5. f[n - 1] = firsts(n - 1)
    BY <2>1, <2>4
  <2>6. f[n] = Weigh(firsts(n - 1), accept[n])
    BY <1>1, <2>4, <2>5
  <2>7. \A type \in NegotiableType :
          FirstWeight(accept, type, n) =
            IF firsts(n - 1)[type] = Garbage /\ accept[n].type = type
            THEN accept[n].weight
            ELSE firsts(n - 1)[type]
    BY <2>4, FoundMore
  <2>8. Weigh(firsts(n - 1), accept[n]) = firsts(n)
    BY <2>7 DEF Weigh
  <2> QED BY <2>2, <2>6, <2>8
<1>3. f[N] = firsts(N)
  <2>1. N \in 0..N
    OBVIOUS
  <2> QED BY <1>2, <2>1
<1> QED BY <1>1, <1>3

-----------------------------------------------------------------------------
(* What a type weighs for the choice: nothing when it has no weight. *)
Counts(accept, type) ==
  IF type = "none" \/ Weights(accept)[type] = Garbage THEN 0 ELSE Weights(accept)[type]

Heavier(accept, best, type) ==
  IF Counts(accept, type) > Counts(accept, best) THEN type ELSE best

(* The choice goes through the types in order. *)
LEMMA PreferredByType ==
  ASSUME NEW accept
  PROVE  LET json == Heavier(accept, "none", "json")
             text == Heavier(accept, json, "text")
         IN  PreferredMediaType(accept) = Heavier(accept, text, "html")
PROOF
<1> DEFINE T == NegotiableType \cup {"none"}
           step == [p \in T \X (1..3) |-> Heavier(accept, p[1], Negotiable[p[2]])]
           Equation(f) == f = [n \in 0..3 |->
             CASE n = 0 -> "none"
               [] n > 0 /\ Counts(accept, Negotiable[n]) > Counts(accept, f[n - 1]) -> Negotiable[n]
               [] OTHER -> f[n - 1]]
<1>1. /\ Len(Negotiable) = 3
      /\ Negotiable[1] = "json" /\ Negotiable[2] = "text" /\ Negotiable[3] = "html"
      /\ \A n \in 1..3 : Negotiable[n] \in T
  BY DEF Negotiable, NegotiableType
<1>2. step \in [T \X (1..3) -> T]
  BY <1>1 DEF Heavier
<1>3. PICK f \in [0..3 -> T] : Recurs(f, "none", 3, step)
  <2>1. "none" \in T /\ 3 \in Nat
    OBVIOUS
  <2> HIDE DEF T, step
  <2> QED BY <1>2, <2>1, Recursion
<1>4. Equation(f)
  <2>1. ASSUME NEW n \in 0..3, n # 0
        PROVE  step[<<f[n - 1], n>>] = Heavier(accept, f[n - 1], Negotiable[n])
    <3>1. n \in 1..3 /\ n - 1 \in 0..3
      BY <2>1
    <3>2. f[n - 1] \in T
      <4> HIDE DEF T, step
      <4> QED BY <1>3, <3>1
    <3> HIDE DEF T
    <3> QED BY <3>1, <3>2
  <2> HIDE DEF T, step
  <2>2. \A n \in 0..3 : (IF n = 0 THEN "none" ELSE step[<<f[n - 1], n>>])
          = (CASE n = 0 -> "none"
               [] n > 0 /\ Counts(accept, Negotiable[n]) > Counts(accept, f[n - 1]) -> Negotiable[n]
               [] OTHER -> f[n - 1])
    BY <2>1 DEF Heavier
  <2> QED BY <1>3, <2>2 DEF Recurs
<1> DEFINE best == CHOOSE g : Equation(g)
<1>5. Equation(best)
  BY <1>4
<1>6. PreferredMediaType(accept) = best[3]
  BY <1>1 DEF PreferredMediaType, Counts
<1> HIDE DEF best
<1>7. /\ best[0] = "none"
      /\ \A n \in 1..3 : best[n] = Heavier(accept, best[n - 1], Negotiable[n])
  BY <1>5 DEF Heavier
<1>8. /\ best[1] = Heavier(accept, best[0], Negotiable[1])
      /\ best[2] = Heavier(accept, best[1], Negotiable[2])
      /\ best[3] = Heavier(accept, best[2], Negotiable[3])
  BY <1>7
<1> QED BY <1>1, <1>6, <1>7, <1>8

(* The choice is the first of the types that weigh most, if any weighs     *)
(* anything.                                                               *)
LEMMA PreferredIsBest ==
  ASSUME NEW accept \in Seq(AcceptEntry), NEW w,
         \A type \in NegotiableType : w[type] \in Nat /\ w[type] = Counts(accept, type)
  PROVE  LET accepted == {i \in 1..3 : w[Negotiable[i]] > 0}
             best == {i \in accepted : \A j \in accepted : w[Negotiable[i]] >= w[Negotiable[j]]}
         IN  PreferredMediaType(accept) = IF best = {} THEN None ELSE Negotiable[Min(best)]
PROOF
<1> DEFINE accepted == {i \in 1..3 : w[Negotiable[i]] > 0}
           best == {i \in accepted : \A j \in accepted : w[Negotiable[i]] >= w[Negotiable[j]]}
           first == IF w["json"] > 0 THEN "json" ELSE "none"
           second == IF w["text"] > 0 /\ w["text"] > w["json"] THEN "text" ELSE first
           third == IF /\ w["html"] > 0
                       /\ w["html"] > w["json"] /\ w["html"] > w["text"]
                    THEN "html" ELSE second
<1>1. Negotiable[1] = "json" /\ Negotiable[2] = "text" /\ Negotiable[3] = "html"
  BY DEF Negotiable
<1>2. /\ w["json"] \in Nat /\ w["text"] \in Nat /\ w["html"] \in Nat
      /\ Counts(accept, "none") = 0
      /\ Counts(accept, "json") = w["json"]
      /\ Counts(accept, "text") = w["text"]
      /\ Counts(accept, "html") = w["html"]
  BY DEF NegotiableType, Counts
<1>3. PreferredMediaType(accept) = third
  <2>1. Heavier(accept, "none", "json") = first
    BY <1>2 DEF Heavier
  <2>2. Heavier(accept, first, "text") = second
    BY <1>2 DEF Heavier
  <2>3. Heavier(accept, second, "html") = third
    BY <1>2 DEF Heavier
  <2> QED BY <2>1, <2>2, <2>3, PreferredByType
<1>4. best \in SUBSET Nat
  OBVIOUS
<1>5. /\ 1 \in best <=> /\ w["json"] > 0
                        /\ w["json"] >= w["text"] /\ w["json"] >= w["html"]
      /\ 2 \in best <=> /\ w["text"] > 0
                        /\ w["text"] >= w["json"] /\ w["text"] >= w["html"]
      /\ 3 \in best <=> /\ w["html"] > 0
                        /\ w["html"] >= w["json"] /\ w["html"] >= w["text"]
      /\ \A i \in best : i \in {1, 2, 3}
  <2>1. \A i \in 1..3 : i \in best <=>
          /\ w[Negotiable[i]] > 0
          /\ \A j \in 1..3 : w[Negotiable[j]] > 0 => w[Negotiable[i]] >= w[Negotiable[j]]
    OBVIOUS
  <2>2. 1 \in 1..3 /\ 2 \in 1..3 /\ 3 \in 1..3 /\ \A j \in 1..3 : j = 1 \/ j = 2 \/ j = 3
    OBVIOUS
  <2>3. \A i \in best : i \in {1, 2, 3}
    OBVIOUS
  <2> HIDE DEF best
  <2>4. 1 \in best <=> /\ w["json"] > 0
                      /\ w["json"] >= w["text"] /\ w["json"] >= w["html"]
    BY <1>1, <1>2, <2>1, <2>2
  <2>5. 2 \in best <=> /\ w["text"] > 0
                      /\ w["text"] >= w["json"] /\ w["text"] >= w["html"]
    BY <1>1, <1>2, <2>1, <2>2
  <2>6. 3 \in best <=> /\ w["html"] > 0
                      /\ w["html"] >= w["json"] /\ w["html"] >= w["text"]
    BY <1>1, <1>2, <2>1, <2>2
  <2> QED BY <2>3, <2>4, <2>5, <2>6
<1> HIDE DEF best
<1>6. CASE 1 \in best
  <2>1. Min(best) = 1
    BY <1>4, <1>5, <1>6, MinIs
  <2>2. third = "json"
    BY <1>2, <1>5, <1>6
  <2> QED BY <1>1, <1>3, <1>6, <2>1, <2>2 DEF best
<1>7. CASE 1 \notin best /\ 2 \in best
  <2>1. Min(best) = 2
    BY <1>4, <1>5, <1>7, MinIs
  <2>2. third = "text"
    BY <1>2, <1>5, <1>7
  <2> QED BY <1>1, <1>3, <1>7, <2>1, <2>2 DEF best
<1>8. CASE 1 \notin best /\ 2 \notin best /\ 3 \in best
  <2>1. Min(best) = 3
    BY <1>4, <1>5, <1>8, MinIs
  <2>2. third = "html"
    BY <1>2, <1>5, <1>8
  <2> QED BY <1>1, <1>3, <1>8, <2>1, <2>2 DEF best
<1>9. CASE 1 \notin best /\ 2 \notin best /\ 3 \notin best
  <2>1. best = {}
    BY <1>5, <1>9
  <2>2. third = "none"
    BY <1>2, <1>5, <1>9
  <2> QED BY <1>3, <2>1, <2>2 DEF best, None
<1> QED BY <1>6, <1>7, <1>8, <1>9

(* The media type preferred is the one that RFC 9110 asks for:             *)
(* preferredMediaType (request.go:65-91).                                  *)
THEOREM BestIsPreferred == Spec => []PreferenceIsBest
PROOF
<1>1. ASSUME request \in Request PROVE PreferenceIsBest
  <2> DEFINE accept == request.accept
             entries(type) == {i \in DOMAIN accept : /\ accept[i].type = type
                                                     /\ accept[i].weight # Garbage}
             w(type) == IF entries(type) = {} THEN 0 ELSE accept[Min(entries(type))].weight
             W == [type \in NegotiableType |-> w(type)]
  <2>1. accept \in Seq(AcceptEntry)
    BY <1>1, RequestAssumption DEF AcceptEntry, Weight
  <2> HIDE DEF accept
  <2>2. ASSUME NEW type \in NegotiableType
        PROVE  w(type) \in Nat /\ w(type) = Counts(accept, type)
    <3>1. entries(type) = Found(accept, type, Len(accept))
      BY <2>1 DEF Found
    <3>2. entries(type) # {} => Min(entries(type)) \in entries(type)
      <4>1. entries(type) \in SUBSET Nat
        BY <2>1
      <4> HIDE DEF entries
      <4> QED BY <4>1, MinIsLeast
    <3>3. \A i \in entries(type) : accept[i].weight # Garbage /\ accept[i].weight \in Nat
      <4>1. \A i \in DOMAIN accept : accept[i] \in AcceptEntry
        BY <2>1
      <4> QED BY <4>1, FullWeightAssumption DEF AcceptEntry, Weight
    <3>4. Weights(accept)[type] = FirstWeight(accept, type, Len(accept))
      BY <2>1, WeightsOfTypes
    <3>5. type # "none"
      BY DEF NegotiableType
    <3> HIDE DEF entries
    <3> QED BY <3>1, <3>2, <3>3, <3>4, <3>5, FullWeightAssumption DEF Counts, FirstWeight
  <2>3. /\ \A type \in NegotiableType : W[type] \in Nat /\ W[type] = Counts(accept, type)
        /\ \A i \in 1..3 : Negotiable[i] \in NegotiableType /\ W[Negotiable[i]] = w(Negotiable[i])
        /\ DOMAIN Negotiable = 1..3
    <3>1. DOMAIN Negotiable = 1..3 /\ \A i \in 1..3 : Negotiable[i] \in NegotiableType
      BY DEF Negotiable, NegotiableType
    <3> HIDE DEF w
    <3> QED BY <2>2, <3>1
  <2> DEFINE accepted == {i \in DOMAIN Negotiable : w(Negotiable[i]) > 0}
             best == {i \in accepted : \A j \in accepted : w(Negotiable[i]) >= w(Negotiable[j])}
             Accepted == {i \in 1..3 : W[Negotiable[i]] > 0}
             Best == {i \in Accepted : \A j \in Accepted : W[Negotiable[i]] >= W[Negotiable[j]]}
  <2>4. PreferredMediaType(accept) = IF Best = {} THEN None ELSE Negotiable[Min(Best)]
    <3> HIDE DEF W
    <3> QED BY <2>1, <2>3, PreferredIsBest
  <2>5. Best = best
    <3> HIDE DEF W, w
    <3> QED BY <2>3
  <2>6. PreferredMediaType(accept) = IF best = {} THEN None ELSE Negotiable[Min(best)]
    BY <2>4, <2>5
  <2> QED BY <2>6 DEF PreferenceIsBest, accept
<1> QED BY <1>1, FixedHolds, PTL

=============================================================================
