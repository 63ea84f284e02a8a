------------------------------ MODULE Handlers ------------------------------
(***************************************************************************)
(* One request on its way through the chain of Server.Handler: the request *)
(* log around the recovery of panics around the router around the handlers *)
(* (server/handler.go), and what becomes of a failure (server/error.go).   *)
(*                                                                         *)
(* The chain keeps nothing from one request to the next. What matters is   *)
(* the order within one: a handler may fail, write or panic at any point,  *)
(* and the layers around it have to make one answer and one line in the    *)
(* log of it. The handlers of pprof are not the server's own and answer as *)
(* they like.                                                              *)
(***************************************************************************)
EXTENDS Requests, Router

CONSTANTS
  Config,   \* server.Config: headers, trusted, city, asn, profile, updater
  Request,  \* the requests: method, path, accept, cli, ip, headers, peer
  Wait,     \* how far away NextCheck may be, in the past too
  Second    \* the length of a second in the unit of Wait

ASSUME WaitAssumption == Wait \subseteq Int /\ Second \in Nat \ {0}
ASSUME ConfigAssumption ==
  \A c \in Config : "headers" \in DOMAIN c /\ c.headers \in Seq(STRING)
ASSUME RequestAssumption ==
  \A r \in Request :
    /\ r.ip \in Value
    /\ r.peer \in Address \cup {Garbage}
    /\ r.accept \in Seq([type : STRING, weight : (0..FullWeight) \cup {Garbage}])
    /\ \A c \in Config : \A i \in DOMAIN c.headers :
         r.headers[c.headers[i]] \in Seq(Value)

VARIABLES
  config,      \* fixed while the server runs
  request,
  pc,          \* the layer the request has come to
  route,       \* the index of its route, 0 without one
  written,     \* trackingWriter.written
  panicking,   \* what the handler panicked with
  failure,     \* the appError on its way out
  allow,       \* the header Allow
  retryAfter,  \* the header Retry-After
  sent,        \* every status that was written
  body,        \* what kind of body followed it
  logged,      \* the statuses logRefused wrote a line for
  dropped,     \* net/http closed the connection over a panic
  next         \* history: how far away NextCheck was

answerVars == <<allow, retryAfter, sent, body, dropped, next>>
chainVars == <<route, written, panicking, failure>>
vars == <<config, request, pc, chainVars, answerVars, logged>>

None == "none"

Failure(problem, format) == [problem |-> problem, format |-> format]

NoFailure == Failure(None, "negotiated")

StatusOf(problem) ==
  CASE problem \in {"invalid-address", "not-public-address", "invalid-capacity"} -> 400
    [] problem = "not-found" -> 404
    [] problem = "method-not-allowed" -> 405
    [] problem = "internal" -> 500
    [] problem = "database-unavailable" -> 503

RouteTable == Routes(config)

Handler == IF route = 0 THEN None ELSE RouteTable[route].handler

Init ==
  /\ config \in Config
  /\ request \in Request
  /\ pc = "route"
  /\ route = 0
  /\ written = FALSE
  /\ panicking = None
  /\ failure = NoFailure
  /\ allow = {}
  /\ retryAfter = Missing
  /\ sent = << >>
  /\ body = None
  /\ logged = << >>
  /\ dropped = FALSE
  /\ next = Missing

-----------------------------------------------------------------------------
(* The router. *)

(* The first route that answers the method on the path. *)
RouteTo(i) ==
  /\ pc = "route"
  /\ i \in Answering(RouteTable, request.path, request.method)
  /\ \A j \in Answering(RouteTable, request.path, request.method) : i <= j
  /\ route' = i
  /\ pc' = "handle"
  /\ UNCHANGED <<config, request, written, panicking, failure, answerVars, logged>>

NotFound ==
  /\ pc = "route"
  /\ Serving(RouteTable, request.path) = {}
  /\ failure' = Failure("not-found", "negotiated")
  /\ pc' = "returned"
  /\ UNCHANGED <<config, request, route, written, panicking, answerVars, logged>>

(* The path is there, and no route on it takes the method. *)
OtherMethodsOnly ==
  /\ pc = "route"
  /\ Serving(RouteTable, request.path) # {}
  /\ Answering(RouteTable, request.path, request.method) = {}
  /\ allow' = Allowed(RouteTable, request.path)
  /\ pc' = "returned"

MethodNotAllowed ==
  /\ OtherMethodsOnly
  /\ request.method # "OPTIONS"
  /\ failure' =
       Failure("method-not-allowed",
               RouteTable[Min(Serving(RouteTable, request.path))].format)
  /\ UNCHANGED <<config, request, route, written, panicking, retryAfter, sent,
                 body, dropped, next, logged>>

Options ==
  /\ OtherMethodsOnly
  /\ request.method = "OPTIONS"
  /\ sent' = Append(sent, 204)
  /\ written' = TRUE
  /\ UNCHANGED <<config, request, route, panicking, failure, retryAfter, body,
                 dropped, next, logged>>

(* A failure takes the format of the route it comes from. *)
Routed(problem) == Failure(problem, RouteTable[route].format)

-----------------------------------------------------------------------------
(* The handlers. *)

Fields == {"city", "asn"}

NeedsAddress == Fields \cup {"root", "json", "ip"}

(* What a handler answers in when it succeeds. *)
Success(handler) ==
  CASE handler \in Fields \cup {"ip"} -> "text"
    [] handler \in {"health", "json", "cache", "resize"} -> "json"
    [] handler = "root" -> NegotiateFormat(request)
    [] handler = "pprof" -> "external"

Fail(problem) ==
  /\ failure' = Routed(problem)
  /\ pc' = "returned"
  /\ UNCHANGED <<config, request, route, written, panicking, allow, sent, body,
                 dropped, logged>>

(* Fault: the seconds are rounded down. *)
SecondsDown(wait) == wait \div Second

(* Rounded up, so a client does not come back before the attempt. *)
Seconds(wait) == (wait + Second - 1) \div Second

(* Fault: an attempt that lies in the past is told as well. *)
UnavailableAnyTime(wait) ==
  /\ pc = "handle"
  /\ Handler \in Fields
  /\ IF config.updater
     THEN /\ next' = wait
          /\ retryAfter' = Seconds(wait)
     ELSE UNCHANGED <<next, retryAfter>>
  /\ Fail("database-unavailable")

(* A field endpoint without its database, with the next attempt of the     *)
(* updater, if there is one and it lies ahead.                             *)
Unavailable(wait) ==
  /\ pc = "handle"
  /\ Handler \in Fields
  /\ IF config.updater
     THEN /\ next' = wait
          /\ retryAfter' = IF wait > 0 THEN Seconds(wait) ELSE Missing
     ELSE UNCHANGED <<next, retryAfter>>
  /\ Fail("database-unavailable")

BadAddress ==
  /\ pc = "handle"
  /\ Handler \in NeedsAddress
  /\ IPFromRequest(config, request).problem # None
  /\ Fail(IPFromRequest(config, request).problem)
  /\ UNCHANGED <<retryAfter, next>>

BadCapacity ==
  /\ pc = "handle"
  /\ Handler = "resize"
  /\ Fail("invalid-capacity")
  /\ UNCHANGED <<retryAfter, next>>

(* The JSON or the page cannot be rendered. *)
BadRendering ==
  /\ pc = "handle"
  /\ Handler \in {"root", "json", "cache", "resize"}
  /\ Handler \in NeedsAddress => IPFromRequest(config, request).problem = None
  /\ Success(Handler) # "text"
  /\ Fail("internal")
  /\ UNCHANGED <<retryAfter, next>>

(* The first byte is written. Nothing was rendered in halves, so only what *)
(* is done after the write can go wrong now.                               *)
Write ==
  /\ pc = "handle"
  /\ Handler # "pprof"
  /\ Handler \in NeedsAddress => IPFromRequest(config, request).problem = None
  /\ sent' = Append(sent, 200)
  /\ body' = Success(Handler)
  /\ written' = TRUE
  /\ pc' = "wrote"
  /\ UNCHANGED <<config, request, route, panicking, failure, allow, retryAfter,
                 dropped, next, logged>>

(* pprof answers for itself, refusals included. *)
WriteExternal(status) ==
  /\ pc = "handle"
  /\ Handler = "pprof"
  /\ sent' = Append(sent, status)
  /\ body' = "external"
  /\ written' = TRUE
  /\ pc' = "wrote"
  /\ UNCHANGED <<config, request, route, panicking, failure, allow, retryAfter,
                 dropped, next, logged>>

Return ==
  /\ pc = "wrote"
  /\ pc' = "returned"
  /\ UNCHANGED <<config, request, chainVars, answerVars, logged>>

Panic(value) ==
  /\ pc \in {"handle", "wrote"}
  /\ panicking' = value
  /\ pc' = "recover"
  /\ UNCHANGED <<config, request, route, written, failure, answerVars, logged>>

-----------------------------------------------------------------------------
(* The layers around the router. *)

(* Fault: it is not known whether the handler has written. *)
RecoverUntracked ==
  /\ pc = "recover"
  /\ panicking # "abort"
  /\ failure' = Failure("internal", "negotiated")
  /\ pc' = "returned"
  /\ UNCHANGED <<config, request, route, written, panicking, answerVars, logged>>

(* A panic before the first byte becomes a failure. *)
Recover ==
  /\ pc = "recover"
  /\ panicking # "abort"
  /\ ~ written
  /\ failure' = Failure("internal", "negotiated")
  /\ pc' = "returned"
  /\ UNCHANGED <<config, request, route, written, panicking, answerVars, logged>>

(* A panic after it, and one that asks for it, drops the connection.       *)
Drop ==
  /\ pc = "recover"
  /\ panicking = "abort" \/ written
  /\ dropped' = TRUE
  /\ pc' = "done"
  /\ UNCHANGED <<config, request, chainVars, allow, retryAfter, sent, body, next,
                 logged>>

(* Fault: only what the router refuses is logged. *)
LogRefusedByRouter ==
  /\ pc = "returned"
  /\ logged' = IF failure # NoFailure /\ route = 0
               THEN Append(logged, StatusOf(failure.problem)) ELSE logged
  /\ pc' = "answer"
  /\ UNCHANGED <<config, request, chainVars, answerVars>>

LogRefused ==
  /\ pc = "returned"
  /\ logged' = IF failure # NoFailure
               THEN Append(logged, StatusOf(failure.problem)) ELSE logged
  /\ pc' = "answer"
  /\ UNCHANGED <<config, request, chainVars, answerVars>>

(* ServeHTTP has nothing to add to a success. *)
Succeed ==
  /\ pc = "answer"
  /\ failure = NoFailure
  /\ pc' = "done"
  /\ UNCHANGED <<config, request, chainVars, answerVars, logged>>

(* The page of an error that cannot be rendered is replaced by text.       *)
WriteFailure(kind) ==
  /\ pc = "answer"
  /\ failure # NoFailure
  /\ LET format == IF failure.format = "negotiated"
                   THEN NegotiateFormat(request) ELSE failure.format
     IN  kind = format \/ (kind = "text" /\ format = "html")
  /\ sent' = Append(sent, StatusOf(failure.problem))
  /\ body' = kind
  /\ pc' = "done"
  /\ UNCHANGED <<config, request, chainVars, allow, retryAfter, dropped, next,
                 logged>>

-----------------------------------------------------------------------------
Next ==
  \/ \E i \in DOMAIN RouteTable : RouteTo(i)
  \/ NotFound
  \/ MethodNotAllowed
  \/ Options
  \/ \E wait \in Wait : Unavailable(wait)
  \/ BadAddress
  \/ BadCapacity
  \/ BadRendering
  \/ Write
  \/ \E status \in {200, 400, 404, 500} : WriteExternal(status)
  \/ Return
  \/ \E value \in {"value", "abort"} : Panic(value)
  \/ Recover
  \/ Drop
  \/ LogRefused
  \/ Succeed
  \/ \E kind \in {"json", "text", "html"} : WriteFailure(kind)

Spec == Init /\ [][Next]_vars

-----------------------------------------------------------------------------
Problem == {None, "invalid-address", "not-public-address", "invalid-capacity",
            "not-found", "method-not-allowed", "internal", "database-unavailable"}

(* The chain, the answer and the log keep their types. *)
TypeOK ==
  /\ config \in Config
  /\ pc \in {"route", "handle", "wrote", "recover", "returned", "answer", "done"}
  /\ route \in {0} \cup DOMAIN RouteTable
  /\ written \in BOOLEAN
  /\ panicking \in {None, "value", "abort"}
  /\ failure.problem \in Problem
  /\ failure.format \in {"negotiated", "json", "text"}
  /\ allow \subseteq Method
  /\ retryAfter \in Nat \cup {Missing}
  /\ sent \in Seq({200, 204, 400, 404, 405, 500, 503})
  /\ body \in {None, "json", "text", "html", "external"}
  /\ logged \in Seq({400, 404, 405, 500, 503})
  /\ dropped \in BOOLEAN
  /\ next \in Wait \cup {Missing}

(* Every request ends in one answer or in a dropped connection, whatever   *)
(* failed or panicked on the way: no status follows another, and a client  *)
(* never takes half an answer for a whole one (handler.go:56-78).          *)
OneAnswer ==
  /\ Len(sent) <= 1
  /\ pc = "done" =>
       dropped \/ (Len(sent) = 1 /\ (panicking # None => sent = <<500>>))

(* Every refusal the server makes leaves one line in the log, with the     *)
(* status the client gets, and nothing else does: "the only trace a probe  *)
(* leaves" (handler.go:26-27), that of a panic included, which is made     *)
(* when the handler is gone (handler.go:56-78).                            *)
RefusalsLogged ==
  pc = "done" /\ ~ dropped /\ body # "external" =>
    logged = IF sent[1] >= 400 THEN sent ELSE << >>

(* A failure comes in the format a success would have come in              *)
(* (error.go:61-62), on the route that answers or, for a 405, on the first *)
(* one on the path: a script that asks for JSON or text never gets a page, *)
(* although handlers choose the format of a success and routes that of a   *)
(* failure. A panic has lost its route and is negotiated.                  *)
FailsLikeSuccess ==
  LET serving == Serving(RouteTable, request.path)
      handler == RouteTable[IF route # 0 THEN route ELSE Min(serving)].handler
  IN  /\ pc = "done" /\ failure # NoFailure /\ panicking = None
      /\ serving # {}
      /\ handler # "pprof"
      => \/ body = Success(handler)
         \/ body = "text" /\ Success(handler) = "html"

(* Allow tells the truth: it lists exactly the methods that some route on  *)
(* the path would have answered (router.go:41-43), and HEAD with GET.      *)
AllowIsHonest ==
  allow # {} =>
    \A method \in Method \ {"OPTIONS"} :
      method \in allow <=> Answering(RouteTable, request.path, method) # {}

(* Whatever the caller sends, the server reports the peer or a public      *)
(* address, in its one unmapped form, which the cache relies on; and what  *)
(* a peer that is not trusted put into the headers changes nothing         *)
(* (request.go:111-162).                                                   *)
AddressIsVouchedFor ==
  LET got == IPFromRequest(config, request)
  IN  /\ got.problem = None =>
           /\ ~ got.addr.mapped
           /\ got.addr.host \in PublicHost \/ got.addr = PeerAddr(request)
      /\ ~ Trusts(config, PeerAddr(request)) =>
           got = IPFromRequest([config EXCEPT !.headers = << >>], request)

(* The media type that is preferred, against its definition by RFC 9110:   *)
(* of the types the client accepts at all, one it weighs most, and the     *)
(* first of those in the order of the server (request.go:61-91). The first *)
(* well-formed entry of a type tells its weight.                           *)
PreferenceIsBest ==
  LET entries(type) ==
        {i \in DOMAIN request.accept : /\ request.accept[i].type = type
                                       /\ request.accept[i].weight # Garbage}
      w(type) == IF entries(type) = {} THEN 0 ELSE request.accept[Min(entries(type))].weight
      accepted == {i \in DOMAIN Negotiable : w(Negotiable[i]) > 0}
      best == {i \in accepted : \A j \in accepted : w(Negotiable[i]) >= w(Negotiable[j])}
  IN  pc = "route" =>
        PreferredMediaType(request.accept) =
          IF best = {} THEN None ELSE Negotiable[Min(best)]

(* A client that waits for Retry-After comes back after the attempt it is  *)
(* told of, and within a second of it (handler.go:211).                    *)
RetryNotEarly ==
  retryAfter # Missing =>
    /\ retryAfter * Second >= next
    /\ (retryAfter - 1) * Second < next

=============================================================================
