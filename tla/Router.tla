------------------------------- MODULE Router -------------------------------
(***************************************************************************)
(* The routes of Server.Handler (server/server.go:105-130) and how the     *)
(* router finds one (server/router.go). A path is the sequence of its      *)
(* parts between the slashes, so a path that ends in a slash ends in an    *)
(* empty part. One field endpoint of each database stands for all.         *)
(***************************************************************************)
EXTENDS Naturals, Sequences, FiniteSetsExt

Method == {"GET", "HEAD", "POST", "OPTIONS"}

Exactly(method, path, format, handler) ==
  [method |-> method, path |-> path, prefix |-> FALSE,
   format |-> format, handler |-> handler]

ServerRoutes ==
  << Exactly("GET", <<"">>, "negotiated", "root"),
     Exactly("GET", <<"health">>, "json", "health"),
     Exactly("GET", <<"json">>, "json", "json"),
     Exactly("GET", <<"ip">>, "text", "ip") >>

(* Fault: the format of a field endpoint is left to negotiation. *)
FieldRouteNegotiated(db) == Exactly("GET", <<db>>, "negotiated", db)

FieldRoute(db) == Exactly("GET", <<db>>, "text", db)

DebugRoutes ==
  << Exactly("POST", <<"debug", "cache", "resize">>, "json", "resize"),
     Exactly("GET", <<"debug", "cache", "">>, "json", "cache"),
     Exactly("GET", <<"debug", "pprof", "profile">>, "negotiated", "pprof"),
     [method |-> "GET", path |-> <<"debug", "pprof", "">>, prefix |-> TRUE,
      format |-> "negotiated", handler |-> "pprof"] >>

Routes(config) ==
  ServerRoutes
  \o (IF config.city THEN << FieldRoute("city") >> ELSE << >>)
  \o (IF config.asn THEN << FieldRoute("asn") >> ELSE << >>)
  \o (IF config.profile THEN DebugRoutes ELSE << >>)

-----------------------------------------------------------------------------
(* The path of a prefix route ends in a slash. *)
Serves(route, path) ==
  IF route.prefix
  THEN /\ Len(path) >= Len(route.path)
       /\ \A i \in 1..(Len(route.path) - 1) : path[i] = route.path[i]
  ELSE path = route.path

(* HEAD asks for the headers a GET would send. *)
MatchesMethod(route, method) ==
  route.method = method \/ (method = "HEAD" /\ route.method = "GET")

Serving(routes, path) == {i \in DOMAIN routes : Serves(routes[i], path)}

Answering(routes, path, method) ==
  {i \in Serving(routes, path) : MatchesMethod(routes[i], method)}

(* Fault: HEAD is not listed with GET. *)
AllowedAsRouted(routes, path) ==
  {routes[i].method : i \in Serving(routes, path)} \cup {"OPTIONS"}

(* What Allow lists: the methods of the routes on the path, HEAD with GET, *)
(* and OPTIONS.                                                            *)
Allowed(routes, path) ==
  LET routed == {routes[i].method : i \in Serving(routes, path)}
  IN  routed \cup {"OPTIONS"} \cup (IF "GET" \in routed THEN {"HEAD"} ELSE {})

=============================================================================
