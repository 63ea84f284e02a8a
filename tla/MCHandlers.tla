----------------------------- MODULE MCHandlers -----------------------------
(***************************************************************************)
(* Three samples of requests, each exhaustive in what it is about: every   *)
(* method on every path, every origin of an address, and every Accept of   *)
(* two entries at most. The configurations vary the routes, the headers    *)
(* and the proxies.                                                        *)
(***************************************************************************)
EXTENDS Handlers

CONSTANTS public, private, proxy

Hosts == {public, private, proxy}

At(host) == [host |-> host, mapped |-> FALSE]

MappedAt(host) == [host |-> host, mapped |-> TRUE]

NoHeaders == [header \in {"X-Forwarded-For", "X-Real-IP"} |-> << >>]

Headers ==
  [{"X-Forwarded-For", "X-Real-IP"} ->
     {<< >>, <<At(public)>>, <<At(private), At(public)>>, <<Missing, At(public)>>}]

Plain ==
  [method |-> "GET", path |-> <<"ip">>, accept |-> << >>, cli |-> TRUE,
   ip |-> Missing, headers |-> NoHeaders, peer |-> At(private)]

Paths ==
  {<<"">>, <<"health">>, <<"json">>, <<"city">>, <<"asn">>,
   <<"debug", "cache", "resize">>, <<"debug", "cache", "">>,
   <<"debug", "pprof", "heap">>, <<"debug", "pprof">>}

Routing ==
  {[Plain EXCEPT !.method = method, !.path = path, !.cli = cli, !.ip = ip] :
     method \in Method, path \in Paths, cli \in BOOLEAN, ip \in {Missing, Garbage}}

Addressing ==
  {[Plain EXCEPT !.ip = ip, !.headers = headers, !.peer = peer] :
     ip \in {Missing, Garbage, MappedAt(public), MappedAt(private)},
     headers \in Headers,
     peer \in {At(public), MappedAt(proxy), Garbage}}

Entry == [type : NegotiableType \cup {"other"}, weight : {0, 1, 2, Garbage}]

Negotiating ==
  {[Plain EXCEPT !.path = <<"">>, !.accept = accept, !.cli = cli] :
     accept \in {<< >>} \cup {<<e>> : e \in Entry} \cup (Entry \X Entry),
     cli \in BOOLEAN}

Requests3 == Routing \cup Addressing \cup Negotiating

Default ==
  [headers |-> <<"X-Real-IP", "X-Forwarded-For">>, trusted |-> {{At(proxy)}},
   city |-> TRUE, asn |-> TRUE, profile |-> TRUE, updater |-> TRUE]

Configs ==
  {[Default EXCEPT !.city = city, !.asn = asn, !.profile = profile, !.updater = updater] :
     city \in BOOLEAN, asn \in BOOLEAN, profile \in BOOLEAN, updater \in BOOLEAN}
  \cup {[Default EXCEPT !.headers = headers, !.trusted = trusted] :
     headers \in {<< >>, <<"X-Forwarded-For">>}, trusted \in {{}, {{At(proxy)}}}}

(* Each sample with what it depends on. *)
MCInit ==
  /\ Init
  /\ request \in Addressing => config.profile /\ config.city /\ config.asn
  /\ request \in Negotiating => config = Default
  /\ request \in Routing \ Addressing => config.headers = Default.headers

MCSpec == MCInit /\ [][Next]_vars

(* Past, at once, within a second, whole seconds and just beyond. *)
Waits == {-5, -3, 0, 1, 3, 4, 5, 8, 9}

=============================================================================
