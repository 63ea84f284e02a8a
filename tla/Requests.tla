------------------------------ MODULE Requests ------------------------------
(***************************************************************************)
(* What the server reads from a request: the address it is about and the   *)
(* format it is answered in (server/request.go).                           *)
(*                                                                         *)
(* A value of the caller is an address, in its mapped form or not, or no   *)
(* address at all, or missing. A port beside the address is dropped and    *)
(* does not appear. A header holds the entries of a comma separated list.  *)
(***************************************************************************)
EXTENDS Integers, Sequences, FiniteSetsExt

CONSTANTS
  Host,       \* what an address names, whatever form it is written in
  PublicHost, \* of those, the ones iputil.Public accepts
  FullWeight, \* the weight 1, in steps of the smallest weight
  Missing,    \* an empty value
  Garbage     \* a value that does not parse

Address == [host : Host, mapped : BOOLEAN]

Value == Address \cup {Missing, Garbage}

ASSUME PublicHostAssumption == PublicHost \subseteq Host
ASSUME FullWeightAssumption == FullWeight \in Nat \ {0}
ASSUME ValueAssumption ==
  /\ Missing \notin Address
  /\ Garbage \notin Address \cup {Missing} \cup 0..FullWeight

(* A definition marked `Fault' is a bug the one after it might have had;   *)
(* no specification uses it.                                               *)

-----------------------------------------------------------------------------
(* The address. *)

Unmap(addr) == [addr EXCEPT !.mapped = FALSE]

PeerAddr(request) ==
  IF request.peer = Garbage THEN Garbage ELSE Unmap(request.peer)

(* A prefix is the set of the unmapped addresses in it. Without prefixes   *)
(* every peer is believed, and a peer without an address is in none.       *)
Trusts(config, peer) ==
  config.trusted = {} \/ \E prefix \in config.trusted : peer \in prefix

(* The first entry of X-Forwarded-For, and other headers as a whole: a     *)
(* list is no address.                                                     *)
HeaderValue(request, header) ==
  LET entries == request.headers[header]
  IN  CASE Len(entries) = 0 -> Missing
        [] Len(entries) > 0 /\ header = "X-Forwarded-For" -> entries[1]
        [] Len(entries) = 1 /\ header # "X-Forwarded-For" -> entries[1]
        [] OTHER -> Garbage

(* Fault: the headers of any peer are believed. *)
ForwardedByAnyone(config, request) ==
  LET value(i) == HeaderValue(request, config.headers[i])
      set == {i \in DOMAIN config.headers : value(i) # Missing}
  IN  IF set = {} THEN Missing ELSE value(Min(set))

(* The first of the configured headers that a trusted peer has set. *)
Forwarded(config, request) ==
  LET value(i) == HeaderValue(request, config.headers[i])
      set == {i \in DOMAIN config.headers : value(i) # Missing}
  IN  IF set = {} \/ ~ Trusts(config, PeerAddr(request))
      THEN Missing
      ELSE value(Min(set))

Reports(addr) == [problem |-> "none", addr |-> addr]

Refuses(problem) == [problem |-> problem, addr |-> Garbage]

SuppliedAddr(value) ==
  CASE value = Garbage -> Refuses("invalid-address")
    [] value # Garbage /\ value.host \notin PublicHost -> Refuses("not-public-address")
    [] OTHER -> Reports(Unmap(value))

(* ?ip= wins over a header, and a header over the peer. *)
IPFromRequest(config, request) ==
  CASE request.ip # Missing -> SuppliedAddr(request.ip)
    [] request.ip = Missing /\ Forwarded(config, request) # Missing ->
         SuppliedAddr(Forwarded(config, request))
    [] OTHER ->
         IF PeerAddr(request) = Garbage
         THEN Refuses("internal")
         ELSE Reports(PeerAddr(request))

-----------------------------------------------------------------------------
(* The format. *)

Negotiable == <<"json", "text", "html">>  \* the order breaks a tie

NegotiableType == {"json", "text", "html"}

(* Fault: a malformed weight counts as one. *)
WeighAnything(weights, entry) ==
  IF entry.type \notin NegotiableType \/ weights[entry.type] # Garbage
  THEN weights
  ELSE [weights EXCEPT ![entry.type] =
          IF entry.weight = Garbage THEN FullWeight ELSE entry.weight]

(* The first entry of a type that has a weight gives the type its weight.  *)
(* An entry of no type, or of another, is passed over.                     *)
Weigh(weights, entry) ==
  IF entry.type \notin NegotiableType \/ weights[entry.type] # Garbage
  THEN weights
  ELSE [weights EXCEPT ![entry.type] = entry.weight]

Weights(accept) ==
  LET after[n \in 0..Len(accept)] ==
        IF n = 0 THEN [type \in NegotiableType |-> Garbage]
        ELSE Weigh(after[n - 1], accept[n])
  IN  after[Len(accept)]

(* An absent type weighs nothing, and a type must weigh more to win. *)
PreferredMediaType(accept) ==
  LET weights == Weights(accept)
      w(type) == IF type = "none" \/ weights[type] = Garbage THEN 0 ELSE weights[type]
      best[n \in 0..Len(Negotiable)] ==
        CASE n = 0 -> "none"
          [] n > 0 /\ w(Negotiable[n]) > w(best[n - 1]) -> Negotiable[n]
          [] OTHER -> best[n - 1]
  IN  best[Len(Negotiable)]

(* An explicit choice of JSON or text, then text for a command line. *)
NegotiateFormat(request) ==
  LET preferred == PreferredMediaType(request.accept)
  IN  CASE preferred \in {"json", "text"} -> preferred
        [] preferred \notin {"json", "text"} /\ request.cli -> "text"
        [] OTHER -> "html"

=============================================================================
