-------------------------------- MODULE Flags --------------------------------
(***************************************************************************)
(* What the command line and the environment ask for                       *)
(* (cmd/echoip/main.go): the networks of -T, whether the flags are         *)
(* accepted, and whether the updater runs (maxmind/maxmind.go:89-97).      *)
(*                                                                         *)
(* An IPv6 address has Bits6 bits and maybe a zone. Those of block 1,      *)
(* counted in blocks of the size of IPv4, are IPv4 addresses in their      *)
(* mapped form. Durations wrap as int64 does.                              *)
(***************************************************************************)
EXTENDS Integers

CONSTANTS
  Bits4, Bits6, \* the bits of an address
  Zone,         \* the interfaces an IPv6 address may belong to
  Hour,         \* time.Hour
  MaxDuration   \* the longest time.Duration

ASSUME BitsAssumption == Bits4 \in Nat \ {0} /\ Bits6 \in Nat /\ Bits4 < Bits6
NoZone == ""

ASSUME ZoneAssumption == NoZone \notin Zone
ASSUME DurationAssumption == Hour \in Nat \ {0} /\ MaxDuration \in Nat /\ Hour <= MaxDuration

(* A definition marked `Fault' is a bug the one after it might have had;   *)
(* no specification uses it.                                               *)

-----------------------------------------------------------------------------
(* Addresses and networks, as net/netip has them. *)

BitLen(family) == IF family = 4 THEN Bits4 ELSE Bits6

Address ==
  [family : {4}, n : 0..(2^Bits4 - 1), zone : {NoZone}]
    \cup [family : {6}, n : 0..(2^Bits6 - 1), zone : Zone \cup {NoZone}]

Is4In6(addr) == addr.family = 6 /\ addr.n \div 2^Bits4 = 1

Unmapped(addr) ==
  IF Is4In6(addr)
  THEN [family |-> 4, n |-> addr.n - 2^Bits4, zone |-> NoZone]
  ELSE addr

(* The address of a peer is unmapped and keeps its zone.                   *)
Peer == {Unmapped(addr) : addr \in Address}

(* The addresses a network of this many bits comes in blocks of. *)
BlockSize(family, bits) == 2^(BitLen(family) - bits)

(* A network holds addresses of its own family only, and none with a zone. *)
Contains(prefix, addr) ==
  LET size == BlockSize(prefix.addr.family, prefix.bits)
  IN  /\ addr.zone = NoZone
      /\ addr.family = prefix.addr.family
      /\ addr.n \div size = prefix.addr.n \div size

-----------------------------------------------------------------------------
(* -T. A text is an address with the bits of a network, or NoBits. *)

NoBits == 0 - 1

Text == [addr : Address, bits : NoBits..(Bits6 + 1)]

Network(addr, bits) == [addr |-> addr, bits |-> bits]

Refused == Network([family |-> 0, n |-> 0, zone |-> NoZone], 0)

(* PrefixFrom drops the zone. *)
Single(addr) == Network([addr EXCEPT !.zone = NoZone], BitLen(addr.family))

IsPrefix(text) ==
  text.addr.zone = NoZone /\ text.bits \in 0..BitLen(text.addr.family)

(* A zone lasts to the end of the text and takes a slash with it. *)
IsAddr(text) == text.addr.zone # NoZone \/ text.bits = NoBits

HostBits(text) == text.addr.n % BlockSize(text.addr.family, text.bits) # 0

(* Fault: host bits are masked off. *)
ParseAndMask(text) ==
  IF IsPrefix(text)
  THEN IF Is4In6(text.addr) THEN Refused ELSE Network(text.addr, text.bits)
  ELSE IF IsAddr(text) THEN Single(Unmapped(text.addr)) ELSE Refused

ParsePrefix(text) ==
  IF IsPrefix(text)
  THEN IF Is4In6(text.addr) \/ HostBits(text)
       THEN Refused
       ELSE Network(text.addr, text.bits)
  ELSE IF IsAddr(text) THEN Single(Unmapped(text.addr)) ELSE Refused

-----------------------------------------------------------------------------
(* args is the command line and the environment: what fs.Parse stops at,   *)
(* whether -V, -c and -a are there, the hours of -u, the texts of -T,      *)
(* which come first, and the two credentials.                              *)

TrustedProxies(args) == {ParsePrefix(text) : text \in args.proxies}

ParseFlags(args) ==
  IF Refused \in TrustedProxies(args) THEN "error"
  ELSE IF args.stops = "help" THEN "help"
  ELSE IF args.stops = "malformed" \/ args.hours < 0 THEN "error"
  ELSE "options"

(* The product wraps around. *)
UpdateInterval(args) ==
  LET min == 0 - MaxDuration - 1
  IN  ((args.hours * Hour - min) % (2 * (MaxDuration + 1))) + min

Editions(args) ==
  (IF args.city THEN {"city"} ELSE {}) \cup (IF args.asn THEN {"asn"} ELSE {})

Scheduled(args) == UpdateInterval(args) > 0 /\ Editions(args) # {}

Enabled(args) == Scheduled(args) /\ args.accountID /\ args.licenseKey

(* Fault: the license key is not asked for. *)
MissingAccount(args) ==
  IF Scheduled(args) /\ ~ args.accountID THEN "MAXMIND_ACCOUNT_ID" ELSE ""

MissingCredential(args) ==
  IF ~ Scheduled(args) THEN ""
  ELSE IF ~ args.accountID THEN "MAXMIND_ACCOUNT_ID"
  ELSE IF ~ args.licenseKey THEN "GEOIP_LICENSE_KEY"
  ELSE ""

=============================================================================
