----------------------------- MODULE MCLifecycle -----------------------------
(***************************************************************************)
(* Two samples of command lines: every combination of what decides whether *)
(* the updater runs, and every text of -T, with -V.                        *)
(***************************************************************************)
EXTENDS Lifecycle

Plain ==
  [stops |-> "nothing", version |-> FALSE, hours |-> 1, city |-> TRUE, asn |-> FALSE,
   proxies |-> {}, accountID |-> TRUE, licenseKey |-> TRUE]

(* One hour fits in a Duration, two and four wrap around. *)
Settings ==
  {[Plain EXCEPT !.stops = stops, !.hours = hours, !.city = city, !.asn = asn,
                 !.accountID = accountID, !.licenseKey = licenseKey] :
     stops \in {"nothing", "help", "malformed"}, hours \in {-1, 0, 1, 2, 4},
     city \in BOOLEAN, asn \in BOOLEAN, accountID \in BOOLEAN, licenseKey \in BOOLEAN}

Proxies == {[Plain EXCEPT !.version = TRUE, !.proxies = {text}] : text \in Text}

CommandLines == Settings \cup Proxies

=============================================================================
