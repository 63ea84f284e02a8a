------------------------------ MODULE Lifecycle ------------------------------
(***************************************************************************)
(* The life of the process: main and run (cmd/echoip/main.go),             *)
(* ListenAndServe (server/server.go:147-172) with its listener goroutine,  *)
(* the connections of net/http, and the goroutine of the updater, whose    *)
(* checks are module Updater and appear here as one step each way.         *)
(*                                                                         *)
(* main, the listener, each connection, the updater, the clock and the     *)
(* operator who signals run in any order. The process ends when main       *)
(* returns, whatever the others are doing.                                 *)
(***************************************************************************)
EXTENDS Flags

CONSTANTS
  Args,  \* the command lines and environments it is started with
  Conn   \* the slots of connections, one request each

(* The exit status, or that the process runs, or that a signal ended it. *)
Running == 0 - 1
Killed == 128

ASSUME ArgsAssumption ==
  \A args \in Args :
    /\ DOMAIN args = {"stops", "version", "hours", "city", "asn", "proxies",
                      "accountID", "licenseKey"}
    /\ args.hours \in Int
    /\ args.proxies \subseteq Text
    /\ {args.version, args.city, args.asn, args.accountID, args.licenseKey} \subseteq BOOLEAN

(* A definition marked `Fault' is a bug the one after it might have had;   *)
(* no specification uses it.                                               *)

VARIABLES
  args,       \* the command line and the environment
  stage,      \* where main is
  status,     \* what main ends with
  signalled,  \* SIGINT or SIGTERM came, so the context of run is done
  listener,   \* the goroutine of server.go:161, and what it left in serveErr
  conn,       \* whether each connection is new, in a request, or none
  expired,    \* shutdownTimeout is over
  updater,    \* the goroutine of Updater.Run
  next        \* the time that Run published, which is when its timer fires

serverVars == <<listener, conn>>
updaterVars == <<updater, next>>
vars == <<args, stage, status, signalled, serverVars, expired, updaterVars>>

Init ==
  /\ args \in Args
  /\ stage = "flags"
  /\ status = Running
  /\ signalled = FALSE
  /\ listener = "none"
  /\ conn = [c \in Conn |-> "none"]
  /\ expired = FALSE
  /\ updater = "none"
  /\ next = "idle"

-----------------------------------------------------------------------------
(* main *)

(* What ends main before it has a context for signals, or Running. *)
EndsEarly ==
  CASE ParseFlags(args) = "error" -> 2
    [] ParseFlags(args) = "help" -> 0
    [] OTHER -> IF args.version THEN 0
                ELSE IF MissingCredential(args) # "" THEN 1
                ELSE Running

(* Fault: only an exit status other than 0 ends the start. *)
ParseGoesOn ==
  /\ stage = "flags"
  /\ status' = EndsEarly
  /\ stage' = IF EndsEarly \in {Running, 0} THEN "boot" ELSE "exited"
  /\ UNCHANGED <<args, signalled, serverVars, expired, updaterVars>>

Parse ==
  /\ stage = "flags"
  /\ status' = EndsEarly
  /\ stage' = IF EndsEarly = Running THEN "boot" ELSE "exited"
  /\ UNCHANGED <<args, signalled, serverVars, expired, updaterVars>>

(* The check before geo.Open has a timeout and ends early when the context *)
(* is done. Then both goroutines start.                                    *)
Boot ==
  /\ stage = "boot"
  /\ stage' = "select"
  /\ listener' = "starting"
  /\ updater' = IF Enabled(args) THEN "starting" ELSE "none"
  /\ UNCHANGED <<args, status, signalled, conn, expired, next>>

Return(code) ==
  /\ stage' = "returned"
  /\ status' = code
  /\ UNCHANGED <<args, signalled, serverVars, expired, updaterVars>>

(* Fault: whatever the listener returns is taken for the shutdown. *)
ListenerStatusIgnored == 0

ListenerStatus == IF listener = "error" THEN 1 ELSE 0

(* The select of ListenAndServe takes either of two that are ready. *)
ReceiveError ==
  /\ stage = "select"
  /\ listener \in {"error", "closed"}
  /\ Return(ListenerStatus)

ContextDone ==
  /\ stage = "select"
  /\ signalled
  /\ stage' = "shutdown"
  /\ UNCHANGED <<args, status, signalled, serverVars, expired, updaterVars>>

(* Fault: the server is closed under its requests. *)
CloseAll ==
  /\ stage = "shutdown"
  /\ Return(0)

(* Shutdown waits for the connections that are new or in a request. *)
Drained ==
  /\ stage = "shutdown"
  /\ \A c \in Conn : conn[c] = "none"
  /\ Return(0)

(* Fault: the shutdown has no deadline. *)
NeverExpires == FALSE /\ UNCHANGED vars

Expire ==
  /\ stage = "shutdown"
  /\ ~ expired
  /\ expired' = TRUE
  /\ UNCHANGED <<args, stage, status, signalled, serverVars, updaterVars>>

(* The error of the deadline is no ErrServerClosed. *)
GiveUp ==
  /\ stage = "shutdown"
  /\ expired
  /\ Return(1)

Exit ==
  /\ stage = "returned"
  /\ stage' = "exited"
  /\ UNCHANGED <<args, status, signalled, serverVars, expired, updaterVars>>

-----------------------------------------------------------------------------
(* Signals *)

(* NotifyContext takes every signal until run returns; the second and the  *)
(* following change nothing.                                               *)
Signal ==
  /\ stage \in {"boot", "select", "shutdown"}
  /\ ~ signalled
  /\ signalled' = TRUE
  /\ UNCHANGED <<args, stage, status, serverVars, expired, updaterVars>>

(* Before it and after stop, a signal ends the process. *)
Kill ==
  /\ stage \in {"flags", "returned"}
  /\ signalled' = TRUE
  /\ stage' = "exited"
  /\ status' = Killed
  /\ UNCHANGED <<args, serverVars, expired, updaterVars>>

-----------------------------------------------------------------------------
(* The listener and its connections, as net/http runs them *)

Alive == stage \in {"select", "shutdown", "returned"}

(* Shutdown has begun. *)
ShuttingDown == stage \in {"shutdown", "returned"}

ListenerBecomes(state) ==
  /\ listener' = state
  /\ UNCHANGED <<args, stage, status, signalled, conn, expired, updaterVars>>

Listen ==
  /\ Alive /\ ~ ShuttingDown
  /\ listener = "starting"
  /\ ListenerBecomes("open")

(* The address is taken, or Accept fails for good. *)
ListenerFails ==
  /\ Alive /\ ~ ShuttingDown
  /\ listener \in {"starting", "open"}
  /\ ListenerBecomes("error")

(* ErrServerClosed, also when the shutdown came before the listener. *)
ListenerCloses ==
  /\ Alive /\ ShuttingDown
  /\ listener \in {"starting", "open"}
  /\ ListenerBecomes("closed")

Moves(c, from, to) ==
  /\ Alive
  /\ conn[c] = from
  /\ conn' = [conn EXCEPT ![c] = to]
  /\ UNCHANGED <<args, stage, status, signalled, listener, expired, updaterVars>>

Connect(c) == ~ ShuttingDown /\ listener = "open" /\ Moves(c, "none", "new")

(* A connection that is accepted may still send its request. *)
Request(c) == Moves(c, "new", "request")

Answer(c) == Moves(c, "request", "none")

(* The client leaves, or Shutdown closes what has sent nothing so far. *)
Drop(c) == Moves(c, "new", "none")

-----------------------------------------------------------------------------
(* The updater *)

UpdaterBecomes(state, time) ==
  /\ updater' = state
  /\ next' = time
  /\ UNCHANGED <<args, stage, status, signalled, serverVars, expired>>

(* The timer is set to the time that is published. *)
RunStarts == Alive /\ updater = "starting" /\ UpdaterBecomes("wait", "ahead")

TimeComes == Alive /\ next = "ahead" /\ UpdaterBecomes(updater, "past")

CheckBegins ==
  Alive /\ updater = "wait" /\ next = "past" /\ UpdaterBecomes("check", next)

CheckEnds == Alive /\ updater = "check" /\ UpdaterBecomes("wait", "ahead")

(* run stops taking signals when it returns, which ends its context too. *)
Done == signalled \/ stage = "returned"

(* Fault: the time is not taken back. *)
RunReturnsOnly ==
  Alive /\ updater = "wait" /\ Done /\ UpdaterBecomes("returned", next)

(* The context is done, while the timer may have fired as well. *)
RunReturns ==
  Alive /\ updater = "wait" /\ Done /\ UpdaterBecomes("returned", "idle")

-----------------------------------------------------------------------------
MainStep ==
  \/ Parse
  \/ Boot
  \/ ReceiveError
  \/ ContextDone
  \/ Drained
  \/ GiveUp
  \/ Exit

UpdaterStep == RunStarts \/ TimeComes \/ CheckBegins \/ CheckEnds \/ RunReturns

Next ==
  \/ MainStep
  \/ Expire
  \/ Signal
  \/ Kill
  \/ Listen
  \/ ListenerFails
  \/ ListenerCloses
  \/ \E c \in Conn : Connect(c) \/ Request(c) \/ Answer(c) \/ Drop(c)
  \/ UpdaterStep

Spec == Init /\ [][Next]_vars

(* Go schedules main and its timeout comes. Nothing makes a request end. *)
FairSpec == Spec /\ WF_vars(MainStep) /\ WF_vars(Expire)

-----------------------------------------------------------------------------
(* Settings, goroutines and connections keep their types, and main has an  *)
(* exit status once it has returned.                                       *)
TypeOK ==
  /\ args \in Args
  /\ stage \in {"flags", "boot", "select", "shutdown", "returned", "exited"}
  /\ status \in {Running, 0, 1, 2, Killed}
  /\ status # Running <=> stage \in {"returned", "exited"}
  /\ signalled \in BOOLEAN
  /\ listener \in {"none", "starting", "open", "error", "closed"}
  /\ conn \in [Conn -> {"none", "new", "request"}]
  /\ expired \in BOOLEAN
  /\ updater \in {"none", "starting", "wait", "check", "returned"}
  /\ next \in {"idle", "ahead", "past"}

(* A signal ends the process (main.go:161, server.go:147-148): also when   *)
(* it comes during the check before geo.Open, before the listener runs, or *)
(* while requests run that never end.                                      *)
SignalEnds == signalled ~> (stage = "exited")

Cut == {c \in Conn : stage = "exited" /\ conn[c] = "request"}

(* "SIGTERM and SIGINT stop the listener and give running requests up to   *)
(* 10 seconds to finish" (README.md:247): unless the listener failed, a    *)
(* request is cut only when that time is over, and never under the exit    *)
(* status of a shutdown that is complete.                                  *)
GraceKept ==
  Cut # {} => (expired \/ listener = "error") /\ status # 0

(* The exit status tells a supervisor why the process ended                *)
(* (main.go:155-158, 210-214): a server that was not told to stop ends     *)
(* only because it lost its listener, and with 1, and one that was told to *)
(* stop ends with 1 only if it lost its listener or the time for its       *)
(* requests was over.                                                      *)
StatusTellsWhy ==
  stage = "exited" /\ listener # "none" =>
    /\ ~ signalled => status = 1 /\ listener = "error"
    /\ status = 1 => listener = "error" \/ expired

(* "Required when a database is configured and -u is not 0, otherwise the  *)
(* server exits on start" (README.md:183): Scheduled, Enabled,             *)
(* missingCredential and the flags agree, so a server that serves updates  *)
(* its databases if and only if it was asked to. Hours beyond what a       *)
(* Duration holds are excepted.                                            *)
UpdatesAsAsked ==
  Alive /\ args.hours <= MaxDuration \div Hour =>
    (updater # "none" <=> args.hours # 0 /\ (args.city \/ args.asn))

(* "Retry-After names the seconds until the updater tries again. It is     *)
(* left out with -u 0, where no updater runs, and while a check is         *)
(* running" (README.md:172-173): as long as a time in the future is        *)
(* published, Run waits for it, also while a shutdown lets requests        *)
(* finish.                                                                 *)
RetryIsComing ==
  Alive /\ next = "ahead" => updater = "wait"

(* -T believes the headers of whom it names (main.go:54-73), and "a typo   *)
(* cannot widen it silently": a network that is accepted holds the peer it *)
(* begins with and those up to its end, and an address holds itself. The   *)
(* peer of a mapped address is the IPv4 one, because the server unmaps     *)
(* both. A peer with a zone is in none, not even in an address that was    *)
(* written with that zone, because the peer keeps its zone                 *)
(* (request.go:157, 169).                                                  *)
TrustsAsWritten ==
  stage # "flags" /\ ParseFlags(args) # "error" =>
    \A text \in args.proxies, peer \in Peer :
      LET written == Unmapped(text.addr)
          last == IF text.addr.zone # NoZone \/ text.bits = NoBits
                  THEN written.n
                  ELSE written.n + 2^(BitLen(written.family) - text.bits) - 1
      IN  Contains(ParsePrefix(text), peer) <=>
            /\ peer.family = written.family
            /\ peer.zone = NoZone
            /\ peer.n \in written.n..last

=============================================================================
