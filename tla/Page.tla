-------------------------------- MODULE Page --------------------------------
(***************************************************************************)
(* The page of a browser (server/handler.go:290-329). Its response is made *)
(* or taken from the cache by newResponse (module Service). After that     *)
(* browserHandler reads the databases four times more, under a lock each:  *)
(* the build dates of the footer, and whether the buttons of a database    *)
(* have an answer. The updater may reload before any of the four.          *)
(***************************************************************************)
EXTENDS Service

VARIABLES
  part,  \* what each page reads next, or "none" while none is rendered
  shown  \* the builds its response was made from

pageVars == <<part, shown>>
vars == <<serviceVars, pageVars>>

PageInit ==
  /\ Init
  /\ part = [r \in Request |-> "none"]
  /\ shown = [r \in Request |-> Nothing.built]

-----------------------------------------------------------------------------
(* newResponse has answered r, from the cache or from its lookups. *)
Answered(r) == wants[r] = "page" /\ phase[r] \in {"get", "set"} /\ phase'[r] = "idle"

BuiltFrom(r) ==
  IF phase[r] = "get" THEN cache.entries[asks[r]].response.built ELSE answer[r].built

Render(r) ==
  /\ part' = [part EXCEPT ![r] = "city date"]
  /\ shown' = [shown EXCEPT ![r] = BuiltFrom(r)]

(* JSON is done with its response, a page goes on with it. *)
Respond(r) ==
  /\ RequestStep(r)
  /\ \/ UNCHANGED pageVars
     \/ Answered(r) /\ Render(r)

AfterPart(p) ==
  CASE p = "city date" -> "asn date"
    [] p = "asn date" -> "city buttons"
    [] p = "city buttons" -> "asn buttons"
    [] p = "asn buttons" -> "none"

(* geoBuilt and chips, one lock at a time; the page is written at the end. *)
Read(r) ==
  /\ part[r] # "none"
  /\ part' = [part EXCEPT ![r] = AfterPart(@)]
  /\ shown' = IF part[r] = "asn buttons"
              THEN [shown EXCEPT ![r] = Nothing.built]
              ELSE shown
  /\ UNCHANGED serviceVars

PageArrive(r, what, a) ==
  /\ part[r] = "none"
  /\ Arrive(r, what, a)
  /\ UNCHANGED pageVars

PageNext ==
  \/ \E r \in Request, what \in Db \cup {"page"}, a \in Addr : PageArrive(r, what, a)
  \/ \E r \in Request : Respond(r)
  \/ \E r \in Request : Read(r)
  \/ /\ \/ \E r \in Request : Leave(r)
        \/ \E capacity \in Capacity : Resize(capacity)
        \/ \E builds \in [Db -> Builds] : Download(builds)
        \/ CallbackStep
     /\ UNCHANGED pageVars

PageSpec == PageInit /\ [][PageNext]_vars

-----------------------------------------------------------------------------
(* What a part of the page reads: CityBuilt and CityLoaded, ASNBuilt and   *)
(* ASNLoaded. A database that is not loaded has no date.                   *)
DbOf(p) == IF p \in {"city date", "city buttons"} THEN "city" ELSE "asn"

(* A page never contradicts itself (handler.go:302-308): the footer does   *)
(* not credit what is shown to an older build than it came from, or to     *)
(* none, and no button of a database whose data is shown says that it is   *)
(* not loaded, whichever reloads come between the five reads.              *)
PageAgrees ==
  [][\A r \in Request : part'[r] # part[r] /\ part[r] # "none" =>
       LET d == DbOf(part[r])
       IN  IF part[r] \in {"city date", "asn date"}
           THEN shown[r][d] <= loaded[d]
           ELSE shown[r][d] # 0 => loaded[d] # 0]_vars

=============================================================================
