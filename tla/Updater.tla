------------------------------- MODULE Updater -------------------------------
(***************************************************************************)
(* maxmind.Updater (maxmind/maxmind.go): the check at the start of the     *)
(* server, the checks of Run and what they leave on disk, against a        *)
(* MaxMind that publishes new builds at any time.                          *)
(*                                                                         *)
(* Two clocks matter and are kept apart. The pace of the checks is counted *)
(* in ticks of retryInterval: a check takes no tick, because its downloads *)
(* have ten minutes each. Whether a conditional request is answered by 304 *)
(* depends only on whether the file was written or touched before or after *)
(* the last publication, so a publication resets a flag instead of being   *)
(* given a time.                                                           *)
(***************************************************************************)
EXTENDS Integers, Sequences

CONSTANTS
  Interval,  \* the refresh interval, -u, in ticks
  MaxBuild,  \* bound: the builds MaxMind publishes of each edition
  MaxExits,  \* bound: how often the process ends
  Faulty     \* the editions whose download may fail, at any of its steps

Edition == <<"asn", "city">>  \* in the order of slices.Sorted

Editions == {"asn", "city"}

maxRetries == 2

retryDelay == 1  \* min(Interval, retryInterval)

Garbled == 0 - 1  \* the bytes of no build

ASSUME IntervalAssumption == Interval \in Nat \ {0}
ASSUME BoundsAssumption == MaxBuild \in Nat \ {0} /\ MaxExits \in Nat
ASSUME FaultyAssumption == Faulty \subseteq Editions

(* A definition marked `Fault' is a bug the one after it might have had;   *)
(* no specification uses it.                                               *)

VARIABLES
  (* MaxMind *)
  published,  \* the last build of each edition
  (* the disk *)
  file,       \* the build in each file, 0 while there is none
  age,        \* ticks since it was written or touched, no more than Interval
  confirmed,  \* it was written or touched after the last publication
  temps,      \* how many temporary files there are
  (* the process *)
  pc,         \* the next step
  booting,    \* the check is the one before geo.Open
  at,         \* which edition is being downloaded
  archive,    \* the build the response carries
  recent,     \* the temporary file was written after the last publication
  changed,    \* an edition was replaced in this check
  erred,      \* an edition could not be downloaded in this check
  failures,   \* failed checks in a row
  timer,      \* ticks until the next check
  unloaded,   \* editions replaced on disk and not opened since
  (* history *)
  trouble,    \* whether geo.Open or a reload failed last on a file that is there
  starts,     \* how long ago the last checks of Run began, in ticks, at most Interval
  bootStart,  \* how long ago the check before geo.Open began, likewise
  exits       \* how often the process has ended

diskVars == <<file, age, confirmed>>
checkVars == <<booting, at, archive, recent, changed, erred>>
paceVars == <<failures, timer, starts, bootStart>>
loadVars == <<unloaded, trouble>>
vars == <<published, diskVars, temps, pc, checkVars, paceVars, loadVars, exits>>

-----------------------------------------------------------------------------
Age(e) == IF file[e] = 0 THEN Interval ELSE age[e]

(* Missing, or older than Interval. *)
Stale == \E e \in Editions : Age(e) >= Interval

(* The ticks left until the oldest file is due. *)
NextRefresh ==
  IF Stale
  THEN retryDelay
  ELSE CHOOSE t \in 1..Interval :
         /\ \E e \in Editions : t = Interval - Age(e)
         /\ \A e \in Editions : t <= Interval - Age(e)

(* Fault: the checks of a failing updater never slow down. *)
WaitRetries(n) == IF n = 0 THEN NextRefresh ELSE retryDelay

Wait(n) ==
  CASE n = 0 -> NextRefresh
    [] n \in 1..maxRetries -> retryDelay
    [] OTHER -> Interval

(* Fault: the count never starts over. *)
AfterAnyFailure(n) == n + 1

AfterFailure(n) == IF n > maxRetries THEN 1 ELSE n + 1

(* The last checks of Run, one more than may follow each other quickly, and *)
(* none of them within the interval.                                       *)
LastChecks == 1..(maxRetries + 2)

NoStarts == [i \in LastChecks |-> Interval]

(* Whoever put the first files there did not backdate MaxMind: a file is   *)
(* newer than the last publication only when it is that build.             *)
Init ==
  /\ published = [e \in Editions |-> 1]
  /\ file \in [Editions -> {0, 1}]
  /\ age \in [Editions -> 0..Interval]
  /\ confirmed = [e \in Editions |-> file[e] = 1]
  /\ \A e \in Editions : file[e] = 0 => age[e] = Interval
  /\ temps = 0
  /\ pc = "start"
  /\ booting = TRUE
  /\ at = 1
  /\ archive = 0
  /\ recent = FALSE
  /\ changed = FALSE
  /\ erred = FALSE
  /\ failures = 0
  /\ timer = 0
  /\ unloaded = Editions
  /\ trouble = "none"
  /\ starts = NoStarts
  /\ bootStart = Interval
  /\ exits = 0

-----------------------------------------------------------------------------
(* Every file and archive written so far is older than this publication. *)
Publish(e) ==
  /\ published[e] < MaxBuild
  /\ published' = [published EXCEPT ![e] = @ + 1]
  /\ confirmed' = [confirmed EXCEPT ![e] = FALSE]
  /\ recent' = (recent /\ Edition[at] # e)
  /\ UNCHANGED <<file, age, temps, pc, booting, at, archive, changed, erred,
                 paceVars, loadVars, exits>>

(* The count of ticks stops at Interval. *)
Older(t) == IF t < Interval THEN t + 1 ELSE t

(* Time passes while Run waits for its timer, or while no process runs. *)
Tick ==
  /\ pc = "off" \/ (pc = "wait" /\ timer > 0)
  /\ age' = [e \in Editions |-> Older(age[e])]
  /\ timer' = IF pc = "wait" THEN timer - 1 ELSE timer
  /\ starts' = [i \in LastChecks |-> Older(starts[i])]
  /\ bootStart' = Older(bootStart)
  /\ UNCHANGED <<published, file, confirmed, temps, pc, checkVars, failures,
                 loadVars, exits>>

-----------------------------------------------------------------------------
(* The process ends, by a crash or by a signal: main does not wait for the *)
(* updater, so a temporary file it was writing stays behind.               *)
Exit ==
  /\ pc # "off"
  /\ exits < MaxExits
  /\ exits' = exits + 1
  /\ pc' = "off"
  /\ booting' = TRUE
  /\ at' = 1
  /\ archive' = 0
  /\ recent' = FALSE
  /\ changed' = FALSE
  /\ erred' = FALSE
  /\ failures' = 0
  /\ timer' = 0
  /\ starts' = NoStarts
  /\ bootStart' = Interval
  /\ unloaded' = Editions
  /\ trouble' = "none"
  /\ UNCHANGED <<published, diskVars, temps>>

Restart ==
  /\ pc = "off"
  /\ pc' = "start"
  /\ UNCHANGED <<published, diskVars, temps, checkVars, paceVars, loadVars, exits>>

BeginCheck ==
  /\ pc' = "ask"
  /\ at' = 1
  /\ changed' = FALSE
  /\ erred' = FALSE

(* run checks the databases before it opens them when one is stale. *)
Start ==
  /\ pc = "start"
  /\ IF Stale
     THEN BeginCheck /\ bootStart' = 0
     ELSE pc' = "open" /\ UNCHANGED <<at, changed, erred, bootStart>>
  /\ UNCHANGED <<published, diskVars, temps, booting, archive, recent, failures,
                 timer, starts, loadVars, exits>>

Missing == {e \in Editions : file[e] = 0}

(* geo.Open, where the files in `failed' do not open, and the beginning of *)
(* Run.                                                                    *)
Open(failed) ==
  /\ pc = "open"
  /\ Missing \subseteq failed
  /\ unloaded' = failed
  /\ trouble' = IF failed = Missing THEN "none" ELSE "open"
  /\ booting' = FALSE
  /\ failures' = IF Stale THEN 1 ELSE 0
  /\ timer' = Wait(failures')
  /\ pc' = "wait"
  /\ UNCHANGED <<published, diskVars, temps, at, archive, recent, changed, erred,
                 starts, bootStart, exits>>

TimerFires ==
  /\ pc = "wait"
  /\ timer = 0
  /\ BeginCheck
  /\ starts' = [i \in LastChecks |-> IF i = 1 THEN 0 ELSE starts[i - 1]]
  /\ UNCHANGED <<published, diskVars, temps, booting, archive, recent, failures,
                 timer, bootStart, loadVars, exits>>

-----------------------------------------------------------------------------
(* download, for the edition at hand. *)

(* The archive and the temporary file are done with. *)
Forget ==
  /\ archive' = 0
  /\ recent' = FALSE

NextEdition ==
  IF at < Len(Edition)
  THEN at' = at + 1 /\ pc' = "ask"
  ELSE at' = at /\ pc' = "end"

Unchanged304(e) == file[e] # 0 /\ confirmed[e]

AskNotModified ==
  /\ pc = "ask"
  /\ Unchanged304(Edition[at])
  /\ pc' = "touch"
  /\ UNCHANGED <<published, diskVars, temps, checkVars, paceVars, loadVars, exits>>

(* The body may be damaged on the way. *)
AskArchive(build) ==
  /\ pc = "ask"
  /\ ~ Unchanged304(Edition[at])
  /\ \/ build = published[Edition[at]]
     \/ build = Garbled /\ Edition[at] \in Faulty
  /\ archive' = build
  /\ pc' = "extract"
  /\ UNCHANGED <<published, diskVars, temps, booting, at, recent, changed, erred,
                 paceVars, loadVars, exits>>

Touch ==
  /\ pc = "touch"
  /\ age' = [age EXCEPT ![Edition[at]] = 0]
  /\ confirmed' = [confirmed EXCEPT ![Edition[at]] = TRUE]
  /\ NextEdition
  /\ UNCHANGED <<published, file, temps, booting, archive, recent, changed, erred,
                 paceVars, loadVars, exits>>

(* extract finds the database in the archive and creates its file. *)
Extract ==
  /\ pc = "extract"
  /\ temps' = temps + 1
  /\ pc' = "copy"
  /\ UNCHANGED <<published, diskVars, checkVars, paceVars, loadVars, exits>>

(* The last write to the file, which gives it its modification time. *)
Copy ==
  /\ pc = "copy"
  /\ recent' = TRUE
  /\ pc' = "verify"
  /\ UNCHANGED <<published, diskVars, temps, booting, at, archive, changed, erred,
                 paceVars, loadVars, exits>>

(* Fault: the checksum is not compared. *)
AlwaysVerified == TRUE

(* Fault: the checksum was asked for together with the archive. *)
VerifiedAsSent == archive # Garbled

(* The checksum is the one of the build published by now. *)
Verified == archive = published[Edition[at]]

Verify ==
  /\ pc = "verify"
  /\ Verified
  /\ pc' = "rename"
  /\ UNCHANGED <<published, diskVars, temps, checkVars, paceVars, loadVars, exits>>

Rename ==
  /\ pc = "rename"
  /\ file' = [file EXCEPT ![Edition[at]] = archive]
  /\ age' = [age EXCEPT ![Edition[at]] = 0]
  /\ confirmed' = [confirmed EXCEPT ![Edition[at]] = recent]
  /\ temps' = temps - 1
  /\ changed' = TRUE
  /\ unloaded' = unloaded \cup {Edition[at]}
  /\ Forget
  /\ NextEdition
  /\ UNCHANGED <<published, booting, erred, paceVars, trouble, exits>>

(* The temporary file is there from its creation to the rename. *)
HasTemp == pc \in {"copy", "verify", "rename"}

(* Fault: only writeTemp removes what it wrote. *)
TempsWithoutDefer == IF pc = "copy" THEN temps - 1 ELSE temps

TempsAfterFailure == IF HasTemp THEN temps - 1 ELSE temps

(* Any step may fail, and the checksum of a publication in the meantime    *)
(* does not match. Update stops at the first edition that fails, after     *)
(* writeTemp or the deferred Remove took the temporary file.               *)
DownloadFails ==
  /\ pc \in {"ask", "touch", "extract"} \/ HasTemp
  /\ Edition[at] \in Faulty \/ (pc = "verify" /\ ~ Verified)
  /\ temps' = TempsAfterFailure
  /\ erred' = TRUE
  /\ pc' = "end"
  /\ Forget
  /\ UNCHANGED <<published, diskVars, booting, at, changed, paceVars, loadVars, exits>>

-----------------------------------------------------------------------------
(* The end of Update, and of the check. *)

(* Fault: Run returns when a check fails. *)
JudgeOnce(ok) ==
  /\ failures' = IF ok THEN 0 ELSE AfterFailure(failures)
  /\ timer' = Wait(failures')
  /\ pc' = IF ok THEN "wait" ELSE "returned"
  /\ UNCHANGED <<at, changed, erred>>

(* failures, and the timer for the next check. *)
Judge(ok) ==
  /\ failures' = IF ok THEN 0 ELSE AfterFailure(failures)
  /\ timer' = Wait(failures')
  /\ pc' = "wait"
  /\ at' = 1
  /\ changed' = FALSE
  /\ erred' = FALSE

EndBootCheck ==
  /\ pc = "end"
  /\ booting
  /\ pc' = "open"
  /\ at' = 1
  /\ changed' = FALSE
  /\ erred' = FALSE
  /\ UNCHANGED <<published, diskVars, temps, booting, archive, recent, paceVars,
                 loadVars, exits>>

(* Fault: an update that ends with an error is not loaded. *)
LoadsWholeUpdates == changed /\ ~ erred

(* What was replaced before an error is loaded all the same. *)
Loads == changed

EndCheck ==
  /\ pc = "end"
  /\ ~ booting
  /\ ~ Loads
  /\ Judge(~ erred)
  /\ UNCHANGED <<published, diskVars, temps, booting, archive, recent, loadVars,
                 starts, bootStart, exits>>

(* onUpdate reloads the files, of which those in `failed' do not open.     *)
OnUpdate(failed) ==
  /\ pc = "end"
  /\ ~ booting
  /\ Loads
  /\ Missing \subseteq failed
  /\ unloaded' = unloaded \cap failed
  /\ trouble' = IF failed = Missing THEN "none" ELSE "reload"
  /\ Judge(~ erred /\ failed = {})
  /\ UNCHANGED <<published, diskVars, temps, booting, archive, recent, starts,
                 bootStart, exits>>

-----------------------------------------------------------------------------
Download ==
  \/ AskNotModified
  \/ \E build \in 1..MaxBuild \cup {Garbled} : AskArchive(build)
  \/ Touch
  \/ Extract
  \/ Copy
  \/ Verify
  \/ Rename
  \/ DownloadFails

UpdaterStep ==
  \/ Start
  \/ \E failed \in SUBSET Editions : Open(failed)
  \/ TimerFires
  \/ Download
  \/ EndBootCheck
  \/ EndCheck
  \/ \E failed \in SUBSET Editions : OnUpdate(failed)

Next ==
  \/ \E e \in Editions : Publish(e)
  \/ Tick
  \/ Exit
  \/ Restart
  \/ UpdaterStep

Spec == Init /\ [][Next]_vars

(* Go schedules the updater, time passes, and a process that ended is      *)
(* started again.                                                          *)
FairSpec == Spec /\ WF_vars(UpdaterStep) /\ WF_vars(Tick) /\ WF_vars(Restart)

-----------------------------------------------------------------------------
Steps == {"off", "start", "open", "wait", "ask", "touch", "extract", "copy",
          "verify", "rename", "end"}

(* Disk, process and history keep their types. *)
TypeOK ==
  /\ published \in [Editions -> 1..MaxBuild]
  /\ file \in [Editions -> {Garbled} \cup 0..MaxBuild]
  /\ age \in [Editions -> 0..Interval]
  /\ confirmed \in [Editions -> BOOLEAN]
  /\ temps \in 0..(MaxExits + 1)
  /\ pc \in Steps
  /\ booting \in BOOLEAN
  /\ at \in 1..2
  /\ archive \in {Garbled} \cup 0..MaxBuild
  /\ recent \in BOOLEAN
  /\ changed \in BOOLEAN
  /\ erred \in BOOLEAN
  /\ failures \in 0..(maxRetries + 1)
  /\ timer \in 0..Interval
  /\ unloaded \subseteq Editions
  /\ trouble \in {"none", "open", "reload"}
  /\ starts \in [LastChecks -> 0..Interval]
  /\ bootStart \in 0..Interval
  /\ exits \in 0..MaxExits

(* "A reader never opens a half written or unverified database"            *)
(* (maxmind.go:382-383): what is at the path is a whole build that MaxMind *)
(* published, and never an older one than was there before, through        *)
(* damaged bodies, failing checksums, publications and exits at any step.  *)
OnlyNewerBuilds ==
  [][\A e \in Editions : file'[e] # file[e] =>
       file'[e] \in (file[e] + 1)..published[e]]_vars

(* A download that a publication overtakes does not hide the new build: if *)
(* the file that was put in place is not the last build, its modification  *)
(* time is from before the publication, so the next conditional request is *)
(* not answered by 304. The archive is older than its checksum, and the    *)
(* time is that of the last write (maxmind.go:243-288).                    *)
RenameHidesNothing ==
  [][\A e \in Editions : file'[e] # file[e] =>
       file'[e] = published'[e] \/ ~ confirmed'[e]]_vars

(* "Retries before a failing check waits a whole Interval, to spare the    *)
(* quota" (maxmind.go:67-68): whatever fails, Run never begins more than   *)
(* three checks within one interval.                                       *)
Paced == starts[maxRetries + 2] >= Interval

(* A download that ends takes its temporary file with it, however it ends. *)
(* Only a process that ends may leave one behind (maxmind.go:276,          *)
(* 396-408).                                                               *)
TempsRemoved ==
  ~ HasTemp => temps <= exits

(* An edition that was replaced "does not wait on disk" (maxmind.go:218):  *)
(* while Run waits, and every file that is there opened when they were     *)
(* last opened, each of them is loaded, also when a later edition failed.  *)
LoadedAfterCheck ==
  pc = "wait" /\ trouble = "none" => unloaded \subseteq Missing

(* The checks never end while the process runs, whatever fails. *)
ChecksGoOn == []<>(pc = "ask")

(* "An edition that was replaced before a later one failed is loaded all   *)
(* the same, so it does not wait on disk until a check succeeds as a       *)
(* whole" (maxmind.go:218-219): once a check has succeeded as a whole, no  *)
(* edition whose reload failed before is left waiting.                     *)
WaitsForSuccessAtMost ==
  pc = "wait" /\ trouble = "reload" /\ failures = 0 => unloaded \subseteq Missing

(* "The modification time of the file on disk is the last time this        *)
(* edition was confirmed current" (maxmind.go:248-249): while Run waits, a *)
(* file that the next request takes for current is the last build.         *)
ConfirmedIsCurrent ==
  pc = "wait" => \A e \in Editions :
    file[e] # 0 /\ confirmed[e] => file[e] = published[e]

(* "A failed check is logged and retried twice, 30 minutes apart. After    *)
(* that the next check follows the refresh interval" (README.md:241-242),  *)
(* and the check before geo.Open counts as one (maxmind.go:144-146): with  *)
(* it there are no more than three within one interval either.             *)
PacedFromTheStart ==
  bootStart < Interval => starts[maxRetries + 1] >= Interval

=============================================================================
