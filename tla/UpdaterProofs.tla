---------------------------- MODULE UpdaterProofs ----------------------------
(***************************************************************************)
(* For any interval, any number of builds and exits, and whatever          *)
(* downloads fail: the files only get newer, a new build stays visible,    *)
(* temporary files go, what was replaced is loaded, and the quota is kept. *)
(*                                                                         *)
(* The steps of a download hand on what the checks on the way have found   *)
(* of the archive and of the temporary file (DownloadInv). The pace needs  *)
(* what a check leaves: after one that succeeded every file is fresh       *)
(* (FreshInv), so the timer runs for a whole interval, as it does after    *)
(* the second retry, and in between the failures count the checks          *)
(* (PaceInv).                                                              *)
(***************************************************************************)
EXTENDS Updater, TLAPS

AtEdition == Edition[at]

(* The process is in a check. *)
Checking == pc \in {"ask", "touch", "extract", "copy", "verify", "rename", "end"}

(* No file is damaged or ahead of MaxMind. *)
FileInv == \A e \in Editions : file[e] \in 0..published[e]

(* What is known of the file a 304 confirms, and of the archive once its   *)
(* checksum was right.                                                     *)
DownloadInv ==
  /\ pc = "touch" => file[AtEdition] # 0
  /\ pc = "rename" =>
       /\ archive \in 1..published[AtEdition]
       /\ file[AtEdition] <= archive
       /\ recent => archive = published[AtEdition]

(* One temporary file for each exit, and the one that is being written. *)
TempInv ==
  /\ HasTemp => temps \in 1..(exits + 1)
  /\ ~ HasTemp => temps <= exits

(* What is not loaded was replaced in this check, or did not open. *)
LoadInv ==
  /\ pc \in {"off", "start", "open"} => booting
  /\ pc = "wait" => ~ booting
  /\ ~ Checking => ~ changed
  /\ ~ booting /\ ~ changed /\ trouble = "none" => unloaded \subseteq Missing

(* The editions this check is done with were written or confirmed in it. *)
FreshInv ==
  Checking /\ ~ erred =>
    \A i \in 1..2 : pc = "end" \/ i < at =>
      file[Edition[i]] # 0 /\ age[Edition[i]] = 0

(* Old(i): the i-th last check began an interval ago. *)
Old(i) == starts[i] >= Interval

PaceInv ==
  /\ booting => \A i \in LastChecks : Old(i)
  /\ \A i \in 1..3 : starts[i] <= starts[i + 1]
  /\ Old(4)
  /\ pc = "wait" =>
       /\ failures \in {0, 3} => starts[1] + timer >= Interval
       /\ failures = 1 => Old(2)
       /\ failures = 2 => Old(3)
  /\ Checking /\ ~ booting =>
       /\ starts[1] = 0
       /\ failures \in {0, 3} => Old(2)
       /\ failures = 1 => Old(3)

(* TypeOK in five parts. *)
DiskType ==
  /\ published \in [Editions -> 1..MaxBuild]
  /\ file \in [Editions -> {Garbled} \cup 0..MaxBuild]
  /\ age \in [Editions -> 0..Interval]
  /\ confirmed \in [Editions -> BOOLEAN]
  /\ temps \in 0..(MaxExits + 1)
  /\ exits \in 0..MaxExits

StepType ==
  /\ pc \in Steps
  /\ at \in 1..2
  /\ archive \in {Garbled} \cup 0..MaxBuild

FlagType ==
  /\ booting \in BOOLEAN
  /\ recent \in BOOLEAN
  /\ changed \in BOOLEAN
  /\ erred \in BOOLEAN

PaceType ==
  /\ failures \in 0..3
  /\ timer \in 0..Interval
  /\ starts \in [LastChecks -> 0..Interval]
  /\ bootStart \in 0..Interval

LoadType ==
  /\ unloaded \subseteq Editions
  /\ trouble \in {"none", "open", "reload"}

UpdaterInv ==
  TypeOK /\ FileInv /\ DownloadInv /\ TempInv /\ LoadInv /\ FreshInv /\ PaceInv

(* The five parts are all of it. *)
LEMMA TypeParts == TypeOK <=> DiskType /\ StepType /\ FlagType /\ PaceType /\ LoadType
  BY DEF TypeOK, DiskType, StepType, FlagType, PaceType, LoadType, maxRetries

-----------------------------------------------------------------------------
(* The order of the editions. *)
LEMMA EditionOrder ==
  /\ Len(Edition) = 2
  /\ Edition[1] = "asn" /\ Edition[2] = "city"
  /\ TypeOK => Edition[at] \in Editions
  BY DEF Edition, Editions, TypeOK

(* Run waits no longer than an interval, and a whole one when every file   *)
(* is fresh.                                                               *)
LEMMA RefreshBounds ==
  ASSUME TypeOK
  PROVE  /\ NextRefresh \in 1..Interval
         /\ (\A e \in Editions : file[e] # 0 /\ age[e] = 0) => NextRefresh = Interval
  <1> DEFINE Is(t) == /\ \E e \in Editions : t = Interval - Age(e)
                      /\ \A e \in Editions : t <= Interval - Age(e)
  <1>1. \A e \in Editions : Age(e) \in 0..Interval
    BY IntervalAssumption DEF TypeOK, Age
  <1>2. CASE Stale
    <2>1. ~ \A e \in Editions : file[e] # 0 /\ age[e] = 0
      BY <1>2, IntervalAssumption DEF Stale, Age
    <2> QED
      BY <1>2, <2>1, IntervalAssumption DEF NextRefresh, retryDelay
  <1>3. CASE ~ Stale
    <2>1. NextRefresh = CHOOSE t \in 1..Interval : Is(t)
      BY <1>3 DEF NextRefresh
    <2>2. \A e \in Editions : Age(e) < Interval
      BY <1>1, <1>3, IntervalAssumption DEF Stale
    <2>3. \E t \in 1..Interval : Is(t)
      <3>1. CASE Age("asn") <= Age("city")
        <4>1. Interval - Age("city") \in 1..Interval /\ Is(Interval - Age("city"))
          BY <1>1, <2>2, <3>1, IntervalAssumption DEF Editions
        <4> QED
          BY <4>1
      <3>2. CASE Age("city") <= Age("asn")
        <4>1. Interval - Age("asn") \in 1..Interval /\ Is(Interval - Age("asn"))
          BY <1>1, <2>2, <3>2, IntervalAssumption DEF Editions
        <4> QED
          BY <4>1
      <3> QED
        BY <1>1, <3>1, <3>2, IntervalAssumption DEF Editions
    <2>4. NextRefresh \in 1..Interval /\ Is(NextRefresh)
      BY <2>1, <2>3
    <2>5. (\A e \in Editions : file[e] # 0 /\ age[e] = 0) => \A e \in Editions : Age(e) = 0
      BY DEF Age
    <2> QED
      BY <2>4, <2>5, IntervalAssumption
  <1> QED
    BY <1>2, <1>3

(* How long Run waits after each count of failures. *)
LEMMA WaitBounds ==
  ASSUME TypeOK, NEW n \in 0..3
  PROVE  /\ Wait(n) \in 1..Interval
         /\ n = 3 => Wait(n) = Interval
         /\ n = 0 => Wait(n) = NextRefresh
  <1>1. CASE n = 0
    BY <1>1, RefreshBounds DEF Wait
  <1>2. CASE n \in 1..2
    <2>1. n # 0 /\ n \in 1..maxRetries
      BY <1>2 DEF maxRetries
    <2>2. Wait(n) = retryDelay
      BY <2>1 DEF Wait
    <2> QED
      BY <1>2, <2>2, IntervalAssumption DEF retryDelay
  <1>3. CASE n = 3
    <2>1. n # 0 /\ n \notin 1..maxRetries
      BY <1>3 DEF maxRetries
    <2>2. Wait(n) = Interval
      BY <2>1 DEF Wait
    <2> QED
      BY <1>3, <2>2, IntervalAssumption
  <1> QED
    BY <1>1, <1>2, <1>3

LEMMA FailureCount ==
  ASSUME NEW n \in 0..3
  PROVE  AfterFailure(n) = IF n = 3 THEN 1 ELSE n + 1
  BY DEF AfterFailure, maxRetries


-----------------------------------------------------------------------------
(* Step by step. Each lemma groups the actions that leave its variables    *)
(* alone.                                                                  *)
(* The actions of Next. *)
LEMMA UpdaterCases ==
  ASSUME [Next]_vars
  PROVE  \/ \E e \in Editions : Publish(e)
         \/ Tick \/ Exit \/ Restart
         \/ Start \/ (\E failed \in SUBSET Editions : Open(failed)) \/ TimerFires
         \/ AskNotModified \/ (\E build \in 1..MaxBuild \cup {Garbled} : AskArchive(build))
         \/ Touch \/ Extract \/ Copy \/ Verify \/ Rename \/ DownloadFails
         \/ EndBootCheck \/ EndCheck \/ (\E failed \in SUBSET Editions : OnUpdate(failed))
         \/ UNCHANGED vars
  BY DEF Next, UpdaterStep, Download

(* Builds, ages and the number of temporary files stay within their        *)
(* bounds.                                                                 *)
LEMMA DiskKept ==
  ASSUME UpdaterInv, [Next]_vars
  PROVE  DiskType'
  <1> USE DEF UpdaterInv, TypeOK, DiskType, TempInv, HasTemp, Older
  <1>1. ASSUME NEW e \in Editions, Publish(e) PROVE DiskType'
    BY <1>1, BoundsAssumption DEF Publish, paceVars, loadVars
  <1>2. CASE Tick
    BY <1>2, IntervalAssumption DEF Tick, checkVars, loadVars
  <1>3. CASE Exit
    BY <1>3, BoundsAssumption DEF Exit, diskVars
  <1>4. CASE Touch
    BY <1>4, EditionOrder, IntervalAssumption
       DEF Touch, NextEdition, paceVars, loadVars
  <1>5. CASE Extract
    BY <1>5, BoundsAssumption
       DEF Extract, diskVars, checkVars, paceVars, loadVars
  <1>6. CASE Rename
    BY <1>6, EditionOrder, IntervalAssumption, BoundsAssumption
       DEF Rename, NextEdition, Forget, paceVars
  <1>7. CASE DownloadFails
    BY <1>7, BoundsAssumption
       DEF DownloadFails, Forget, TempsAfterFailure, diskVars, paceVars,
           loadVars
  <1>8. CASE Restart \/ Start \/ (\E failed \in SUBSET Editions : Open(failed))
          \/ TimerFires \/ AskNotModified
          \/ (\E build \in 1..MaxBuild \cup {Garbled} : AskArchive(build))
          \/ Copy \/ Verify \/ EndBootCheck \/ EndCheck
          \/ (\E failed \in SUBSET Editions : OnUpdate(failed))
          \/ UNCHANGED vars
    BY <1>8
       DEF Restart, Start, BeginCheck, Open, TimerFires, AskNotModified,
           AskArchive, Copy, Verify, Verified, EndBootCheck, EndCheck, Judge,
           Loads, OnUpdate, vars, diskVars, checkVars, paceVars, loadVars
  <1> QED
    BY <1>1, <1>2, <1>3, <1>4, <1>5, <1>6, <1>7, <1>8, UpdaterCases

(* The step, the edition and the archive. *)
LEMMA StepKept ==
  ASSUME UpdaterInv, [Next]_vars
  PROVE  StepType'
  <1> USE DEF UpdaterInv, TypeOK, StepType, Steps
  <1>1. CASE AskNotModified
    BY <1>1 DEF AskNotModified, diskVars, checkVars, paceVars, loadVars
  <1>2. ASSUME NEW build \in 1..MaxBuild \cup {Garbled}, AskArchive(build)
        PROVE  StepType'
    BY <1>2 DEF AskArchive, diskVars, paceVars, loadVars
  <1>3. CASE Touch
    BY <1>3, EditionOrder DEF Touch, NextEdition, paceVars, loadVars
  <1>4. CASE Extract
    BY <1>4 DEF Extract, diskVars, checkVars, paceVars, loadVars
  <1>5. CASE Copy
    BY <1>5 DEF Copy, diskVars, paceVars, loadVars
  <1>6. CASE Verify
    BY <1>6 DEF Verify, Verified, diskVars, checkVars, paceVars, loadVars
  <1>7. CASE Rename
    BY <1>7, EditionOrder, BoundsAssumption
       DEF Rename, NextEdition, Forget, paceVars
  <1>8. CASE DownloadFails
    BY <1>8, BoundsAssumption
       DEF DownloadFails, Forget, TempsAfterFailure, HasTemp, diskVars,
           paceVars, loadVars
  <1>9. CASE (\E e \in Editions : Publish(e)) \/ Tick \/ UNCHANGED vars
    BY <1>9 DEF Publish, Tick, vars, diskVars, checkVars, paceVars, loadVars
  <1>10. CASE Exit \/ Restart \/ Start
           \/ (\E failed \in SUBSET Editions : Open(failed)) \/ TimerFires
    BY <1>10, BoundsAssumption
       DEF Exit, Restart, Start, BeginCheck, Open, TimerFires, diskVars,
           checkVars, paceVars, loadVars
  <1>11. CASE EndBootCheck \/ EndCheck
           \/ (\E failed \in SUBSET Editions : OnUpdate(failed))
    BY <1>11
       DEF EndBootCheck, EndCheck, Judge, Loads, OnUpdate, diskVars, paceVars,
           loadVars
  <1> QED
    BY <1>1, <1>2, <1>3, <1>4, <1>5, <1>6, <1>7, <1>8, <1>9, <1>10, <1>11,
        UpdaterCases

(* The flags of a check. *)
LEMMA FlagKept ==
  ASSUME UpdaterInv, [Next]_vars
  PROVE  FlagType'
  <1> USE DEF UpdaterInv, TypeOK, FlagType
  <1>1. ASSUME NEW e \in Editions, Publish(e) PROVE FlagType'
    BY <1>1 DEF Publish, paceVars, loadVars
  <1>2. CASE Tick \/ Restart \/ AskNotModified
          \/ (\E build \in 1..MaxBuild \cup {Garbled} : AskArchive(build))
          \/ Touch \/ Extract \/ Verify \/ UNCHANGED vars
    BY <1>2
       DEF Tick, Restart, AskNotModified, AskArchive, Touch, NextEdition,
           Extract, Verify, Verified, vars, diskVars, checkVars, paceVars,
           loadVars
  <1>3. CASE Exit \/ Start \/ (\E failed \in SUBSET Editions : Open(failed))
          \/ TimerFires
    BY <1>3 DEF Exit, Start, BeginCheck, Open, TimerFires, diskVars, loadVars
  <1>4. CASE Copy \/ Rename \/ DownloadFails
    BY <1>4
       DEF Copy, Rename, NextEdition, Forget, DownloadFails, TempsAfterFailure,
           HasTemp, diskVars, paceVars, loadVars
  <1>5. CASE EndBootCheck \/ EndCheck
          \/ (\E failed \in SUBSET Editions : OnUpdate(failed))
    BY <1>5
       DEF EndBootCheck, EndCheck, Judge, Loads, OnUpdate, diskVars, paceVars,
           loadVars
  <1> QED
    BY <1>1, <1>2, <1>3, <1>4, <1>5, UpdaterCases

(* The timer, the count of failures and the ages of the checks. *)
LEMMA PaceTypeKept ==
  ASSUME UpdaterInv, [Next]_vars
  PROVE  PaceType'
  <1> USE DEF UpdaterInv, TypeOK, PaceType, Older, NoStarts, LastChecks,
      maxRetries, Checking
  <1>1. CASE Tick
    BY <1>1, IntervalAssumption DEF Tick, checkVars, loadVars
  <1>2. CASE Exit
    BY <1>2, IntervalAssumption DEF Exit, diskVars
  <1>3. CASE Start
    BY <1>3, IntervalAssumption DEF Start, BeginCheck, diskVars, loadVars
  <1>4. ASSUME NEW failed \in SUBSET Editions, Open(failed) PROVE PaceType'
    BY <1>4, WaitBounds DEF Open, diskVars
  <1>5. CASE TimerFires
    BY <1>5 DEF TimerFires, BeginCheck, diskVars, loadVars
  <1>6. CASE EndCheck
    BY <1>6, WaitBounds, FailureCount
       DEF EndCheck, Judge, Loads, diskVars, loadVars
  <1>7. ASSUME NEW failed \in SUBSET Editions, OnUpdate(failed) PROVE PaceType'
    BY <1>7, WaitBounds, FailureCount DEF OnUpdate, Judge, Loads, diskVars
  <1>8. CASE (\E e \in Editions : Publish(e)) \/ Restart \/ EndBootCheck
          \/ UNCHANGED vars
    BY <1>8
       DEF Publish, Restart, EndBootCheck, vars, diskVars, checkVars, paceVars,
           loadVars
  <1>9. CASE AskNotModified
          \/ (\E build \in 1..MaxBuild \cup {Garbled} : AskArchive(build))
          \/ Touch \/ Extract \/ Copy \/ Verify \/ Rename \/ DownloadFails
    <2>1. UNCHANGED <<booting, paceVars>> /\ Checking /\ Checking'
      BY <1>9 DEF AskNotModified, AskArchive, Touch, Extract, Copy, Verify, Rename,
                  DownloadFails, NextEdition, HasTemp, checkVars
    <2> QED
      BY <2>1 DEF paceVars
  <1> QED
    BY <1>1, <1>2, <1>3, <1>4, <1>5, <1>6, <1>7, <1>8, <1>9, UpdaterCases

(* What is not loaded, and why. *)
LEMMA LoadTypeKept ==
  ASSUME UpdaterInv, [Next]_vars
  PROVE  LoadType'
  <1> USE DEF UpdaterInv, TypeOK, LoadType
  <1>1. CASE Exit
    BY <1>1 DEF Exit, diskVars
  <1>2. ASSUME NEW failed \in SUBSET Editions, Open(failed) PROVE LoadType'
    BY <1>2 DEF Open, diskVars
  <1>3. CASE Rename
    BY <1>3, EditionOrder DEF Rename, NextEdition, Forget, paceVars
  <1>4. ASSUME NEW failed \in SUBSET Editions, OnUpdate(failed) PROVE LoadType'
    BY <1>4 DEF OnUpdate, Judge, Loads, diskVars
  <1>5. CASE (\E e \in Editions : Publish(e)) \/ Tick \/ Restart \/ Start
          \/ TimerFires \/ EndBootCheck \/ EndCheck \/ UNCHANGED vars
    BY <1>5
       DEF Publish, Tick, Restart, Start, BeginCheck, TimerFires, EndBootCheck,
           EndCheck, Judge, Loads, vars, diskVars, checkVars, paceVars,
           loadVars
  <1>6. CASE AskNotModified
          \/ (\E build \in 1..MaxBuild \cup {Garbled} : AskArchive(build))
          \/ Touch \/ Extract \/ Copy \/ Verify \/ DownloadFails
    BY <1>6
       DEF AskNotModified, AskArchive, Touch, NextEdition, Extract, Copy,
           Verify, Verified, DownloadFails, Forget, TempsAfterFailure, HasTemp,
           diskVars, checkVars, paceVars, loadVars
  <1> QED
    BY <1>1, <1>2, <1>3, <1>4, <1>5, <1>6, UpdaterCases

(* Only Rename writes a file, and what it puts there was published. *)
LEMMA FileKept ==
  ASSUME UpdaterInv, [Next]_vars
  PROVE  FileInv'
  <1> USE DEF UpdaterInv, TypeOK, FileInv, DownloadInv, AtEdition
  <1>1. ASSUME NEW e \in Editions, Publish(e) PROVE FileInv'
    BY <1>1 DEF Publish, paceVars, loadVars
  <1>2. CASE Rename
    BY <1>2 DEF Rename, NextEdition, Forget, paceVars
  <1>3. CASE Tick \/ Exit \/ Restart \/ Start
          \/ (\E failed \in SUBSET Editions : Open(failed)) \/ TimerFires
          \/ EndBootCheck \/ EndCheck
          \/ (\E failed \in SUBSET Editions : OnUpdate(failed))
          \/ UNCHANGED vars
    BY <1>3
       DEF Tick, Exit, Restart, Start, BeginCheck, Open, TimerFires,
           EndBootCheck, EndCheck, Judge, Loads, OnUpdate, vars, diskVars,
           checkVars, paceVars, loadVars
  <1>4. CASE AskNotModified
          \/ (\E build \in 1..MaxBuild \cup {Garbled} : AskArchive(build))
          \/ Touch \/ Extract \/ Copy \/ Verify \/ DownloadFails
    BY <1>4
       DEF AskNotModified, AskArchive, Touch, NextEdition, Extract, Copy,
           Verify, Verified, DownloadFails, Forget, TempsAfterFailure, HasTemp,
           diskVars, checkVars, paceVars, loadVars
  <1> QED
    BY <1>1, <1>2, <1>3, <1>4, UpdaterCases

(* Verify finds what Rename relies on: the archive is the build that is    *)
(* published, so it is no older than the file. A publication before the    *)
(* rename makes the file that is about to be put in place old, and         *)
(* `recent' says so.                                                       *)
LEMMA DownloadKept ==
  ASSUME UpdaterInv, [Next]_vars
  PROVE  DownloadInv'
  <1> USE DEF UpdaterInv, TypeOK, FileInv, DownloadInv, AtEdition,
      Unchanged304, HasTemp
  <1>1. ASSUME NEW e \in Editions, Publish(e) PROVE DownloadInv'
    <2>1. published' \in [Editions -> Int] /\ pc' = pc /\ at' = at
      BY <1>1, BoundsAssumption DEF Publish
    <2>2. file' = file /\ archive' = archive /\ published[AtEdition] <= published'[AtEdition]
      BY <1>1, EditionOrder DEF Publish
    <2>3. CASE AtEdition = e
      <3>1. ~ recent'
        BY <1>1, <2>3 DEF Publish
      <3> QED
        BY <2>1, <2>2, <3>1, EditionOrder
    <2>4. CASE AtEdition # e
      <3>1. recent' => recent
        BY <1>1 DEF Publish
      <3>2. published'[AtEdition] = published[AtEdition]
        BY <1>1, <2>4, EditionOrder DEF Publish
      <3> QED
        BY <2>1, <2>2, <3>1, <3>2, EditionOrder
    <2> QED
      BY <2>3, <2>4
  <1>2. CASE AskNotModified
    BY <1>2 DEF AskNotModified, diskVars, checkVars, paceVars, loadVars
  <1>3. CASE Verify
    BY <1>3, EditionOrder
       DEF Verify, Verified, diskVars, checkVars, paceVars, loadVars
  <1>4. CASE Tick \/ Exit \/ Restart \/ Start
          \/ (\E failed \in SUBSET Editions : Open(failed)) \/ TimerFires
          \/ EndBootCheck \/ EndCheck
          \/ (\E failed \in SUBSET Editions : OnUpdate(failed))
          \/ UNCHANGED vars
    BY <1>4
       DEF Tick, Exit, Restart, Start, BeginCheck, Open, TimerFires,
           EndBootCheck, EndCheck, Judge, Loads, OnUpdate, vars, diskVars,
           checkVars, paceVars, loadVars
  <1>5. CASE (\E build \in 1..MaxBuild \cup {Garbled} : AskArchive(build))
          \/ Touch \/ Extract \/ Copy \/ Rename \/ DownloadFails
    BY <1>5
       DEF AskArchive, Touch, NextEdition, Extract, Copy, Rename, Forget,
           DownloadFails, TempsAfterFailure, diskVars, checkVars, paceVars,
           loadVars
  <1> QED
    BY <1>1, <1>2, <1>3, <1>4, <1>5, UpdaterCases

(* A step that leaves a download by an error takes the temporary file      *)
(* away, and one that puts it in place uses it up. Only an exit leaves it. *)
LEMMA TempKept ==
  ASSUME UpdaterInv, [Next]_vars
  PROVE  TempInv'
  <1> USE DEF UpdaterInv, TypeOK, TempInv, HasTemp
  <1>1. CASE Exit
    BY <1>1 DEF Exit, diskVars
  <1>2. CASE Extract
    BY <1>2 DEF Extract, diskVars, checkVars, paceVars, loadVars
  <1>3. CASE Rename
    BY <1>3 DEF Rename, NextEdition, Forget, paceVars
  <1>4. CASE DownloadFails
    BY <1>4
       DEF DownloadFails, Forget, TempsAfterFailure, diskVars, paceVars,
           loadVars
  <1>5. CASE (\E e \in Editions : Publish(e)) \/ Tick \/ Restart \/ Start
          \/ (\E failed \in SUBSET Editions : Open(failed)) \/ TimerFires
          \/ AskNotModified
          \/ (\E build \in 1..MaxBuild \cup {Garbled} : AskArchive(build))
          \/ Touch \/ EndBootCheck \/ EndCheck
          \/ (\E failed \in SUBSET Editions : OnUpdate(failed))
          \/ UNCHANGED vars
    BY <1>5
       DEF Publish, Tick, Restart, Start, BeginCheck, Open, TimerFires,
           AskNotModified, AskArchive, Touch, NextEdition, EndBootCheck,
           EndCheck, Judge, Loads, OnUpdate, vars, diskVars, checkVars,
           paceVars, loadVars
  <1>6. CASE Copy \/ Verify
    BY <1>6 DEF Copy, Verify, Verified, diskVars, checkVars, paceVars, loadVars
  <1> QED
    BY <1>1, <1>2, <1>3, <1>4, <1>5, <1>6, UpdaterCases

(* A check that replaced a file ends with OnUpdate, which leaves only what *)
(* does not open.                                                          *)
LEMMA LoadKept ==
  ASSUME UpdaterInv, [Next]_vars
  PROVE  LoadInv'
  <1> USE DEF UpdaterInv, TypeOK, LoadInv, Checking, Missing
  <1>1. CASE Exit
    BY <1>1 DEF Exit, diskVars
  <1>2. CASE Start
    BY <1>2 DEF Start, BeginCheck, diskVars, loadVars
  <1>3. ASSUME NEW failed \in SUBSET Editions, Open(failed) PROVE LoadInv'
    BY <1>3 DEF Open, diskVars
  <1>4. CASE TimerFires
    BY <1>4 DEF TimerFires, BeginCheck, diskVars, loadVars
  <1>5. CASE Rename
    BY <1>5 DEF Rename, NextEdition, Forget, paceVars
  <1>6. CASE DownloadFails
    BY <1>6
       DEF DownloadFails, Forget, TempsAfterFailure, HasTemp, diskVars,
           paceVars, loadVars
  <1>7. CASE EndBootCheck
    BY <1>7 DEF EndBootCheck, diskVars, paceVars, loadVars
  <1>8. CASE EndCheck
    BY <1>8 DEF EndCheck, Judge, Loads, diskVars, loadVars
  <1>9. ASSUME NEW failed \in SUBSET Editions, OnUpdate(failed) PROVE LoadInv'
    BY <1>9 DEF OnUpdate, Judge, Loads, diskVars
  <1>10. CASE (\E e \in Editions : Publish(e)) \/ Tick \/ Restart
           \/ UNCHANGED vars
    BY <1>10
       DEF Publish, Tick, Restart, vars, diskVars, checkVars, paceVars,
           loadVars
  <1>11. CASE AskNotModified
           \/ (\E build \in 1..MaxBuild \cup {Garbled} : AskArchive(build))
           \/ Touch \/ Extract \/ Copy \/ Verify
    BY <1>11
       DEF AskNotModified, AskArchive, Touch, NextEdition, Extract, Copy,
           Verify, Verified, diskVars, checkVars, paceVars, loadVars
  <1> QED
    BY <1>1, <1>2, <1>3, <1>4, <1>5, <1>6, <1>7, <1>8, <1>9, <1>10, <1>11,
        UpdaterCases

(* Touch and Rename, the only steps to the next edition, make their file   *)
(* fresh, and no time passes during a check.                               *)
LEMMA FreshKept ==
  ASSUME UpdaterInv, [Next]_vars
  PROVE  FreshInv'
  <1> USE DEF UpdaterInv, TypeOK, DownloadInv, AtEdition, FreshInv, Checking
  <1>1. CASE Touch
    <2>1. pc = "touch" /\ Edition[at] \in Editions /\ at \in 1..2
      BY <1>1, EditionOrder DEF Touch
    <2>2. file' = file /\ file[Edition[at]] # 0 /\ erred' = erred
      BY <1>1, <2>1 DEF Touch, AtEdition
    <2>3. age' = [age EXCEPT ![Edition[at]] = 0]
      BY <1>1 DEF Touch
    <2>4. \A i \in 1..2 : Edition[i] \in Editions
      BY EditionOrder DEF Editions
    <2>5. ~ erred => \A i \in 1..at : file'[Edition[i]] # 0 /\ age'[Edition[i]] = 0
      <3> SUFFICES ASSUME ~ erred, NEW i \in 1..at
                   PROVE  file'[Edition[i]] # 0 /\ age'[Edition[i]] = 0
        OBVIOUS
      <3>1. CASE i = at
        BY <2>1, <2>2, <2>3, <3>1
      <3>2. CASE i < at
        <4>1. i \in 1..2
          BY <2>1
        <4> QED
          BY <2>1, <2>2, <2>3, <2>4, <3>2, <4>1
      <3> QED
        BY <2>1, <3>1, <3>2
    <2>6. \/ pc' = "ask" /\ at' = at + 1
          \/ pc' = "end" /\ at' = at /\ at = 2
      BY <1>1, <2>1, EditionOrder DEF Touch, NextEdition
    <2> QED
      BY <2>1, <2>2, <2>5, <2>6
  <1>2. CASE Rename
    BY <1>2, EditionOrder DEF Rename, NextEdition, Forget, paceVars
  <1>3. CASE (\E e \in Editions : Publish(e)) \/ UNCHANGED vars
    BY <1>3 DEF Publish, vars, diskVars, checkVars, paceVars, loadVars
  <1>4. CASE Tick \/ Exit \/ Restart \/ Start
          \/ (\E failed \in SUBSET Editions : Open(failed)) \/ TimerFires
          \/ EndBootCheck \/ EndCheck
          \/ (\E failed \in SUBSET Editions : OnUpdate(failed))
    BY <1>4
       DEF Tick, Exit, Restart, Start, BeginCheck, Open, TimerFires,
           EndBootCheck, EndCheck, Judge, Loads, OnUpdate, diskVars, checkVars,
           paceVars, loadVars
  <1>5. CASE AskNotModified
          \/ (\E build \in 1..MaxBuild \cup {Garbled} : AskArchive(build))
          \/ Extract \/ Copy \/ Verify \/ DownloadFails
    BY <1>5
       DEF AskNotModified, AskArchive, Extract, Copy, Verify, Verified,
           DownloadFails, Forget, TempsAfterFailure, HasTemp, diskVars,
           checkVars, paceVars, loadVars
  <1> QED
    BY <1>1, <1>2, <1>3, <1>4, <1>5, UpdaterCases

(* After a check that succeeded Run waits a whole interval. *)
LEMMA FreshWaits ==
  ASSUME UpdaterInv, pc = "end", ~ erred
  PROVE  NextRefresh = Interval
  <1>1. \A i \in 1..2 : file[Edition[i]] # 0 /\ age[Edition[i]] = 0
    BY DEF UpdaterInv, FreshInv, Checking
  <1>2. \A e \in Editions : file[e] # 0 /\ age[e] = 0
    BY <1>1, EditionOrder DEF Editions
  <1> QED
    BY <1>2, RefreshBounds DEF UpdaterInv

(* The next check after one of Run that ended is due when the pace allows. *)
LEMMA JudgedPace ==
  ASSUME UpdaterInv, pc = "end", ~ booting,
         NEW ok \in BOOLEAN, ok => ~ erred, Judge(ok), UNCHANGED <<booting, starts>>
  PROVE  PaceInv'
  <1> USE DEF UpdaterInv, TypeOK, LastChecks, maxRetries
  <1>1. /\ \A i \in 1..3 : starts[i] <= starts[i + 1]
        /\ Old(4)
        /\ starts[1] = 0
        /\ failures \in {0, 3} => Old(2)
        /\ failures = 1 => Old(3)
    BY DEF PaceInv, Checking
  <1>2. ~ booting' /\ pc' = "wait" /\ starts' = starts /\ timer' = Wait(failures')
    BY DEF Judge
  <1>3. \/ failures' = 0 /\ timer' = Interval
        \/ failures' = 1 /\ failures \in {0, 3}
        \/ failures' = 2 /\ failures = 1
        \/ failures' = 3 /\ timer' = Interval
    <2>1. CASE ok
      <3>1. failures' = 0 /\ ~ erred
        BY <2>1 DEF Judge
      <3>2. Wait(0) = Interval
        BY <3>1, WaitBounds, FreshWaits
      <3> QED
        BY <1>2, <3>1, <3>2
    <2>2. CASE ~ ok
      <3>1. failures' = IF failures = 3 THEN 1 ELSE failures + 1
        BY <2>2, FailureCount DEF Judge
      <3>2. Wait(3) = Interval
        BY WaitBounds
      <3> QED
        BY <1>2, <3>1, <3>2
    <2> QED
      BY <2>1, <2>2
  <1>4. Interval \in Nat /\ starts \in [1..4 -> 0..Interval]
    BY IntervalAssumption
  <1> QED
    BY <1>1, <1>2, <1>3, <1>4 DEF PaceInv, Old, Checking

(* A check begins when the timer has run down; what it waited for makes    *)
(* the second last check old, or one of the retries was used.              *)
LEMMA PaceKept ==
  ASSUME UpdaterInv, [Next]_vars
  PROVE  PaceInv'
  <1> USE DEF UpdaterInv, TypeOK, LoadInv, PaceInv, Checking, Old, NoStarts,
      LastChecks, maxRetries, Older
  <1>1. CASE Tick
    BY <1>1, IntervalAssumption DEF Tick, checkVars, loadVars
  <1>2. ASSUME NEW failed \in SUBSET Editions, Open(failed) PROVE PaceInv'
    BY <1>2, WaitBounds DEF Open, diskVars
  <1>3. CASE TimerFires
    BY <1>3, IntervalAssumption DEF TimerFires, BeginCheck, diskVars, loadVars
  <1>4. CASE EndCheck
    <2>1. Judge(~ erred) /\ pc = "end" /\ ~ booting /\ UNCHANGED <<booting, starts>>
      BY <1>4 DEF EndCheck
    <2> QED
      BY <2>1, JudgedPace
  <1>5. ASSUME NEW failed \in SUBSET Editions, OnUpdate(failed) PROVE PaceInv'
    <2>1. /\ Judge(~ erred /\ failed = {}) /\ pc = "end" /\ ~ booting
          /\ UNCHANGED <<booting, starts>>
      BY <1>5 DEF OnUpdate
    <2> QED
      BY <2>1, JudgedPace
  <1>6. CASE (\E e \in Editions : Publish(e)) \/ Restart \/ UNCHANGED vars
    BY <1>6 DEF Publish, Restart, vars, diskVars, checkVars, paceVars, loadVars
  <1>7. CASE AskNotModified
          \/ (\E build \in 1..MaxBuild \cup {Garbled} : AskArchive(build))
          \/ Touch \/ Extract \/ Copy \/ Verify \/ Rename \/ DownloadFails
    <2>1. UNCHANGED <<booting, paceVars>> /\ Checking /\ Checking'
      BY <1>7 DEF AskNotModified, AskArchive, Touch, Extract, Copy, Verify, Rename,
                  DownloadFails, NextEdition, HasTemp, checkVars
    <2> QED
      BY <2>1 DEF paceVars
  <1>8. CASE Exit \/ Start \/ EndBootCheck
    BY <1>8, IntervalAssumption
       DEF Exit, Start, BeginCheck, EndBootCheck, diskVars, paceVars, loadVars
  <1> QED
    BY <1>1, <1>2, <1>3, <1>4, <1>5, <1>6, <1>7, <1>8, UpdaterCases

-----------------------------------------------------------------------------
(* The states the machine may be in when the server is first started. *)
LEMMA UpdaterStart ==
  ASSUME Init
  PROVE  UpdaterInv
  <1>1. TypeOK
    <2>1. DiskType
      BY IntervalAssumption, BoundsAssumption DEF Init, DiskType
    <2>2. StepType /\ LoadType
      BY BoundsAssumption DEF Init, StepType, LoadType, Steps
    <2>4. FlagType
      BY DEF Init, FlagType
    <2>3. PaceType
      BY IntervalAssumption DEF Init, PaceType, NoStarts
    <2> QED
      BY <2>1, <2>2, <2>3, <2>4, TypeParts
  <1>2. FileInv /\ DownloadInv /\ TempInv /\ LoadInv /\ FreshInv
    BY DEF Init, FileInv, DownloadInv, TempInv, HasTemp, LoadInv, FreshInv, Checking
  <1>3. PaceInv
    BY IntervalAssumption
       DEF Init, PaceInv, Old, NoStarts, LastChecks, maxRetries, Checking
  <1> QED
    BY <1>1, <1>2, <1>3 DEF UpdaterInv

(* Every reachable state satisfies the inductive invariant. *)
THEOREM UpdaterInvariance == Spec => []UpdaterInv
  <1>1. Init => UpdaterInv
    BY UpdaterStart
  <1>2. UpdaterInv /\ [Next]_vars => UpdaterInv'
    <2> SUFFICES ASSUME UpdaterInv, [Next]_vars
                 PROVE  UpdaterInv'
      OBVIOUS
    <2>1. DiskType' /\ StepType' /\ FlagType' /\ PaceType' /\ LoadType'
      BY DiskKept, StepKept, FlagKept, PaceTypeKept, LoadTypeKept
    <2>2. TypeOK'
      BY <2>1
         DEF TypeOK, DiskType, StepType, FlagType, PaceType, LoadType, maxRetries
    <2>3. FileInv' /\ DownloadInv' /\ TempInv'
      BY FileKept, DownloadKept, TempKept
    <2>4. LoadInv' /\ FreshInv' /\ PaceInv'
      BY LoadKept, FreshKept, PaceKept
    <2> QED
      BY <2>2, <2>3, <2>4 DEF UpdaterInv
  <1> QED
    BY <1>1, <1>2, PTL DEF Spec

(* Disk, process and history keep their types, whatever is published and   *)
(* whenever the process ends.                                              *)
THEOREM UpdaterTypeCorrect == Spec => []TypeOK
  <1>1. UpdaterInv => TypeOK
    BY DEF UpdaterInv
  <1> QED
    BY <1>1, UpdaterInvariance, PTL

(* The quota is spared: Run begins no more than three checks within any    *)
(* interval (maxmind.go:67-68).                                            *)
THEOREM QuotaIsSpared == Spec => []Paced
  <1>1. UpdaterInv => Paced
    BY DEF UpdaterInv, PaceInv, Old, Paced, maxRetries
  <1> QED
    BY <1>1, UpdaterInvariance, PTL

(* No download that ends leaves its temporary file (maxmind.go:276,        *)
(* 396-408).                                                               *)
THEOREM NoTempIsLeft == Spec => []TempsRemoved
  <1>1. UpdaterInv => TempsRemoved
    BY DEF UpdaterInv, TempInv, TempsRemoved
  <1> QED
    BY <1>1, UpdaterInvariance, PTL

(* While Run waits, every file on disk is loaded, unless some file did not *)
(* open the last time they were opened (maxmind.go:218).                   *)
THEOREM ReplacedIsLoaded == Spec => []LoadedAfterCheck
  <1>1. UpdaterInv => LoadedAfterCheck
    BY DEF UpdaterInv, LoadInv, LoadedAfterCheck, Checking
  <1> QED
    BY <1>1, UpdaterInvariance, PTL

-----------------------------------------------------------------------------
(* Only Rename changes a file, that of the edition at hand. *)
LEMMA RenameOnly ==
  ASSUME UpdaterInv, [Next]_vars, NEW e \in Editions, file'[e] # file[e]
  PROVE  Rename /\ e = AtEdition
  <1>1. CASE Rename
    BY <1>1, EditionOrder DEF Rename, AtEdition, UpdaterInv, TypeOK
  <1>2. CASE ~ Rename
    <2>1. file' = file
      BY <1>2, UpdaterCases
         DEF Publish, Tick, Exit, Restart, Start, Open, TimerFires, AskNotModified,
             AskArchive, Touch, Extract, Copy, Verify, DownloadFails, EndBootCheck,
             EndCheck, OnUpdate, vars, diskVars
    <2> QED
      BY <2>1
  <1> QED
    BY <1>1, <1>2

(* What Rename puts there, and how the next request will see it. *)
LEMMA RenamedBuild ==
  ASSUME UpdaterInv, Rename
  PROVE  /\ archive \in (file[AtEdition])..published[AtEdition]
         /\ file'[AtEdition] = archive
         /\ recent => archive = published[AtEdition]
         /\ confirmed'[AtEdition] = recent
         /\ published' = published
  BY EditionOrder, BoundsAssumption
     DEF UpdaterInv, TypeOK, DownloadInv, FileInv, AtEdition, Rename

(* What is at a path is replaced by a newer build that MaxMind published,  *)
(* and by nothing else (maxmind.go:382-383).                               *)
THEOREM FilesOnlyGetNewer == Spec => OnlyNewerBuilds
  <1>1. ASSUME UpdaterInv, [Next]_vars, NEW e \in Editions, file'[e] # file[e]
        PROVE  file'[e] \in (file[e] + 1)..published[e]
    <2>1. file[e] \in 0..published[e]
      BY <1>1 DEF UpdaterInv, FileInv
    <2>3. published[e] \in Nat
      BY <1>1, BoundsAssumption DEF UpdaterInv, TypeOK
    <2>2. file'[e] \in (file[e])..published[e]
      BY <1>1, RenameOnly, RenamedBuild
    <2> QED
      BY <1>1, <2>1, <2>2, <2>3
  <1>2. UpdaterInv /\ [Next]_vars =>
          [\A e \in Editions : file'[e] # file[e] =>
             file'[e] \in (file[e] + 1)..published[e]]_vars
    BY <1>1
  <1> QED
    BY <1>2, UpdaterInvariance, PTL DEF Spec, OnlyNewerBuilds

(* A build that was put in place although a newer one was published is not *)
(* taken for current by the next request (maxmind.go:243-288).             *)
THEOREM NewBuildsStayVisible == Spec => RenameHidesNothing
  <1>1. ASSUME UpdaterInv, [Next]_vars, NEW e \in Editions, file'[e] # file[e]
        PROVE  file'[e] = published'[e] \/ ~ confirmed'[e]
    BY <1>1, RenameOnly, RenamedBuild
  <1>2. UpdaterInv /\ [Next]_vars =>
          [\A e \in Editions : file'[e] # file[e] =>
             file'[e] = published'[e] \/ ~ confirmed'[e]]_vars
    BY <1>1
  <1> QED
    BY <1>2, UpdaterInvariance, PTL DEF Spec, RenameHidesNothing

=============================================================================
