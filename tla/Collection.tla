----------------------------- MODULE Collection -----------------------------
(***************************************************************************)
(* src/player/cms/CollectionInterval.cpp: the UI thread starts a worker    *)
(* thread, which asks the CMS for the schedule and the required files,     *)
(* downloads the files, submits what is to be submitted, and sets the      *)
(* timer of the next collection.                                           *)
(*                                                                         *)
(* A worker makes its requests one after the other and is at the stage of  *)
(* the request whose answer it waits for.  A request that fails ends the   *)
(* session and not the worker, which goes on: collectNow may start a       *)
(* second worker beside it.  The unique_ptr workerThread_ is replaced when *)
(* the new thread runs, and the destructor of the JoinableThread that was  *)
(* in it makes the UI thread wait for the old one.                         *)
(*                                                                         *)
(* A worker hands its results to the UI thread in the order of pushes.     *)
(* Only those that change state of this module are kept, the schedules; a  *)
(* schedule is its version.  settingsUpdated, filesDownloaded and          *)
(* collectionFinished change the settings, the queue of the scheduler      *)
(* (see Scheduler) and nothing.                                            *)
(*                                                                         *)
(* The Scheduler writes a schedule that differs from its own over the file *)
(* of the last one; a player that dies over it finds the old schedule, the *)
(* new one, or a torn file, which it reads as the empty schedule.          *)
(***************************************************************************)
EXTENDS Statistics, Sequences

CONSTANTS
  NoThread,      \* an empty unique_ptr
  Failing,       \* what may fail: stages, and the file of the schedule
  MaxFailures,   \* bound on the failures
  MaxVersion,    \* bound on the schedules of the CMS
  MaxPending,    \* bound on the callbacks that wait when a collection starts
  MaxLeaked,     \* bound on the timers out of control
  MaxCrashes     \* bound on the crashes

Stages ==
  {"none", "registerDisplay", "requiredFiles", "schedule", "onSchedule",
   "onRequiredFiles", "submitLogs", "countRecords", "readRecords",
   "removeFromQueue", "submitStats", "notifyStatus", "finish"}

ASSUME CollectionAssumption ==
  /\ NoThread \notin Threads
  /\ Failing \subseteq Stages \cup {"toFile"}
  /\ {MaxFailures, MaxVersion, MaxPending, MaxLeaked, MaxCrashes} \subseteq Nat

VARIABLES
  published,      \* the newest schedule of the CMS
  failures,       \* failures so far
  crashes,        \* crashes so far
  ui,             \* the main loop is "starting", "running" or "stopped"
  joining,        \* the thread the UI thread waits for
  workerThread,   \* the thread in workerThread_
  overlapped,     \* history: whether sessions overlapped, until all is through
  running,        \* running_
  timer,          \* whether intervalTimer_ is set
  leaked,         \* the timers set that intervalTimer_ has lost
  stage,          \* the stage of each thread
  listed,         \* whether it got the required files
  fetched,        \* the schedule it got
  pending,        \* the schedules on their way to the UI thread
  schedule,       \* the schedule of the Scheduler
  stored,         \* the schedule a player that starts would read
  saving          \* whether the file of the schedule is being written

cmsVars     == <<published, failures, crashes>>
uiVars      == <<ui, joining, workerThread, overlapped>>
timerVars   == <<timer, leaked>>
workerVars  == <<stage, listed, fetched>>
fileVars    == <<stored, saving>>
feedVars    == <<pending, schedule, fileVars>>
sessionVars == <<running, timerVars>>
vars == <<cmsVars, uiVars, sessionVars, workerVars, feedVars, statsVars>>

NoSchedule == -1

(* LayoutSchedule{}, also what an unreadable schedule is.                  *)
Empty == 0

Live == {w \in Threads : stage[w] # "none"}

Fails(s) ==
  /\ s \in Failing
  /\ failures < MaxFailures
  /\ failures' = failures + 1
  /\ UNCHANGED <<published, crashes>>

(***************************************************************************)
(* The session                                                             *)
(***************************************************************************)
(* Timer::startOnce disconnects the source of the timer and connects       *)
(* another.  When two workers do so at once, the source of one is lost to  *)
(* the timer, and will fire.                                               *)
StartTimer(w) ==
  /\ timer' = TRUE
  /\ \/ UNCHANGED leaked
     \/ timer /\ Live # {w} /\ leaked < MaxLeaked /\ leaked' = leaked + 1

(* A fault to be caught: a session that ends without running_ = false.     *)
SessionStaysRunning(w) == StartTimer(w) /\ UNCHANGED running

SessionFinished(w) == running' = FALSE /\ StartTimer(w)

Session == UNCHANGED sessionVars

(* A request whose failure ends the session.                               *)
Submitted(w, s) ==
  \/ Session /\ UNCHANGED cmsVars
  \/ Fails(s) /\ SessionFinished(w)

At(w, s) == stage[w] = s
Go(w, s) == stage' = [stage EXCEPT ![w] = s]

(***************************************************************************)
(* The worker                                                              *)
(***************************************************************************)
(* A fault to be caught: a display that is not ready ends the thread only. *)
RegisterDisplayQuits(w) ==
  /\ At(w, "registerDisplay")
  /\ \/ Session /\ Go(w, "requiredFiles") /\ UNCHANGED cmsVars
     \/ Fails("registerDisplay") /\ Session /\ Go(w, "none")
  /\ UNCHANGED <<uiVars, listed, fetched, feedVars, statsVars>>

(* A fault to be caught: it allows the next session without its timer.     *)
RegisterDisplayForgetsTimer(w) ==
  /\ At(w, "registerDisplay")
  /\ \/ Session /\ Go(w, "requiredFiles") /\ UNCHANGED cmsVars
     \/ /\ Fails("registerDisplay")
        /\ running' = FALSE /\ UNCHANGED timerVars
        /\ Go(w, "none")
  /\ UNCHANGED <<uiVars, listed, fetched, feedVars, statsVars>>

RegisterDisplay(w) ==
  /\ At(w, "registerDisplay")
  /\ \/ Session /\ Go(w, "requiredFiles") /\ UNCHANGED cmsVars
     \/ Fails("registerDisplay") /\ SessionFinished(w) /\ Go(w, "none")
  /\ UNCHANGED <<uiVars, listed, fetched, feedVars, statsVars>>

RequiredFiles(w) ==
  /\ At(w, "requiredFiles")
  /\ \/ listed' = [listed EXCEPT ![w] = TRUE] /\ UNCHANGED cmsVars
     \/ listed' = [listed EXCEPT ![w] = FALSE] /\ Fails("requiredFiles")
  /\ Go(w, "schedule")
  /\ Session
  /\ UNCHANGED <<uiVars, fetched, feedVars, statsVars>>

GetSchedule(w) ==
  /\ At(w, "schedule")
  /\ \/ fetched' = [fetched EXCEPT ![w] = published] /\ UNCHANGED cmsVars
     \/ fetched' = [fetched EXCEPT ![w] = NoSchedule] /\ Fails("schedule")
  /\ Go(w, "onSchedule")
  /\ Session
  /\ UNCHANGED <<uiVars, listed, feedVars, statsVars>>

(* A fault to be caught: the answer is used without a look at its error.   *)
OnAnySchedule(w) ==
  /\ At(w, "onSchedule")
  /\ pending' = Append(pending, fetched[w])
  /\ fetched' = [fetched EXCEPT ![w] = NoSchedule]
  /\ Go(w, "onRequiredFiles")
  /\ Session
  /\ UNCHANGED <<cmsVars, uiVars, listed, schedule, fileVars, statsVars>>

(* What the parser makes of a schedule; of one it cannot read, the empty   *)
(* schedule, and nobody is told.                                           *)
FromString(version, read) ==
  \/ read = version /\ UNCHANGED cmsVars
  \/ read = Empty /\ Fails("onSchedule")

OnSchedule(w) ==
  /\ At(w, "onSchedule")
  /\ \/ /\ fetched[w] # NoSchedule
        /\ \E read \in {fetched[w], Empty} :
             FromString(fetched[w], read) /\ pending' = Append(pending, read)
        /\ Session
     \/ /\ fetched[w] = NoSchedule
        /\ SessionFinished(w)
        /\ UNCHANGED <<pending, cmsVars>>
  /\ fetched' = [fetched EXCEPT ![w] = NoSchedule]
  /\ Go(w, "onRequiredFiles")
  /\ UNCHANGED <<uiVars, listed, schedule, fileVars, statsVars>>

(* The downloads, then the media inventory.                                *)
OnRequiredFiles(w) ==
  /\ At(w, "onRequiredFiles")
  /\ IF listed[w]
       THEN Submitted(w, "onRequiredFiles")
       ELSE SessionFinished(w) /\ UNCHANGED cmsVars
  /\ listed' = [listed EXCEPT ![w] = FALSE]
  /\ Go(w, "submitLogs")
  /\ UNCHANGED <<uiVars, fetched, feedVars, statsVars>>

SubmitLogs(w) ==
  /\ At(w, "submitLogs")
  /\ Submitted(w, "submitLogs")
  /\ Go(w, "countRecords")
  /\ UNCHANGED <<uiVars, listed, fetched, feedVars, statsVars>>

(* An operation of the Recorder, or the exception of the table.            *)
Recorded(w, s, operation, next) ==
  /\ At(w, s)
  /\ \/ operation /\ Go(w, next) /\ UNCHANGED cmsVars
     \/ Fails(s) /\ GiveUp(w) /\ Go(w, "notifyStatus")
  /\ Session
  /\ UNCHANGED <<uiVars, listed, fetched, feedVars>>

CountStats(w) ==
  Recorded(w, "countRecords", CountRecords(w),
           IF stats = {} THEN "notifyStatus" ELSE "readRecords")
ReadStats(w)   == Recorded(w, "readRecords", ReadRecords(w), "removeFromQueue")
RemoveStats(w) == Recorded(w, "removeFromQueue", RemoveFromQueue(w), "submitStats")

(* The CMS that answers without success, and what the request throws, do   *)
(* not end the session.                                                    *)
SubmitStats(w) ==
  /\ At(w, "submitStats")
  /\ \/ SendRecords(w, TRUE) /\ Session /\ UNCHANGED cmsVars
     \/ /\ Fails("submitStats")
        /\ Session \/ SessionFinished(w)
        /\ \E arrives \in BOOLEAN : SendRecords(w, arrives)
  /\ Go(w, "notifyStatus")
  /\ UNCHANGED <<uiVars, listed, fetched, feedVars>>

NotifyStatus(w) ==
  /\ At(w, "notifyStatus")
  /\ Submitted(w, "notifyStatus")
  /\ Go(w, "finish")
  /\ UNCHANGED <<uiVars, listed, fetched, feedVars, statsVars>>

Finish(w) ==
  /\ At(w, "finish")
  /\ SessionFinished(w)
  /\ Go(w, "none")
  /\ UNCHANGED <<cmsVars, uiVars, listed, fetched, feedVars, statsVars>>

Worker(w) ==
  \/ RegisterDisplay(w) \/ RequiredFiles(w) \/ GetSchedule(w) \/ OnSchedule(w)
  \/ OnRequiredFiles(w) \/ SubmitLogs(w)
  \/ CountStats(w) \/ ReadStats(w) \/ RemoveStats(w) \/ SubmitStats(w)
  \/ NotifyStatus(w) \/ Finish(w)

(***************************************************************************)
(* The UI thread                                                           *)
(***************************************************************************)
UiFree == ui = "running" /\ joining = NoThread /\ ~saving

NewWorker(w, old) ==
  /\ running' = TRUE
  /\ workerThread' = w /\ Go(w, "registerDisplay")
  /\ joining' = old
  /\ overlapped' = (Live # {} \/ (overlapped /\ pending # <<>>))
  /\ UNCHANGED <<listed, fetched>>

(* A fault to be caught: the old thread is detached.                       *)
CollectDetached ==
  IF running
    THEN UNCHANGED <<joining, workerThread, overlapped, running, workerVars>>
    ELSE \E w \in Threads \ (Live \cup {workerThread}) : NewWorker(w, NoThread)

(* collectNow: the new thread runs before the old one is waited for.       *)
CollectNow ==
  IF running
    THEN UNCHANGED <<joining, workerThread, overlapped, running, workerVars>>
    ELSE \E w \in Threads \ (Live \cup {workerThread}) : NewWorker(w, workerThread)

(* The main loop starts and asks for the first collection.                 *)
Start ==
  /\ ui = "starting"
  /\ ui' = "running"
  /\ CollectNow
  /\ UNCHANGED <<cmsVars, timerVars, feedVars, statsVars>>

(* XMR asks for a collection: collectNow, dataUpdate, purgeAll, changeLayout *)
(* and overlayLayout with downloads.                                       *)
Request ==
  /\ UiFree /\ Len(pending) <= MaxPending
  /\ CollectNow
  /\ UNCHANGED <<cmsVars, ui, timerVars, feedVars, statsVars>>

TimerFires ==
  /\ UiFree /\ Len(pending) <= MaxPending
  /\ \/ timer /\ timer' = FALSE /\ UNCHANGED leaked
     \/ leaked > 0 /\ leaked' = leaked - 1 /\ UNCHANGED timer
  /\ CollectNow
  /\ UNCHANGED <<cmsVars, ui, feedVars, statsVars>>

(* The destructor of the JoinableThread returns.                           *)
Joined ==
  /\ joining \in Threads \ Live
  /\ joining' = NoThread
  /\ UNCHANGED <<cmsVars, ui, workerThread, overlapped, sessionVars, workerVars, feedVars, statsVars>>

(* A fault to be caught: what was pushed last runs first.                  *)
ScheduleAvailableLast ==
  /\ UiFree /\ pending # <<>>
  /\ schedule' = pending[Len(pending)]
  /\ pending' = SubSeq(pending, 1, Len(pending) - 1)
  /\ saving' = (schedule' # schedule)
  /\ UNCHANGED <<cmsVars, uiVars, sessionVars, workerVars, stored, statsVars>>

(* reloadSchedule, up to the slot of scheduleUpdated, which writes the     *)
(* file; what follows, reloadQueue, is in Scheduler.                       *)
ScheduleAvailable ==
  /\ UiFree /\ pending # <<>>
  /\ schedule' = Head(pending)
  /\ pending' = Tail(pending)
  /\ saving' = (schedule' # schedule)
  /\ UNCHANGED <<cmsVars, uiVars, sessionVars, workerVars, stored, statsVars>>

(* The file is written, or cannot be opened, or not to its end; toFile     *)
(* tells nobody.                                                           *)
ToFile ==
  /\ saving /\ saving' = FALSE
  /\ \/ stored' = schedule /\ UNCHANGED cmsVars
     \/ stored' \in {stored, Empty} /\ Fails("toFile")
  /\ UNCHANGED <<uiVars, sessionVars, workerVars, pending, schedule, statsVars>>

LayoutEnds ==
  /\ UiFree /\ AddRecord
  /\ UNCHANGED <<cmsVars, uiVars, sessionVars, workerVars, feedVars>>

(* stop, when the main loop ends: the destructor waits for the worker.     *)
Stop ==
  /\ UiFree
  /\ ui' = "stopped"
  /\ joining' = workerThread
  /\ workerThread' = NoThread
  /\ UNCHANGED <<cmsVars, overlapped, sessionVars, workerVars, feedVars, statsVars>>

(***************************************************************************)
(* The environment                                                         *)
(***************************************************************************)
PublishSchedule ==
  /\ published < MaxVersion
  /\ published' = published + 1
  /\ UNCHANGED <<failures, crashes, uiVars, sessionVars, workerVars, feedVars, statsVars>>

(* What there is in the file: while it is being written, the old schedule, *)
(* a part of the new one, or all of it.                                    *)
FromFile == IF saving THEN {stored, Empty, schedule} ELSE {stored}

(* The player dies at any point and the watchdog starts it again; the      *)
(* schedule and the records are in files.                                  *)
Crash ==
  /\ ui # "starting" /\ crashes < MaxCrashes
  /\ crashes' = crashes + 1
  /\ ui' = "starting" /\ joining' = NoThread /\ workerThread' = NoThread
  /\ overlapped' = FALSE
  /\ running' = FALSE /\ timer' = FALSE /\ leaked' = 0
  /\ stage' = [w \in Threads |-> "none"]
  /\ listed' = [w \in Threads |-> FALSE]
  /\ fetched' = [w \in Threads |-> NoSchedule]
  /\ pending' = <<>>
  /\ stored' \in FromFile /\ schedule' = stored' /\ saving' = FALSE
  /\ ForgetAll
  /\ UNCHANGED <<published, failures>>

Init ==
  /\ published = 0 /\ failures = 0 /\ crashes = 0
  /\ ui = "starting" /\ joining = NoThread /\ workerThread = NoThread
  /\ overlapped = FALSE
  /\ running = FALSE /\ timer = FALSE /\ leaked = 0
  /\ stage = [w \in Threads |-> "none"]
  /\ listed = [w \in Threads |-> FALSE]
  /\ fetched = [w \in Threads |-> NoSchedule]
  /\ pending = <<>> /\ schedule = Empty /\ stored = Empty /\ saving = FALSE
  /\ StatsInit

Next ==
  \/ Start \/ Request \/ TimerFires \/ Joined \/ ScheduleAvailable \/ ToFile \/ LayoutEnds \/ Stop
  \/ PublishSchedule \/ Crash
  \/ \E w \in Threads : Worker(w)

Spec == Init /\ [][Next]_vars

(* Every thread runs, the watchdog starts the player, and the main loop    *)
(* dispatches all that is ready in each of its rounds, however often it is *)
(* held up by a worker it waits for.                                       *)
Fairness ==
  /\ WF_vars(Start) /\ WF_vars(Joined) /\ WF_vars(ToFile)
  /\ SF_vars(TimerFires) /\ SF_vars(ScheduleAvailable)
  /\ \A w \in Threads : WF_vars(Worker(w))

FairSpec == Spec /\ Fairness

(***************************************************************************)
(* Properties                                                              *)
(***************************************************************************)
CollectionTypeOK ==
  /\ published \in Nat /\ failures \in Nat /\ crashes \in Nat
  /\ ui \in {"starting", "running", "stopped"}
  /\ joining \in Threads \cup {NoThread}
  /\ workerThread \in Threads \cup {NoThread}
  /\ overlapped \in BOOLEAN
  /\ running \in BOOLEAN /\ timer \in BOOLEAN /\ leaked \in Nat
  /\ stage \in [Threads -> Stages]
  /\ listed \in [Threads -> BOOLEAN]
  /\ fetched \in [Threads -> Nat \cup {NoSchedule}]
  /\ pending \in Seq(Nat)
  /\ schedule \in Nat /\ stored \in Nat /\ saving \in BOOLEAN
  /\ stats \subseteq 1..offered
  /\ offered \in 0..MaxRecords
  /\ counted \in [Threads -> Nat]
  /\ batch \in [Threads -> SUBSET (1..offered)]
  /\ arrived \in [1..MaxRecords -> Nat]

(* No worker thread is ever on its own: each that runs is in workerThread_ *)
(* or the one the UI thread waits for, so there are never more than two,   *)
(* and stop waits for the last.                                            *)
WorkersAreOwned == Live \subseteq {workerThread, joining}

(* The collections go on, whatever fails and however sessions overlap: a   *)
(* worker is running, or the timer of the next collection is set and       *)
(* running_ will not make it do nothing.                                   *)
NeverStranded ==
  ui = "running" => Live # {} \/ (~running /\ (timer \/ leaked > 0))

(* While running_ keeps collectNow from doing anything, the worker in      *)
(* workerThread_ is at work and will clear it, although each failure of    *)
(* the worker before, which may still be there, clears it too.             *)
RunningHasWorker == running /\ ui = "running" => workerThread \in Live

(* A record leaves the table only with the worker that has read it: the    *)
(* reading and the removal of submitStats, two operations, are of the same *)
(* records although records are added in between.  Sessions that overlap   *)
(* are the exception: each may remove what the other was to read.          *)
RemovedWhenRead ==
  [][\A r \in stats \ stats' : overlapped \/ \E w \in Threads : r \in batch[w]]_vars

(* The CMS gets a record a second time only of sessions that overlap.      *)
SentOnce ==
  [][\A r \in DOMAIN arrived : arrived'[r] # arrived[r] => overlapped \/ arrived[r] = 0]_vars

(* The player follows the CMS, through failures anywhere, sessions that    *)
(* overlap, a file that is not written and a player that dies over it.     *)
InFlight ==
  ({fetched[w] : w \in Threads} \ {NoSchedule}) \cup {pending[i] : i \in DOMAIN pending}
Feed == INSTANCE ScheduleFeed WITH followed <- schedule, inFlight <- InFlight
FollowsTheCms == Feed!FeedSpec

(* Once the CMS publishes no more and requests fail no more, the player    *)
(* comes to play the last schedule and stays with it, whatever overlapping *)
(* sessions left behind and whatever became of the file of the schedule.   *)
LastScheduleArrives == <>[](ui = "stopped" \/ schedule = published)
=============================================================================
