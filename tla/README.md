# Verification of the Xibo player for Linux

TLA+ models of the player in `src/player`, the TLC configurations that check them, and theorems that the TLA+
proof system checks. Paths below are relative to `src/player`.

## The system

The player is one process. It shows *layouts*: one main layout at a time, and overlays above it. A layout has
regions, a region plays its media one after another. The CMS says which layouts are to be shown and when (the
schedule), and sends the files they need. XMR, a message bus of the CMS, and a small HTTP server for the widgets
on the screen may override the schedule at any time.

Nearly everything runs on the *UI thread*, the GTK main loop. Other threads (the collection worker, the
downloads, the XMR subscribers, the HTTP client and server) hand their results to it with
`MainLoop::pushToUiThread`.

| Component | State | Operations | Interacts with |
|---|---|---|---|
| Layout queues (`schedule/*LayoutQueue*`) | layouts of the highest priority, cursor, current id | `add`, `inQueue`, `updateCurrent`, `next`, `previous` | owned by the scheduler, made anew by every reload |
| Scheduler (`schedule/Scheduler.cpp`) | schedule, two queues, layout override, overlay overrides, criteria, timer | `reloadSchedule`, `reloadQueue`, `applyLayoutOverride`, `addOverlayOverride`, `clearOverrides`, triggers, criteria, `nextLayout`, `overlayLayouts`, `status` | reads the file cache and the unsafe items; signals `layoutUpdated` and `overlaysUpdated`, whose slots call it again |
| Layouts manager (`control/layout/LayoutsManager.cpp`) | the main layout, the overlays that are loaded | `fetchMainLayout`, `fetchOverlays`, navigation and duration requests | slots of the scheduler; reloads its queue when a layout does not load; gives the window its content |
| Playback (`MainLayoutImpl`, `RegionImpl`, `MediaImpl`) | regions that have expired, the current medium, timers | start, stop, next medium, navigation, durations | a layout that has expired makes the manager fetch the next one |
| Collection (`cms/CollectionInterval.cpp`) | a worker thread, `running_`, the interval's timer, the status | `collectNow`, the answers to each request, `sessionFinished` | delivers schedules, settings and files; submits logs and statistics |
| Downloads and file cache (`cms/RequiredFilesDownloader.cpp`, `common/storage`) | the files, their hashes and whether they are valid | `save`, `cached`, `valid`, `markAsInvalid` | written by download threads, read by the scheduler |
| Statistics (`stat`) | records in a database | add, read, remove from the front | playback adds, the collection submits and removes |
| XMR (`xmr`) | the subscriber of ZeroMQ or WebSocket, its thread | `connect`, `stop`, messages | its settings come from the collection; it overrides the schedule |
| Embedded server (`control/server`) | none | trigger, duration, criteria and fault requests | calls the scheduler and the manager on the UI thread |
| Unsafe items (`control/cache`) | items that failed, each until a time | add, expire | parsers and widgets add, the scheduler reads |
| HTTP client (`networking`) | sessions, each with a promise | send, time out, cancel | XMDS requests |
| Watchdog (`watchdog`) | the child's pid, `terminate` | start, restart, SIGTERM | runs the player |

What is hard here, and what makes each part correct:

* *Re-entrancy.* The scheduler's signals are delivered at once, and their slots call the scheduler again; a fetch
  may run in the middle of another. Correct: what is on the screen when the thread comes to rest is what the
  scheduler chose last, an override is played as long as it lasts and once if it is to be played once, and the
  nesting ends.
* *Time.* Queues are correct only until the next moment at which something begins or ends; one timer stands for
  all those moments. Correct: none of them passes without a reload.
* *Stale places.* Every reload replaces the queue; the cursor is found again by an id. Correct: the cursor is
  inside the queue, and every layout of the queue has its turn.
* *The order of answers* in a collection, errors in the middle of it, a new collection before the last has ended.
  Correct: one collection at a time, every collection ends and another follows, statistics are submitted once.
* *Expiry in playback.* Correct: a layout expires once, when every region has, and no timer of it outlives it.
* *Restarts and failed downloads.* Correct: a file that is valid in the cache is complete on the disk, and what is
  required arrives in the end.
* *Lifecycles of threads.* Correct: no thread outlives what it uses, no join waits for itself.

`PROJECT.json` lists the components and, under `hazards`, the places in the code.

## Modules

| Module | Models |
|---|---|
| `Selection` | `Elements`, `Keep`: what is left of a sequence (`std::remove_if`) |
| `LayoutQueue` | the queues: pure operators, a queue is a value |
| `Scheduler` | the scheduler: one action per operation, the requests that reach it, time and the cache |
| `LayoutsManager` | `EXTENDS Scheduler`: the manager's actions, the composition, the properties |
| `Statistics` | the recorder, its table, and the steps of `submitStats` |
| `Collection` | `EXTENDS Statistics`: the worker, the UI thread, the interval's timer, the schedule file, the CMS |
| `ScheduleFeed` | what a collection promises of the schedule, refined by `Collection` |
| `LayoutParser` | what an XLF file is parsed into: pure operators |
| `Playback` | `EXTENDS LayoutParser`: a layout on the screen, its regions and media, their timers and players |
| `Downloads` | the required files, the file cache, purges and restarts |
| `MainLoop` | the queue of the UI thread and `pushToUiThread` |
| `Xmr`, `HttpClient`, `EmbeddedServer` | `EXTENDS MainLoop`: the subscribers, the HTTP sessions, the connections of pages |
| `XiboApp` | `EXTENDS` these three: start, slots, screenshots, collections, shutdown |
| `MC*` | instances for TLC |
| `*_proofs` | lemmas and theorems |

### Scheduler and LayoutsManager

`VARIABLES` are the members of the classes, under their names (`schedule`, `regularQueue`, `layoutOverride`, ...);
`timer` is the time at which `timer_` fires, `fileCache` the set of valid files, `unsafeUntil` the unsafe items of
layouts, `main` and `overlays` the layouts that are loaded, `shown` and `shownOverlays` what the window was given
last. Layout 0 is `EmptyLayoutId`, and shown 0 is the splash screen.

*Calls.* An operation of the UI thread runs to its end, but calls others and emits signals on the way. The
sequence `todo` holds the calls still to be made: an action takes its head and puts what it calls before the
rest. So `reloadQueue` is the action `ReloadQueue` (to the comparison of the current layout), the slots of
`layoutUpdated` when the current layout is gone, then `UpdateCurrentOverlays`. `nextLayout` may reload the queue
before it chooses, so `fetchMainLayout` is `FetchMainLayout`, perhaps `ReloadQueue` and all it causes, then
`CreateMainLayout`, and after a layout that did not load another `ReloadQueue` and `MainLayoutFailed`. Events from
outside wait for `todo` to be empty, except `FileSaved`: the threads that download change the cache at any time,
also in the middle of a call, though not in the middle of one action.

*Time* is counted in the seconds of `DateTime::now()` and does not pass within a handler. The timer is set in whole
seconds counted from a time that has been cut to seconds, so it fires up to a second late: `TimerFires` is enabled
from the second it was set for on, and other handlers may come before it. `DateTime::now()` is local time, the
`createdDt` of an XMR message is UTC; `UtcOffset` is the difference. `closestLayoutDt` starts from a date that is
not a date, which Boost compares as later than all others; this is taken from the library, not from the code.

*Layouts that do not load.* `Outcome` gives each layout one of four ends of `createLayout`: it loads; it loads and
is flagged unsafe because a region has no media; it does not load and is flagged, having no content; it does not
load and is not flagged, because its file cannot be parsed.

Left out: the ids of schedules, statistics, `navigateToWidget` and the duration requests (they belong to playback),
what the status screen shows (`Status` is what it changes), `startDT` of an override (nothing reads it).

### Statistics and Collection

`running`, `workerThread` are `running_` and `workerThread_` of `CollectionInterval`; `timer` is whether
`intervalTimer_` is set; `stage` is, of each thread, the request whose answer it waits for in
`onDisplayRegistered`, and `listed`, `fetched`, `counted`, `batch` are that function's locals and those of
`submitStats`; `pending` holds the callbacks given to `pushToUiThread` that carry a schedule; `schedule` is the
scheduler's; `stats` is the table. `published` and `arrived` are the CMS's. A schedule is its version, a record is
its id.

*Sessions and workers.* `sessionFinished` clears `running_` and sets the timer, and is called by every request that
fails as well as at the end; only `registerDisplay` ends the thread with the session. So a worker may go on while
`collectNow` starts another. The assignment to `workerThread_` starts the new thread first and then destroys the old
`JoinableThread`, which waits for its thread: `joining` is that thread, and the UI thread does nothing until it has
ended (`UiFree`, `Joined`). `Stop` is the shutdown action, which waits the same way.

*Failures.* Every request in `Failing` may fail, `MaxFailures` times in all. A batch whose submission failed may
have reached the CMS or not; a CMS that answers without success loses it without ending the session. An exception of
the table ends `submitStats` only.

*Data races.* `startTimer` runs on the worker's thread. Two workers that restart the timer at once may both connect a
source of which the timer keeps one; the other is in `leaked` and fires too.

*Crashes.* `Crash` is the end of the process at any point and its start by the watchdog: what is in memory is gone,
the table stays, and `stored`, what a player that starts reads from the schedule file.

*The schedule file.* `scheduleUpdated` writes it, between `ScheduleAvailable` and `ToFile` (`saving`). Dead in between,
the player finds the old schedule, the new one, or a torn file, which it reads as the empty schedule; a file that cannot
be opened or not be written to its end is noticed by nobody. What an answer of the CMS is parsed into may be the empty
schedule too (`FromString`).

*What a collection promises of the schedule* is `ScheduleFeed`: the CMS publishes; the player asks, which puts the
newest schedule `inFlight`; what is in flight may be lost or read as the empty schedule; the player follows something
that is in flight and saves it; a restart loses what is in flight and goes on with the file. Schedules are followed in
their order unless those in flight may be of sessions that overlapped. `overlapped` is that history: a worker that is
started while another lives sets it, and it is cleared by a worker that is started when no other lives and no schedule
waits, and by a crash. `Collection` refines it with `InFlight`, what workers have fetched and what is `pending`.

Left out: the other callbacks (settings, files, `collectionFinished_`), which change nothing here; the single downloads,
whose failures are counted and not acted upon; `status_`; the length of the interval. `GetSchedule` takes the newest
schedule at its step, which is when the CMS answers.

### Playback and LayoutParser

`LayoutParser` takes a `Document` to the layout that `MainLayoutParser` makes of it, or to none: which media and regions
are passed over, which attribute makes what fail, what is flagged unsafe. `OutcomeOf` gives the four names that `Outcome`
has in `LayoutsManager`.

`Playback` is one place on the screen (`slot`): the main layout or one overlay. `layout` is what was parsed of the
layout `layoutId`, `queue` is the regular queue of the scheduler, the next layout first, `play` the state of each
`MediaImpl` with its player and its attached audio, `current`, `expiredRegions`, `age` and `mediaIntervals` are the
members `currentMediaIndex_`, `expiredRegions_`, `interval_` and `mediaIntervals_`. As in the scheduler `todo` holds
the calls that are still to be made: a medium that ends makes its region place the next (`MediaFinished`,
`PlaceMedia`) and look whether it is back at its first (`CheckExpired`), which may end the layout (`RegionExpired`),
which is replaced or starts again (`LayoutExpired`, `FetchMainLayout`, `Restart`). `FetchMainLayout` is `nextLayout`
as this place sees it: an override, which is looked up among the unsafe layouts; or the next of the queue, whatever
has been flagged since the queue was made; or none. Reloads take what is not flagged then (`Reloaded`): they happen
when something changes outside (`ScheduleChanges`), when a layout does not load, and once in an event when criteria
expire, but not when a region or a medium is flagged. The overlays, too, are those of the last reload. Timers and ages
are relative and `Tick` moves them all; the bus of a GStreamer player is watched until its first error (`watched`).

What the code does and the model has too: an overlay whose media are all unsafe restarts itself from within its own
start without end; so does a queue of main layouts of which nothing can play, as each fetch gives the next of them and
nobody reloads the queue (the exception that `MainLayoutsComeToRest` names); and a main layout that is replaced while
it is being started calls into an object that is gone; all three are `Crash`. A layout object stays behind the splash
screen when there is no other. The attached audio has the duration 0, so it is never looped. `mediaIntervals_` keeps
the first interval of a medium that is shown twice. A player that has failed is not watched any more, so a video
without a duration that is shown again in the same object never ends: therefore `m.watched` in `RegionKeepsMoving` and
`AllWatched` in `LayoutsEnd`. What the window does with the views is left out, and with it `Container::removeAll`,
which erases from a container while it iterates over it.

### Downloads

`disk` is what a file has in it: nothing, something garbled, or a version. `entries` is `fileCache_`, `saved` the
cache file. Each file of each session is a task with a stage: `Download` (the question whether to download), `Answer`
(a chunk), then the steps of `FileCacheImpl::save`: `Open`, which empties the file, `Write`, `Hash`, `AddToCache`. A
regular file has a hash, a resource only the time of its update. `PurgeAll` removes the files, and `PurgeMarks` marks
the entries. `Restart` is a crash at any step and the start after it: the cache file is loaded, and
`checkResourceDirectory` marks what does not agree with the disk. `Init` covers the cache files of older versions and
files that were removed or damaged.

Two sessions at once, a garbled chunk, a failed request, a file that cannot be opened, a full disk, a cache file that is
not written whole, a purge and a restart each cost one of `MaxFaults`.

`disturbed` names the files for which the code does not keep its promise: a resource that was written to a full disk
or could not be opened is valid all the same, since nothing of it is compared (answers with a resource are never
damaged in the model: they are not put together from chunks); two sessions may leave the older of two versions with
the entry of the newer; a purge between the hash and the entry leaves a valid entry without a file; a crash in the
middle of writing a resource leaves a part of it under an entry that is still valid on the disk, and the check at the
start compares only hashes. So of resources `ResourcesAreNew` says two things: without any exception, that a resource
which a collection passes over has an entry with the time that is required, whatever failed, was migrated or restored;
and of the file on the disk, only where it was saved undisturbed, that it is a version at least as new. It does not
say that a resource survives the faults listed here. A file is cleared when it is saved again undisturbed.

### XMR, HTTP and the embedded server

`ui` holds the steps left of the call the UI thread is in, as some of them block: `XmrManager` stops both subscribers and
starts one, for each of the four fields of the settings in turn. A thread of ZeroMQ makes a context, connects and
receives; `stop` shuts its context down and joins it. The thread of the web socket loops: connect, greet, read, sleep.
`HttpClient::shutdown` stops the `io_context` and cancels the sessions it finds one at a time, while their threads end
them. What the messages, the pages and the collections hand over goes through `queue`; before the loop runs,
`pushToUiThread` runs the callback on the thread that calls it.

The model has the races of the code, and names them: `overtaken` is a `stop` that comes before the thread of ZeroMQ
has made its context, which does nothing and leaves the thread behind; `late` is a session that is made while the
client shuts down and that nobody answers; a session that ends while it is cancelled may set its promise twice, which
ends the program (phase `"crashed"`). `SubscribedAsConfigured` is stated outside the first, `EverythingEnds` outside
all three: they say that these are the only ways in which it fails.

Taken as given: servers answer or refuse, as the code has no timeouts. Merged: the entry into the main loop and the
making of the intervals; the operations of one HTTP session; a collection is its first request. One screenshot is
submitted at a time.

## Runs

| Run | Specification | Shows |
|---|---|---|
| `routine` | `FairRoutineSpec` | without overrides: types, no layout queued out of its time, the splash only when there is nothing to play, overlays on the screen as queued, a reload takes the playable layouts of the highest priority in their order, every layout that stays in the queue is played again and again |
| `player` | `Spec` | with overrides, triggers, purges and layouts that fail: the cursor, the timer, no override played after its end or twice, a live override on the screen, bounded recursion |
| `lost_reload` | `Spec` | violation: an override that comes while the timer is due loses the reload |
| `stale_overlay` | `Spec` | violation: an overlay stays on the screen after its end |
| `west_of_utc` | `Spec` | violation: the end of an override is reckoned in UTC and compared with local time |
| `splash_over_layout` | `RoutineSpec` | violation: the splash screen covers a layout that was fetched |
| `collections` | `FairSpec` | sessions that fail anywhere and overlap: no thread is on its own, the collections go on, the last schedule is played in the end |
| `sessions` | `Spec` | sessions that fail at any request and overlap, and crashes: while `running_` is set its worker is at work, the player follows the CMS (refinement of `ScheduleFeed`), what was sent is out of the table and no record is sent more than twice; only sessions that overlap send one twice or remove one unread |
| `layout_records` | `Spec` | violation: the table refuses the records of layouts |
| `playback` | `FairSpec` | one medium plays in each region, nothing of a stopped medium runs on, regions keep moving, a layout that expires is over, main layouts that start within one another come to rest unless nothing in the queue can play, every layout ends |
| `downloads` | `FairSpec` | a valid file is whole; a resource that is not downloaded again has the required time, and one saved undisturbed is as new as that; what is required arrives, what has arrived is not downloaded again |
| `control` | `AppFairSpec` | the subscriber that runs is the one configured, and every stop, join, collection and the program itself end |

*Bounds of the layouts.* Two schedules (`Rotation`: two layouts in turns, one of which ends first, with an overlay
that begins later; `Campaign`: a layout of a higher priority under a criteria, and a layout that is an overlay in the
other schedule), a default layout, a layout that only overrides name; the time to 4, by when everything in `Rotation`
has begun and ended; two or three requests, enough for an override, its replacement and a schedule or a trigger in
between. `MaxDepth` bounds the calls that are pending at once; in `player` it is the bound that `RecursionEnds` gives
for one layout that fails, the longest stack there has one call less, and recursion without end passes any bound.
`routine` lets the downloads change two files; `player` keeps the cache fixed but for purges and has the layouts that
fail instead.

*Bounds of the collections.* In `collections` three threads: two may run at once, and a third id lets `collectNow`
replace one of a pair; two threads in `sessions`, enough for them to overlap. One failure, which is enough for
sessions to overlap again and again: a session that fails ends twice, and its second end clears `running_` for the
worker that was started in between, which is then joined by a third. Two schedules (one and the empty one in
`collections`), a crash, one leaked timer (none in `sessions`), one callback waiting. Records: in `sessions` batches
of 1 and 2 from limits of 1 and 2 stand for 50 and 300 from 50 and 500, and three records pass each limit with some
left; in `collections` one record lets `submitStats` fail at each of its steps. The proofs have none of these bounds.

*Bounds of playback.* Five files (`MCPlayback`), one or more for each outcome of the parser, as the main layout and as
an overlay: two regions of different lengths, a video without and one with a duration, an attached audio, a page that
repeats, media that are passed over. Two requests or failures, enough for a medium that fails and one that meets its
timer; ages stop at 2, after which nothing depends on them. A reload makes one of four queues (`MCQueues`): none, one
layout whose only medium a fault flags, that layout with one that the parser flags, or with the longest. `MaxDepth` is
8, the bound of the property for five layouts and two in the queue, so that going beyond it is within the instance.

*Bounds of the downloads.* A file of two chunks, which may come from two versions, and a resource; two versions; two
sessions, as a third adds no pair; three faults: a crash or a purge over two sessions takes three of them.

*Bounds of control.* Three threads of ZeroMQ: one that is left behind, one that is stopped, one that starts. Settings
with both kinds of subscriber, two addresses, and none. Two messages, requests or timers, enough for a change of
settings while another waits, and for a session that is under way when the program ends.

*What is not true.* With a failure in the middle of a session the worker goes on beside the next one. Then two workers
may read the same records, and the CMS gets them twice; one may remove records the other was to read, which are lost;
and an older schedule may be the last one pushed, until the next collection. The run `sessions` has all of that. Its
properties say how far it goes: a record is never sent a third time and never goes back to the table
(`SentIsRemoved`), nothing but overlapping sessions sends a record twice (`SentOnce`), removes one unread
(`RemovedWhenRead`) or takes the player back to an older schedule (`FollowsTheCms`), and the last schedule arrives
nevertheless (`LastScheduleArrives`, in `collections`). The repository says nothing of submissions that overlap, so
there is no finding of it.

*Fairness* (`LayoutsManager!Fairness`): a handler that has begun goes on; the timer and the end of a layout are served
at last (GLib serves every source that is ready; the expiry of a layout is requested again each time the layout is
replaced, hence strong fairness). Nothing is assumed of requests, downloads, collections and the passing of time.

`Collection!Fairness`: threads run, the watchdog restarts the player, and the sources of the main loop (the timer,
the callbacks) are dispatched at last although joins hold the loop up again and again, hence strong fairness. Every
request is answered or fails. Nothing is assumed of the CMS, of XMR and of failures, which are finitely many.

`Playback!Fairness`: handlers run to their end and time passes; of each region the timer of its medium and the end of
its stream are served at last, strongly, since requests and the other region may come between again and again.
`Downloads!Fairness`: threads run, requests end, collections follow each other. `XiboApp!AppFairness`: every thread
that can go on does.

*Broken layouts.* `BoundedRecursion` fails as soon as a layout has the outcome `"broken"` and an override that cannot
be played is in force: `fetchMainLayout` fails, `reloadQueue` finds the override not in its queue and fetches again.
The repository does not say what should happen, so there is no finding of it; the instances have no such layout, and
`RecursionEnds` assumes that there is none.

Each property of a passing run has a mutant (`PROJECT.json`, the operators commented "fault to be caught") that
TLC catches with it.

## Proofs

For every value of the constants that satisfies the assumptions:

* `TypeCorrect`: `Spec => []TypeOK`.
* `CursorStaysInQueue`: `Spec => []CursorInQueue`. The two are one induction: `next()` takes the layout at the cursor,
  which has a type only if the cursor is inside the queue, and the cursor is inside only if the queue has the right
  type. `Inv` is their conjunction.
* `TimerAlwaysCovers`: `Spec => []TimerCoversBoundaries`, by induction relative to `Inv`: only a new schedule and a new
  override add moments to those the timer must cover; the first is followed by `reloadQueue` before anything else, the
  second restarts the timer; cleaning up only removes moments (`CleanupStillCovers`).
* `OverridePlayedIsLive`: `Spec => []OverrideIsLive`, by `OverrideInv`. A fetch cleans up and chooses in two calls, and
  other fetches may be nested in between; each of those begins with a call that cleans up, and time does not pass within
  a handler.
* `ReloadsTakeTopPriority`: `Spec => ReloadTakesTopPriority`, from what `QueueItems` returns for any sequence
  (`QueuesTakeTop`): adding the layouts one by one leaves those of the highest priority so far, in their order.
* `QueueStaysFresh`: `RoutineSpec => []QueueFresh`, by `FreshInv` with `TimerCoversBoundaries`: a layout leaves its
  time only at a moment the timer covers. Under `Spec` it is false (`lost_reload`), since an override restarts the
  timer.
* Under `Loadable = LayoutIds`, that every layout loads, `SplashIsLastResort` and `OverlaysFollowTheQueue`:
  `RoutineSpec => []SplashOnlyWithoutLayout`, `[]OverlaysShownAreQueued`, by `SplashInv` and `OverlaysInv`: whenever
  the two sides differ, a call that makes them agree is pending, and nothing pending before it can make the call in
  vain. The assumption is that of the run; without it the first is false (`splash_over_layout`).
* `LastingOverrideIsShown`: `Spec => []LiveOverrideShown` under `LayoutsStayUnplayable`: no download touches the files
  of layouts and their global dependants, no unsafe layout is given up within `MaxTime`, no layout is broken. The run
  `player` satisfies it. By `StayInv`, what cannot be played stays so; hence an override that lasts after a step
  lasted before it, and while it lasts it is shown or a fetch is pending, and no failed fetch is (`LastingInv`).
  Without the assumption the property is false: an override whose layout can be played again is shown only at the next
  fetch.
* `RecursionEnds`: `Spec => []BoundedRecursion` under `FailuresAreFlagged`: no layout is broken, an unsafe layout
  stays so for some time (`UnsafeItemStore` has a default for a time of 0), and `MaxDepth` is at least three calls for
  each layout that cannot be loaded and six more. A fetch that fails pushes a reload, whose signal fetches again, so
  the calls in a handler that is suspended pile up; the proof is that each failure is of another layout.
  `FailedNotQueued`: a layout that failed is in no queue, since the call made right after it is flagged is the reload,
  which takes only valid layouts; so neither `nextLayout` nor the list of overlays chooses it again
  (`ChosenHasNotFailed`, `ListHasNotFailed`). `DepthInv`: every pending call stands no deeper than its `Room`, which
  is three calls for each layout that has failed (of a list of overlays in the making, only those the list no longer
  has to try), a margin by operation, and three more once the criteria have been cleaned up, which happens once within
  an event, as time does not pass there.
* `CollectionTypeCorrect`, `WorkersAlwaysOwned`, `CollectionsGoOn`: `Spec => []CollectionTypeOK`, `[]WorkersAreOwned`,
  `[]NeverStranded`. The last two are proved together (`ControlInv`): that a new worker may be started relies on the
  worker it replaces being the only one that is not waited for, and on nothing running before the main loop starts.
* `RunningAlwaysHasWorker`: `Spec => []RunningHasWorker`, by its own induction: a worker that leaves has cleared
  `running_` in `sessionFinished`, and `collectNow` sets it only together with the new worker.
* `PlayerFollowsTheCms`: `Spec => FollowsTheCms`, that is `Feed!FeedSpec`, by `FeedInv`: until sessions overlap, the
  schedule played, those waiting and the one a worker has got are in order, and at most one worker lives; afterwards
  nothing is said of their order but that all of it was asked for. No assumption is made on `Failing`.
* `SentRecordsAreRemoved`, `OnlyReadRecordsAreRemoved`, `RecordsAreSentOnce`: `Spec => []SentIsRemoved`,
  `RemovedWhenRead`, `SentOnce`, by `RecordsInv`: what a worker has read has left the table or leaves it before it is
  sent, so whoever may still send a record had read it before any removal, and with the times it has arrived those are
  two at most; until sessions overlap, a worker counts no more records than there are when it reads and removes, so
  new ones are never among the oldest, and what is still to be sent has not arrived.
* `DownloadsTypeCorrect`, `RegularFilesAlwaysWhole`, `ResourcesAlwaysNew`: `Spec => []DownloadsTypeOK`,
  `[]RegularFilesAreWhole`, `[]ResourcesAreNew`, by `DownloadsInv`: of each task, what its stage says of the file (a
  file that is being saved undisturbed has been emptied, or has what was to be written); of each entry, also of those
  in the cache file, that it is backed (a valid hash is that of a version); and that the file of a trusted entry is
  there. That what is passed over has the required time needs `TimesFromTheCms` besides: no entry, in memory or in the
  cache file, old or migrated, has a time the CMS has not given, through every fault; this part is proved of disturbed
  resources too. Bounds on faults, versions and sessions play no part.
* `PlaybackTypeCorrect`, `OneMediumAtATime`, `StoppedMediaAreSilent`, `RegionsKeepMoving`, `ExpiredLayoutsAreOver`,
  `LoadedLayoutsHaveContent`: `Spec => []PlaybackTypeOK`, `[]OneMediumPerRegion`, `[]StoppedIsSilent`,
  `[]RegionKeepsMoving`, `[]ExpiredLayoutIsOver`, `[]LoadedHasContent`, by `PlaybackInv`. The properties speak of the
  player at rest, so the invariant says what the stack of calls may hold: media are to be placed from the first on,
  but by the call at its head (`CallsInv`); a medium that plays where one is to be placed is the one that will be
  (`PlacingInv`: an overlay that starts again from within its own start places media twice); a region that has not
  expired either plays, or a call that places or ends it is pending (`MovingInv`). Of each medium `MediumInv`, which
  the operations of `MediaImpl` keep.
* `MainLayoutsRest`: `Spec => []MainLayoutsComeToRest` for finitely many layouts and `UnsafeRegionTtl # 0`, by
  `RestInv` with `PlaybackInv`. A layout that expires while it starts has been flagged. An override is loaded while it
  is not flagged, so no layout is an override twice; the queue gives its layouts in turn, flagged or not, so after as
  many as it is long every layout in it has expired in its start (`Spent`), and then nothing in it can play
  (`Hopeless`, the exception of the property). So by `DepthInv` no more have expired than are flagged, have been given
  by the queue, and one. `BehindInv` and `FreshRegions` give the order of the calls: an event leaves at most one check
  of a region behind, so the first layout may expire twice; the regions of a layout that starts are placed once each,
  so the last one that expires leaves nothing to be placed.
* `AppTypesHold`, `SubscriptionFollowsSettings`: `AppSpec => []AppTypeOK`, `[]SubscribedAsConfigured`, by `AppInv`.
  `UiInv` says in which order the steps of a call can be pending: the stops before the run they make room for, the
  fields that are still to be compared last. `ZmqInv` counts the threads of ZeroMQ: those that live are that of
  `worker_` and the one it is about to replace, and a context is that of `context_` or is being disposed of; so one of
  three numbers is free when a thread is made, and `MaxThreads >= 3` is all that is assumed of their number.
  `ConfigInv` is what makes the end right: what runs, or what a pending step will stop or run, is what the fields
  looked at so far ask for, and fields that differ from `manager` are still to be looked at. It is stated outside
  `overtaken`, as the property is.

`Keep` and `QueueItems` are recursive functions. That they exist and have the values their definitions give is proved
in `Selection_proofs` and `LayoutQueue_proofs` (`RecursionExists`) from the well-foundedness of `<` on the naturals, with
sets in place of the induction predicate.

Every safety property of a passing run is proved. Only model-checked is liveness under fairness, which is beyond the
prover: `EveryQueuedLayoutPlays`, `LastScheduleArrives`, `LayoutsEnd`, `FilesArrive`, `DownloadsCease`, `EverythingEnds`.

## Plan

1. `Playback`: the refinement of an abstract layout (plays, expires once), which is what `MainLayoutExpired` assumes
of it. 2. `status_` of the collection, the report of faults to the CMS, the commands of XMR.

## Not modelled

GTK and GStreamer themselves, what widgets look like, transitions; the texts of XLF, XMDS, SOAP and of configuration
files, and their sizes and positions; cryptography and logging, which keep no state that the player depends on; the
options program; the screenshots by the portal of the desktop, which the GTK build does not use; packaging. `status_`
of the collection and `activeSessions_` of the HTTP client are written and read by several threads without a lock:
what the build makes of that cannot be told from the source, and no property depends on their values.
