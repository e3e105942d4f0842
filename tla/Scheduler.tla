----------------------------- MODULE Scheduler -----------------------------
(***************************************************************************)
(* src/player/schedule/Scheduler.cpp: which main layout and which overlays *)
(* the player shows, from the CMS schedule, the overrides of XMR and of    *)
(* the trigger API, and the criteria.                                      *)
(*                                                                         *)
(* Every operation runs on the UI thread, to its end.  An operation calls  *)
(* others and emits signals whose slots call the scheduler again, so the   *)
(* calls still to be made are a stack, todo: the head is made next, and a  *)
(* call puts those it makes before the rest.  Events from outside come     *)
(* when the stack is empty.  The slots of layoutUpdated and                *)
(* overlaysUpdated are in LayoutsManager.                                  *)
(*                                                                         *)
(* Time is counted in the seconds of DateTime::now and does not pass       *)
(* within a handler.                                                       *)
(***************************************************************************)
EXTENDS LayoutQueue, FiniteSets

CONSTANTS
  Schedules,    \* the LayoutSchedules the CMS may send
  LayoutIds,    \* the ids of layouts; the id also stands for "<id>.xlf"
  Files,        \* the files of the cache
  Volatile,     \* those of them that downloads make valid or invalid
  Metrics,      \* the names of criteria
  Values,       \* the values criteria may have
  NoValue,      \* the value of a criteria that is not set
  OverrideIds,  \* the layouts named by changeLayout, overlayLayout and navLayout
  Durations,    \* the durations those may carry; 0 plays once
  Delays,       \* how long before its arrival such a message was created
  UtcOffset,    \* the local time less UTC
  Ttls,         \* the lifetimes of criteria
  MaxTime,      \* bound on the time
  MaxRequests   \* bound on the requests from outside

Condition == [metric : Metrics, accepts : SUBSET Values]

Layout ==
  [id : LayoutIds, priority : Int, startDT : Nat, endDT : Nat,
   dependants : SUBSET Files, criteria : SUBSET Condition]

Schedule ==
  [regular : Seq(Layout), overlay : Seq(Layout),
   default : [id : LayoutIds, dependants : SUBSET Files],
   globalDependants : SUBSET Files]

ASSUME SchedulerAssumption ==
  /\ LayoutIds \subseteq Nat \ {EmptyLayoutId}
  /\ LayoutIds \cup Volatile \subseteq Files
  /\ OverrideIds \subseteq LayoutIds \cup {EmptyLayoutId}
  /\ \A s \in Schedules : s \in Schedule
  /\ NoValue \notin Values
  /\ Durations \subseteq Nat
  /\ Delays \subseteq Nat
  /\ UtcOffset \in Int
  /\ Ttls \subseteq Nat
  /\ MaxTime \in Nat
  /\ MaxRequests \in Nat

VARIABLES
  now,               \* DateTime::now()
  fileCache,         \* the files that are valid in the cache
  unsafeUntil,       \* UnsafeItemStore: when the layout's last item expires
  schedule,          \* schedule_
  regularQueue,      \* regularQueue_
  overlayQueue,      \* overlayQueue_, its items
  layoutOverride,    \* layoutOverride_
  overlayOverrides,  \* overlayOverrides_
  criteria,          \* criteria_
  timer,             \* when timer_ fires, or NoTimer
  todo,              \* the calls the UI thread has still to make
  requests           \* how many requests from outside may still come

queueVars    == <<schedule, regularQueue, overlayQueue>>
overrideVars == <<layoutOverride, overlayOverrides, criteria>>
envVars      == <<now, fileCache, unsafeUntil, requests>>
schedulerVars ==
  <<now, fileCache, unsafeUntil, schedule, regularQueue, overlayQueue,
    layoutOverride, overlayOverrides, criteria, timer, todo, requests>>

NoTimer    == 0
NoCriteria == [value |-> NoValue, expiresAt |-> 0]
NoOverride ==
  [active |-> FALSE, id |-> EmptyLayoutId, endDT |-> 0,
   oneShot |-> FALSE, played |-> FALSE]

AnyId == LayoutIds \cup {EmptyLayoutId}

Operations ==
  {"reloadQueue", "updateCurrentOverlays", "fetchMainLayout", "createMainLayout",
   "mainLayoutFailed", "currentLayoutId", "fetchOverlays", "listOverlays",
   "createOverlays", "triggerNextLayout", "triggerPreviousLayout",
   "triggerLayoutById"}

(* A pending call: ids are its argument, or what it has still to do, views *)
(* what it has made so far.                                                *)
Calls == [op : Operations, ids : Seq(AnyId), views : SUBSET LayoutIds]

Call(op, ids) == [op |-> op, ids |-> ids, views |-> {}]

Idle       == todo = <<>>
Calling(op) == todo # <<>> /\ Head(todo).op = op
Rest       == IF todo = <<>> THEN <<>> ELSE Tail(todo)

(* A fault to be caught: only the manager listens.                         *)
LayoutUpdatedToManager == <<Call("fetchMainLayout", <<>>)>>

(* The slots connected to layoutUpdated_, in the order they were connected *)
(* (LayoutsManager's constructor, then XiboApp::run), and to               *)
(* overlaysUpdated_.                                                       *)
LayoutUpdated ==
  <<Call("fetchMainLayout", <<>>), Call("currentLayoutId", <<>>)>>
OverlaysUpdated == <<Call("fetchOverlays", <<>>)>>

-----------------------------------------------------------------------------
(* What is playable                                                        *)

LayoutOnSchedule(layout) == layout.startDT <= now /\ now < layout.endDT

LayoutValid(id, dependants) ==
  /\ id \in LayoutIds
  /\ unsafeUntil[id] <= now
  /\ ({id} \cup dependants \cup schedule.globalDependants) \subseteq fileCache

CriteriaActive(condition, active) ==
  /\ active[condition.metric].expiresAt > now
  /\ active[condition.metric].value \in condition.accepts

LayoutCriteriaActive(layout, active) ==
  \A condition \in layout.criteria : CriteriaActive(condition, active)

Playable(layouts, active) ==
  {layout \in Elements(layouts) :
     /\ LayoutOnSchedule(layout)
     /\ LayoutValid(layout.id, layout.dependants)
     /\ LayoutCriteriaActive(layout, active)}

RegularQueueFrom(active) ==
  NewQueue(QueueItems(schedule.regular, Playable(schedule.regular, active)),
           IF LayoutValid(schedule.default.id, schedule.default.dependants)
           THEN schedule.default.id ELSE EmptyLayoutId)

OverlayQueueFrom(active) ==
  QueueItems(schedule.overlay, Playable(schedule.overlay, active))

-----------------------------------------------------------------------------
(* Expired overrides and criteria                                          *)

OverrideExpired ==
  \/ ~layoutOverride.oneShot /\ layoutOverride.endDT <= now
  \/ layoutOverride.oneShot /\ layoutOverride.played

LiveOverride ==
  IF layoutOverride.active /\ OverrideExpired THEN NoOverride ELSE layoutOverride

LiveOverlayOverrides ==
  Keep(overlayOverrides, {o \in Elements(overlayOverrides) : o.endDT > now})

LiveCriteria ==
  [m \in Metrics |->
     IF criteria[m].expiresAt <= now THEN NoCriteria ELSE criteria[m]]

CleanupExpiredOverrides ==
  /\ layoutOverride' = LiveOverride
  /\ overlayOverrides' = LiveOverlayOverrides

CleanupExpiredCriteria == criteria' = LiveCriteria

(* The common beginning of the operations that read the queues: clean up,  *)
(* reload the queues if a criteria was removed, then go on with calls.     *)
CleanupThen(calls) ==
  /\ CleanupExpiredOverrides
  /\ CleanupExpiredCriteria
  /\ todo' = (IF LiveCriteria # criteria
              THEN <<Call("reloadQueue", <<>>)>> ELSE <<>>) \o calls \o Rest

-----------------------------------------------------------------------------
(* The timer                                                               *)

(* Faults to be caught: moments that closestLayoutDt could forget.         *)
BoundariesOfStarts(override, overlays) ==
  {t \in {l.startDT : l \in Elements(schedule.regular) \cup Elements(schedule.overlay)} :
     now < t}

BoundariesOfSchedule(override, overlays) ==
  LET layouts == Elements(schedule.regular) \cup Elements(schedule.overlay)
  IN  {t \in {l.startDT : l \in layouts} \cup {l.endDT : l \in layouts} : now < t}

(* The moments after now at which the queues or the overrides change:      *)
(* closestLayoutDt returns the least of them.                              *)
Boundaries(override, overlays) ==
  LET layouts == Elements(schedule.regular) \cup Elements(schedule.overlay)
      ofOverride == IF override.active /\ ~override.oneShot
                    THEN {override.endDT} ELSE {}
  IN  {t \in {l.startDT : l \in layouts} \cup {l.endDT : l \in layouts}
             \cup ofOverride \cup {o.endDT : o \in Elements(overlays)} : now < t}

(* A timer that runs is left alone when there is no boundary.              *)
RestartTimer ==
  LET boundaries == Boundaries(layoutOverride', overlayOverrides')
  IN  IF boundaries = {} THEN timer' = timer
      ELSE \E t \in boundaries :
             (\A b \in boundaries : t <= b) /\ timer' = t

-----------------------------------------------------------------------------
(* Reloading                                                               *)

AddMissing(ids, more) ==
  ids \o Keep(more, Elements(more) \ Elements(ids))

(* Scheduler::reloadQueue, to the comparison of the current layout: an     *)
(* override or a layout that is not in the new queue makes the main layout *)
(* be fetched.  The overlays are compared after the slots of that signal.  *)
ReloadQueue ==
  /\ Calling("reloadQueue")
  /\ CleanupExpiredOverrides
  /\ CleanupExpiredCriteria
  /\ LET current == IF layoutOverride.active THEN layoutOverride.id
                    ELSE regularQueue.currentId
         overlays == AddMissing(Ids(overlayQueue), Ids(overlayOverrides))
         queue == RegularQueueFrom(LiveCriteria)
     IN  /\ regularQueue' = IF InQueue(queue, current)
                            THEN UpdateCurrent(queue, current) ELSE queue
         /\ overlayQueue' = OverlayQueueFrom(LiveCriteria)
         /\ todo' = (IF InQueue(queue, current) THEN <<>> ELSE LayoutUpdated)
                    \o <<Call("updateCurrentOverlays", overlays)>> \o Rest
  /\ RestartTimer
  /\ UNCHANGED <<schedule, envVars>>

(* A fault to be caught: only the number of overlays is compared.          *)
UpdateOverlaysByCount ==
  /\ Calling("updateCurrentOverlays")
  /\ todo' = (IF Len(overlayQueue) >= Len(Head(todo).ids) THEN <<>>
              ELSE OverlaysUpdated) \o Rest
  /\ UNCHANGED <<queueVars, overrideVars, timer, envVars>>

UpdateCurrentOverlays ==
  /\ Calling("updateCurrentOverlays")
  /\ todo' = (IF Ids(overlayQueue) = Head(todo).ids THEN <<>>
              ELSE OverlaysUpdated) \o Rest
  /\ UNCHANGED <<queueVars, overrideVars, timer, envVars>>

(* Scheduler::currentLayoutId, called by the second slot of layoutUpdated. *)
CurrentLayoutId ==
  /\ Calling("currentLayoutId")
  /\ CleanupThen(<<>>)
  /\ UNCHANGED <<queueVars, timer, envVars>>

-----------------------------------------------------------------------------
(* Requests from outside                                                   *)

Request ==
  /\ Idle
  /\ requests > 0
  /\ requests' = requests - 1
  /\ UNCHANGED <<now, fileCache, unsafeUntil>>

(* The end of a collection delivers a schedule.                            *)
ReloadSchedule(s) ==
  /\ Request
  /\ schedule # s
  /\ schedule' = s
  /\ todo' = <<Call("reloadQueue", <<>>)>>
  /\ UNCHANGED <<regularQueue, overlayQueue, overrideVars, timer>>

(* The part of applyLayoutOverride that the triggers share with            *)
(* changeLayout.                                                           *)
ApplyLayoutOverride(id, createdDt, duration) ==
  /\ layoutOverride' = [active |-> TRUE, id |-> id,
                        endDT |-> IF duration = 0 THEN 0 ELSE createdDt + duration,
                        oneShot |-> duration = 0, played |-> FALSE]
  /\ overlayOverrides' = LiveOverlayOverrides
  /\ RestartTimer
  /\ todo' = LayoutUpdated \o Rest
  /\ UNCHANGED <<schedule, overlayQueue, criteria>>

(* XmrManager::parseCreatedDt gives a time of UTC; the scheduler compares  *)
(* it, and what it adds to it, with times of the local zone.               *)
Created(delay) == now - UtcOffset - delay

ChangeLayout(id, delay, duration) ==
  /\ Request
  /\ ApplyLayoutOverride(id, Created(delay), duration)
  /\ UNCHANGED regularQueue

AddOverlayOverride(id, delay, duration) ==
  /\ Request
  /\ layoutOverride' = LiveOverride
  /\ overlayOverrides' =
       Append(Keep(LiveOverlayOverrides,
                   {o \in Elements(overlayOverrides) : o.id # id}),
              [id |-> id, endDT |-> Created(delay) + duration])
  /\ RestartTimer
  /\ todo' = OverlaysUpdated
  /\ UNCHANGED <<queueVars, criteria>>

ClearOverrides ==
  /\ Request
  /\ layoutOverride' = NoOverride
  /\ overlayOverrides' = <<>>
  /\ RestartTimer
  /\ todo' = (IF LiveOverride.active THEN LayoutUpdated ELSE <<>>)
             \o (IF LiveOverlayOverrides # <<>> THEN OverlaysUpdated ELSE <<>>)
  /\ UNCHANGED <<queueVars, criteria>>

AddOrReplaceCriteria(metric, value, ttl) ==
  /\ Request
  /\ criteria' = [criteria EXCEPT ![metric] =
                    [value |-> value, expiresAt |-> now + ttl]]
  /\ todo' = <<Call("reloadQueue", <<>>)>>
  /\ UNCHANGED <<queueVars, layoutOverride, overlayOverrides, timer>>

(* The status screen: status() reads the queues and calls currentLayoutId. *)
Status ==
  /\ Request
  /\ criteria' = LiveCriteria
  /\ todo' = (IF LiveCriteria # criteria
              THEN <<Call("reloadQueue", <<>>)>> ELSE <<>>)
             \o <<Call("currentLayoutId", <<>>)>>
  /\ UNCHANGED <<queueVars, layoutOverride, overlayOverrides, timer>>

(* The triggers of the embedded server and of XMR, in two parts: what is   *)
(* done first may reload the queues.                                       *)
Trigger(op, ids) ==
  /\ Request
  /\ CleanupThen(<<Call(op, ids)>>)
  /\ UNCHANGED <<queueVars, timer>>

(* next() or previous() moves the cursor even when what it returns is no   *)
(* layout.                                                                 *)
TriggerTo(queue) ==
  /\ regularQueue' = queue
  /\ IF queue.currentId = EmptyLayoutId
     THEN /\ todo' = Rest
          /\ UNCHANGED <<schedule, overlayQueue, overrideVars, timer>>
     ELSE ApplyLayoutOverride(queue.currentId, now, 0)
  /\ UNCHANGED envVars

TriggerNextLayout ==
  Calling("triggerNextLayout") /\ TriggerTo(NextLayout(regularQueue))

TriggerPreviousLayout ==
  Calling("triggerPreviousLayout") /\ TriggerTo(PreviousLayout(regularQueue))

(* Scheduler::layoutById: the override and the schedule's layouts, not its *)
(* default layout.                                                         *)
KnownIds ==
  {l.id : l \in Elements(schedule.regular) \cup Elements(schedule.overlay)}
  \cup (IF layoutOverride.active THEN {layoutOverride.id} ELSE {})

TriggerLayoutById ==
  /\ Calling("triggerLayoutById")
  /\ LET id == Head(Head(todo).ids)
     IN  IF id \in KnownIds
         THEN ApplyLayoutOverride(id, now, 0)
         ELSE /\ todo' = Rest
              /\ UNCHANGED <<schedule, overlayQueue, overrideVars, timer>>
  /\ UNCHANGED <<regularQueue, envVars>>

-----------------------------------------------------------------------------
(* Time, the cache and the signal at the end of the downloads              *)

(* timer_ was set in whole seconds after a time that was cut to seconds:   *)
(* it fires in the second it was set for or later, and other handlers may  *)
(* run between that second's beginning and the timer.                      *)
TimerFires ==
  /\ Idle
  /\ timer # NoTimer
  /\ timer <= now
  /\ timer' = NoTimer
  /\ todo' = <<Call("reloadQueue", <<>>)>>
  /\ UNCHANGED <<queueVars, overrideVars, envVars>>

Tick ==
  /\ Idle
  /\ now < MaxTime
  /\ now' = now + 1
  /\ UNCHANGED <<fileCache, unsafeUntil, requests, queueVars, overrideVars,
                 timer, todo>>

(* The threads that download change the cache at any time.                 *)
FileSaved(file) ==
  /\ fileCache' = IF file \in fileCache THEN fileCache \ {file}
                  ELSE fileCache \cup {file}
  /\ UNCHANGED <<now, unsafeUntil, requests, queueVars, overrideVars, timer, todo>>

FilesDownloaded ==
  /\ Idle
  /\ todo' = <<Call("reloadQueue", <<>>)>>
  /\ UNCHANGED <<queueVars, overrideVars, timer, envVars>>

(* XiboApp::purgeAllCachedResources                                        *)
PurgeAll ==
  /\ Idle
  /\ requests > 0
  /\ requests' = requests - 1
  /\ fileCache' = {}
  /\ todo' = <<Call("reloadQueue", <<>>)>>
  /\ UNCHANGED <<now, unsafeUntil, queueVars, overrideVars, timer>>

-----------------------------------------------------------------------------
(* The state after XiboApp::run has loaded the schedule that was saved.    *)
SchedulerInit ==
  /\ now = 0
  /\ fileCache \in {Files, Files \ Volatile}
  /\ unsafeUntil = [id \in LayoutIds |-> 0]
  /\ schedule \in Schedules
  /\ regularQueue = NewQueue(<<>>, EmptyLayoutId)
  /\ overlayQueue = <<>>
  /\ layoutOverride = NoOverride
  /\ overlayOverrides = <<>>
  /\ criteria = [m \in Metrics |-> NoCriteria]
  /\ timer = NoTimer
  /\ todo = <<Call("reloadQueue", <<>>)>>
  /\ requests = MaxRequests

(* The steps that do not touch what LayoutsManager holds.                  *)
SchedulerCall ==
  \/ ReloadQueue
  \/ UpdateCurrentOverlays
  \/ CurrentLayoutId
  \/ TriggerNextLayout
  \/ TriggerPreviousLayout
  \/ TriggerLayoutById

(* Requests that override the schedule, and the screen that shows it.      *)
OverrideRequest ==
  \/ \E id \in OverrideIds, delay \in Delays, duration \in Durations :
       \/ ChangeLayout(id, delay, duration)
       \/ AddOverlayOverride(id, delay, duration)
  \/ ClearOverrides
  \/ Trigger("triggerNextLayout", <<>>)
  \/ Trigger("triggerPreviousLayout", <<>>)
  \/ \E id \in OverrideIds : Trigger("triggerLayoutById", <<id>>)
  \/ PurgeAll

(* What changes the schedule, or what of it is playable, and the timer.    *)
ScheduleEvent ==
  \/ \E s \in Schedules : ReloadSchedule(s)
  \/ \E m \in Metrics, v \in Values, ttl \in Ttls : AddOrReplaceCriteria(m, v, ttl)
  \/ Status
  \/ TimerFires
  \/ Tick
  \/ FilesDownloaded
  \/ \E file \in Volatile : FileSaved(file)
=============================================================================
