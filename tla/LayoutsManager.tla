--------------------------- MODULE LayoutsManager ---------------------------
(***************************************************************************)
(* src/player/control/layout/LayoutsManager.cpp composed with the          *)
(* scheduler: the layouts that are loaded, and what the main window is     *)
(* given to show.                                                          *)
(*                                                                         *)
(* fetchMainLayout and fetchOverlays are slots of the scheduler's signals; *)
(* they call the scheduler, which may emit the same signal again, so one   *)
(* fetch may run in the middle of another.                                 *)
(***************************************************************************)
EXTENDS Scheduler

CONSTANTS
  Outcome,     \* how the creation of each layout ends, see Outcomes
  UnsafeTtl,   \* how long a layout is unsafe
  MaxDepth     \* the calls that are pending at once, see BoundedRecursion

(* A layout may load; load although a region without media flagged it      *)
(* unsafe; be flagged unsafe and not load, having no regions or no media;  *)
(* or not load and not be flagged, because its file cannot be parsed.      *)
Outcomes == {"loads", "partial", "hollow", "broken"}

ASSUME LayoutsManagerAssumption ==
  /\ Outcome \in [LayoutIds -> Outcomes]
  /\ UnsafeTtl \in Nat
  /\ MaxDepth \in Nat

VARIABLES
  main,          \* currentMainLayout_, or EmptyLayoutId
  shown,         \* the last mainLayoutFetched_; EmptyLayoutId is the splash
  overlays,      \* the layouts of overlayLayouts_
  shownOverlays  \* the last overlaysFetched_

managerVars == <<main, shown, overlays, shownOverlays>>
vars == <<schedulerVars, managerVars>>

Loadable == {id \in LayoutIds : Outcome[id] \in {"loads", "partial"}}
(* A fault to be caught: a layout without content is not flagged.          *)
FlaggedByRegions == {id \in LayoutIds : Outcome[id] = "partial"}

Flagged  == {id \in LayoutIds : Outcome[id] \in {"partial", "hollow"}}

FlagUnsafe(id) ==
  /\ unsafeUntil' = IF id \in Flagged
                    THEN [unsafeUntil EXCEPT ![id] = now + UnsafeTtl]
                    ELSE unsafeUntil
  /\ UNCHANGED <<now, fileCache, requests>>

-----------------------------------------------------------------------------
(* The main layout                                                         *)

(* fetchMainLayout, to the part of nextLayout that reloads the queues.     *)
FetchMainLayout ==
  /\ Calling("fetchMainLayout")
  /\ CleanupThen(<<Call("createMainLayout", <<>>)>>)
  /\ UNCHANGED <<queueVars, timer, envVars, managerVars>>

(* A fault to be caught: every override plays once.                        *)
PlaysOverrideOnce ==
  /\ layoutOverride.active
  /\ ~layoutOverride.played
  /\ LayoutValid(layoutOverride.id, {})

(* The choice of nextLayout: an override that is not valid is left in      *)
(* place and passed over.                                                  *)
PlaysOverride == layoutOverride.active /\ LayoutValid(layoutOverride.id, {})
NextQueue     == IF PlaysOverride THEN regularQueue ELSE NextLayout(regularQueue)
NextId        == IF PlaysOverride THEN layoutOverride.id ELSE NextQueue.currentId

(* The rest of fetchMainLayout: nextLayout's choice, and its layout.       *)
CreateMainLayout ==
  /\ Calling("createMainLayout")
  /\ layoutOverride' = [layoutOverride EXCEPT !.played = @ \/ PlaysOverride]
  /\ regularQueue' = NextQueue
  /\ \/ /\ NextId = EmptyLayoutId
        /\ shown' = EmptyLayoutId
        /\ todo' = Rest
        /\ UNCHANGED <<main, envVars>>
     \/ /\ NextId \in Loadable
        /\ main' = NextId
        /\ shown' = NextId
        /\ todo' = Rest
        /\ FlagUnsafe(NextId)
     \/ /\ NextId \in LayoutIds \ Loadable
        /\ main' = EmptyLayoutId
        /\ todo' = <<Call("reloadQueue", <<>>), Call("mainLayoutFailed", <<>>)>>
                   \o Rest
        /\ FlagUnsafe(NextId)
        /\ UNCHANGED shown
  /\ UNCHANGED <<schedule, overlayQueue, overlayOverrides, criteria, timer,
                 overlays, shownOverlays>>

(* What a fetch that failed does after the reload.                         *)
MainLayoutFailed ==
  /\ Calling("mainLayoutFailed")
  /\ shown' = EmptyLayoutId
  /\ todo' = Rest
  /\ UNCHANGED <<queueVars, overrideVars, timer, envVars,
                 main, overlays, shownOverlays>>

(* The expired slot: all regions of the main layout have played.           *)
MainLayoutExpired ==
  /\ Idle
  /\ main # EmptyLayoutId
  /\ todo' = <<Call("fetchMainLayout", <<>>)>>
  /\ UNCHANGED <<queueVars, overrideVars, timer, envVars, managerVars>>

-----------------------------------------------------------------------------
(* The overlays                                                            *)

FetchOverlays ==
  /\ Calling("fetchOverlays")
  /\ overlays' = {}
  /\ CleanupThen(<<Call("listOverlays", <<>>)>>)
  /\ UNCHANGED <<queueVars, timer, envVars, main, shown, shownOverlays>>

(* The list that overlayLayouts returns.                                   *)
ListOverlays ==
  /\ Calling("listOverlays")
  /\ LET valid == {id \in LayoutIds : LayoutValid(id, {})}
     IN  todo' = <<Call("createOverlays",
                        AddMissing(Ids(overlayQueue),
                                   Keep(Ids(overlayOverrides), valid)))>> \o Rest
  /\ UNCHANGED <<queueVars, overrideVars, timer, envVars, managerVars>>

(* One turn of the loop over that list, or the end of the loop.  A layout  *)
(* that does not load makes the queues be reloaded before the next turn;   *)
(* emplace keeps the layout of a fetch that ran in the middle of this one. *)
CreateOverlays ==
  /\ Calling("createOverlays")
  /\ LET call == Head(todo)
         next == [call EXCEPT !.ids = Tail(@)]
     IN  \/ /\ call.ids = <<>>
            /\ shownOverlays' = call.views
            /\ todo' = Rest
            /\ UNCHANGED <<overlays, envVars>>
         \/ /\ call.ids # <<>>
            /\ Head(call.ids) \in Loadable
            /\ overlays' = overlays \cup {Head(call.ids)}
            /\ todo' = <<[next EXCEPT !.views = @ \cup {Head(call.ids)}]>> \o Rest
            /\ FlagUnsafe(Head(call.ids))
            /\ UNCHANGED shownOverlays
         \/ /\ call.ids # <<>>
            /\ Head(call.ids) \in LayoutIds \ Loadable
            /\ todo' = <<Call("reloadQueue", <<>>), next>> \o Rest
            /\ FlagUnsafe(Head(call.ids))
            /\ UNCHANGED <<overlays, shownOverlays>>
  /\ UNCHANGED <<queueVars, overrideVars, timer, main, shown>>

-----------------------------------------------------------------------------
(* The composition                                                         *)

Init ==
  /\ SchedulerInit
  /\ main = EmptyLayoutId
  /\ shown = EmptyLayoutId
  /\ overlays = {}
  /\ shownOverlays = {}

(* A step of the UI thread within an event.                                *)
PendingCall ==
  \/ SchedulerCall /\ UNCHANGED managerVars
  \/ FetchMainLayout
  \/ CreateMainLayout
  \/ MainLayoutFailed
  \/ FetchOverlays
  \/ ListOverlays
  \/ CreateOverlays

(* What happens without a request to the player: the CMS's collections,    *)
(* the downloads, the time.                                                *)
Routine ==
  \/ ScheduleEvent /\ UNCHANGED managerVars
  \/ MainLayoutExpired

Next ==
  \/ PendingCall
  \/ Routine
  \/ OverrideRequest /\ UNCHANGED managerVars

Spec == Init /\ [][Next]_vars

(* The player that gets no override and no trigger.                        *)
RoutineSpec == Init /\ [][PendingCall \/ Routine]_vars

(* GLib runs a handler to its end, and serves every source that is ready:  *)
(* neither the timer nor the end of a layout is postponed forever by the   *)
(* other sources.  Nothing is promised of requests, of downloads or of     *)
(* collections.                                                            *)
Fairness ==
  /\ WF_vars(PendingCall)
  /\ WF_vars(TimerFires /\ UNCHANGED managerVars)
  /\ SF_vars(MainLayoutExpired)

FairRoutineSpec == RoutineSpec /\ Fairness

-----------------------------------------------------------------------------
(* Properties                                                              *)

Queue ==
  [items : Seq(Layout), defaultId : AnyId,
   nextIndex : Nat \ {0}, currentId : AnyId]

Override ==
  [active : BOOLEAN, id : AnyId, endDT : Int, oneShot : BOOLEAN, played : BOOLEAN]

OverlayOverride == [id : AnyId, endDT : Int]

ActiveCriteria == [value : Values \cup {NoValue}, expiresAt : Nat]

(* The variables have the types the code declares; indices count from 1.   *)
TypeOK ==
  /\ now \in Nat
  /\ fileCache \subseteq Files
  /\ unsafeUntil \in [LayoutIds -> Nat]
  /\ schedule \in Schedules
  /\ regularQueue \in Queue
  /\ overlayQueue \in Seq(Layout)
  /\ layoutOverride \in Override
  /\ overlayOverrides \in Seq(OverlayOverride)
  /\ criteria \in [Metrics -> ActiveCriteria]
  /\ timer \in Nat
  /\ todo \in Seq(Calls)
  /\ requests \in Nat
  /\ main \in AnyId
  /\ shown \in AnyId
  /\ overlays \subseteq LayoutIds
  /\ shownOverlays \subseteq LayoutIds

(* RegularLayoutQueue: whatever replaced the queue, the cursor is inside   *)
(* it, and next() continues after a layout with the current id.            *)
CursorInside(q) ==
  q.items # <<>> =>
    /\ q.nextIndex \in 1..Len(q.items)
    /\ \/ q.currentId = EmptyLayoutId
       \/ \E i \in 1..Len(q.items) :
            /\ q.items[i].id = q.currentId
            /\ q.nextIndex = IncreaseIndex(q, i)

CursorInQueue == CursorInside(regularQueue)

(* Scheduler::restartTimer: no moment at which the schedule or an override *)
(* changes can pass without the timer firing, at that moment or before it. *)
TimerFiresBy(t) == now < t => timer # NoTimer /\ timer <= t

TimerCovers ==
  /\ \A l \in Elements(schedule.regular) \cup Elements(schedule.overlay) :
       TimerFiresBy(l.startDT) /\ TimerFiresBy(l.endDT)
  /\ layoutOverride.active /\ ~layoutOverride.oneShot =>
       TimerFiresBy(layoutOverride.endDT)
  /\ \A o \in Elements(overlayOverrides) : TimerFiresBy(o.endDT)

TimerCoversBoundaries == Calling("reloadQueue") \/ TimerCovers

TimerIsDue == timer # NoTimer /\ timer <= now

(* Scheduler::reloadQueue is called as often as it takes: but for the time *)
(* that the timer is late, no layout is queued outside its time.           *)
QueueFresh ==
  Calling("reloadQueue") \/ TimerIsDue \/
    \A layout \in Elements(regularQueue.items) \cup Elements(overlayQueue) :
      layout.startDT <= now /\ now < layout.endDT

(* LayoutQueue::add: a reload leaves exactly the playable layouts that no  *)
(* playable layout outranks, in the schedule's order.  Those of a negative *)
(* priority are never played.                                              *)
Top(playable) ==
  {l \in playable : /\ l.priority >= DefaultPriority
                    /\ \A m \in playable : m.priority <= l.priority}

TopPriority(layouts, playable) == Keep(layouts, Top(playable))

ReloadTakesTopPriority ==
  [][ReloadQueue =>
       /\ regularQueue'.items =
            TopPriority(schedule.regular, Playable(schedule.regular, criteria'))
       /\ overlayQueue' =
            TopPriority(schedule.overlay, Playable(schedule.overlay, criteria'))]_vars

(* LayoutsManager.cpp:56 and XiboApp.cpp:580: when the player comes to     *)
(* rest on the splash screen there is no layout it could play.             *)
SplashOnlyWithoutLayout ==
  Idle /\ shown = EmptyLayoutId =>
    regularQueue.items = <<>> /\ regularQueue.defaultId = EmptyLayoutId

(* updateCurrentOverlays and fetchOverlays: the overlays on the screen are *)
(* those of the queue or of an override that has not been removed.         *)
NoStaleOverlay ==
  Idle /\ ~TimerIsDue =>
    shownOverlays \subseteq Elements(Ids(overlayQueue))
                            \cup Elements(Ids(overlayOverrides))

(* The same, and no overlay of the queue is missing from the screen.       *)
OverlaysShownAreQueued ==
  Idle => shownOverlays = Elements(Ids(overlayQueue))

(* Scheduler::nextLayout: an override that has played once, or is past its *)
(* end, is not played, whatever was called since it was cleaned up.        *)
OverrideIsLive ==
  Calling("createMainLayout") /\ layoutOverride.active =>
    IF layoutOverride.oneShot THEN ~layoutOverride.played
    ELSE now < layoutOverride.endDT

(* applyLayoutOverride, nextLayout and reloadQueue: as long as an override *)
(* with a duration lasts and its layout can be played, the window shows it *)
(* whenever the player is at rest.                                         *)
LiveOverrideShown ==
  /\ Idle
  /\ layoutOverride.active
  /\ ~layoutOverride.oneShot
  /\ now < layoutOverride.endDT
  /\ LayoutValid(layoutOverride.id, {})
  => shown = layoutOverride.id

(* XiboApp.cpp:385 and 404, "temporary": an override with a duration ends   *)
(* no later than that duration after it arrived.                           *)
EndsInTime(endDT) == \E duration \in Durations : endDT <= now + duration

OverridesAreTemporary ==
  /\ layoutOverride.active /\ ~layoutOverride.oneShot =>
       EndsInTime(layoutOverride.endDT)
  /\ \A o \in Elements(overlayOverrides) : EndsInTime(o.endDT)

(* fetchMainLayout, reloadQueue and their slots call each other: a layout  *)
(* that is flagged unsafe ends that.                                       *)
BoundedRecursion == Len(todo) <= MaxDepth

Queued(id) == id \in Elements(Ids(regularQueue.items))

(* RegularLayoutQueue::updateCurrent: however often the queue is reloaded, *)
(* a layout that stays in it is played again and again.                    *)
EveryQueuedLayoutPlays ==
  \A id \in LayoutIds : <>[]Queued(id) => []<>(shown = id)
=============================================================================
