------------------------------ MODULE Playback ------------------------------
(***************************************************************************)
(* One layout on the screen: MainLayoutImpl, its RegionImpl and MediaImpl  *)
(* objects, the players of video and audio (PlayableMedia, GstMediaPlayer) *)
(* and the UnsafeItemStore they write.  The layout is the main one, which  *)
(* LayoutsManager replaces when it has expired, or an overlay, which it    *)
(* restarts.                                                               *)
(*                                                                         *)
(* Everything runs on the UI thread.  A medium that ends makes its region  *)
(* show the next one, a region that ends may end the layout, and that may  *)
(* start it again from within, so the calls still to be made are a stack,  *)
(* todo.  What the window does with the views is not modelled.             *)
(*                                                                         *)
(* Times are relative: the seconds a timer has left, an item stays unsafe, *)
(* or something has lasted.                                                *)
(***************************************************************************)
EXTENDS LayoutParser, FiniteSets, FiniteSetsExt

CONSTANTS
  LayoutIds,       \* the layouts the schedule may name
  DocumentOf,      \* the XLF file of each
  Queues,          \* the queues that reloads may make of them
  Seconds,         \* the durations that requests extend by, or set
  FaultTtls,       \* how long a fault makes a widget unsafe
  UnsafeRegionTtl, \* how long a region or a layout is unsafe
  UnsafeMediaTtl,  \* how long a medium is, whose player failed
  MaxRegions,      \* bounds on the regions of a layout
  MaxMedia,        \*   and the media of a region
  MaxAge,          \* bound on the ages: they stop there
  MaxTimer,        \* bound on what a request may leave on a timer
  MaxDepth,        \* the layouts that may start within one another
  MaxRequests      \* bound on the requests from outside

NoLayoutId == 0

ASSUME PlaybackAssumption ==
  /\ Durations \subseteq Nat
  /\ GlobalStats \in BOOLEAN
  /\ DocumentOf \in [LayoutIds -> Document]
  /\ Queues \subseteq Seq(LayoutIds)
  /\ Seconds \subseteq Int
  /\ FaultTtls \subseteq Nat
  /\ \A id \in LayoutIds :
       /\ Len(DocumentOf[id].regions) <= MaxRegions
       /\ \A r \in 1..Len(DocumentOf[id].regions) :
            Len(DocumentOf[id].regions[r].media) <= MaxMedia
  /\ NoLayoutId \notin LayoutIds
  /\ {UnsafeRegionTtl, UnsafeMediaTtl, MaxRegions, MaxMedia, MaxAge,
      MaxTimer, MaxDepth, MaxRequests}
       \subseteq Nat

VARIABLES
  slot,            \* "main", or "overlay"
  layoutId,        \* the layout in that place, or NoLayoutId
  layout,          \* what was parsed of it
  play,            \* the state of each medium of each region
  current,         \* currentMediaIndex_ of each region, counting from 1
  expiredRegions,  \* expiredRegions_
  age,             \* how long ago interval_ of the layout started
  mediaIntervals,  \* mediaIntervals_: how long ago each medium started
  queue,           \* regularQueue_ of the scheduler, the next layout first
  unsafeMedia,     \* UnsafeItemStore: how long media stay unsafe,
  unsafeWidget,    \*   widgets,
  unsafeLayout,    \*   and layouts
  todo,            \* the calls the UI thread has still to make
  depth,           \* how many layouts have expired within this event
  requests         \* how many requests from outside may still come

layoutVars == <<layoutId, layout, play, current, expiredRegions, age, mediaIntervals>>
unsafeVars == <<unsafeMedia, unsafeWidget, unsafeLayout>>
vars == <<slot, layoutVars, queue, unsafeVars, todo, depth, requests>>

NoTimer   == -1
NotPlayed == -1

(* A medium: playing_, timer_, interval_, whether its player plays and its *)
(* bus is still watched, and the same of the player of the attached audio. *)
MediumState ==
  [playing : BOOLEAN, timer : Int, started : Nat, running : BOOLEAN,
   watched : BOOLEAN, audio : BOOLEAN, audioWatched : BOOLEAN]

NewMedium ==
  [playing |-> FALSE, timer |-> NoTimer, started |-> 0, running |-> FALSE,
   watched |-> TRUE, audio |-> FALSE, audioWatched |-> TRUE]

Operations ==
  {"startLayout", "placeMedia", "finished", "checkExpired", "regionExpired",
   "expired", "restart", "fetchMainLayout"}

(* A pending call, of a region and a medium of it where it has them.       *)
Calls == [op : Operations, region : Nat, media : Nat]

Call(op, r, i) == [op |-> op, region |-> r, media |-> i]

Idle        == todo = <<>>
Calling(op) == todo # <<>> /\ Head(todo).op = op
Rest        == Tail(todo)

Regions    == 1..Len(layout.regions)
Media(r)   == 1..Len(layout.regions[r].media)
Options(r, i) == layout.regions[r].media[i]
AllMedia      == UNION {{r} \X Media(r) : r \in Regions}

-----------------------------------------------------------------------------
(* MediaImpl and PlayableMedia                                             *)

(* Fault to be caught: a player ends a medium whatever its duration.       *)
StartOfPlayer(o, m) ==
  IF m.playing THEN m
  ELSE [m EXCEPT !.playing = TRUE,
                 !.timer   = IF o.player THEN NoTimer ELSE o.duration,
                 !.started = 0,
                 !.running = o.player,
                 !.audio   = o.audio]

Start(o, m) ==
  IF m.playing THEN m
  ELSE [m EXCEPT !.playing = TRUE,
                 !.timer   = IF o.duration > 0 THEN o.duration ELSE NoTimer,
                 !.started = 0,
                 !.running = o.player,
                 !.audio   = o.audio]

(* Faults to be caught: the medium is not marked, or its audio goes on.    *)
StopUnmarked(m) ==
  [m EXCEPT !.timer = NoTimer, !.running = FALSE, !.audio = FALSE]

StopWithoutAudio(m) ==
  [m EXCEPT !.playing = FALSE, !.timer = NoTimer, !.running = FALSE]

Stop(m) ==
  IF m.playing
  THEN [m EXCEPT !.playing = FALSE, !.timer = NoTimer,
                 !.running = FALSE, !.audio = FALSE]
  ELSE m

(* The slot of finished_ that PlayableMedia connects before the region's.  *)
FinishPlayer(m) == [m EXCEPT !.running = FALSE]

(* The slots of statReady_: emplace keeps the interval a medium has.       *)
StoppedMedia(stopped, id) ==
  {p \in stopped : /\ Options(p[1], p[2]).id = id
                   /\ Options(p[1], p[2]).stat
                   /\ play[p[1]][p[2]].playing}

MediaIntervals(stopped) ==
  [id \in MediaIds |->
     IF mediaIntervals[id] # NotPlayed \/ StoppedMedia(stopped, id) = {}
     THEN mediaIntervals[id]
     ELSE LET p == CHOOSE p \in StoppedMedia(stopped, id) : TRUE
          IN  play[p[1]][p[2]].started]

-----------------------------------------------------------------------------
(* RegionImpl                                                              *)

Unsafe(id) == unsafeWidget[id] > 0 \/ unsafeMedia[id] > 0

NextIndex(r, i) == IF i + 1 > Len(layout.regions[r].media) THEN 1 ELSE i + 1

SafeMedia(r) == {i \in Media(r) : ~Unsafe(Options(r, i).id)}

(* The first medium at i or after it, around the end, that is not unsafe.  *)
Candidate(r, i) ==
  LET after == {j \in SafeMedia(r) : j >= i}
  IN  IF after # {} THEN Min(after) ELSE Min(SafeMedia(r))

FlagLayout(ttl) ==
  unsafeLayout' = [unsafeLayout EXCEPT ![layoutId] = Max({@, ttl})]

(* A region whose media are all unsafe expires and stays as it was.        *)
PlaceMedia ==
  /\ Calling("placeMedia")
  /\ LET r == Head(todo).region
     IN  \/ /\ SafeMedia(r) = {}
            /\ FlagLayout(UnsafeRegionTtl)
            /\ todo' = <<Call("regionExpired", r, 0)>> \o Rest
            /\ UNCHANGED <<play, current>>
         \/ /\ SafeMedia(r) # {}
            /\ LET i == Candidate(r, Head(todo).media)
               IN  /\ current' = [current EXCEPT ![r] = i]
                   /\ play' = [play EXCEPT ![r][i] = Start(Options(r, i), @)]
            /\ todo' = Rest
            /\ UNCHANGED unsafeLayout
  /\ UNCHANGED <<slot, queue, layoutId, layout, expiredRegions, age, mediaIntervals,
                 unsafeMedia, unsafeWidget, depth, requests>>

ShouldBeMediaReplaced(r) ==
  Len(layout.regions[r].media) > 1 \/ layout.regions[r].loop

(* onMediaDurationTimeout: the region's slot of finished_.                 *)
MediaFinished ==
  /\ Calling("finished")
  /\ LET r == Head(todo).region
         i == current[r]
         check == <<Call("checkExpired", r, 0)>>
     IN  \/ /\ ShouldBeMediaReplaced(r)
            /\ play' = [play EXCEPT ![r][i] = Stop(@)]
            /\ mediaIntervals' = MediaIntervals({<<r, i>>})
            /\ todo' = <<Call("placeMedia", r, NextIndex(r, i))>> \o check \o Rest
         \/ /\ ~ShouldBeMediaReplaced(r)
            /\ todo' = check \o Rest
            /\ UNCHANGED <<play, mediaIntervals>>
  /\ UNCHANGED <<slot, queue, layoutId, layout, current, expiredRegions, age,
                 unsafeVars, depth, requests>>

(* isExpired: the region is back at its first medium.                      *)
CheckExpired ==
  /\ Calling("checkExpired")
  /\ LET r == Head(todo).region
     IN  todo' = (IF current[r] = 1 THEN <<Call("regionExpired", r, 0)>> ELSE <<>>)
                 \o Rest
  /\ UNCHANGED <<slot, queue, layoutVars, unsafeVars, depth, requests>>

-----------------------------------------------------------------------------
(* MainLayoutImpl                                                          *)

(* Fault to be caught: only the first media are stopped.                   *)
StopFirst == [r \in Regions |-> [play[r] EXCEPT ![1] = Stop(@)]]

StopRegions == [r \in Regions |-> [i \in Media(r) |-> Stop(play[r][i])]]

StartLayout ==
  /\ Calling("startLayout")
  /\ age' = 0
  /\ todo' = [r \in Regions |-> Call("placeMedia", r, 1)] \o Rest
  /\ UNCHANGED <<slot, queue, layoutId, layout, play, current, expiredRegions,
                 mediaIntervals, unsafeVars, depth, requests>>

(* onRegionExpired, and onAllRegionsExpired to its statistics.             *)
RegionExpired ==
  /\ Calling("regionExpired")
  /\ expiredRegions' = expiredRegions \cup {Head(todo).region}
  /\ \/ /\ expiredRegions' = Regions
        /\ play' = StopRegions
        /\ mediaIntervals' = MediaIntervals(AllMedia)
        /\ todo' = <<Call("expired", 0, 0)>> \o Rest
     \/ /\ expiredRegions' # Regions
        /\ todo' = Rest
        /\ UNCHANGED <<play, mediaIntervals>>
  /\ UNCHANGED <<slot, queue, layoutId, layout, current, age, unsafeVars, depth, requests>>

(* The slot of expired_, in LayoutsManager::createLayout.                  *)
LayoutExpired ==
  /\ Calling("expired")
  /\ depth <= MaxDepth
  /\ depth' = depth + 1
  /\ \/ /\ slot = "main"
        /\ todo' = <<Call("fetchMainLayout", 0, 0)>> \o Rest
     \/ /\ slot = "overlay"
        /\ todo' = <<Call("restart", 0, 0)>> \o Rest
  /\ UNCHANGED <<slot, queue, layoutVars, unsafeVars, requests>>

Restart ==
  /\ Calling("restart")
  /\ play' = StopRegions
  /\ mediaIntervals' = [id \in MediaIds |-> NotPlayed]
  /\ expiredRegions' = {}
  /\ todo' = <<Call("startLayout", 0, 0)>> \o Rest
  /\ UNCHANGED <<slot, queue, layoutId, layout, current, age, unsafeVars, depth, requests>>

-----------------------------------------------------------------------------
(* LayoutsManager                                                          *)

(* Fault to be caught: the regions that have expired are kept.             *)
LoadInPlace(id, l) ==
  /\ layoutId' = id
  /\ layout' = l
  /\ play' = [r \in 1..Len(l.regions) |->
                [i \in 1..Len(l.regions[r].media) |-> NewMedium]]
  /\ current' = [r \in 1..Len(l.regions) |-> 1]
  /\ age' = 0
  /\ mediaIntervals' = [id2 \in MediaIds |-> NotPlayed]
  /\ UNCHANGED expiredRegions

(* What becomes of the file of each layout.                                *)
Loadable == {id \in LayoutIds : LayoutParses(DocumentOf[id])}
FlaggedByParser == {id \in LayoutIds : LayoutFlagged(DocumentOf[id])}
LayoutOf == [id \in LayoutIds |-> LayoutFrom(DocumentOf[id])]

(* A new layout object, the one before it being destroyed.                 *)
Load(id, l) ==
  /\ layoutId' = id
  /\ layout' = l
  /\ play' = [r \in 1..Len(l.regions) |->
                [i \in 1..Len(l.regions[r].media) |-> NewMedium]]
  /\ current' = [r \in 1..Len(l.regions) |-> 1]
  /\ expiredRegions' = {}
  /\ age' = 0
  /\ mediaIntervals' = [id2 \in MediaIds |-> NotPlayed]

(* createLayout, shown when it loads.  Calls that are pending belong to    *)
(* the object that is destroyed: what they do is undefined, see Crash.     *)
CreateLayout(id) ==
  /\ unsafeLayout' = IF id \in FlaggedByParser
                     THEN [unsafeLayout EXCEPT ![id] = Max({@, UnsafeRegionTtl})]
                     ELSE unsafeLayout
  /\ \/ /\ id \in Loadable
        /\ Load(id, LayoutOf[id])
        /\ todo' = <<Call("startLayout", 0, 0)>>
     \/ /\ id \notin Loadable
        /\ Load(NoLayoutId, NoLayout)
        /\ todo' = <<>>

-----------------------------------------------------------------------------
(* What the scheduler gives                                                *)

(* reloadQueue: what is unsafe is passed over, the default layout too,     *)
(* which is a queue of its own when nothing else is left.                  *)
Reloaded(unsafe) == {q \in Queues : \A i \in 1..Len(q) : unsafe[q[i]] = 0}

(* Fault to be caught: the cursor of the queue stays.                      *)
NotRotated(q) == q

(* RegularLayoutQueue::next: the layout at nextIndex_ comes last then.     *)
Rotated(q) == Tail(q) \o <<Head(q)>>

(* fetchMainLayout of a layout; one that fails to load reloads the queue.  *)
(* A fetch that the reload causes is an event of its own.                  *)
Fetch(id, q) ==
  /\ CreateLayout(id)
  /\ \/ /\ id \in Loadable
        /\ queue' = q
        /\ UNCHANGED depth
     \/ /\ id \notin Loadable
        /\ queue' \in Reloaded(unsafeLayout')
        /\ depth' = 0

(* Criteria that expire reload the queue, once, as no time passes within   *)
(* an event.                                                               *)
CurrentQueues ==
  {queue} \cup (IF depth <= 1 THEN Reloaded(unsafeLayout) ELSE {})

(* nextLayout: an override, if it is not unsafe; or the next of the queue, *)
(* whatever has become of it since the queue was reloaded; or none, and    *)
(* the layout there is stays, behind the splash screen.                    *)
FetchMainLayout ==
  /\ Calling("fetchMainLayout")
  /\ \E q \in CurrentQueues :
       \/ /\ q = <<>>
          /\ queue' = q
          /\ todo' = Rest
          /\ UNCHANGED <<layoutVars, unsafeLayout, depth>>
       \/ \E id \in LayoutIds : unsafeLayout[id] = 0 /\ Fetch(id, q)
       \/ q # <<>> /\ Fetch(Head(q), Rotated(q))
  /\ UNCHANGED <<slot, unsafeMedia, unsafeWidget, requests>>

(* A handler that calls itself without end, or a call into an object that  *)
(* is gone, may end the player; the watchdog starts it again, with nothing *)
(* flagged.                                                                *)
Crash ==
  /\ \/ depth > MaxDepth
     \/ Calling("fetchMainLayout") /\ Rest # <<>>
  /\ Load(NoLayoutId, NoLayout)
  /\ queue' = <<>>
  /\ unsafeMedia' = [id \in MediaIds |-> 0]
  /\ unsafeWidget' = [id \in MediaIds |-> 0]
  /\ unsafeLayout' = [id \in LayoutIds |-> 0]
  /\ todo' = <<>>
  /\ depth' = 0
  /\ UNCHANGED <<slot, requests>>

(* triggerNextLayout and triggerPreviousLayout move the cursor.            *)
Rotations(q) == {SubSeq(q, i, Len(q)) \o SubSeq(q, 1, i - 1) : i \in 1..Len(q)}

(* The schedule, its boundaries, the cache, criteria and overrides change  *)
(* the queue, and layoutUpdated or overlaysUpdated ask for other layouts;  *)
(* a main layout that is still in the queue stays.  The overlays, too, may *)
(* have become unsafe since the reload.  A change with nothing in place    *)
(* does not count as a request.                                            *)
ScheduleChanges ==
  /\ Idle
  /\ \/ layoutId = NoLayoutId /\ UNCHANGED requests
     \/ layoutId # NoLayoutId /\ requests > 0 /\ requests' = requests - 1
  /\ depth' = 0
  /\ \/ /\ slot = "main"
        /\ queue' \in {queue} \cup Rotations(queue) \cup Reloaded(unsafeLayout)
        /\ todo' \in {<<>>, <<Call("fetchMainLayout", 0, 0)>>}
        /\ UNCHANGED <<layoutVars, unsafeLayout>>
     \/ /\ slot = "overlay"
        /\ \E id \in LayoutIds : CreateLayout(id)
        /\ UNCHANGED queue
  /\ UNCHANGED <<slot, unsafeMedia, unsafeWidget>>

-----------------------------------------------------------------------------
(* What the timers and the streams do                                      *)

Event(calls) ==
  /\ todo' = calls
  /\ depth' = 0

Finished(r) == <<Call("finished", r, 0)>>

TimerFires(r, i) ==
  /\ Idle
  /\ play[r][i].timer = 0
  /\ play' = [play EXCEPT ![r][i] = FinishPlayer([@ EXCEPT !.timer = NoTimer])]
  /\ Event(Finished(r))
  /\ UNCHANGED <<slot, queue, layoutId, layout, current, expiredRegions, age,
                 mediaIntervals, unsafeVars, requests>>

(* A player at the end of its stream, whose bus is watched unless it failed. *)
Streamed(m, again, failed) ==
  [m EXCEPT !.running = again, !.watched = @ /\ ~failed]

(* Fault to be caught: a stream without a duration ends unnoticed.         *)
StreamFinished(r, i, failed) ==
  LET o == Options(r, i)
      stays == ~failed /\ unsafeMedia[o.id] = 0
  IN  /\ play' = [play EXCEPT ![r][i] = Streamed(@, stays /\ o.looped, failed)]
      /\ Event(IF stays THEN <<>> ELSE Finished(r))

(* onPlaybackFinished: a medium that failed or has no duration has ended;  *)
(* another starts again or waits for its timer.                            *)
PlaybackFinished(r, i, failed) ==
  LET o == Options(r, i)
      stays == ~failed /\ unsafeMedia[o.id] = 0 /\ o.duration # 0
  IN  /\ play' = [play EXCEPT ![r][i] = Streamed(@, stays /\ o.looped, failed)]
      /\ Event(IF stays THEN <<>> ELSE Finished(r))

(* busMessageWatch: the end of the stream.                                 *)
EndOfStream(r, i) ==
  /\ Idle
  /\ play[r][i].running /\ play[r][i].watched
  /\ PlaybackFinished(r, i, FALSE)
  /\ UNCHANGED <<slot, queue, layoutId, layout, current, expiredRegions, age,
                 mediaIntervals, unsafeVars, requests>>

(* busMessageWatch: an error, after which the bus is no longer watched.    *)
StreamFails(r, i) ==
  /\ Idle
  /\ requests > 0
  /\ requests' = requests - 1
  /\ play[r][i].running /\ play[r][i].watched
  /\ unsafeMedia' = [unsafeMedia EXCEPT ![Options(r, i).id] = UnsafeMediaTtl]
  /\ FlagLayout(UnsafeMediaTtl)
  /\ PlaybackFinished(r, i, TRUE)
  /\ UNCHANGED <<slot, queue, layoutId, layout, current, expiredRegions, age,
                 mediaIntervals, unsafeWidget>>

(* The attached audio: having no duration it ends with its stream, looped  *)
(* or not, and nobody else hears of it.                                    *)
AudioEnds(r, i) ==
  /\ Idle
  /\ play[r][i].audio /\ play[r][i].audioWatched
  /\ play' = [play EXCEPT ![r][i] = [@ EXCEPT !.audio = FALSE]]
  /\ Event(<<>>)
  /\ UNCHANGED <<slot, queue, layoutId, layout, current, expiredRegions, age,
                 mediaIntervals, unsafeVars, requests>>

(* The item of an audio that fails names the layout, which becomes unsafe. *)
AudioFails(r, i) ==
  /\ Idle
  /\ requests > 0
  /\ requests' = requests - 1
  /\ play[r][i].audio /\ play[r][i].audioWatched
  /\ play' = [play EXCEPT ![r][i] = [@ EXCEPT !.audio = FALSE, !.audioWatched = FALSE]]
  /\ FlagLayout(UnsafeMediaTtl)
  /\ Event(<<>>)
  /\ UNCHANGED <<slot, queue, layoutId, layout, current, expiredRegions, age,
                 mediaIntervals, unsafeMedia, unsafeWidget>>

Less(n)  == IF n > 0 THEN n - 1 ELSE n
Older(n) == IF n = NotPlayed THEN n ELSE Min({n + 1, MaxAge})

Tick ==
  /\ Idle
  /\ play' = [r \in Regions |-> [i \in Media(r) |->
                [play[r][i] EXCEPT !.timer = Less(@), !.started = Older(@)]]]
  /\ age' = Older(age)
  /\ mediaIntervals' = [id \in MediaIds |-> Older(mediaIntervals[id])]
  /\ unsafeMedia' = [id \in MediaIds |-> Less(unsafeMedia[id])]
  /\ unsafeWidget' = [id \in MediaIds |-> Less(unsafeWidget[id])]
  /\ unsafeLayout' = [id \in LayoutIds |-> Less(unsafeLayout[id])]
  /\ depth' = 0
  /\ UNCHANGED <<slot, queue, layoutId, layout, current, expiredRegions, todo, requests>>
-----------------------------------------------------------------------------
(* Requests of XMR and of the embedded server                              *)

Request ==
  /\ Idle
  /\ requests > 0
  /\ requests' = requests - 1
  /\ UNCHANGED <<slot, queue, layoutId, layout, expiredRegions, age>>

(* navigateToWidget, by the region or by the first that has the widget.    *)
Shows(r, id) == {i \in Media(r) : Options(r, i).id = id}

NavigateToWidget(r, id) ==
  /\ Request
  /\ Shows(r, id) # {}
  /\ LET i == Min(Shows(r, id))
         c == current[r]
     IN  \/ /\ i = c
            /\ Event(<<>>)
            /\ UNCHANGED <<play, mediaIntervals>>
         \/ /\ i # c
            /\ play' = [play EXCEPT ![r][c] = Stop(@)]
            /\ mediaIntervals' = MediaIntervals({<<r, c>>})
            /\ Event(<<Call("placeMedia", r, i)>>)
  /\ UNCHANGED <<current, unsafeVars>>

(* handleDurationRequest asks the main layout only, and when no region of  *)
(* it is meant, an expire goes to the next layout.                         *)
ExpireDuration ==
  /\ Request
  /\ slot = "main"
  /\ \/ \E r \in Regions : Event(Finished(r))
     \/ Event(<<Call("fetchMainLayout", 0, 0)>>)
  /\ UNCHANGED <<play, current, mediaIntervals, unsafeVars>>

(* restartTimerWithRemainingDuration.                                      *)
RestartTimer(r, seconds) ==
  LET i == current[r]
  IN  /\ seconds <= MaxTimer
      /\ \/ /\ seconds <= 0
            /\ play' = [play EXCEPT ![r][i] = FinishPlayer([@ EXCEPT !.timer = NoTimer])]
            /\ Event(Finished(r))
         \/ /\ seconds > 0
            /\ play' = [play EXCEPT ![r][i] = [@ EXCEPT !.timer = seconds]]
            /\ Event(<<>>)

(* A timer that is due, or has fired, leaves nothing to extend.            *)
ExtendDuration(r, seconds) ==
  /\ Request
  /\ slot = "main"
  /\ play[r][current[r]].playing
  /\ seconds # 0
  /\ RestartTimer(r, Max({0, play[r][current[r]].timer}) + seconds)
  /\ UNCHANGED <<current, mediaIntervals, unsafeVars>>

SetDuration(r, seconds) ==
  /\ Request
  /\ slot = "main"
  /\ play[r][current[r]].playing
  /\ RestartTimer(r, seconds)
  /\ UNCHANGED <<current, mediaIntervals, unsafeVars>>

(* A fault that a page of the embedded server reports.                     *)
Fault(id, ttl) ==
  /\ Request
  /\ unsafeWidget' = [unsafeWidget EXCEPT ![id] = ttl]
  /\ Event(<<>>)
  /\ UNCHANGED <<play, current, mediaIntervals, unsafeMedia, unsafeLayout>>

-----------------------------------------------------------------------------
Init ==
  /\ slot \in {"main", "overlay"}
  /\ layoutId = NoLayoutId
  /\ layout = NoLayout
  /\ play = <<>>
  /\ current = <<>>
  /\ expiredRegions = {}
  /\ age = 0
  /\ mediaIntervals = [id \in MediaIds |-> NotPlayed]
  /\ queue = <<>>
  /\ unsafeMedia = [id \in MediaIds |-> 0]
  /\ unsafeWidget = [id \in MediaIds |-> 0]
  /\ unsafeLayout = [id \in LayoutIds |-> 0]
  /\ todo = <<>>
  /\ depth = 0
  /\ requests = MaxRequests

PendingCall ==
  \/ PlaceMedia
  \/ MediaFinished
  \/ CheckExpired
  \/ StartLayout
  \/ RegionExpired
  \/ LayoutExpired
  \/ Restart
  \/ FetchMainLayout
  \/ Crash

TimeOut(r)   == \E i \in Media(r) : TimerFires(r, i)
StreamEnd(r) == \E i \in Media(r) : EndOfStream(r, i)

Disturbance ==
  \/ \E p \in AllMedia : StreamFails(p[1], p[2]) \/ AudioFails(p[1], p[2])
  \/ ScheduleChanges
  \/ \E r \in Regions, id \in MediaIds : NavigateToWidget(r, id)
  \/ ExpireDuration
  \/ \E r \in Regions, seconds \in Seconds :
       ExtendDuration(r, seconds) \/ SetDuration(r, seconds)
  \/ \E id \in MediaIds, ttl \in FaultTtls : Fault(id, ttl)

Next ==
  \/ PendingCall
  \/ \E r \in Regions : TimeOut(r) \/ StreamEnd(r)
  \/ \E p \in AllMedia : AudioEnds(p[1], p[2])
  \/ Tick
  \/ Disturbance

Spec == Init /\ [][Next]_vars

(* The UI thread runs a handler to its end, time passes, and GLib serves   *)
(* the sources that are ready: neither the timer of a region's medium nor  *)
(* the messages of its player are put off forever.  That a stream ends is  *)
(* a property of the file it plays.                                        *)
Fairness ==
  /\ WF_vars(PendingCall)
  /\ SF_vars(Tick)
  /\ \A r \in 1..MaxRegions :
       /\ SF_vars(r \in Regions /\ TimeOut(r))
       /\ SF_vars(r \in Regions /\ StreamEnd(r))

FairSpec == Spec /\ Fairness

-----------------------------------------------------------------------------
(* Properties                                                              *)

PlaybackTypeOK ==
  /\ slot \in {"main", "overlay"}
  /\ layoutId \in LayoutIds \cup {NoLayoutId}
  /\ layout \in Layout
  /\ play \in Seq(Seq(MediumState))
  /\ current \in Seq(Nat \ {0})
  /\ expiredRegions \subseteq Regions
  /\ age \in 0..MaxAge
  /\ mediaIntervals \in [MediaIds -> NotPlayed..MaxAge]
  /\ queue \in Seq(LayoutIds)
  /\ unsafeMedia \in [MediaIds -> Nat]
  /\ unsafeWidget \in [MediaIds -> Nat]
  /\ unsafeLayout \in [LayoutIds -> Nat]
  /\ todo \in Seq(Calls)
  /\ depth \in Nat
  /\ requests \in 0..MaxRequests

(* RegionImpl::placeMedia and navigateToMediaId: however the media of a    *)
(* region replace each other, at rest it plays the current one or none.    *)
OneMediumPerRegion ==
  Idle => \A r \in Regions : \A i \in Media(r) : play[r][i].playing => i = current[r]

(* MediaImpl::stop: no timer, no player and no attached audio runs on when *)
(* its medium does not play.                                               *)
StoppedIsSilent ==
  \A r \in Regions : \A i \in Media(r) :
    ~play[r][i].playing =>
      /\ play[r][i].timer = NoTimer
      /\ ~play[r][i].running
      /\ ~play[r][i].audio

(* A medium that ends by itself: by its duration, or with its stream.      *)
EndsByItself(o) == o.duration > 0 \/ o.player

(* RegionImpl::onMediaDurationTimeout: at rest a region has expired, or it *)
(* plays a medium that a timer or its stream will end.  Of a player that   *)
(* has failed nothing is heard any more.                                   *)
RegionKeepsMoving ==
  Idle /\ layoutId # NoLayoutId =>
    \A r \in Regions \ expiredRegions :
      LET m == play[r][current[r]]
          o == Options(r, current[r])
      IN  /\ m.playing
          /\ EndsByItself(o) /\ m.watched => m.timer # NoTimer \/ m.running

(* MainLayoutImpl::onAllRegionsExpired: when a layout has expired all its  *)
(* regions have, and nothing of it plays; what is recorded of its media    *)
(* lies within what is recorded of the layout.                             *)
ExpiredLayoutIsOver ==
  Calling("expired") =>
    /\ expiredRegions = Regions
    /\ \A r \in Regions : \A i \in Media(r) : ~play[r][i].playing
    /\ \A id \in MediaIds : mediaIntervals[id] <= age

(* A layout that expires in its own start, all its media being unsafe.     *)
Unplayable(id) ==
  LET l == LayoutOf[id]
  IN  /\ id \in Loadable
      /\ \A r \in 1..Len(l.regions) : \A i \in 1..Len(l.regions[r].media) :
           Unsafe(l.regions[r].media[i].id)

(* RegionImpl::placeMedia flags the layout that expires in its own start,  *)
(* so that it is no override again, and the queue goes on to its next: the *)
(* main layouts that start within one another come to an end, but for a    *)
(* queue in which nothing can play, and which nobody reloads.              *)
MainLayoutsComeToRest ==
  slot = "main" =>
    \/ depth <= Cardinality(LayoutIds) + Len(queue) + 1
    \/ queue # <<>> /\ \A i \in 1..Len(queue) : Unplayable(queue[i])

(* MainLayoutParser::addRegions: whatever is passed over, a layout that    *)
(* loads has regions, and each of them has something to play.              *)
LoadedHasContent ==
  layoutId # NoLayoutId =>
    /\ Regions # {}
    /\ \A r \in Regions : Media(r) # {}

AllWatched == \A r \in Regions : \A i \in Media(r) : play[r][i].watched

(* MainLayoutImpl::onRegionExpired: a layout of which something plays      *)
(* expires in the end, unless the scheduler replaces it, once no player    *)
(* fails any more.                                                         *)
Plays == \E r \in Regions : \E i \in Media(r) : play[r][i].playing

LayoutsEnd ==
  <>[]AllWatched => [](Plays => <>(Calling("expired") \/ Calling("fetchMainLayout")
                                    \/ layoutId = NoLayoutId))
=============================================================================
