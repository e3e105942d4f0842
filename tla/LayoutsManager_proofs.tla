----------------------- MODULE LayoutsManager_proofs -----------------------
(***************************************************************************)
(* The invariants of LayoutsManager, for every schedule and every bound.   *)
(***************************************************************************)
EXTENDS LayoutsManager, LayoutQueue_proofs, FiniteSetTheorems

-----------------------------------------------------------------------------
(* Types of the operators                                                  *)

(* A call of an operation, with ids as its argument, is a call.            *)
LEMMA CallType ==
  ASSUME NEW op \in Operations, NEW ids \in Seq(AnyId)
  PROVE  Call(op, ids) \in Calls
BY DEF Call, Calls

(* The slots of the signals are sequences of calls.                        *)
LEMMA SignalTypes ==
  /\ LayoutUpdated \in Seq(Calls)
  /\ OverlaysUpdated \in Seq(Calls)
  /\ <<Call("reloadQueue", <<>>)>> \in Seq(Calls)
  /\ <<>> \in Seq(Calls)
<1>1. <<>> \in Seq(AnyId)
  OBVIOUS
<1>2. \A op \in Operations : Call(op, <<>>) \in Calls
  BY <1>1, CallType
<1>3. {"fetchMainLayout", "currentLayoutId", "fetchOverlays", "reloadQueue"}
        \subseteq Operations
  BY DEF Operations
<1> QED BY <1>2, <1>3 DEF LayoutUpdated, OverlaysUpdated

(* What is left of the stack of calls when its head is made.               *)
LEMMA RestType ==
  ASSUME todo \in Seq(Calls)
  PROVE  /\ Rest \in Seq(Calls)
         /\ todo # <<>> => Head(todo) \in Calls
BY DEF Rest

(* The queue operations of RegularLayoutQueue keep the cursor inside.      *)
LEMMA NewQueueInside ==
  ASSUME NEW items \in Seq(Layout), NEW id \in AnyId
  PROVE  NewQueue(items, id) \in Queue /\ CursorInside(NewQueue(items, id))
<1>1. items # <<>> => 1 \in 1..Len(items)
  BY EmptySeq
<1>2. 1 \in Nat \ {0} /\ 0 \in AnyId
  BY DEF AnyId, EmptyLayoutId
<1> QED BY <1>1, <1>2
        DEF NewQueue, Queue, CursorInside, FirstItemIndex, EmptyLayoutId

(* increaseIndex stays inside a queue that is not empty.                   *)
LEMMA IncreaseIndexType ==
  ASSUME NEW q \in Queue, NEW i \in 1..Len(q.items)
  PROVE  IncreaseIndex(q, i) \in 1..Len(q.items)
<1>1. Len(q.items) \in Nat
  BY DEF Queue
<1> QED BY <1>1 DEF IncreaseIndex, FirstItemIndex

(* A cursor that is moved after the layout at an index is inside.          *)
LEMMA CursorMoved ==
  ASSUME NEW q \in Queue, NEW i \in 1..Len(q.items), NEW p,
         p = [q EXCEPT !.nextIndex = IncreaseIndex(q, i),
                       !.currentId = q.items[i].id]
  PROVE  p \in Queue /\ CursorInside(p)
<1>1. Len(q.items) \in Nat /\ q.items[i] \in Layout
  BY DEF Queue
<1>2. q.items[i].id \in AnyId
  BY <1>1 DEF Layout, AnyId
<1>3. IncreaseIndex(q, i) \in 1..Len(q.items)
  BY IncreaseIndexType
<1>4. p.items = q.items /\ p.nextIndex = IncreaseIndex(q, i)
      /\ p.currentId = q.items[i].id
  BY DEF Queue
<1>5. IncreaseIndex(p, i) = IncreaseIndex(q, i)
  BY <1>4 DEF IncreaseIndex
<1>6. p \in Queue
  <2>1. IncreaseIndex(q, i) \in Nat \ {0}
    BY <1>1, <1>3
  <2> QED BY <1>2, <2>1 DEF Queue
<1>7. CursorInside(p)
  BY <1>3, <1>4, <1>5 DEF CursorInside
<1> QED BY <1>6, <1>7

(* A queue without scheduled layouts has no cursor to lose.                *)
LEMMA DefaultOnly ==
  ASSUME NEW q \in Queue, q.items = <<>>, NEW id \in AnyId
  PROVE  LET p == [q EXCEPT !.currentId = id] IN p \in Queue /\ CursorInside(p)
BY DEF Queue, CursorInside

(* RegularLayoutQueue::next keeps the cursor inside.                       *)
LEMMA NextInside ==
  ASSUME NEW q \in Queue, CursorInside(q)
  PROVE  NextLayout(q) \in Queue /\ CursorInside(NextLayout(q))
<1>1. CASE q.items = <<>>
  <2>1. q.defaultId \in AnyId
    BY DEF Queue
  <2> QED BY <1>1, <2>1, DefaultOnly DEF NextLayout
<1>2. CASE q.items # <<>>
  <2>1. q.nextIndex \in 1..Len(q.items)
    BY <1>2 DEF CursorInside
  <2> QED BY <1>2, <2>1, CursorMoved DEF NextLayout
<1> QED BY <1>1, <1>2

(* RegularLayoutQueue::previous puts the cursor inside.                    *)
LEMMA PreviousInside ==
  ASSUME NEW q \in Queue
  PROVE  PreviousLayout(q) \in Queue /\ CursorInside(PreviousLayout(q))
<1>1. CASE q.items = <<>>
  <2>1. q.defaultId \in AnyId
    BY DEF Queue
  <2> QED BY <1>1, <2>1, DefaultOnly DEF PreviousLayout
<1>2. CASE q.items # <<>>
  <2>1. Len(q.items) \in Nat /\ Len(q.items) # 0
    BY <1>2, EmptySeq DEF Queue
  <2>2. Indices(q, q.currentId) # {} =>
          LayoutIndexBy(q, q.currentId) \in 1..Len(q.items)
    BY <2>1, LayoutIndexType
  <2>3. PreviousIndex(q) \in 1..Len(q.items)
    BY <2>1, <2>2 DEF PreviousIndex, FirstItemIndex
  <2> QED BY <1>2, <2>3, CursorMoved DEF PreviousLayout
<1> QED BY <1>1, <1>2

(* RegularLayoutQueue::updateCurrent puts the cursor inside the queue,     *)
(* for a layout that is in it.                                             *)
LEMMA UpdateCurrentInside ==
  ASSUME NEW q \in Queue, NEW id \in AnyId, InQueue(q, id)
  PROVE  UpdateCurrent(q, id) \in Queue /\ CursorInside(UpdateCurrent(q, id))
<1>1. CASE q.items = <<>>
  <2>1. Indices(q, id) = {}
    BY <1>1 DEF Indices
  <2> QED BY <1>1, <2>1, DefaultOnly DEF UpdateCurrent, InQueue
<1>2. CASE q.items # <<>>
  <2>1. Indices(q, id) # {}
    BY <1>2 DEF InQueue
  <2>2. Len(q.items) \in Nat
    BY DEF Queue
  <2>3. /\ LayoutIndexBy(q, id) \in 1..Len(q.items)
        /\ q.items[LayoutIndexBy(q, id)].id = id
    BY <2>1, <2>2, LayoutIndexType
  <2> QED BY <2>1, <2>3, CursorMoved DEF UpdateCurrent
<1> QED BY <1>1, <1>2

(* The ids of scheduled layouts and of overlay overrides.                  *)
LEMMA IdsType ==
  ASSUME NEW s, \/ s \in Seq(Layout)
                \/ s \in Seq(OverlayOverride)
  PROVE  Ids(s) \in Seq(AnyId)
<1>1. Len(s) \in Nat
  OBVIOUS
<1>2. \A i \in 1..Len(s) : s[i] \in Layout \/ s[i] \in OverlayOverride
  OBVIOUS
<1>3. \A i \in 1..Len(s) : s[i].id \in AnyId
  BY <1>2 DEF Layout, OverlayOverride, AnyId
<1> QED BY <1>1, <1>3, IsASeq DEF Ids

(* Adding the missing ids to a list of ids gives a list of ids.            *)
LEMMA AddMissingType ==
  ASSUME NEW ids \in Seq(AnyId), NEW more \in Seq(AnyId)
  PROVE  AddMissing(ids, more) \in Seq(AnyId)
<1>1. Keep(more, Elements(more) \ Elements(ids)) \in Seq(AnyId)
  BY KeepType
<1> QED BY <1>1 DEF AddMissing

(* The queues are made of the schedule's layouts.                          *)
LEMMA ScheduleType ==
  ASSUME schedule \in Schedules
  PROVE  /\ schedule.regular \in Seq(Layout)
         /\ schedule.overlay \in Seq(Layout)
         /\ schedule.default.id \in LayoutIds
BY SchedulerAssumption DEF Schedule

(* regularQueueFrom and overlayQueueFrom make queues, with the cursor      *)
(* inside.                                                                 *)
LEMMA QueuesFromSchedule ==
  ASSUME schedule \in Schedules, NEW active
  PROVE  /\ RegularQueueFrom(active) \in Queue
         /\ CursorInside(RegularQueueFrom(active))
         /\ OverlayQueueFrom(active) \in Seq(Layout)
<1>1. /\ QueueItems(schedule.regular, Playable(schedule.regular, active)) \in Seq(Layout)
      /\ QueueItems(schedule.overlay, Playable(schedule.overlay, active)) \in Seq(Layout)
  BY ScheduleType, QueueItemsType
<1>2. schedule.default.id \in AnyId /\ EmptyLayoutId \in AnyId
  BY ScheduleType DEF AnyId
<1> QED BY <1>1, <1>2, NewQueueInside DEF RegularQueueFrom, OverlayQueueFrom

(* Cleaning up removes overrides and criteria, and adds none.              *)
LEMMA LiveTypes ==
  ASSUME TypeOK
  PROVE  /\ LiveOverride \in Override
         /\ LiveOverlayOverrides \in Seq(OverlayOverride)
         /\ Elements(LiveOverlayOverrides) \subseteq Elements(overlayOverrides)
         /\ LiveCriteria \in [Metrics -> ActiveCriteria]
<1>1. NoOverride \in Override
  BY DEF NoOverride, Override, AnyId
<1>2. LiveOverride \in Override
  BY <1>1 DEF LiveOverride, TypeOK
<1>3. /\ LiveOverlayOverrides \in Seq(OverlayOverride)
      /\ Elements(LiveOverlayOverrides) \subseteq Elements(overlayOverrides)
  BY KeepType DEF LiveOverlayOverrides, TypeOK
<1>4. NoCriteria \in ActiveCriteria
  BY DEF NoCriteria, ActiveCriteria
<1>5. LiveCriteria \in [Metrics -> ActiveCriteria]
  BY <1>4 DEF LiveCriteria, TypeOK
<1> QED BY <1>2, <1>3, <1>5

(* The common beginning of the operations keeps the types.                 *)
LEMMA CleanupThenType ==
  ASSUME TypeOK, NEW calls \in Seq(Calls), CleanupThen(calls)
  PROVE  /\ layoutOverride' \in Override
         /\ overlayOverrides' \in Seq(OverlayOverride)
         /\ criteria' \in [Metrics -> ActiveCriteria]
         /\ todo' \in Seq(Calls)
<1>1. Rest \in Seq(Calls)
  BY RestType DEF TypeOK
<1>2. todo' \in Seq(Calls)
  BY <1>1, SignalTypes DEF CleanupThen
<1> QED BY <1>2, LiveTypes
        DEF CleanupThen, CleanupExpiredOverrides, CleanupExpiredCriteria

(* The moments at which something begins or ends are times.                *)
LEMMA BoundaryType ==
  ASSUME schedule \in Schedules, now \in Nat, NEW override \in Override,
         NEW overrides \in Seq(OverlayOverride)
  PROVE  Boundaries(override, overrides) \subseteq Nat
<1>1. \A l \in Elements(schedule.regular) \cup Elements(schedule.overlay) :
        l.startDT \in Nat /\ l.endDT \in Nat
  <2>1. \A l \in Elements(schedule.regular) \cup Elements(schedule.overlay) :
          l \in Layout
    BY ScheduleType DEF Elements
  <2> QED BY <2>1 DEF Layout
<1>2. \A o \in Elements(overrides) : o.endDT \in Int
  <2>1. \A o \in Elements(overrides) : o \in OverlayOverride
    BY DEF Elements
  <2> QED BY <2>1 DEF OverlayOverride
<1>3. override.endDT \in Int
  BY DEF Override
<1> QED BY <1>1, <1>2, <1>3 DEF Boundaries

(* restartTimer sets the timer to a time.                                  *)
LEMMA RestartTimerType ==
  ASSUME TypeOK, RestartTimer, layoutOverride' \in Override,
         overlayOverrides' \in Seq(OverlayOverride)
  PROVE  timer' \in Nat
<1>1. Boundaries(layoutOverride', overlayOverrides') \subseteq Nat
  BY BoundaryType DEF TypeOK
<1> QED BY <1>1 DEF RestartTimer, TypeOK

-----------------------------------------------------------------------------
(* The type invariant and the cursor are inductive together: next() takes  *)
(* the layout at the cursor, which has to be inside the queue.             *)
Inv == TypeOK /\ CursorInQueue

(* The player starts with well-typed variables and an empty queue.         *)
LEMMA InitInv == Init => Inv
<1> SUFFICES ASSUME Init PROVE Inv
  OBVIOUS
<1>1. 0 \in AnyId
  BY DEF AnyId, EmptyLayoutId
<1>2. <<>> \in Seq(Layout) /\ <<>> \in Seq(OverlayOverride)
  OBVIOUS
<1>3. NoOverride \in Override /\ NoCriteria \in ActiveCriteria
  BY <1>1 DEF NoOverride, Override, NoCriteria, ActiveCriteria, EmptyLayoutId
<1>4. regularQueue \in Queue /\ CursorInside(regularQueue)
  BY <1>1, <1>2, NewQueueInside DEF Init, SchedulerInit, EmptyLayoutId
<1>5. fileCache \subseteq Files
  BY DEF Init, SchedulerInit
<1>6. TypeOK
  BY <1>1, <1>2, <1>3, <1>4, <1>5, SignalTypes, SchedulerAssumption
     DEF Init, SchedulerInit, TypeOK, NoTimer, EmptyLayoutId
<1> QED BY <1>4, <1>6 DEF Inv, CursorInQueue

(* The calls of the scheduler to itself.                                   *)
LEMMA ReloadQueueInv ==
  ASSUME Inv, ReloadQueue, UNCHANGED managerVars
  PROVE  Inv'
<1> USE DEF Inv
<1> DEFINE current == IF layoutOverride.active THEN layoutOverride.id
                      ELSE regularQueue.currentId
           queue == RegularQueueFrom(LiveCriteria)
<1>1. /\ queue \in Queue /\ CursorInside(queue)
      /\ OverlayQueueFrom(LiveCriteria) \in Seq(Layout)
  BY QueuesFromSchedule DEF TypeOK
<1>2. current \in AnyId
  BY DEF TypeOK, Override, Queue
<1>3. regularQueue' \in Queue /\ CursorInside(regularQueue')
  <2> HIDE DEF current, queue
  <2>1. regularQueue' = IF InQueue(queue, current)
                        THEN UpdateCurrent(queue, current) ELSE queue
    BY DEF ReloadQueue, current, queue
  <2> QED BY <1>1, <1>2, <2>1, UpdateCurrentInside
<1>4. /\ layoutOverride' \in Override
      /\ overlayOverrides' \in Seq(OverlayOverride)
      /\ criteria' \in [Metrics -> ActiveCriteria]
  BY LiveTypes DEF ReloadQueue, CleanupExpiredOverrides, CleanupExpiredCriteria
<1>5. timer' \in Nat
  BY <1>4, RestartTimerType DEF ReloadQueue
<1>6. todo' \in Seq(Calls)
  <2>1. /\ Ids(overlayQueue) \in Seq(AnyId)
        /\ Ids(overlayOverrides) \in Seq(AnyId)
    BY IdsType DEF TypeOK
  <2>2. AddMissing(Ids(overlayQueue), Ids(overlayOverrides)) \in Seq(AnyId)
    BY <2>1, AddMissingType
  <2>3. Call("updateCurrentOverlays",
             AddMissing(Ids(overlayQueue), Ids(overlayOverrides))) \in Calls
    BY <2>2, CallType DEF Operations
  <2>4. Rest \in Seq(Calls)
    BY RestType DEF TypeOK
  <2> QED BY <2>3, <2>4, SignalTypes DEF ReloadQueue
<1>7. overlayQueue' \in Seq(Layout)
  BY <1>1 DEF ReloadQueue
<1>8. TypeOK'
  BY <1>3, <1>4, <1>5, <1>6, <1>7 DEF TypeOK, ReloadQueue, envVars, managerVars
<1> QED BY <1>3, <1>8 DEF CursorInQueue

(* What applyLayoutOverride changes, for whoever calls it.                 *)
LEMMA ApplyLayoutOverrideType ==
  ASSUME TypeOK, NEW id \in AnyId, NEW createdDt \in Int, NEW duration \in Nat,
         ApplyLayoutOverride(id, createdDt, duration)
  PROVE  /\ layoutOverride' \in Override
         /\ overlayOverrides' \in Seq(OverlayOverride)
         /\ timer' \in Nat
         /\ todo' \in Seq(Calls)
<1>1. layoutOverride' \in Override
  BY DEF ApplyLayoutOverride, Override
<1>2. overlayOverrides' \in Seq(OverlayOverride)
  BY LiveTypes DEF ApplyLayoutOverride
<1>3. timer' \in Nat
  BY <1>1, <1>2, RestartTimerType DEF ApplyLayoutOverride
<1>4. todo' \in Seq(Calls)
  BY RestType, SignalTypes DEF ApplyLayoutOverride, TypeOK
<1> QED BY <1>1, <1>2, <1>3, <1>4

(* triggerNextLayout and triggerPreviousLayout, after their move in the    *)
(* queue.                                                                  *)
LEMMA TriggerToInv ==
  ASSUME Inv, NEW queue \in Queue, CursorInside(queue), TriggerTo(queue),
         UNCHANGED managerVars
  PROVE  Inv'
<1> USE DEF Inv
<1>1. queue.currentId \in AnyId /\ 0 \in Nat /\ now \in Nat
  BY DEF Queue, TypeOK
<1>2. CASE queue.currentId = EmptyLayoutId
  <2>1. todo' \in Seq(Calls)
    BY <1>2, RestType DEF TriggerTo, TypeOK
  <2> QED BY <1>2, <2>1
          DEF TriggerTo, TypeOK, CursorInQueue, overrideVars, envVars, managerVars
<1>3. CASE queue.currentId # EmptyLayoutId
  <2>1. ApplyLayoutOverride(queue.currentId, now, 0)
    BY <1>3 DEF TriggerTo
  <2>2. /\ layoutOverride' \in Override
        /\ overlayOverrides' \in Seq(OverlayOverride)
        /\ timer' \in Nat
        /\ todo' \in Seq(Calls)
    BY <1>1, <2>1, ApplyLayoutOverrideType
  <2> QED BY <2>1, <2>2
          DEF TriggerTo, ApplyLayoutOverride, TypeOK, CursorInQueue, envVars,
              managerVars
<1> QED BY <1>2, <1>3

(* Every call of the scheduler keeps the invariant.                        *)
LEMMA SchedulerCallInv ==
  ASSUME Inv, SchedulerCall, UNCHANGED managerVars
  PROVE  Inv'
<1> USE DEF Inv
<1>1. CASE ReloadQueue
  BY <1>1, ReloadQueueInv
<1>2. CASE UpdateCurrentOverlays
  <2>1. todo' \in Seq(Calls)
    BY <1>2, RestType, SignalTypes DEF UpdateCurrentOverlays, TypeOK
  <2> QED BY <1>2, <2>1 DEF UpdateCurrentOverlays, TypeOK, CursorInQueue,
                            queueVars, overrideVars, envVars, managerVars
<1>3. CASE CurrentLayoutId
  <2>1. /\ layoutOverride' \in Override
        /\ overlayOverrides' \in Seq(OverlayOverride)
        /\ criteria' \in [Metrics -> ActiveCriteria]
        /\ todo' \in Seq(Calls)
    BY <1>3, CleanupThenType, SignalTypes DEF CurrentLayoutId
  <2> QED BY <1>3, <2>1 DEF CurrentLayoutId, TypeOK, CursorInQueue,
                            queueVars, envVars, managerVars
<1>4. CASE TriggerNextLayout
  <2>1. /\ NextLayout(regularQueue) \in Queue
        /\ CursorInside(NextLayout(regularQueue))
    BY NextInside DEF TypeOK, CursorInQueue
  <2> QED BY <1>4, <2>1, TriggerToInv DEF TriggerNextLayout
<1>5. CASE TriggerPreviousLayout
  <2>1. /\ PreviousLayout(regularQueue) \in Queue
        /\ CursorInside(PreviousLayout(regularQueue))
    BY PreviousInside DEF TypeOK
  <2> QED BY <1>5, <2>1, TriggerToInv DEF TriggerPreviousLayout
<1>6. CASE TriggerLayoutById
  <2> DEFINE id == Head(Head(todo).ids)
  <2>1. CASE id \in KnownIds
    <3>1. ApplyLayoutOverride(id, now, 0)
      BY <1>6, <2>1 DEF TriggerLayoutById
    <3>2. id \in AnyId
      <4>1. \A l \in Elements(schedule.regular) \cup Elements(schedule.overlay) :
              l \in Layout
        BY ScheduleType DEF Elements, TypeOK
      <4>2. layoutOverride.id \in AnyId
        BY DEF TypeOK, Override
      <4> QED BY <2>1, <4>1, <4>2 DEF KnownIds, Layout, AnyId
    <3>3. now \in Nat /\ 0 \in Nat
      BY DEF TypeOK
    <3>4. /\ layoutOverride' \in Override
          /\ overlayOverrides' \in Seq(OverlayOverride)
          /\ timer' \in Nat
          /\ todo' \in Seq(Calls)
      <4> HIDE DEF id
      <4> QED BY <3>1, <3>2, <3>3, ApplyLayoutOverrideType
    <3> QED BY <1>6, <3>1, <3>4
            DEF TriggerLayoutById, ApplyLayoutOverride, TypeOK, CursorInQueue,
                envVars, managerVars
  <2>2. CASE id \notin KnownIds
    <3>1. todo' \in Seq(Calls)
      BY <1>6, <2>2, RestType DEF TriggerLayoutById, TypeOK
    <3> QED BY <1>6, <2>2, <3>1
            DEF TriggerLayoutById, TypeOK, CursorInQueue, overrideVars, envVars,
                managerVars
  <2> QED BY <2>1, <2>2
<1> QED BY <1>1, <1>2, <1>3, <1>4, <1>5, <1>6 DEF SchedulerCall

(* The requests that override the schedule.                                *)
LEMMA CreatedType ==
  ASSUME TypeOK, NEW delay \in Delays
  PROVE  Created(delay) \in Int
BY SchedulerAssumption DEF Created, TypeOK

(* Every request that overrides the schedule keeps the invariant.          *)
LEMMA OverrideRequestInv ==
  ASSUME Inv, OverrideRequest, UNCHANGED managerVars
  PROVE  Inv'
<1> USE DEF Inv
<1>1. ASSUME NEW id \in OverrideIds, NEW delay \in Delays,
             NEW duration \in Durations, ChangeLayout(id, delay, duration)
      PROVE  Inv'
  <2>1. id \in AnyId /\ duration \in Nat /\ Created(delay) \in Int
    BY SchedulerAssumption, CreatedType DEF AnyId
  <2>2. /\ layoutOverride' \in Override
        /\ overlayOverrides' \in Seq(OverlayOverride)
        /\ timer' \in Nat
        /\ todo' \in Seq(Calls)
    BY <1>1, <2>1, ApplyLayoutOverrideType DEF ChangeLayout
  <2> QED BY <1>1, <2>2 DEF ChangeLayout, Request, ApplyLayoutOverride, TypeOK,
                            CursorInQueue, managerVars
<1>2. ASSUME NEW id \in OverrideIds, NEW delay \in Delays,
             NEW duration \in Durations, AddOverlayOverride(id, delay, duration)
      PROVE  Inv'
  <2>1. id \in AnyId /\ Created(delay) + duration \in Int
    BY SchedulerAssumption, CreatedType DEF AnyId
  <2>2. [id |-> id, endDT |-> Created(delay) + duration] \in OverlayOverride
    BY <2>1 DEF OverlayOverride
  <2>3. Keep(LiveOverlayOverrides, {o \in Elements(overlayOverrides) : o.id # id})
          \in Seq(OverlayOverride)
    BY LiveTypes, KeepType
  <2>4. overlayOverrides' \in Seq(OverlayOverride)
    BY <1>2, <2>2, <2>3 DEF AddOverlayOverride
  <2>5. layoutOverride' \in Override
    BY <1>2, LiveTypes DEF AddOverlayOverride
  <2>6. timer' \in Nat
    BY <1>2, <2>4, <2>5, RestartTimerType DEF AddOverlayOverride
  <2> QED BY <1>2, <2>4, <2>5, <2>6, SignalTypes
          DEF AddOverlayOverride, Request, TypeOK, CursorInQueue, queueVars,
              managerVars
<1>3. CASE ClearOverrides
  <2>1. layoutOverride' \in Override /\ overlayOverrides' \in Seq(OverlayOverride)
    BY <1>3 DEF ClearOverrides, NoOverride, Override, AnyId
  <2>2. timer' \in Nat
    BY <1>3, <2>1, RestartTimerType DEF ClearOverrides
  <2>3. todo' \in Seq(Calls)
    BY <1>3, SignalTypes DEF ClearOverrides
  <2> QED BY <1>3, <2>1, <2>2, <2>3
          DEF ClearOverrides, Request, TypeOK, CursorInQueue, queueVars, managerVars
<1>4. ASSUME NEW op \in Operations, NEW ids \in Seq(AnyId), Trigger(op, ids)
      PROVE  Inv'
  <2>1. <<Call(op, ids)>> \in Seq(Calls)
    BY CallType
  <2>2. /\ layoutOverride' \in Override
        /\ overlayOverrides' \in Seq(OverlayOverride)
        /\ criteria' \in [Metrics -> ActiveCriteria]
        /\ todo' \in Seq(Calls)
    BY <1>4, <2>1, CleanupThenType DEF Trigger
  <2> QED BY <1>4, <2>2
          DEF Trigger, Request, TypeOK, CursorInQueue, queueVars, managerVars
<1>5. CASE PurgeAll
  <2>1. todo' \in Seq(Calls)
    BY <1>5, SignalTypes DEF PurgeAll
  <2> QED BY <1>5, <2>1
          DEF PurgeAll, TypeOK, CursorInQueue, queueVars, overrideVars, managerVars
<1>6. /\ {"triggerNextLayout", "triggerPreviousLayout", "triggerLayoutById"}
           \subseteq Operations
      /\ <<>> \in Seq(AnyId)
      /\ \A id \in OverrideIds : <<id>> \in Seq(AnyId)
  BY SchedulerAssumption DEF Operations, AnyId
<1> QED BY <1>1, <1>2, <1>3, <1>4, <1>5, <1>6 DEF OverrideRequest

(* What changes the schedule or what of it is playable, and the timer.     *)
LEMMA ScheduleEventInv ==
  ASSUME Inv, ScheduleEvent, UNCHANGED managerVars
  PROVE  Inv'
<1> USE DEF Inv
<1>1. ASSUME NEW s \in Schedules, ReloadSchedule(s) PROVE Inv'
  BY <1>1, SignalTypes DEF ReloadSchedule, Request, TypeOK, CursorInQueue,
                           overrideVars, managerVars
<1>2. ASSUME NEW m \in Metrics, NEW v \in Values, NEW ttl \in Ttls,
             AddOrReplaceCriteria(m, v, ttl)
      PROVE  Inv'
  <2>1. [value |-> v, expiresAt |-> now + ttl] \in ActiveCriteria
    BY SchedulerAssumption DEF ActiveCriteria, TypeOK
  <2>2. criteria' \in [Metrics -> ActiveCriteria]
    BY <1>2, <2>1 DEF AddOrReplaceCriteria, TypeOK
  <2> QED BY <1>2, <2>2, SignalTypes
          DEF AddOrReplaceCriteria, Request, TypeOK, CursorInQueue, queueVars,
              managerVars
<1>3. CASE Status
  <2>1. <<Call("currentLayoutId", <<>>)>> \in Seq(Calls)
    <3>1. <<>> \in Seq(AnyId) /\ "currentLayoutId" \in Operations
      BY DEF Operations
    <3>2. Call("currentLayoutId", <<>>) \in Calls
      BY <3>1, CallType
    <3> QED BY <3>2
  <2>2. todo' \in Seq(Calls)
    BY <1>3, <2>1, SignalTypes DEF Status
  <2>3. criteria' \in [Metrics -> ActiveCriteria]
    BY <1>3, LiveTypes DEF Status
  <2> QED BY <1>3, <2>2, <2>3
          DEF Status, Request, TypeOK, CursorInQueue, queueVars, managerVars
<1>4. CASE TimerFires
  BY <1>4, SignalTypes DEF TimerFires, TypeOK, CursorInQueue, NoTimer, queueVars,
                           overrideVars, envVars, managerVars
<1>5. CASE Tick
  BY <1>5 DEF Tick, TypeOK, CursorInQueue, queueVars, overrideVars, managerVars
<1>6. CASE FilesDownloaded
  BY <1>6, SignalTypes DEF FilesDownloaded, TypeOK, CursorInQueue, queueVars,
                           overrideVars, envVars, managerVars
<1>7. ASSUME NEW file \in Volatile, FileSaved(file) PROVE Inv'
  <2>1. fileCache' \subseteq Files
    BY <1>7, SchedulerAssumption DEF FileSaved, TypeOK
  <2> QED BY <1>7, <2>1 DEF FileSaved, TypeOK, CursorInQueue, queueVars,
                            overrideVars, managerVars
<1> QED BY <1>1, <1>2, <1>3, <1>4, <1>5, <1>6, <1>7 DEF ScheduleEvent

(* The operations of LayoutsManager.                                       *)
LEMMA FlagUnsafeType ==
  ASSUME TypeOK, NEW id \in LayoutIds, FlagUnsafe(id)
  PROVE  unsafeUntil' \in [LayoutIds -> Nat]
BY LayoutsManagerAssumption DEF FlagUnsafe, TypeOK

(* The calls that LayoutsManager makes are calls.                          *)
LEMMA ManagerCallTypes ==
  /\ <<Call("createMainLayout", <<>>)>> \in Seq(Calls)
  /\ <<Call("listOverlays", <<>>)>> \in Seq(Calls)
  /\ <<Call("reloadQueue", <<>>), Call("mainLayoutFailed", <<>>)>> \in Seq(Calls)
  /\ <<Call("fetchMainLayout", <<>>)>> \in Seq(Calls)
<1>1. <<>> \in Seq(AnyId)
  OBVIOUS
<1>2. \A op \in Operations : Call(op, <<>>) \in Calls
  BY <1>1, CallType
<1>3. {"createMainLayout", "listOverlays", "reloadQueue", "mainLayoutFailed",
       "fetchMainLayout"} \subseteq Operations
  BY DEF Operations
<1> QED BY <1>2, <1>3

(* fetchMainLayout: nextLayout's choice, and the three ways it can end.    *)
LEMMA CreateMainLayoutInv ==
  ASSUME Inv, CreateMainLayout
  PROVE  Inv'
<1> USE DEF Inv
<1>1. layoutOverride' \in Override
  BY DEF CreateMainLayout, TypeOK, Override
<1>2. NextQueue \in Queue /\ CursorInside(NextQueue)
  BY NextInside DEF NextQueue, TypeOK, CursorInQueue
<1>3. Rest \in Seq(Calls) /\ EmptyLayoutId \in AnyId
  BY RestType DEF TypeOK, AnyId
<1>4. CASE NextId = EmptyLayoutId
  <2>1. /\ shown' = EmptyLayoutId
        /\ todo' = Rest
        /\ UNCHANGED <<main, envVars>>
    BY <1>4, LayoutsManagerAssumption, SchedulerAssumption
       DEF CreateMainLayout, Loadable
  <2> QED BY <1>1, <1>2, <1>3, <2>1
          DEF CreateMainLayout, TypeOK, CursorInQueue, envVars
<1>5. CASE NextId \in Loadable
  <2>1. NextId \in LayoutIds /\ NextId \in AnyId /\ NextId # EmptyLayoutId
    BY <1>5, SchedulerAssumption DEF Loadable, AnyId
  <2>2. main' = NextId /\ shown' = NextId /\ todo' = Rest /\ FlagUnsafe(NextId)
    BY <1>5, <2>1 DEF CreateMainLayout
  <2>3. unsafeUntil' \in [LayoutIds -> Nat]
    BY <2>1, <2>2, FlagUnsafeType
  <2> QED BY <1>1, <1>2, <1>3, <2>1, <2>2, <2>3
          DEF CreateMainLayout, FlagUnsafe, TypeOK, CursorInQueue
<1>6. CASE NextId \in LayoutIds \ Loadable
  <2>1. NextId # EmptyLayoutId
    BY <1>6, SchedulerAssumption
  <2>2. /\ main' = EmptyLayoutId
        /\ todo' = <<Call("reloadQueue", <<>>), Call("mainLayoutFailed", <<>>)>>
                   \o Rest
        /\ FlagUnsafe(NextId)
        /\ UNCHANGED shown
    BY <1>6, <2>1 DEF CreateMainLayout
  <2>3. unsafeUntil' \in [LayoutIds -> Nat]
    BY <1>6, <2>2, FlagUnsafeType
  <2>4. todo' \in Seq(Calls)
    BY <1>3, <2>2, ManagerCallTypes
  <2> QED BY <1>1, <1>2, <1>3, <2>2, <2>3, <2>4
          DEF CreateMainLayout, FlagUnsafe, TypeOK, CursorInQueue
<1> QED BY <1>4, <1>5, <1>6 DEF CreateMainLayout

(* fetchOverlays: the end of its loop, and the two ways a turn can end.    *)
LEMMA CreateOverlaysInv ==
  ASSUME Inv, CreateOverlays
  PROVE  Inv'
<1> USE DEF Inv
<1> DEFINE call == Head(todo)
           next == [call EXCEPT !.ids = Tail(@)]
           id == Head(call.ids)
<1>1. call \in Calls /\ Rest \in Seq(Calls)
  BY RestType DEF CreateOverlays, Calling, TypeOK
<1>2. call.views \subseteq LayoutIds /\ call.ids \in Seq(AnyId)
  <2> HIDE DEF call
  <2> QED BY <1>1 DEF Calls
<1>3. CASE call.ids = <<>>
  <2>1. /\ shownOverlays' = call.views
        /\ todo' = Rest
        /\ UNCHANGED <<overlays, envVars>>
    BY <1>3 DEF CreateOverlays
  <2> HIDE DEF call
  <2> QED BY <1>1, <1>2, <2>1
          DEF CreateOverlays, TypeOK, CursorInQueue, queueVars, overrideVars, envVars
<1>4. ASSUME call.ids # <<>>
      PROVE  next \in Calls /\ next.views = call.views
  <2>1. Tail(call.ids) \in Seq(AnyId)
    BY <1>2, <1>4
  <2> HIDE DEF call
  <2> QED BY <1>1, <2>1 DEF Calls
<1>5. CASE call.ids # <<>> /\ id \in Loadable
  <2>1. /\ overlays' = overlays \cup {id}
        /\ todo' = <<[next EXCEPT !.views = @ \cup {id}]>> \o Rest
        /\ FlagUnsafe(id)
        /\ UNCHANGED shownOverlays
    BY <1>5 DEF CreateOverlays
  <2>2. id \in LayoutIds
    BY <1>5 DEF Loadable
  <2>3. [next EXCEPT !.views = @ \cup {id}] \in Calls
    <3> HIDE DEF next, id, call
    <3> QED BY <1>2, <1>4, <1>5, <2>2 DEF Calls
  <2>4. todo' \in Seq(Calls)
    BY <1>1, <2>1, <2>3
  <2>5. unsafeUntil' \in [LayoutIds -> Nat]
    BY <2>1, <2>2, FlagUnsafeType
  <2> HIDE DEF next, id, call
  <2> QED BY <2>1, <2>2, <2>4, <2>5
          DEF CreateOverlays, FlagUnsafe, TypeOK, CursorInQueue, queueVars, overrideVars
<1>6. CASE call.ids # <<>> /\ id \in LayoutIds \ Loadable
  <2>1. /\ todo' = <<Call("reloadQueue", <<>>), next>> \o Rest
        /\ FlagUnsafe(id)
        /\ UNCHANGED <<overlays, shownOverlays>>
    BY <1>6 DEF CreateOverlays
  <2>2. Call("reloadQueue", <<>>) \in Calls
    <3>1. <<>> \in Seq(AnyId) /\ "reloadQueue" \in Operations
      BY DEF Operations
    <3> QED BY <3>1, CallType
  <2>3. todo' \in Seq(Calls)
    <3> HIDE DEF next, id, call
    <3> QED BY <1>1, <1>4, <1>6, <2>1, <2>2
  <2>4. unsafeUntil' \in [LayoutIds -> Nat]
    BY <1>6, <2>1, FlagUnsafeType
  <2> HIDE DEF next, id, call
  <2> QED BY <2>1, <2>3, <2>4
          DEF CreateOverlays, FlagUnsafe, TypeOK, CursorInQueue, queueVars, overrideVars
<1> QED BY <1>3, <1>5, <1>6 DEF CreateOverlays

(* The other operations of LayoutsManager.                                 *)
LEMMA ManagerInv ==
  ASSUME Inv, \/ FetchMainLayout
              \/ MainLayoutFailed
              \/ MainLayoutExpired
              \/ FetchOverlays
              \/ ListOverlays
  PROVE  Inv'
<1> USE DEF Inv
<1>1. ASSUME NEW calls \in Seq(Calls), CleanupThen(calls)
      PROVE  /\ layoutOverride' \in Override
             /\ overlayOverrides' \in Seq(OverlayOverride)
             /\ criteria' \in [Metrics -> ActiveCriteria]
             /\ todo' \in Seq(Calls)
  BY <1>1, CleanupThenType
<1>2. CASE FetchMainLayout
  <2>1. CleanupThen(<<Call("createMainLayout", <<>>)>>)
    BY <1>2 DEF FetchMainLayout
  <2> QED BY <1>1, <1>2, <2>1, ManagerCallTypes
          DEF FetchMainLayout, TypeOK, CursorInQueue, queueVars, envVars, managerVars
<1>3. CASE MainLayoutFailed
  <2>1. todo' \in Seq(Calls) /\ shown' \in AnyId
    BY <1>3, RestType DEF MainLayoutFailed, TypeOK, AnyId
  <2> QED BY <1>3, <2>1 DEF MainLayoutFailed, TypeOK, CursorInQueue, queueVars,
                            overrideVars, envVars
<1>4. CASE MainLayoutExpired
  BY <1>4, ManagerCallTypes DEF MainLayoutExpired, TypeOK, CursorInQueue,
     queueVars, overrideVars, envVars, managerVars
<1>5. CASE FetchOverlays
  <2>1. CleanupThen(<<Call("listOverlays", <<>>)>>)
    BY <1>5 DEF FetchOverlays
  <2> QED BY <1>1, <1>5, <2>1, ManagerCallTypes
          DEF FetchOverlays, TypeOK, CursorInQueue, queueVars, envVars
<1>6. CASE ListOverlays
  <2>1. /\ Ids(overlayQueue) \in Seq(AnyId)
        /\ Ids(overlayOverrides) \in Seq(AnyId)
    BY IdsType DEF TypeOK
  <2>2. \A S : Keep(Ids(overlayOverrides), S) \in Seq(AnyId)
    BY <2>1, KeepType
  <2>3. \A S : Call("createOverlays",
                    AddMissing(Ids(overlayQueue), Keep(Ids(overlayOverrides), S)))
               \in Calls
    BY <2>1, <2>2, AddMissingType, CallType DEF Operations
  <2>4. todo' \in Seq(Calls)
    BY <1>6, <2>3, RestType DEF ListOverlays, TypeOK
  <2> QED BY <1>6, <2>4 DEF ListOverlays, TypeOK, CursorInQueue, queueVars,
                            overrideVars, envVars, managerVars
<1> QED BY <1>2, <1>3, <1>4, <1>5, <1>6

(* A step that changes nothing keeps the invariant.                        *)
LEMMA StutterInv == Inv /\ UNCHANGED vars => Inv'
BY DEF Inv, TypeOK, CursorInQueue, vars, schedulerVars, managerVars

(* Every step keeps the invariant.                                         *)
LEMMA NextInv == Inv /\ [Next]_vars => Inv'
<1> SUFFICES ASSUME Inv, [Next]_vars PROVE Inv'
  OBVIOUS
<1>1. CASE PendingCall
  BY <1>1, SchedulerCallInv, CreateMainLayoutInv, CreateOverlaysInv, ManagerInv
     DEF PendingCall
<1>2. CASE Routine
  BY <1>2, ScheduleEventInv, ManagerInv DEF Routine
<1>3. CASE OverrideRequest /\ UNCHANGED managerVars
  BY <1>3, OverrideRequestInv
<1>4. CASE UNCHANGED vars
  BY <1>4, StutterInv
<1> QED BY <1>1, <1>2, <1>3, <1>4 DEF Next

(* Every variable keeps its type, whatever the schedules, the overrides    *)
(* and the outcomes of loading are.                                        *)
THEOREM TypeCorrect == Spec => []TypeOK
<1>1. Inv => TypeOK
  BY DEF Inv
<1> QED BY InitInv, NextInv, <1>1, PTL DEF Spec

(* RegularLayoutQueue: nextIndex_ never leaves the queue, and always is    *)
(* the index after a layout with the current id.                           *)
THEOREM CursorStaysInQueue == Spec => []CursorInQueue
<1>1. Inv => CursorInQueue
  BY DEF Inv
<1> QED BY InitInv, NextInv, <1>1, PTL DEF Spec

-----------------------------------------------------------------------------
(* The timer.  The boundaries still to come are a set of moments that only *)
(* a new schedule or a new override adds to; a new schedule is followed by *)
(* reloadQueue at once, a new override restarts the timer.                 *)

(* restartTimer starts the timer for the first boundary.                   *)
LEMMA RestartTimerCovers ==
  ASSUME TypeOK, TypeOK', RestartTimer, now' = now, schedule' = schedule
  PROVE  TimerCovers'
<1> DEFINE B == Boundaries(layoutOverride', overlayOverrides')
<1>1. B \subseteq Nat
  BY BoundaryType DEF TypeOK
<1>2. \A t \in B : timer' # NoTimer /\ timer' <= t
  <2>1. CASE B = {}
    BY <2>1
  <2>2. CASE B # {}
    <3>1. PICK t \in B : (\A b \in B : t <= b) /\ timer' = t
      BY <2>2 DEF RestartTimer
    <3>2. now < t /\ now \in Nat /\ t \in Nat
      BY <1>1, <3>1 DEF Boundaries, TypeOK
    <3> QED BY <3>1, <3>2 DEF NoTimer
  <2> QED BY <2>1, <2>2
<1>3. \A l \in Elements(schedule.regular) \cup Elements(schedule.overlay) :
        /\ now < l.startDT => l.startDT \in B
        /\ now < l.endDT => l.endDT \in B
  BY DEF Boundaries
<1>4. layoutOverride'.active /\ ~layoutOverride'.oneShot /\ now < layoutOverride'.endDT
        => layoutOverride'.endDT \in B
  BY DEF Boundaries
<1>5. \A o \in Elements(overlayOverrides') : now < o.endDT => o.endDT \in B
  BY DEF Boundaries
<1> QED BY <1>2, <1>3, <1>4, <1>5 DEF TimerCovers, TimerFiresBy

(* A step that adds no boundary and leaves the timer keeps it covering.    *)
LEMMA TimerStillCovers ==
  ASSUME TypeOK, TimerCovers, now' \in Nat, now <= now',
         schedule' = schedule, timer' = timer,
         \/ ~layoutOverride'.active
         \/ /\ layoutOverride'.active = layoutOverride.active
            /\ layoutOverride'.oneShot = layoutOverride.oneShot
            /\ layoutOverride'.endDT = layoutOverride.endDT,
         Elements(overlayOverrides') \subseteq Elements(overlayOverrides)
  PROVE  TimerCovers'
<1>1. \A t \in Int : TimerFiresBy(t) => (now' < t => timer' # NoTimer /\ timer' <= t)
  BY DEF TimerFiresBy, TypeOK
<1>2. \A l \in Elements(schedule.regular) \cup Elements(schedule.overlay) :
        l.startDT \in Nat /\ l.endDT \in Nat
  <2>1. \A l \in Elements(schedule.regular) \cup Elements(schedule.overlay) :
          l \in Layout
    BY ScheduleType DEF Elements, TypeOK
  <2> QED BY <2>1 DEF Layout
<1>3. \A o \in Elements(overlayOverrides) : o.endDT \in Int
  <2>1. \A o \in Elements(overlayOverrides) : o \in OverlayOverride
    BY DEF Elements, TypeOK
  <2> QED BY <2>1 DEF OverlayOverride
<1>4. layoutOverride.endDT \in Int
  BY DEF TypeOK, Override
<1> QED BY <1>1, <1>2, <1>3, <1>4 DEF TimerCovers, TimerFiresBy

(* The same for the steps that clean up the expired overrides.             *)
LEMMA CleanupStillCovers ==
  ASSUME TypeOK, TimerCovers, CleanupExpiredOverrides,
         now' = now, schedule' = schedule, timer' = timer
  PROVE  TimerCovers'
<1>1. layoutOverride' = layoutOverride \/ ~layoutOverride'.active
  BY DEF CleanupExpiredOverrides, LiveOverride, NoOverride
<1>2. Elements(overlayOverrides') \subseteq Elements(overlayOverrides)
  BY LiveTypes DEF CleanupExpiredOverrides
<1>3. now' \in Nat /\ now <= now'
  BY DEF TypeOK
<1> QED BY <1>1, <1>2, <1>3, TimerStillCovers

(* The steps that restart the timer.                                       *)
LEMMA RestartSteps ==
  ASSUME Inv, Inv', TimerCoversBoundaries,
         \/ ReloadQueue
         \/ OverrideRequest
         \/ \E queue : TriggerTo(queue) /\ ~Calling("reloadQueue")
         \/ TriggerLayoutById
  PROVE  TimerCoversBoundaries'
<1> USE DEF Inv
<1>1. TimerCovers' => TimerCoversBoundaries'
  BY DEF TimerCoversBoundaries
<1>2. now \in Nat
  BY DEF TypeOK
<1>3. CASE ReloadQueue
  BY <1>1, <1>3, RestartTimerCovers DEF ReloadQueue, envVars
<1>4. ASSUME TimerCovers, CleanupExpiredOverrides,
             UNCHANGED <<now, schedule, timer>>
      PROVE  TimerCoversBoundaries'
  BY <1>1, <1>4, CleanupStillCovers
<1>5. ASSUME TimerCovers,
             UNCHANGED <<now, schedule, timer, overrideVars>>
      PROVE  TimerCoversBoundaries'
  BY <1>1, <1>2, <1>5, TimerStillCovers DEF overrideVars
<1>6. ASSUME NEW id, NEW createdDt, NEW duration,
             ApplyLayoutOverride(id, createdDt, duration), now' = now
      PROVE  TimerCoversBoundaries'
  BY <1>1, <1>6, RestartTimerCovers DEF ApplyLayoutOverride
<1>7. CASE OverrideRequest
  <2>1. ASSUME Idle PROVE TimerCovers
    BY <2>1 DEF Idle, TimerCoversBoundaries, Calling
  <2>2. ASSUME NEW id, NEW delay, NEW duration, ChangeLayout(id, delay, duration)
        PROVE  TimerCoversBoundaries'
    BY <1>6, <2>2 DEF ChangeLayout, Request
  <2>3. ASSUME NEW id, NEW delay, NEW duration,
               AddOverlayOverride(id, delay, duration)
        PROVE  TimerCoversBoundaries'
    BY <1>1, <2>3, RestartTimerCovers DEF AddOverlayOverride, Request, queueVars
  <2>4. CASE ClearOverrides
    BY <1>1, <2>4, RestartTimerCovers DEF ClearOverrides, Request, queueVars
  <2>5. ASSUME NEW op, NEW ids, Trigger(op, ids) PROVE TimerCoversBoundaries'
    BY <1>4, <2>1, <2>5 DEF Trigger, CleanupThen, Request, queueVars
  <2>6. CASE PurgeAll
    BY <1>5, <2>1, <2>6 DEF PurgeAll, queueVars
  <2> QED BY <1>7, <2>2, <2>3, <2>4, <2>5, <2>6 DEF OverrideRequest
<1>8. ASSUME NEW queue, TriggerTo(queue), ~Calling("reloadQueue")
      PROVE  TimerCoversBoundaries'
  <2>1. CASE queue.currentId = EmptyLayoutId
    BY <1>5, <1>8, <2>1 DEF TriggerTo, TimerCoversBoundaries, envVars
  <2>2. CASE queue.currentId # EmptyLayoutId
    BY <1>6, <1>8, <2>2 DEF TriggerTo, envVars
  <2> QED BY <2>1, <2>2
<1>9. CASE TriggerLayoutById
  <2> DEFINE id == Head(Head(todo).ids)
  <2>1. ~Calling("reloadQueue") /\ now' = now
    BY <1>9 DEF TriggerLayoutById, Calling, envVars
  <2>2. CASE id \in KnownIds
    BY <1>6, <1>9, <2>1, <2>2 DEF TriggerLayoutById
  <2>3. CASE id \notin KnownIds
    BY <1>5, <1>9, <2>1, <2>3 DEF TriggerLayoutById, TimerCoversBoundaries
  <2> QED BY <2>2, <2>3
<1> QED BY <1>3, <1>7, <1>8, <1>9

(* The steps that leave the timer to run.                                  *)
LEMMA OtherSteps ==
  ASSUME Inv, TimerCoversBoundaries,
         \/ UpdateCurrentOverlays
         \/ CurrentLayoutId
         \/ FetchMainLayout
         \/ CreateMainLayout
         \/ MainLayoutFailed
         \/ MainLayoutExpired
         \/ FetchOverlays
         \/ ListOverlays
         \/ CreateOverlays
         \/ UNCHANGED vars
  PROVE  TimerCoversBoundaries'
<1> USE DEF Inv
<1>1. CASE UNCHANGED vars
  BY <1>1 DEF TimerCoversBoundaries, TimerCovers, TimerFiresBy, Calling, vars,
              schedulerVars
<1>2. CASE ~UNCHANGED vars
  <2>1. TimerCovers
    BY <1>2 DEF TimerCoversBoundaries, Idle, Calling, UpdateCurrentOverlays,
       CurrentLayoutId, FetchMainLayout, CreateMainLayout, MainLayoutFailed,
       MainLayoutExpired, FetchOverlays, ListOverlays, CreateOverlays
  <2>2. UNCHANGED <<now, schedule, timer>>
    BY <1>2 DEF UpdateCurrentOverlays, CurrentLayoutId, FetchMainLayout,
       CreateMainLayout, MainLayoutFailed, MainLayoutExpired, FetchOverlays,
       ListOverlays, CreateOverlays, FlagUnsafe, queueVars, envVars
  <2>3. \/ CleanupExpiredOverrides
        \/ UNCHANGED overlayOverrides
             /\ layoutOverride'.active = layoutOverride.active
             /\ layoutOverride'.oneShot = layoutOverride.oneShot
             /\ layoutOverride'.endDT = layoutOverride.endDT
    <3>1. CASE CreateMainLayout
      BY <3>1 DEF CreateMainLayout, TypeOK, Override
    <3>2. CASE ~CreateMainLayout
      BY <1>2, <3>2 DEF UpdateCurrentOverlays, CurrentLayoutId, CleanupThen,
         FetchMainLayout, MainLayoutFailed, MainLayoutExpired, FetchOverlays,
         ListOverlays, CreateOverlays, overrideVars
    <3> QED BY <3>1, <3>2
  <2>4. now' \in Nat /\ now <= now'
    BY <2>2 DEF TypeOK
  <2>5. TimerCovers'
    BY <2>1, <2>2, <2>3, <2>4, CleanupStillCovers, TimerStillCovers
  <2> QED BY <2>5 DEF TimerCoversBoundaries
<1> QED BY <1>1, <1>2

(* The events: those that change the schedule reload the queues next.      *)
LEMMA EventSteps ==
  ASSUME Inv, TimerCoversBoundaries, ScheduleEvent
  PROVE  TimerCoversBoundaries'
<1> USE DEF Inv
<1>1. ASSUME todo' = <<Call("reloadQueue", <<>>)>>
      PROVE  TimerCoversBoundaries'
  BY <1>1 DEF TimerCoversBoundaries, Calling, Call
<1>2. ASSUME UNCHANGED <<schedule, timer, overlayOverrides, layoutOverride>>,
             TimerCovers, now' \in Nat, now <= now'
      PROVE  TimerCoversBoundaries'
  BY <1>2, TimerStillCovers DEF TimerCoversBoundaries
<1>3. now \in Nat
  BY DEF TypeOK
<1>4. CASE \E s \in Schedules : ReloadSchedule(s)
  BY <1>1, <1>4 DEF ReloadSchedule
<1>5. CASE \E m \in Metrics, v \in Values, ttl \in Ttls : AddOrReplaceCriteria(m, v, ttl)
  BY <1>1, <1>5 DEF AddOrReplaceCriteria
<1>6. CASE TimerFires \/ FilesDownloaded
  BY <1>1, <1>6 DEF TimerFires, FilesDownloaded
<1>7. CASE Status
  BY <1>2, <1>3, <1>7 DEF Status, Request, Idle, Calling, TimerCoversBoundaries,
                          queueVars
<1>8. CASE Tick
  BY <1>2, <1>3, <1>8 DEF Tick, Idle, Calling, TimerCoversBoundaries, queueVars,
                          overrideVars
<1>9. CASE \E file \in Volatile : FileSaved(file)
  <2>1. UNCHANGED <<now, todo, queueVars, overrideVars, timer>>
    BY <1>9 DEF FileSaved
  <2> QED BY <2>1 DEF TimerCoversBoundaries, TimerCovers, TimerFiresBy, Calling,
                      queueVars, overrideVars
<1> QED BY <1>4, <1>5, <1>6, <1>7, <1>8, <1>9 DEF ScheduleEvent

(* Every step leaves the timer set for the boundaries to come.             *)
LEMMA TimerNext ==
  Inv /\ Inv' /\ TimerCoversBoundaries /\ [Next]_vars => TimerCoversBoundaries'
<1> SUFFICES ASSUME Inv, Inv', TimerCoversBoundaries, [Next]_vars
             PROVE  TimerCoversBoundaries'
  OBVIOUS
<1>1. CASE SchedulerCall
  <2>1. TriggerNextLayout \/ TriggerPreviousLayout =>
          \E queue : TriggerTo(queue) /\ ~Calling("reloadQueue")
    BY DEF TriggerNextLayout, TriggerPreviousLayout, Calling
  <2> QED BY <1>1, <2>1, RestartSteps, OtherSteps DEF SchedulerCall
<1> QED BY <1>1, RestartSteps, OtherSteps, EventSteps DEF Next, PendingCall, Routine

(* Scheduler::restartTimer: whatever happens, the timer is set for the     *)
(* next moment at which a scheduled layout or an override begins or ends,  *)
(* or for an earlier one.                                                  *)
THEOREM TimerAlwaysCovers == Spec => []TimerCoversBoundaries
<1>1. Init => TimerCoversBoundaries
  BY DEF Init, SchedulerInit, TimerCoversBoundaries, Calling, Call
<1> QED BY InitInv, NextInv, TimerNext, <1>1, PTL DEF Spec

-----------------------------------------------------------------------------
(* Overrides.  nextLayout marks an override as played, and one fetch may   *)
(* run within another: between the choices of the two there always is a    *)
(* call that cleans up first.                                              *)
Cleanups == {"reloadQueue", "currentLayoutId"}
Choices  == {"fetchMainLayout", "createMainLayout"}

(* No choice is made of the calls in s before one that cleans up.          *)
CleansFirst(s) ==
  \A j \in 1..Len(s) : s[j].op = "createMainLayout" =>
    \E k \in 1..(j - 1) : s[k].op \in Cleanups

(* No two choices are made without one that cleans up between them.        *)
CleansBetween(s) ==
  \A i, j \in 1..Len(s) :
    i < j /\ s[i].op \in Choices /\ s[j].op = "createMainLayout" =>
      \E k \in (i + 1)..(j - 1) : s[k].op \in Cleanups

Expired == layoutOverride.active /\ OverrideExpired

(* The override is live at the next choice, unless a call before it cleans *)
(* up.                                                                     *)
OverrideInv ==
  /\ CleansBetween(todo)
  /\ Expired => CleansFirst(todo)

(* A call that makes no choice, put before calls that clean up first or    *)
(* cleaning up itself.                                                     *)
LEMMA PushedFirst ==
  ASSUME NEW U, NEW c \in U, NEW r \in Seq(U), c.op # "createMainLayout",
         c.op \in Cleanups \/ CleansFirst(r)
  PROVE  CleansFirst(Prefixed(c, r))
<1> DEFINE s == Prefixed(c, r)
<1>1. /\ Len(s) = Len(r) + 1 /\ Len(r) \in Nat /\ s[1] = c
      /\ \A i \in 1..Len(r) : s[i + 1] = r[i]
  <2>1. InFront(s, U, c, r)
    BY PushedIndex
  <2> HIDE DEF s
  <2> QED BY <2>1 DEF InFront
<1> HIDE DEF s
<1> SUFFICES ASSUME NEW j \in 1..Len(s), s[j].op = "createMainLayout"
             PROVE  \E k \in 1..(j - 1) : s[k].op \in Cleanups
  BY DEF CleansFirst, s
<1>2. j - 1 \in 1..Len(r) /\ s[j] = r[j - 1]
  BY <1>1
<1>3. CASE c.op \in Cleanups
  BY <1>1, <1>2, <1>3
<1>4. CASE CleansFirst(r)
  <2>1. PICK k \in 1..((j - 1) - 1) : r[k].op \in Cleanups
    BY <1>2, <1>4 DEF CleansFirst
  <2>2. k + 1 \in 1..(j - 1) /\ s[k + 1] = r[k]
    BY <1>1, <1>2, <2>1
  <2> QED BY <2>1, <2>2
<1> QED BY <1>3, <1>4

(* A call put before others: if it leads to a choice, they clean up first. *)
LEMMA PushedBetween ==
  ASSUME NEW U, NEW c \in U, NEW r \in Seq(U), CleansBetween(r),
         c.op \in Choices => CleansFirst(r)
  PROVE  CleansBetween(Prefixed(c, r))
<1> DEFINE s == Prefixed(c, r)
<1>1. /\ Len(s) = Len(r) + 1 /\ Len(r) \in Nat /\ s[1] = c
      /\ \A i \in 1..Len(r) : s[i + 1] = r[i]
  <2>1. InFront(s, U, c, r)
    BY PushedIndex
  <2> HIDE DEF s
  <2> QED BY <2>1 DEF InFront
<1> HIDE DEF s
<1> SUFFICES ASSUME NEW i \in 1..Len(s), NEW j \in 1..Len(s), i < j,
                    s[i].op \in Choices, s[j].op = "createMainLayout"
             PROVE  \E k \in (i + 1)..(j - 1) : s[k].op \in Cleanups
  BY DEF CleansBetween, s
<1>2. j - 1 \in 1..Len(r) /\ s[j] = r[j - 1]
  BY <1>1
<1>3. CASE i = 1
  <2>1. PICK k \in 1..((j - 1) - 1) : r[k].op \in Cleanups
    BY <1>1, <1>2, <1>3 DEF CleansFirst
  <2>2. k + 1 \in (i + 1)..(j - 1) /\ s[k + 1] = r[k]
    BY <1>1, <1>2, <1>3, <2>1
  <2> QED BY <2>1, <2>2
<1>4. CASE i # 1
  <2>1. i - 1 \in 1..Len(r) /\ s[i] = r[i - 1] /\ i - 1 < j - 1
    BY <1>1, <1>4
  <2>2. PICK k \in ((i - 1) + 1)..((j - 1) - 1) : r[k].op \in Cleanups
    BY <1>2, <2>1 DEF CleansBetween
  <2>3. k + 1 \in (i + 1)..(j - 1) /\ s[k + 1] = r[k]
    BY <1>1, <1>2, <2>1, <2>2
  <2> QED BY <2>2, <2>3
<1> QED BY <1>3, <1>4

(* What is left when the first call is made.                               *)
LEMMA PoppedCleans ==
  ASSUME NEW U, NEW c \in U, NEW r \in Seq(U)
  PROVE  /\ CleansBetween(Prefixed(c, r)) =>
              CleansBetween(r) /\ (c.op \in Choices => CleansFirst(r))
         /\ CleansFirst(Prefixed(c, r)) /\ c.op \notin Cleanups => CleansFirst(r)
<1> DEFINE s == Prefixed(c, r)
<1>1. /\ Len(s) = Len(r) + 1 /\ Len(r) \in Nat /\ s[1] = c
      /\ \A i \in 1..Len(r) : s[i + 1] = r[i]
  <2>1. InFront(s, U, c, r)
    BY PushedIndex
  <2> HIDE DEF s
  <2> QED BY <2>1 DEF InFront
<1> HIDE DEF s
<1>2. ASSUME CleansBetween(s) PROVE CleansBetween(r)
  <2> SUFFICES ASSUME NEW i \in 1..Len(r), NEW j \in 1..Len(r), i < j,
                      r[i].op \in Choices, r[j].op = "createMainLayout"
               PROVE  \E k \in (i + 1)..(j - 1) : r[k].op \in Cleanups
    BY DEF CleansBetween
  <2>1. /\ i + 1 \in 1..Len(s) /\ j + 1 \in 1..Len(s) /\ i + 1 < j + 1
        /\ s[i + 1] = r[i] /\ s[j + 1] = r[j]
    BY <1>1
  <2>2. PICK k \in ((i + 1) + 1)..((j + 1) - 1) : s[k].op \in Cleanups
    BY <1>2, <2>1 DEF CleansBetween
  <2>3. k - 1 \in (i + 1)..(j - 1) /\ s[k] = r[k - 1]
    BY <1>1, <2>1, <2>2
  <2> QED BY <2>2, <2>3
<1>3. ASSUME CleansBetween(s), c.op \in Choices PROVE CleansFirst(r)
  <2> SUFFICES ASSUME NEW j \in 1..Len(r), r[j].op = "createMainLayout"
               PROVE  \E k \in 1..(j - 1) : r[k].op \in Cleanups
    BY DEF CleansFirst
  <2>1. 1 \in 1..Len(s) /\ j + 1 \in 1..Len(s) /\ 1 < j + 1 /\ s[j + 1] = r[j]
    BY <1>1
  <2>2. s[1].op \in Choices /\ s[j + 1].op = "createMainLayout"
    BY <1>1, <1>3, <2>1
  <2>3. \E k \in (1 + 1)..((j + 1) - 1) : s[k].op \in Cleanups
    BY <1>3, <2>1, <2>2, Zenon DEF CleansBetween
  <2>4. PICK k \in (1 + 1)..((j + 1) - 1) : s[k].op \in Cleanups
    BY <2>3
  <2>5. k - 1 \in 1..(j - 1) /\ k - 1 \in 1..Len(r) /\ (k - 1) + 1 = k
    BY <1>1, <2>4
  <2>6. s[k] = r[k - 1]
    BY <1>1, <2>5
  <2> QED BY <2>4, <2>5, <2>6
<1>4. ASSUME CleansFirst(s), c.op \notin Cleanups PROVE CleansFirst(r)
  <2> SUFFICES ASSUME NEW j \in 1..Len(r), r[j].op = "createMainLayout"
               PROVE  \E k \in 1..(j - 1) : r[k].op \in Cleanups
    BY DEF CleansFirst
  <2>1. j + 1 \in 1..Len(s) /\ s[j + 1] = r[j]
    BY <1>1
  <2>2. PICK k \in 1..((j + 1) - 1) : s[k].op \in Cleanups
    BY <1>4, <2>1 DEF CleansFirst
  <2>3. k # 1
    BY <1>1, <1>4, <2>2
  <2>4. k - 1 \in 1..(j - 1) /\ s[k] = r[k - 1]
    BY <1>1, <2>1, <2>2, <2>3
  <2> QED BY <2>2, <2>4
<1> QED BY <1>2, <1>3, <1>4 DEF s

(* The forms in which calls are put before the rest.                       *)
OneForms(a, r) ==
  /\ <<>> \o r = r
  /\ (<<>> \o <<>>) \o r = r
  /\ <<a>> \o r = Prefixed(a, r)
  /\ (<<>> \o <<a>>) \o r = Prefixed(a, r)
  /\ (<<a>> \o <<>>) \o r = Prefixed(a, r)

TwoForms(a, b, r) ==
  /\ <<a, b>> \o r = Prefixed(a, Prefixed(b, r))
  /\ (<<a>> \o <<b>>) \o r = Prefixed(a, Prefixed(b, r))

(* Each of them is one or two elements in front of the rest.               *)
LEMMA PushedForms ==
  ASSUME NEW U, NEW a \in U, NEW b \in U, NEW r \in Seq(U)
  PROVE  OneForms(a, r) /\ TwoForms(a, b, r)
<1> DEFINE x == <<a>>
           y == <<b>>
           xy == <<a, b>>
           e == <<>>
<1>1. x \in Seq(U) /\ y \in Seq(U) /\ xy \in Seq(U) /\ e \in Seq(U)
  OBVIOUS
<1>2. x \o y = xy
  <2>1. /\ Len(x) = 1 /\ Len(y) = 1 /\ Len(xy) = 2
        /\ x[1] = a /\ y[1] = b /\ xy[1] = a /\ xy[2] = b
    OBVIOUS
  <2> HIDE DEF x, y, xy
  <2>2. /\ x \o y \in Seq(U) /\ Len(x \o y) = Len(x) + Len(y)
        /\ \A i \in 1..(Len(x) + Len(y)) :
             (x \o y)[i] = IF i <= Len(x) THEN x[i] ELSE y[i - Len(x)]
    BY <1>1, ConcatProperties
  <2>3. Len(x \o y) = 2 /\ (x \o y)[1] = a /\ (x \o y)[2] = b
    BY <2>1, <2>2
  <2>4. \A i \in 1..2 : (x \o y)[i] = xy[i]
    BY <2>1, <2>3
  <2> QED BY <1>1, <2>1, <2>2, <2>3, <2>4, SeqEqual
<1>3. \A s \in Seq(U) : s \o e = s /\ e \o s = s
  BY ConcatEmptySeq
<1>4. Prefixed(a, r) = x \o r /\ Prefixed(b, r) = y \o r
      /\ Prefixed(a, y \o r) = x \o (y \o r)
  BY DEF Prefixed
<1> HIDE DEF x, y, xy, e
<1>5. (x \o y) \o r = x \o (y \o r)
  BY <1>1, ConcatAssociative
<1>6. e \o r = r /\ e \o x = x /\ e \o e = e /\ x \o e = x
  BY <1>1, <1>3
<1>7. /\ e \o r = r
      /\ x \o r = Prefixed(a, r)
      /\ xy \o r = Prefixed(a, Prefixed(b, r))
      /\ (e \o x) \o r = Prefixed(a, r)
      /\ (x \o y) \o r = Prefixed(a, Prefixed(b, r))
      /\ (e \o e) \o r = r
      /\ (x \o e) \o r = Prefixed(a, r)
  BY <1>2, <1>4, <1>5, <1>6
<1> QED BY <1>7 DEF x, y, xy, e, OneForms, TwoForms

(* A sequence of one element.                                              *)
LEMMA OneElement ==
  ASSUME NEW U, NEW c \in U
  PROVE  /\ <<c>> \in Seq(U) /\ <<>> \in Seq(U)
         /\ <<c>> = Prefixed(c, <<>>)
         /\ <<>> \o <<c>> = <<c>> /\ <<>> \o <<>> = <<>>
<1> DEFINE e == <<>>
           o == <<c>>
<1>1. e \in Seq(U) /\ o \in Seq(U)
  OBVIOUS
<1>2. \A s \in Seq(U) : s \o e = s /\ e \o s = s
  BY ConcatEmptySeq
<1>3. Prefixed(c, e) = o \o e
  BY DEF Prefixed
<1> HIDE DEF e, o
<1>4. o \o e = o /\ e \o o = o /\ e \o e = e
  BY <1>1, <1>2
<1> QED BY <1>1, <1>3, <1>4 DEF e, o

(* The calls with which a clean-up goes on.                                *)
LEMMA CleanupPushes ==
  ASSUME TypeOK, NEW c \in Calls
  PROVE  /\ CleanupThen(<<c>>) =>
              \/ todo' = Prefixed(c, Rest)
              \/ todo' = Prefixed(Call("reloadQueue", <<>>), Prefixed(c, Rest))
         /\ CleanupThen(<<>>) =>
              todo' = Rest \/ todo' = Prefixed(Call("reloadQueue", <<>>), Rest)
<1>1. Rest \in Seq(Calls)
  BY RestType DEF TypeOK
<1>2. Call("reloadQueue", <<>>) \in Calls
  <2>1. <<>> \in Seq(AnyId) /\ "reloadQueue" \in Operations
    BY DEF Operations
  <2> QED BY <2>1, CallType
<1> DEFINE k == Call("reloadQueue", <<>>)
           R == Rest
<1>3. k \in Calls /\ R \in Seq(Calls)
  BY <1>1, <1>2
<1>4. ASSUME CleanupThen(<<c>>)
      PROVE  \/ todo' = (<<>> \o <<c>>) \o R
             \/ todo' = (<<k>> \o <<c>>) \o R
  BY <1>4 DEF CleanupThen
<1>5. ASSUME CleanupThen(<<>>)
      PROVE  \/ todo' = (<<>> \o <<>>) \o R
             \/ todo' = (<<k>> \o <<>>) \o R
  BY <1>5 DEF CleanupThen
<1> HIDE DEF k, R
<1>6. OneForms(c, R) /\ OneForms(k, R) /\ TwoForms(k, c, R)
  BY <1>3, PushedForms
<1>7. CleanupThen(<<c>>) => todo' = Prefixed(c, R) \/ todo' = Prefixed(k, Prefixed(c, R))
  BY <1>4, <1>6 DEF OneForms, TwoForms
<1>8. CleanupThen(<<>>) => todo' = R \/ todo' = Prefixed(k, R)
  BY <1>5, <1>6 DEF OneForms
<1> QED BY <1>7, <1>8 DEF k, R

(* After a clean-up the override is live.                                  *)
LEMMA CleanedIsLive ==
  ASSUME CleanupExpiredOverrides, now' = now
  PROVE  ~Expired'
BY DEF CleanupExpiredOverrides, LiveOverride, OverrideExpired, NoOverride, Expired

(* What is known of the calls after the first one.                         *)
LEMMA RestCleans ==
  ASSUME TypeOK, OverrideInv, todo # <<>>
  PROVE  /\ Rest \in Seq(Calls) /\ Head(todo) \in Calls
         /\ CleansBetween(Rest)
         /\ Head(todo).op \in Choices => CleansFirst(Rest)
         /\ Expired /\ Head(todo).op \notin Cleanups
              => CleansFirst(Rest)
<1>1. /\ Rest \in Seq(Calls) /\ Head(todo) \in Calls
      /\ todo = Prefixed(Head(todo), Rest)
  BY HeadBeforeTail DEF TypeOK, Rest
<1>2. /\ CleansBetween(todo) =>
           CleansBetween(Rest) /\ (Head(todo).op \in Choices => CleansFirst(Rest))
      /\ CleansFirst(todo) /\ Head(todo).op \notin Cleanups => CleansFirst(Rest)
  BY <1>1, PoppedCleans
<1> QED BY <1>1, <1>2 DEF OverrideInv

(* A call that is no choice does no harm before the others.                *)
LEMMA HarmlessCall ==
  ASSUME NEW c \in Calls, NEW r \in Seq(Calls), c.op \notin Choices,
         CleansBetween(r)
  PROVE  /\ Prefixed(c, r) \in Seq(Calls)
         /\ CleansBetween(Prefixed(c, r))
         /\ CleansFirst(r) \/ c.op \in Cleanups => CleansFirst(Prefixed(c, r))
BY PushedIndex, PushedFirst, PushedBetween DEF Choices, InFront

(* The slots of layoutUpdated: a choice, then a clean-up.                  *)
LEMMA LayoutUpdatedCleans ==
  ASSUME NEW r \in Seq(Calls), CleansBetween(r)
  PROVE  /\ LayoutUpdated \o r \in Seq(Calls)
         /\ CleansBetween(LayoutUpdated \o r)
         /\ CleansFirst(LayoutUpdated \o r)
<1> DEFINE a == Call("fetchMainLayout", <<>>)
           b == Call("currentLayoutId", <<>>)
<1>1. <<>> \in Seq(AnyId) /\ {"fetchMainLayout", "currentLayoutId"} \subseteq Operations
  BY DEF Operations
<1>2. a \in Calls /\ b \in Calls
  BY <1>1, CallType
<1>3. a.op = "fetchMainLayout" /\ b.op = "currentLayoutId"
  BY DEF Call
<1> HIDE DEF a, b
<1>4. LayoutUpdated \o r = Prefixed(a, Prefixed(b, r))
  <2>1. TwoForms(a, b, r)
    BY <1>2, PushedForms
  <2>2. LayoutUpdated = <<a, b>>
    BY DEF LayoutUpdated, a, b
  <2> QED BY <2>1, <2>2 DEF TwoForms
<1>5. /\ Prefixed(b, r) \in Seq(Calls)
      /\ CleansBetween(Prefixed(b, r)) /\ CleansFirst(Prefixed(b, r))
  BY <1>2, <1>3, HarmlessCall DEF Choices, Cleanups
<1>6. Prefixed(a, Prefixed(b, r)) \in Seq(Calls) /\ CleansBetween(Prefixed(a, Prefixed(b, r)))
  BY <1>2, <1>5, PushedIndex, PushedBetween DEF InFront
<1>7. CleansFirst(Prefixed(a, Prefixed(b, r)))
  BY <1>2, <1>3, <1>5, PushedFirst
<1> QED BY <1>4, <1>6, <1>7

(* A call with its name, and no calls.                                     *)
LEMMA PlainCall ==
  /\ \A op \in Operations : Call(op, <<>>) \in Calls /\ Call(op, <<>>).op = op
  /\ CleansFirst(<<>>) /\ CleansBetween(<<>>)
<1>1. <<>> \in Seq(AnyId)
  OBVIOUS
<1>2. \A op \in Operations : Call(op, <<>>) \in Calls /\ Call(op, <<>>).op = op
  BY <1>1, CallType DEF Call
<1>3. CleansFirst(<<>>) /\ CleansBetween(<<>>)
  BY DEF CleansFirst, CleansBetween
<1> QED BY <1>2, <1>3

(* The operations that clean up and then make a call.                      *)
LEMMA CleanupKeeps ==
  ASSUME TypeOK, CleansBetween(Rest), now' = now, NEW c \in Calls,
         c.op \in Choices => CleansFirst(Rest),
         CleanupThen(<<c>>) \/ CleanupThen(<<>>)
  PROVE  OverrideInv'
<1> DEFINE k == Call("reloadQueue", <<>>)
           R == Rest
<1>1. R \in Seq(Calls)
  BY RestType DEF TypeOK
<1>2. k \in Calls /\ k.op \notin Choices
  BY PlainCall DEF Operations, Choices
<1>3. \/ todo' = R \/ todo' = Prefixed(k, R)
      \/ todo' = Prefixed(c, R) \/ todo' = Prefixed(k, Prefixed(c, R))
  BY CleanupPushes
<1>4. ~Expired'
  BY CleanedIsLive DEF CleanupThen
<1>5. CleansBetween(R) /\ (c.op \in Choices => CleansFirst(R))
  OBVIOUS
<1> HIDE DEF k, R
<1>6. Prefixed(c, R) \in Seq(Calls) /\ CleansBetween(Prefixed(c, R))
  BY <1>1, <1>5, PushedIndex, PushedBetween DEF InFront
<1>7. CleansBetween(Prefixed(k, R)) /\ CleansBetween(Prefixed(k, Prefixed(c, R)))
  BY <1>1, <1>2, <1>5, <1>6, HarmlessCall
<1>8. CleansBetween(todo')
  BY <1>3, <1>5, <1>6, <1>7
<1> QED BY <1>4, <1>8 DEF OverrideInv

(* A step that leaves the override alone, and puts calls that are no       *)
(* choices before the rest.                                                *)
LEMMA HarmlessStep ==
  ASSUME TypeOK, OverrideInv, todo # <<>>, Head(todo).op \notin Cleanups,
         NEW c \in Calls, NEW d \in Calls, c.op \notin Choices, d.op \notin Choices,
         \/ todo' = Rest
         \/ todo' = Prefixed(c, Rest)
         \/ todo' = Prefixed(d, Prefixed(c, Rest)),
         Expired' = Expired \/ Head(todo).op \in Choices
  PROVE  OverrideInv'
<1> DEFINE R == Rest
<1>1. /\ R \in Seq(Calls) /\ CleansBetween(R)
      /\ Expired' => CleansFirst(R)
  BY RestCleans
<1>2. todo' = R \/ todo' = Prefixed(c, R) \/ todo' = Prefixed(d, Prefixed(c, R))
  OBVIOUS
<1> HIDE DEF R
<1>3. /\ Prefixed(c, R) \in Seq(Calls) /\ CleansBetween(Prefixed(c, R))
      /\ CleansFirst(R) => CleansFirst(Prefixed(c, R))
  BY <1>1, HarmlessCall
<1>4. /\ CleansBetween(Prefixed(d, Prefixed(c, R)))
      /\ CleansFirst(R) => CleansFirst(Prefixed(d, Prefixed(c, R)))
  BY <1>3, HarmlessCall
<1>5. CleansBetween(todo') /\ (Expired' => CleansFirst(todo'))
  BY <1>1, <1>2, <1>3, <1>4
<1> QED BY <1>5 DEF OverrideInv

(* reloadQueue cleans up; its signal is followed by a clean-up.            *)
LEMMA ReloadKeepsLive ==
  ASSUME TypeOK, OverrideInv, ReloadQueue
  PROVE  OverrideInv'
<1> DEFINE u == Call("updateCurrentOverlays",
                     AddMissing(Ids(overlayQueue), Ids(overlayOverrides)))
           R == Rest
<1>1. u \in Calls /\ u.op \notin Choices
  <2>1. Ids(overlayQueue) \in Seq(AnyId) /\ Ids(overlayOverrides) \in Seq(AnyId)
    BY IdsType DEF TypeOK
  <2>2. AddMissing(Ids(overlayQueue), Ids(overlayOverrides)) \in Seq(AnyId)
    BY <2>1, AddMissingType
  <2> QED BY <2>2, CallType DEF Operations, Call, Choices
<1>2. R \in Seq(Calls) /\ CleansBetween(R)
  BY RestCleans DEF ReloadQueue, Calling
<1>3. ~Expired'
  BY CleanedIsLive DEF ReloadQueue, envVars
<1>4. \/ todo' = (<<>> \o <<u>>) \o R
      \/ todo' = (LayoutUpdated \o <<u>>) \o R
  BY DEF ReloadQueue
<1>5. LayoutUpdated \in Seq(Calls)
  BY SignalTypes
<1> HIDE DEF u, R
<1>6. OneForms(u, R)
  BY <1>1, <1>2, PushedForms
<1>7. (LayoutUpdated \o <<u>>) \o R = LayoutUpdated \o Prefixed(u, R)
  <2> DEFINE o == <<u>>
  <2>1. o \in Seq(Calls) /\ Prefixed(u, R) = o \o R
    BY <1>1 DEF Prefixed
  <2> HIDE DEF o
  <2>2. (LayoutUpdated \o o) \o R = LayoutUpdated \o (o \o R)
    BY <1>2, <1>5, <2>1, ConcatAssociative
  <2> QED BY <2>1, <2>2 DEF o
<1>8. Prefixed(u, R) \in Seq(Calls) /\ CleansBetween(Prefixed(u, R))
  BY <1>1, <1>2, HarmlessCall
<1>9. CleansBetween(todo')
  BY <1>4, <1>6, <1>7, <1>8, LayoutUpdatedCleans DEF OneForms
<1> QED BY <1>3, <1>9 DEF OverrideInv

(* applyLayoutOverride: the fetch it makes is followed by a clean-up.      *)
LEMMA ApplyKeepsLive ==
  ASSUME TypeOK, OverrideInv, NEW id, NEW createdDt, NEW duration,
         ApplyLayoutOverride(id, createdDt, duration)
  PROVE  OverrideInv'
<1>1. Rest \in Seq(Calls) /\ CleansBetween(Rest)
  <2>1. CASE todo = <<>>
    BY <2>1, PlainCall DEF Rest
  <2>2. CASE todo # <<>>
    BY <2>2, RestCleans
  <2> QED BY <2>1, <2>2
<1>2. CleansBetween(todo') /\ CleansFirst(todo')
  BY <1>1, LayoutUpdatedCleans DEF ApplyLayoutOverride
<1> QED BY <1>2 DEF OverrideInv

(* The other calls of the scheduler.                                       *)
LEMMA SchedulerKeepsLive ==
  ASSUME TypeOK, OverrideInv, SchedulerCall
  PROVE  OverrideInv'
<1>1. CASE ReloadQueue
  BY <1>1, ReloadKeepsLive
<1>2. CASE UpdateCurrentOverlays
  <2> DEFINE c == Call("fetchOverlays", <<>>)
             R == Rest
  <2>1. c \in Calls /\ c.op \notin Choices
    BY PlainCall DEF Operations, Choices
  <2>2. todo # <<>> /\ Head(todo).op \notin Cleanups
    BY <1>2 DEF UpdateCurrentOverlays, Calling, Cleanups
  <2>3. R \in Seq(Calls)
    BY <2>2, RestCleans
  <2>4. OneForms(c, R)
    <3> HIDE DEF c, R
    <3> QED BY <2>1, <2>3, PushedForms
  <2>5. todo' = <<>> \o R \/ todo' = <<c>> \o R
    BY <1>2 DEF UpdateCurrentOverlays, OverlaysUpdated
  <2>6. todo' = R \/ todo' = Prefixed(c, R)
    <3> HIDE DEF c, R
    <3> QED BY <2>4, <2>5 DEF OneForms
  <2>7. Expired' = Expired
    BY <1>2 DEF UpdateCurrentOverlays, overrideVars, envVars, Expired, OverrideExpired
  <2> HIDE DEF c
  <2> QED BY <2>1, <2>2, <2>6, <2>7, HarmlessStep
<1>3. CASE CurrentLayoutId
  <2>1. CleansBetween(Rest)
    BY <1>3, RestCleans DEF CurrentLayoutId, Calling
  <2>2. \E c \in Calls : c.op \notin Choices
    BY PlainCall DEF Operations, Choices
  <2> QED BY <1>3, <2>1, <2>2, CleanupKeeps DEF CurrentLayoutId, envVars
<1>4. ASSUME todo # <<>>, Head(todo).op \notin Cleanups, todo' = Rest,
             UNCHANGED <<overrideVars, now>>
      PROVE  OverrideInv'
  <2>1. \E c \in Calls : c.op \notin Choices
    BY PlainCall DEF Operations, Choices
  <2>2. Expired' = Expired
    BY <1>4 DEF overrideVars, Expired, OverrideExpired
  <2> QED BY <1>4, <2>1, <2>2, HarmlessStep
<1>5. ASSUME NEW queue, TriggerTo(queue), todo # <<>>, Head(todo).op \notin Cleanups
      PROVE  OverrideInv'
  <2>1. CASE queue.currentId = EmptyLayoutId
    BY <1>4, <1>5, <2>1 DEF TriggerTo, envVars
  <2>2. CASE queue.currentId # EmptyLayoutId
    BY <1>5, <2>2, ApplyKeepsLive DEF TriggerTo
  <2> QED BY <2>1, <2>2
<1>6. CASE TriggerNextLayout \/ TriggerPreviousLayout
  BY <1>5, <1>6 DEF TriggerNextLayout, TriggerPreviousLayout, Calling, Cleanups
<1>7. CASE TriggerLayoutById
  <2>1. todo # <<>> /\ Head(todo).op \notin Cleanups
    BY <1>7 DEF TriggerLayoutById, Calling, Cleanups
  <2>2. CASE Head(Head(todo).ids) \in KnownIds
    BY <1>7, <2>2, ApplyKeepsLive DEF TriggerLayoutById
  <2>3. CASE Head(Head(todo).ids) \notin KnownIds
    BY <1>4, <1>7, <2>1, <2>3 DEF TriggerLayoutById, envVars
  <2> QED BY <2>2, <2>3
<1> QED BY <1>1, <1>2, <1>3, <1>6, <1>7 DEF SchedulerCall

(* The calls of the manager.                                               *)
LEMMA ManagerKeepsLive ==
  ASSUME TypeOK, OverrideInv,
         \/ FetchMainLayout
         \/ CreateMainLayout
         \/ MainLayoutFailed
         \/ FetchOverlays
         \/ ListOverlays
         \/ CreateOverlays
  PROVE  OverrideInv'
<1> DEFINE reload == Call("reloadQueue", <<>>)
           failed == Call("mainLayoutFailed", <<>>)
<1>1. /\ reload \in Calls /\ reload.op \notin Choices
      /\ failed \in Calls /\ failed.op \notin Choices
  BY PlainCall DEF Operations, Choices
<1>2. CASE FetchMainLayout
  <2>1. Call("createMainLayout", <<>>) \in Calls
    BY PlainCall DEF Operations
  <2>2. CleansBetween(Rest) /\ CleansFirst(Rest)
    BY <1>2, RestCleans DEF FetchMainLayout, Calling, Choices
  <2> QED BY <1>2, <2>1, <2>2, CleanupKeeps DEF FetchMainLayout, envVars
<1>3. CASE CreateMainLayout
  <2> DEFINE R == Rest
  <2>1. todo # <<>> /\ Head(todo).op \notin Cleanups /\ Head(todo).op \in Choices
    BY <1>3 DEF CreateMainLayout, Calling, Cleanups, Choices
  <2>2. R \in Seq(Calls)
    BY <2>1, RestCleans
  <2>3. todo' = R \/ todo' = <<reload, failed>> \o R
    BY <1>3 DEF CreateMainLayout
  <2> HIDE DEF R, reload, failed
  <2>4. TwoForms(reload, failed, R)
    BY <1>1, <2>2, PushedForms
  <2>5. todo' = R \/ todo' = Prefixed(reload, Prefixed(failed, R))
    BY <2>3, <2>4 DEF TwoForms
  <2> QED BY <1>1, <2>1, <2>5, HarmlessStep DEF R
<1>4. CASE MainLayoutFailed
  <2>1. todo # <<>> /\ Head(todo).op \notin Cleanups
    BY <1>4 DEF MainLayoutFailed, Calling, Cleanups
  <2>2. todo' = Rest /\ Expired' = Expired
    BY <1>4 DEF MainLayoutFailed, overrideVars, envVars, Expired, OverrideExpired
  <2> QED BY <1>1, <2>1, <2>2, HarmlessStep
<1>5. CASE FetchOverlays
  <2>1. Call("listOverlays", <<>>) \in Calls /\ Call("listOverlays", <<>>).op \notin Choices
    BY PlainCall DEF Operations, Choices
  <2>2. CleansBetween(Rest)
    BY <1>5, RestCleans DEF FetchOverlays, Calling
  <2> QED BY <1>5, <2>1, <2>2, CleanupKeeps DEF FetchOverlays, envVars
<1>6. CASE ListOverlays
  <2>1. todo # <<>> /\ Head(todo).op \notin Cleanups
    BY <1>6 DEF ListOverlays, Calling, Cleanups
  <2> DEFINE ids == AddMissing(Ids(overlayQueue),
                               Keep(Ids(overlayOverrides),
                                    {id \in LayoutIds : LayoutValid(id, {})}))
             c == Call("createOverlays", ids)
             R == Rest
  <2>2. c \in Calls /\ c.op \notin Choices
    <3>1. Ids(overlayQueue) \in Seq(AnyId) /\ Ids(overlayOverrides) \in Seq(AnyId)
      BY IdsType DEF TypeOK
    <3>2. \A S : Keep(Ids(overlayOverrides), S) \in Seq(AnyId)
      BY <3>1, KeepType
    <3>3. ids \in Seq(AnyId)
      BY <3>1, <3>2, AddMissingType
    <3> HIDE DEF ids
    <3> QED BY <3>3, CallType DEF Operations, Call, Choices
  <2>3. todo' = <<c>> \o R
    BY <1>6 DEF ListOverlays
  <2>4. Expired' = Expired
    BY <1>6 DEF ListOverlays, overrideVars, envVars, Expired, OverrideExpired
  <2> HIDE DEF c, ids
  <2>5. todo' = Prefixed(c, Rest)
    BY <2>3 DEF Prefixed
  <2> QED BY <2>1, <2>2, <2>4, <2>5, HarmlessStep
<1>7. CASE CreateOverlays
  <2> DEFINE call == Head(todo)
             next == [call EXCEPT !.ids = Tail(@)]
             made == [next EXCEPT !.views = @ \cup {Head(call.ids)}]
             R == Rest
  <2>1. todo # <<>> /\ call.op = "createOverlays" /\ Head(todo).op \notin Cleanups
    BY <1>7 DEF CreateOverlays, Calling, Cleanups
  <2>2. call \in Calls /\ R \in Seq(Calls)
    BY <2>1, RestCleans
  <2>3. call.ids # <<>> => next \in Calls /\ next.op = call.op
    <3>1. call.ids \in Seq(AnyId) /\ (call.ids # <<>> => Tail(call.ids) \in Seq(AnyId))
      BY <2>2, HeadBeforeTail DEF Calls
    <3> HIDE DEF call
    <3> QED BY <2>2, <3>1 DEF Calls
  <2>4. call.ids # <<>> /\ Head(call.ids) \in Loadable =>
          made \in Calls /\ made.op = call.op
    <3>1. Loadable \subseteq LayoutIds
      BY DEF Loadable
    <3> HIDE DEF next, call
    <3> QED BY <2>3, <3>1 DEF Calls
  <2>5. \/ todo' = R
        \/ /\ call.ids # <<>> /\ Head(call.ids) \in Loadable
           /\ todo' = <<made>> \o R
        \/ call.ids # <<>> /\ todo' = <<reload, next>> \o R
    BY <1>7 DEF CreateOverlays
  <2>6. Expired' = Expired
    BY <1>7 DEF CreateOverlays, FlagUnsafe, overrideVars, envVars, Expired,
                OverrideExpired
  <2>7. "createOverlays" \notin Choices
    BY DEF Choices
  <2> HIDE DEF call, next, made, R, reload, failed
  <2>8. CASE todo' = R
    BY <1>1, <2>1, <2>6, <2>8, HarmlessStep DEF R
  <2>9. CASE call.ids # <<>> /\ Head(call.ids) \in Loadable /\ todo' = <<made>> \o R
    <3>1. todo' = Prefixed(made, R) /\ made \in Calls /\ made.op \notin Choices
      BY <2>1, <2>4, <2>7, <2>9 DEF Prefixed
    <3> QED BY <2>1, <2>6, <3>1, HarmlessStep DEF R
  <2>10. CASE call.ids # <<>> /\ todo' = <<reload, next>> \o R
    <3>1. next \in Calls /\ next.op \notin Choices
      BY <2>1, <2>3, <2>7, <2>10
    <3>2. TwoForms(reload, next, R)
      BY <1>1, <2>2, <3>1, PushedForms
    <3>3. todo' = Prefixed(reload, Prefixed(next, R))
      BY <2>10, <3>2 DEF TwoForms
    <3> QED BY <1>1, <2>1, <2>6, <3>1, <3>3, HarmlessStep DEF R
  <2> QED BY <2>5, <2>8, <2>9, <2>10
<1> QED BY <1>2, <1>3, <1>4, <1>5, <1>6, <1>7

(* The events come when no call is pending, and begin with no choice       *)
(* but a fetch.                                                            *)
LEMMA EventKeepsLive ==
  ASSUME TypeOK, OverrideInv,
         \/ ScheduleEvent
         \/ MainLayoutExpired
         \/ OverrideRequest
  PROVE  OverrideInv'
<1>1. ASSUME NEW c \in Calls, c.op # "createMainLayout", todo' = <<c>>
      PROVE  OverrideInv'
  <2>1. <<c>> = Prefixed(c, <<>>) /\ <<>> \in Seq(Calls)
    BY OneElement
  <2>2. CleansFirst(Prefixed(c, <<>>)) /\ CleansBetween(Prefixed(c, <<>>))
    BY <1>1, <2>1, PlainCall, PushedFirst, PushedBetween
  <2> QED BY <1>1, <2>1, <2>2 DEF OverrideInv
<1>2. \A op \in Operations : Call(op, <<>>) \in Calls /\ Call(op, <<>>).op = op
  BY PlainCall
<1>3. {"reloadQueue", "fetchMainLayout", "currentLayoutId", "fetchOverlays"}
        \subseteq Operations
  BY DEF Operations
<1>4. ASSUME todo' = <<Call("reloadQueue", <<>>)>> PROVE OverrideInv'
  BY <1>1, <1>2, <1>3, <1>4
<1>5. CASE MainLayoutExpired
  BY <1>1, <1>2, <1>3, <1>5 DEF MainLayoutExpired
<1>6. CASE ScheduleEvent
  <2>1. CASE Status
    <3> DEFINE k == Call("reloadQueue", <<>>)
               c == Call("currentLayoutId", <<>>)
               e == <<>>
    <3>1. todo' = <<>> \o <<c>> \/ todo' = <<k>> \o <<c>>
      BY <2>1 DEF Status
    <3>2. k \in Calls /\ c \in Calls /\ k.op = "reloadQueue" /\ c.op = "currentLayoutId"
      BY <1>2, <1>3
    <3> HIDE DEF k, c
    <3>3. CASE todo' = <<>> \o <<c>>
      <4>1. todo' = <<c>>
        BY <3>3
      <4> QED BY <1>1, <3>2, <4>1
    <3>4. CASE todo' = <<k>> \o <<c>>
      <4>1. todo' = Prefixed(k, <<c>>)
        BY <3>4 DEF Prefixed
      <4>2. <<c>> = Prefixed(c, <<>>) /\ <<c>> \in Seq(Calls) /\ <<>> \in Seq(Calls)
        BY <3>2, OneElement
      <4>3. CleansBetween(Prefixed(c, <<>>)) /\ CleansFirst(Prefixed(c, <<>>))
        BY <3>2, <4>2, PlainCall, HarmlessCall DEF Choices, Cleanups
      <4>4. CleansBetween(todo') /\ CleansFirst(todo')
        BY <3>2, <4>1, <4>2, <4>3, HarmlessCall DEF Choices
      <4> QED BY <4>4 DEF OverrideInv
    <3> QED BY <3>1, <3>3, <3>4
  <2>2. CASE Tick
    <3>1. todo' = <<>>
      BY <2>2 DEF Tick, Idle
    <3> QED BY <3>1, PlainCall DEF OverrideInv
  <2>3. CASE \E file \in Volatile : FileSaved(file)
    BY <2>3 DEF FileSaved, overrideVars, OverrideInv, Expired, OverrideExpired
  <2> QED BY <1>4, <1>6, <2>1, <2>2, <2>3
          DEF ScheduleEvent, ReloadSchedule, AddOrReplaceCriteria, TimerFires,
              FilesDownloaded
<1>7. CASE OverrideRequest
  <2>1. ASSUME NEW op \in Operations, NEW ids \in Seq(AnyId), op \notin Choices,
               Trigger(op, ids)
        PROVE  OverrideInv'
    <3>1. Call(op, ids) \in Calls /\ Call(op, ids).op \notin Choices
      BY <2>1, CallType DEF Call
    <3>2. CleansBetween(Rest) /\ now' = now
      BY <2>1, PlainCall DEF Trigger, Request, Idle, Rest
    <3> QED BY <2>1, <3>1, <3>2, CleanupKeeps DEF Trigger
  <2>2. CASE ClearOverrides
    <3>1. ~Expired'
      BY <2>2 DEF ClearOverrides, Expired, NoOverride
    <3> DEFINE c == Call("fetchOverlays", <<>>)
    <3>2. \/ todo' = <<>> \o <<>>
          \/ todo' = <<>> \o <<c>>
          \/ todo' = LayoutUpdated \o <<>>
          \/ todo' = LayoutUpdated \o <<c>>
      BY <2>2 DEF ClearOverrides, OverlaysUpdated
    <3>3. c \in Calls /\ c.op \notin Choices
      BY <1>2, <1>3 DEF Choices
    <3> HIDE DEF c
    <3>4. /\ <<c>> \in Seq(Calls) /\ CleansBetween(<<c>>) /\ <<>> \in Seq(Calls)
          /\ <<>> \o <<c>> = <<c>> /\ <<>> \o <<>> = <<>>
      <4>1. /\ <<c>> \in Seq(Calls) /\ <<>> \in Seq(Calls) /\ <<c>> = Prefixed(c, <<>>)
            /\ <<>> \o <<c>> = <<c>> /\ <<>> \o <<>> = <<>>
        BY <3>3, OneElement
      <4>2. CleansBetween(Prefixed(c, <<>>))
        BY <3>3, <4>1, PlainCall, HarmlessCall
      <4> QED BY <4>1, <4>2
    <3>5. CleansBetween(todo')
      BY <3>2, <3>4, PlainCall, LayoutUpdatedCleans
    <3> QED BY <3>1, <3>5 DEF OverrideInv
  <2>3. ASSUME NEW id, NEW delay, NEW duration, ChangeLayout(id, delay, duration)
        PROVE  OverrideInv'
    BY <2>3, ApplyKeepsLive DEF ChangeLayout
  <2>4. ASSUME NEW id, NEW delay, NEW duration, AddOverlayOverride(id, delay, duration)
        PROVE  OverrideInv'
    BY <1>1, <1>2, <1>3, <2>4 DEF AddOverlayOverride, OverlaysUpdated
  <2>5. CASE PurgeAll
    BY <1>4, <2>5 DEF PurgeAll
  <2>6. /\ {"triggerNextLayout", "triggerPreviousLayout", "triggerLayoutById"}
             \subseteq Operations \ Choices
        /\ <<>> \in Seq(AnyId)
        /\ \A id \in OverrideIds : <<id>> \in Seq(AnyId)
    BY SchedulerAssumption DEF Operations, AnyId, Choices
  <2> QED BY <1>7, <2>1, <2>2, <2>3, <2>4, <2>5, <2>6 DEF OverrideRequest
<1> QED BY <1>5, <1>6, <1>7

(* Every step keeps the override live at the next choice.                  *)
LEMMA OverrideNext == TypeOK /\ OverrideInv /\ [Next]_vars => OverrideInv'
<1> SUFFICES ASSUME TypeOK, OverrideInv, [Next]_vars PROVE OverrideInv'
  OBVIOUS
<1>1. CASE PendingCall
  BY <1>1, SchedulerKeepsLive, ManagerKeepsLive DEF PendingCall
<1>2. CASE Routine
  BY <1>2, EventKeepsLive DEF Routine
<1>3. CASE OverrideRequest
  BY <1>3, EventKeepsLive
<1>4. CASE UNCHANGED vars
  BY <1>4 DEF vars, schedulerVars, OverrideInv, Expired, OverrideExpired
<1> QED BY <1>1, <1>2, <1>3, <1>4 DEF Next

(* Scheduler::nextLayout: whatever was called since the overrides were     *)
(* cleaned up, the override it plays has not played once already, and is   *)
(* not past its end.                                                       *)
THEOREM OverridePlayedIsLive == Spec => []OverrideIsLive
<1>1. Init => OverrideInv
  <2> SUFFICES ASSUME Init PROVE OverrideInv
    OBVIOUS
  <2>1. ~Expired
    BY DEF Init, SchedulerInit, NoOverride, Expired
  <2>2. Len(todo) = 1 /\ todo[1].op = "reloadQueue"
    BY DEF Init, SchedulerInit, Call
  <2>3. CleansBetween(todo)
    BY <2>2 DEF CleansBetween
  <2> QED BY <2>1, <2>3 DEF OverrideInv
<1>2. TypeOK /\ OverrideInv => OverrideIsLive
  <2> SUFFICES ASSUME TypeOK, OverrideInv, Calling("createMainLayout"),
                      layoutOverride.active
               PROVE  IF layoutOverride.oneShot THEN ~layoutOverride.played
                      ELSE now < layoutOverride.endDT
    BY DEF OverrideIsLive
  <2>1. ~CleansFirst(todo)
    <3>1. todo \in Seq(Calls) /\ todo # <<>> /\ Head(todo).op = "createMainLayout"
      BY DEF Calling, TypeOK
    <3>2. Len(todo) \in Nat /\ 1 \in 1..Len(todo) /\ todo[1] = Head(todo)
      BY <3>1, EmptySeq, HeadTailProperties
    <3> QED BY <3>1, <3>2 DEF CleansFirst
  <2>2. ~OverrideExpired
    BY <2>1 DEF OverrideInv, Expired
  <2>3. layoutOverride.endDT \in Int /\ now \in Nat
    BY DEF TypeOK, Override
  <2> QED BY <2>2, <2>3 DEF OverrideExpired
<1> QED BY TypeCorrect, OverrideNext, <1>1, <1>2, PTL DEF Spec

-----------------------------------------------------------------------------
(* What a reload puts into the queues.                                     *)

(* The elements have priorities.                                           *)
Ranked(U) == \A l \in U : l.priority \in Int

(* The priority of the layouts of a queue.                                 *)
LEMMA HighestType ==
  ASSUME NEW U, Ranked(U), NEW items \in Seq(U)
  PROVE  HighestPriority(items) \in Int
<1>1. CASE items = <<>>
  BY <1>1 DEF HighestPriority, DefaultPriority
<1>2. CASE items # <<>>
  <2>1. items[1] \in U
    BY <1>2, EmptySeq
  <2> QED BY <1>2, <2>1 DEF HighestPriority, FirstItemIndex, Ranked
<1> QED BY <1>1, <1>2

(* The priority that add() compares with, for a queue with one layout more. *)
LEMMA HighestOfAdded ==
  ASSUME NEW U, Ranked(U), NEW items \in Seq(U),
         NEW layout \in U
  PROVE  /\ HighestPriority(<<layout>>) = layout.priority
         /\ layout.priority = HighestPriority(items) =>
              HighestPriority(Append(items, layout)) = layout.priority
<1>2. HighestPriority(<<layout>>) = layout.priority
  <2>1. <<layout>> # <<>> /\ <<layout>>[1] = layout
    OBVIOUS
  <2> QED BY <2>1 DEF HighestPriority, FirstItemIndex
<1>3. ASSUME layout.priority = HighestPriority(items)
      PROVE  HighestPriority(Append(items, layout)) = layout.priority
  <2>1. Len(items) \in Nat /\ Append(items, layout) \in Seq(U)
        /\ Len(Append(items, layout)) = Len(items) + 1
        /\ Append(items, layout)[Len(items) + 1] = layout
        /\ \A i \in 1..Len(items) : Append(items, layout)[i] = items[i]
    OBVIOUS
  <2>2. Append(items, layout) # <<>>
    BY <2>1, EmptySeq
  <2>3. CASE items = <<>>
    <3>1. Append(items, layout)[1] = layout
      BY <2>1, <2>3
    <3> QED BY <2>2, <3>1 DEF HighestPriority, FirstItemIndex
  <2>4. CASE items # <<>>
    <3>1. 1 \in 1..Len(items)
      BY <2>1, <2>4, EmptySeq
    <3>2. Append(items, layout)[1] = items[1]
      BY <2>1, <3>1
    <3> QED BY <1>3, <2>2, <2>4, <3>2 DEF HighestPriority, FirstItemIndex
  <2> QED BY <2>3, <2>4
<1> QED BY <1>2, <1>3

(* What add() does to a queue, by the priority of the layout.              *)
LEMMA AddCases ==
  ASSUME NEW U, Ranked(U), NEW items \in Seq(U),
         NEW layout \in U
  PROVE  \/ /\ layout.priority < HighestPriority(items)
            /\ Add(items, layout) = items
         \/ /\ layout.priority > HighestPriority(items)
            /\ Add(items, layout) = <<layout>>
            /\ HighestPriority(Add(items, layout)) = layout.priority
         \/ /\ layout.priority = HighestPriority(items)
            /\ Add(items, layout) = Append(items, layout)
            /\ HighestPriority(Add(items, layout)) = layout.priority
<1>1. layout.priority \in Int /\ HighestPriority(items) \in Int
  BY HighestType DEF Ranked
<1>2. CASE layout.priority < HighestPriority(items)
  BY <1>1, <1>2 DEF Add
<1>3. CASE layout.priority > HighestPriority(items)
  <2>1. Add(items, layout) = <<layout>>
    BY <1>1, <1>3 DEF Add
  <2> QED BY <1>3, <2>1, HighestOfAdded
<1>4. CASE layout.priority = HighestPriority(items)
  <2>1. Add(items, layout) = Append(items, layout)
    BY <1>1, <1>4 DEF Add
  <2> QED BY <1>4, <2>1, HighestOfAdded
<1> QED BY <1>1, <1>2, <1>3, <1>4

(* A queue outranks, or ranks with, all layouts that were added to it; it  *)
(* is one of them that gives it its rank.                                  *)
Outranks(items, S, layouts, n) ==
  /\ HighestPriority(items) >= DefaultPriority
  /\ \A i \in 1..n : layouts[i] \in S => layouts[i].priority <= HighestPriority(items)
  /\ HighestPriority(items) > DefaultPriority =>
       \E l \in S : l.priority = HighestPriority(items)

(* QueueItems returns what TopPriority says, the layouts of the schedule   *)
(* that are in S and that no layout of S outranks.                         *)
LEMMA QueueItemsTop ==
  ASSUME NEW U, NEW layouts \in Seq(U), Ranked(U),
         NEW S, S \subseteq Elements(layouts)
  PROVE  QueueItems(layouts, S) = TopPriority(layouts, S)
<1> DEFINE N == Len(layouts)
           T == Top(S)
<1>1. /\ N \in Nat
      /\ \A n \in 1..N : layouts[n] \in U
      /\ \A l \in S : l \in U /\ \E n \in 1..N : l = layouts[n]
  BY DEF Elements
<1>2. PICK queue \in [0..N -> Seq(U)] :
        /\ QueueItems(layouts, S) = queue[N]
        /\ queue[0] = <<>>
        /\ \A n \in 1..N :
             queue[n] = IF layouts[n] \in S THEN Add(queue[n - 1], layouts[n])
                        ELSE queue[n - 1]
  <2>1. HasQueueSteps(U, layouts, S)
    BY QueueItemsSteps
  <2> QED BY <2>1 DEF HasQueueSteps, QueueSteps
<1>3. PICK kept \in [0..N -> Seq(U)] :
        /\ Keep(layouts, T) = kept[N]
        /\ kept[0] = <<>>
        /\ \A n \in 1..N :
             kept[n] = IF layouts[n] \in T THEN Append(kept[n - 1], layouts[n])
                       ELSE kept[n - 1]
  BY KeepSteps
<1> DEFINE hp(n) == HighestPriority(queue[n])
<1> HIDE DEF N, T
<1>4. ASSUME NEW n \in 1..N
      PROVE  /\ n \in 0..N /\ n - 1 \in 0..N /\ (n - 1) + 1 = n
             /\ queue[n - 1] \in Seq(U) /\ layouts[n] \in U
             /\ hp(n - 1) \in Int /\ layouts[n].priority \in Int
  <2>1. n \in 0..N /\ n - 1 \in 0..N /\ (n - 1) + 1 = n /\ layouts[n] \in U
    BY <1>1
  <2>2. queue[n - 1] \in Seq(U)
    BY <2>1
  <2>3. layouts[n].priority \in Int
    BY <2>1 DEF Ranked
  <2> QED BY <2>1, <2>2, <2>3, HighestType
<1> DEFINE RankedAt == {n \in 0..N : /\ Outranks(queue[n], S, layouts, n)
                                     /\ n > 0 => hp(n - 1) <= hp(n)}
<1>5. 0 \in RankedAt
  <2>1. hp(0) = 0
    BY <1>2 DEF HighestPriority, DefaultPriority
  <2> QED BY <1>1, <2>1 DEF Outranks, DefaultPriority
<1>6. ASSUME NEW n \in 1..N, n - 1 \in RankedAt PROVE n \in RankedAt
  <2>1. Outranks(queue[n - 1], S, layouts, n - 1)
    BY <1>6, Zenon
  <2> DEFINE q == queue[n - 1]
             l == layouts[n]
             h == HighestPriority(q)
  <2>2. /\ n \in 0..N /\ q \in Seq(U) /\ l \in U /\ h \in Int /\ l.priority \in Int
        /\ n \in Nat
    BY <1>1, <1>4
  <2>3. \A i \in 1..n : i \in 1..(n - 1) \/ i = n
    BY <2>2
  <2>4. /\ h >= 0 /\ (h > 0 => \E k \in S : k.priority = h)
        /\ \A i \in 1..(n - 1) : layouts[i] \in S => layouts[i].priority <= h
    BY <2>1 DEF Outranks, DefaultPriority
  <2>5. \A i \in 1..(n - 1) : layouts[i].priority \in Int
    <3>1. N \in Nat
      BY <1>1
    <3>2. \A i \in 1..(n - 1) : i \in 1..N
      BY <3>1
    <3>3. \A i \in 1..N : layouts[i].priority \in Int
      BY <1>4
    <3> QED BY <3>2, <3>3
  <2>6. CASE l \notin S
    <3>1. queue[n] = q
      BY <1>2, <2>6
    <3> HIDE DEF q, l, h
    <3>2. HighestPriority(queue[n]) = h
      BY <3>1 DEF h
    <3>3. Outranks(queue[n], S, layouts, n)
      BY <2>3, <2>4, <2>6, <3>2 DEF Outranks, DefaultPriority, l
    <3> QED BY <2>2, <3>2, <3>3 DEF h, q
  <2>7. CASE l \in S
    <3>1. queue[n] = Add(q, l)
      BY <1>2, <2>7
    <3> DEFINE g == HighestPriority(queue[n])
    <3>2. g \in Int /\ h <= g /\ l.priority <= g
          /\ (g = h \/ g = l.priority)
      <4> HIDE DEF q, l
      <4>1. \/ l.priority < h /\ Add(q, l) = q
            \/ l.priority > h /\ HighestPriority(Add(q, l)) = l.priority
            \/ l.priority = h /\ HighestPriority(Add(q, l)) = l.priority
        BY <2>2, AddCases
      <4> QED BY <2>2, <3>1, <4>1
    <3> HIDE DEF q, h, g
    <3>3. \A i \in 1..n : layouts[i] \in S => layouts[i].priority <= g
      BY <2>2, <2>3, <2>4, <2>5, <3>2
    <3>4. g > 0 => \E k \in S : k.priority = g
      BY <2>4, <2>7, <3>2
    <3>5. g >= 0
      BY <2>2, <2>4, <3>2
    <3>6. Outranks(queue[n], S, layouts, n)
      BY <3>3, <3>4, <3>5 DEF Outranks, DefaultPriority, g
    <3> QED BY <2>2, <3>2, <3>6 DEF g, h, q
  <2> QED BY <2>6, <2>7
<1>7. \A n \in 0..N : n \in RankedAt
  <2> HIDE DEF RankedAt
  <2> QED BY <1>1, <1>5, <1>6, IntervalInduction
<1> DEFINE top == hp(N)
           Below == {n \in 0..N : hp(N - n) <= top}
<1>8. \A n \in 0..N : hp(n) \in Int
  <2>1. \A n \in 0..N : queue[n] \in Seq(U)
    OBVIOUS
  <2> QED BY <2>1, HighestType
<1>9. \A n \in 0..N : hp(n) <= top
  <2>1. 0 \in Below
    BY <1>1, <1>8
  <2>2. ASSUME NEW n \in 1..N, n - 1 \in Below PROVE n \in Below
    <3>1. N - (n - 1) \in 1..N /\ (N - (n - 1)) - 1 = N - n /\ N - n \in 0..N
          /\ N - (n - 1) \in 0..N
      BY <1>1
    <3>2. hp(N - n) <= hp(N - (n - 1))
      <4> DEFINE k == N - (n - 1)
      <4>1. k \in RankedAt /\ k > 0 /\ k - 1 = N - n
        BY <1>1, <1>7, <3>1
      <4> HIDE DEF k
      <4>2. hp(k - 1) <= hp(k)
        BY <4>1, Zenon
      <4> QED BY <4>1, <4>2 DEF k
    <3>3. hp(N - (n - 1)) <= top
      BY <2>2
    <3>4. hp(N - n) \in Int /\ hp(N - (n - 1)) \in Int /\ top \in Int
      BY <1>1, <1>8, <3>1
    <3> HIDE DEF hp, top
    <3> QED BY <1>1, <3>2, <3>3, <3>4
  <2>3. \A n \in 0..N : n \in Below
    <3> HIDE DEF Below
    <3> QED BY <1>1, <2>1, <2>2, IntervalInduction
  <2>4. ASSUME NEW n \in 0..N PROVE hp(n) <= top
    <3>1. N - n \in 0..N /\ N - (N - n) = n
      BY <1>1
    <3>2. N - n \in Below
      BY <2>3, <3>1
    <3> QED BY <3>1, <3>2
  <2> QED BY <2>4
<1>10. /\ top \in Int /\ top >= 0
       /\ \A l \in S : l.priority <= top
       /\ top > 0 => \E l \in S : l.priority = top
  <2>1. N \in 0..N
    BY <1>1
  <2>2. Outranks(queue[N], S, layouts, N)
    BY <1>7, <2>1, Zenon
  <2> QED BY <1>1, <1>8, <2>1, <2>2 DEF Outranks, DefaultPriority
<1> HIDE DEF top, hp
<1>11. ASSUME NEW l \in S
       PROVE  l \in T <=> l.priority = top
  <2>1. l.priority \in Int /\ \A k \in S : k.priority \in Int
    BY <1>1 DEF Ranked
  <2> QED BY <1>10, <2>1 DEF T, Top, DefaultPriority
<1> DEFINE Same == {n \in 0..N : /\ hp(n) < top => kept[n] = <<>>
                                 /\ hp(n) = top => kept[n] = queue[n]}
<1>12. 0 \in Same
  BY <1>1, <1>2, <1>3
<1>13. ASSUME NEW n \in 1..N, n - 1 \in Same PROVE n \in Same
  <2> DEFINE q == queue[n - 1]
             l == layouts[n]
             h == HighestPriority(q)
             g == HighestPriority(queue[n])
             kp == kept[n - 1]
  <2>1. /\ n \in 0..N /\ q \in Seq(U) /\ l \in U /\ h \in Int /\ l.priority \in Int
        /\ h <= top
    BY <1>4, <1>9 DEF hp
  <2>2. /\ h < top => kp = <<>>
        /\ h = top => kp = q
    BY <1>13 DEF hp
  <2>3. CASE l \notin S
    <3>1. queue[n] = q
      BY <1>2, <2>3
    <3>2. l \notin T
      BY <2>3 DEF T, Top
    <3>3. kept[n] = kp
      BY <1>3, <3>2
    <3> QED BY <2>1, <2>2, <3>1, <3>3 DEF hp
  <2>4. CASE l \in S
    <3>1. queue[n] = Add(q, l)
      BY <1>2, <2>4
    <3>2. l.priority <= top /\ (l \in T <=> l.priority = top)
      BY <1>10, <1>11, <2>4
    <3>3. kept[n] = IF l \in T THEN Append(kp, l) ELSE kp
      BY <1>3
    <3> HIDE DEF q, l, h, kp
    <3>4. \/ /\ l.priority < h /\ Add(q, l) = q
          \/ /\ l.priority > h /\ Add(q, l) = <<l>>
             /\ HighestPriority(Add(q, l)) = l.priority
          \/ /\ l.priority = h /\ Add(q, l) = Append(q, l)
             /\ HighestPriority(Add(q, l)) = l.priority
      BY <2>1, AddCases DEF h
    <3>5. Append(<<>>, l) = <<l>>
      OBVIOUS
    <3>6. /\ hp(n) < top => kept[n] = <<>>
          /\ hp(n) = top => kept[n] = queue[n]
      <4>1. CASE l.priority < h
        <5>1. queue[n] = q /\ hp(n) = h
          BY <2>1, <3>1, <3>4, <4>1 DEF hp, h
        <5>2. l \notin T
          BY <1>10, <2>1, <3>2, <4>1
        <5> QED BY <2>2, <3>3, <5>1, <5>2
      <4>2. CASE l.priority > h
        <5>1. queue[n] = <<l>> /\ hp(n) = l.priority
          BY <2>1, <3>1, <3>4, <4>2 DEF hp
        <5>2. kp = <<>>
          BY <1>10, <2>1, <2>2, <3>2, <4>2
        <5> QED BY <1>10, <2>1, <3>2, <3>3, <3>5, <5>1, <5>2
      <4>3. CASE l.priority = h
        <5>1. queue[n] = Append(q, l) /\ hp(n) = l.priority
          BY <2>1, <3>1, <3>4, <4>3 DEF hp
        <5> QED BY <1>10, <2>1, <2>2, <3>2, <3>3, <4>3, <5>1
      <4> QED BY <2>1, <4>1, <4>2, <4>3
    <3> QED BY <2>1, <3>6
  <2> QED BY <2>3, <2>4
<1>14. \A n \in 0..N : n \in Same
  <2> HIDE DEF Same
  <2> QED BY <1>1, <1>12, <1>13, IntervalInduction
<1>15. kept[N] = queue[N]
  <2>1. N \in Same
    BY <1>1, <1>14
  <2> QED BY <2>1 DEF top
<1> QED BY <1>2, <1>3, <1>15 DEF TopPriority, T

(* The playable layouts of a schedule are layouts of it, in their time.    *)
LEMMA PlayableLayouts ==
  ASSUME NEW layouts, NEW active
  PROVE  /\ Playable(layouts, active) \subseteq Elements(layouts)
         /\ \A l \in Playable(layouts, active) : l.startDT <= now /\ now < l.endDT
BY DEF Playable, LayoutOnSchedule

(* The layouts of a schedule have priorities.                              *)
LEMMA LayoutsRanked == Ranked(Layout)
BY DEF Ranked, Layout

(* What regularQueueFrom and overlayQueueFrom put into the queues.         *)
LEMMA QueuesTakeTop ==
  ASSUME TypeOK, NEW active
  PROVE  /\ RegularQueueFrom(active).items =
              TopPriority(schedule.regular, Playable(schedule.regular, active))
         /\ OverlayQueueFrom(active) =
              TopPriority(schedule.overlay, Playable(schedule.overlay, active))
<1>1. schedule.regular \in Seq(Layout) /\ schedule.overlay \in Seq(Layout)
  BY ScheduleType DEF TypeOK
<1>2. \A s \in Seq(Layout) :
        QueueItems(s, Playable(s, active)) = TopPriority(s, Playable(s, active))
  BY LayoutsRanked, PlayableLayouts, QueueItemsTop
<1>3. RegularQueueFrom(active).items =
        QueueItems(schedule.regular, Playable(schedule.regular, active))
  BY DEF RegularQueueFrom, NewQueue
<1> QED BY <1>1, <1>2, <1>3 DEF OverlayQueueFrom

(* The current layout is put back without a change of the queue's items.   *)
LEMMA UpdateCurrentItems ==
  ASSUME NEW q \in Queue, NEW id
  PROVE  UpdateCurrent(q, id).items = q.items
BY DEF UpdateCurrent, Queue

(* The queues after a reload are those made from the schedule.             *)
LEMMA ReloadedQueues ==
  ASSUME TypeOK, ReloadQueue
  PROVE  /\ regularQueue'.items =
              TopPriority(schedule.regular, Playable(schedule.regular, LiveCriteria))
         /\ overlayQueue' =
              TopPriority(schedule.overlay, Playable(schedule.overlay, LiveCriteria))
<1> DEFINE current == IF layoutOverride.active THEN layoutOverride.id
                      ELSE regularQueue.currentId
           queue == RegularQueueFrom(LiveCriteria)
<1>1. queue \in Queue
  BY QueuesFromSchedule DEF TypeOK
<1>2. /\ regularQueue' = IF InQueue(queue, current)
                         THEN UpdateCurrent(queue, current) ELSE queue
      /\ overlayQueue' = OverlayQueueFrom(LiveCriteria)
  BY DEF ReloadQueue
<1>3. regularQueue'.items = queue.items
  <2> HIDE DEF queue, current
  <2> QED BY <1>1, <1>2, UpdateCurrentItems
<1> QED BY <1>2, <1>3, QueuesTakeTop

(* LayoutQueue::add, called for the playable layouts one after the other:  *)
(* a reload leaves exactly those that none outranks, in the order of the   *)
(* schedule, for schedules of any length and any priorities.               *)
THEOREM ReloadsTakeTopPriority == Spec => ReloadTakesTopPriority
<1> DEFINE Top2 ==
             ReloadQueue =>
               /\ regularQueue'.items =
                    TopPriority(schedule.regular, Playable(schedule.regular, criteria'))
               /\ overlayQueue' =
                    TopPriority(schedule.overlay, Playable(schedule.overlay, criteria'))
<1>1. TypeOK => [Top2]_vars
  <2> SUFFICES ASSUME TypeOK, ReloadQueue PROVE Top2
    OBVIOUS
  <2>1. criteria' = LiveCriteria
    BY DEF ReloadQueue, CleanupExpiredCriteria
  <2> QED BY <2>1, ReloadedQueues
<1>2. []TypeOK => [][Top2]_vars
  <2> HIDE DEF Top2
  <2> QED BY <1>1, PTL
<1> QED BY TypeCorrect, <1>2 DEF ReloadTakesTopPriority

-----------------------------------------------------------------------------
(* The player without overrides.  The queues hold layouts of the schedule; *)
(* until the timer is due all of them are in their time.                   *)

Requested == {"triggerNextLayout", "triggerPreviousLayout", "triggerLayoutById"}

(* The calls made without a request; a fetch fails only where some layout  *)
(* does not load.                                                          *)
RoutineCalls ==
  {c \in Calls : /\ c.op \notin Requested
                 /\ c.op = "mainLayoutFailed" => Loadable # LayoutIds}

RoutineInv ==
  /\ layoutOverride = NoOverride
  /\ overlayOverrides = <<>>
  /\ todo \in Seq(RoutineCalls)

FreshInv ==
  Calling("reloadQueue") \/
    /\ Elements(regularQueue.items) \subseteq Elements(schedule.regular)
    /\ Elements(overlayQueue) \subseteq Elements(schedule.overlay)
    /\ QueueFresh

(* The calls that are pending.                                             *)
LEMMA PendingElements ==
  ASSUME TypeOK, todo # <<>>
  PROVE  /\ Rest \in Seq(Calls) /\ Head(todo) \in Calls
         /\ Elements(todo) = {Head(todo)} \cup Elements(Rest)
<1>1. /\ Rest \in Seq(Calls) /\ Head(todo) \in Calls
      /\ todo = Prefixed(Head(todo), Rest)
  BY HeadBeforeTail DEF TypeOK, Rest
<1> QED BY <1>1, PushedElements

(* The calls of the signals and of the events are made without a request.  *)
LEMMA RoutineCallTypes ==
  /\ \A op \in Operations \ (Requested \cup {"mainLayoutFailed"}), ids \in Seq(AnyId) :
       Call(op, ids) \in RoutineCalls
  /\ LayoutUpdated \in Seq(RoutineCalls)
  /\ OverlaysUpdated \in Seq(RoutineCalls)
  /\ \A c \in RoutineCalls : <<c>> \in Seq(RoutineCalls)
  /\ <<>> \in Seq(RoutineCalls) /\ <<>> \in Seq(AnyId)
<1>1. \A op \in Operations \ (Requested \cup {"mainLayoutFailed"}), ids \in Seq(AnyId) :
        Call(op, ids) \in RoutineCalls
  <2> SUFFICES ASSUME NEW op \in Operations \ (Requested \cup {"mainLayoutFailed"}),
                      NEW ids \in Seq(AnyId)
               PROVE  Call(op, ids) \in RoutineCalls
    OBVIOUS
  <2>1. Call(op, ids) \in Calls /\ Call(op, ids).op = op
    BY CallType DEF Call
  <2> QED BY <2>1 DEF RoutineCalls
<1>2. <<>> \in Seq(AnyId)
  OBVIOUS
<1>3. {"fetchMainLayout", "currentLayoutId", "fetchOverlays"}
        \subseteq Operations \ (Requested \cup {"mainLayoutFailed"})
  BY DEF Operations, Requested
<1>4. /\ Call("fetchMainLayout", <<>>) \in RoutineCalls
      /\ Call("currentLayoutId", <<>>) \in RoutineCalls
      /\ Call("fetchOverlays", <<>>) \in RoutineCalls
  BY <1>1, <1>2, <1>3
<1>5. LayoutUpdated \in Seq(RoutineCalls) /\ OverlaysUpdated \in Seq(RoutineCalls)
  BY <1>4 DEF LayoutUpdated, OverlaysUpdated
<1> QED BY <1>1, <1>2, <1>5

(* A clean-up of no override changes none.                                 *)
LEMMA CleanupOfNone ==
  ASSUME layoutOverride = NoOverride, overlayOverrides = <<>>,
         CleanupExpiredOverrides
  PROVE  layoutOverride' = NoOverride /\ overlayOverrides' = <<>>
<1>1. LiveOverride = NoOverride
  BY DEF LiveOverride, NoOverride
<1>2. LiveOverlayOverrides = <<>>
  <2> DEFINE S == {o \in Elements(<<>>) : o.endDT > now}
  <2>1. <<>> \in Seq({}) /\ LiveOverlayOverrides = Keep(<<>>, S)
    BY DEF LiveOverlayOverrides
  <2>2. Keep(<<>>, S) \in Seq({})
    <3> HIDE DEF S
    <3> QED BY <2>1, KeepType
  <2> HIDE DEF S
  <2>3. \A s \in Seq({}) : s = <<>>
    <3> SUFFICES ASSUME NEW s \in Seq({}), s # <<>> PROVE FALSE
      OBVIOUS
    <3>1. s[1] \in {}
      BY EmptySeq
    <3> QED BY <3>1
  <2> QED BY <2>1, <2>2, <2>3
<1> QED BY <1>1, <1>2 DEF CleanupExpiredOverrides

(* Without a request no override comes to be.                              *)
LEMMA RoutineNext ==
  ASSUME TypeOK, RoutineInv, [PendingCall \/ Routine]_vars
  PROVE  RoutineInv'
<1> DEFINE Keeps == layoutOverride' = NoOverride /\ overlayOverrides' = <<>>
<1>1. Rest \in Seq(RoutineCalls)
  BY HeadTailProperties DEF Rest, RoutineInv
<1>2. todo # <<>> => Head(todo) \in RoutineCalls /\ Head(todo).op \notin Requested
  BY HeadTailProperties DEF RoutineInv, RoutineCalls
<1>3. CleanupExpiredOverrides => Keeps
  BY CleanupOfNone DEF RoutineInv
<1>4. UNCHANGED <<layoutOverride, overlayOverrides>> => Keeps
  BY DEF RoutineInv
<1>5. \A op \in Operations \ (Requested \cup {"mainLayoutFailed"}) :
        /\ <<Call(op, <<>>)>> \in Seq(RoutineCalls)
  BY RoutineCallTypes
<1>6. ASSUME NEW c, CleanupThen(<<c>>) \/ CleanupThen(<<>>),
             <<c>> \in Seq(RoutineCalls)
      PROVE  RoutineInv'
  <2>1. <<Call("reloadQueue", <<>>)>> \in Seq(RoutineCalls)
    BY <1>5 DEF Operations, Requested
  <2>2. todo' \in Seq(RoutineCalls)
    <3> DEFINE o == <<c>>
               k == <<Call("reloadQueue", <<>>)>>
    <3>1. \/ todo' = (<<>> \o o) \o Rest \/ todo' = (k \o o) \o Rest
          \/ todo' = (<<>> \o <<>>) \o Rest \/ todo' = (k \o <<>>) \o Rest
      BY <1>6 DEF CleanupThen
    <3>2. /\ o \in Seq(RoutineCalls) /\ k \in Seq(RoutineCalls)
          /\ <<>> \in Seq(RoutineCalls)
      BY <1>6, <2>1
    <3>3. \A s, t \in Seq(RoutineCalls) : s \o t \in Seq(RoutineCalls)
      OBVIOUS
    <3> HIDE DEF o, k
    <3>4. \A s \in {<<>>, k}, t \in {<<>>, o} : (s \o t) \o Rest \in Seq(RoutineCalls)
      BY <1>1, <3>2, <3>3, Zenon
    <3>5. \E s \in {<<>>, k}, t \in {<<>>, o} : todo' = (s \o t) \o Rest
      BY <3>1
    <3> QED BY <3>4, <3>5
  <2>3. Keeps
    BY <1>3, <1>6 DEF CleanupThen
  <2> QED BY <2>2, <2>3 DEF RoutineInv
<1>7. ASSUME todo' \in Seq(RoutineCalls),
             \/ UNCHANGED <<layoutOverride, overlayOverrides>>
             \/ CleanupExpiredOverrides
      PROVE  RoutineInv'
  BY <1>3, <1>4, <1>7 DEF RoutineInv
<1>8. {"reloadQueue", "fetchMainLayout", "currentLayoutId", "fetchOverlays",
       "createMainLayout", "listOverlays", "updateCurrentOverlays", "createOverlays"}
        \subseteq Operations \ (Requested \cup {"mainLayoutFailed"})
  BY DEF Operations, Requested
<1>9. /\ <<Call("reloadQueue", <<>>)>> \in Seq(RoutineCalls)
      /\ <<Call("fetchMainLayout", <<>>)>> \in Seq(RoutineCalls)
      /\ <<Call("currentLayoutId", <<>>)>> \in Seq(RoutineCalls)
      /\ <<Call("createMainLayout", <<>>)>> \in Seq(RoutineCalls)
      /\ <<Call("listOverlays", <<>>)>> \in Seq(RoutineCalls)
  BY <1>5, <1>8
<1>10. CASE ReloadQueue
  <2>1. Ids(overlayQueue) \in Seq(AnyId) /\ Ids(overlayOverrides) \in Seq(AnyId)
    BY IdsType DEF TypeOK
  <2>2. AddMissing(Ids(overlayQueue), Ids(overlayOverrides)) \in Seq(AnyId)
    BY <2>1, AddMissingType
  <2>3. <<Call("updateCurrentOverlays",
               AddMissing(Ids(overlayQueue), Ids(overlayOverrides)))>>
          \in Seq(RoutineCalls)
    BY <1>8, <2>2, RoutineCallTypes
  <2>4. todo' \in Seq(RoutineCalls)
    BY <1>1, <1>10, <2>3, RoutineCallTypes DEF ReloadQueue
  <2> QED BY <1>7, <1>10, <2>4 DEF ReloadQueue
<1>11. CASE UpdateCurrentOverlays
  <2>1. todo' \in Seq(RoutineCalls)
    BY <1>1, <1>11, RoutineCallTypes DEF UpdateCurrentOverlays
  <2> QED BY <1>7, <1>11, <2>1 DEF UpdateCurrentOverlays, overrideVars
<1>12. CASE CurrentLayoutId
  BY <1>6, <1>9, <1>12 DEF CurrentLayoutId
<1>13. CASE TriggerNextLayout \/ TriggerPreviousLayout \/ TriggerLayoutById
  BY <1>2, <1>13
     DEF TriggerNextLayout, TriggerPreviousLayout, TriggerLayoutById, Calling, Requested
<1>14. CASE FetchMainLayout
  BY <1>6, <1>9, <1>14 DEF FetchMainLayout
<1>15. CASE CreateMainLayout
  <2>1. layoutOverride' = NoOverride /\ overlayOverrides' = <<>>
    BY <1>15 DEF CreateMainLayout, PlaysOverride, RoutineInv, NoOverride
  <2>2. NextId \in LayoutIds \ Loadable =>
          <<Call("reloadQueue", <<>>), Call("mainLayoutFailed", <<>>)>>
            \in Seq(RoutineCalls)
    <3> SUFFICES ASSUME Loadable # LayoutIds
                 PROVE  <<Call("reloadQueue", <<>>), Call("mainLayoutFailed", <<>>)>>
                          \in Seq(RoutineCalls)
      OBVIOUS
    <3>1. Call("mainLayoutFailed", <<>>) \in Calls
          /\ Call("mainLayoutFailed", <<>>).op = "mainLayoutFailed"
      BY PlainCall DEF Operations
    <3>2. Call("mainLayoutFailed", <<>>) \in RoutineCalls
      BY <3>1 DEF RoutineCalls, Requested
    <3>3. Call("reloadQueue", <<>>) \in RoutineCalls
      BY <1>8, RoutineCallTypes
    <3> QED BY <3>2, <3>3
  <2>3. todo' \in Seq(RoutineCalls)
    <3> DEFINE failed == <<Call("reloadQueue", <<>>), Call("mainLayoutFailed", <<>>)>>
    <3>1. \/ todo' = Rest
          \/ NextId \in LayoutIds \ Loadable /\ todo' = failed \o Rest
      BY <1>15 DEF CreateMainLayout
    <3>2. NextId \in LayoutIds \ Loadable => failed \in Seq(RoutineCalls)
      BY <2>2
    <3> HIDE DEF failed
    <3> QED BY <1>1, <3>1, <3>2, ConcatProperties
  <2> QED BY <2>1, <2>3 DEF RoutineInv
<1>16. CASE MainLayoutFailed
  BY <1>1, <1>7, <1>16 DEF MainLayoutFailed, overrideVars
<1>17. CASE MainLayoutExpired
  BY <1>7, <1>9, <1>17 DEF MainLayoutExpired, overrideVars
<1>18. CASE FetchOverlays
  BY <1>6, <1>9, <1>18 DEF FetchOverlays
<1>19. CASE ListOverlays
  <2>1. Ids(overlayQueue) \in Seq(AnyId) /\ Ids(overlayOverrides) \in Seq(AnyId)
    BY IdsType DEF TypeOK
  <2>2. \A S : Keep(Ids(overlayOverrides), S) \in Seq(AnyId)
    BY <2>1, KeepType
  <2>3. \A S : <<Call("createOverlays",
                      AddMissing(Ids(overlayQueue), Keep(Ids(overlayOverrides), S)))>>
                 \in Seq(RoutineCalls)
    BY <1>8, <2>1, <2>2, AddMissingType, RoutineCallTypes
  <2>4. todo' \in Seq(RoutineCalls)
    BY <1>1, <1>19, <2>3 DEF ListOverlays
  <2> QED BY <1>7, <1>19, <2>4 DEF ListOverlays, overrideVars
<1>20. CASE CreateOverlays
  <2> DEFINE call == Head(todo)
             next == [call EXCEPT !.ids = Tail(@)]
             made == [next EXCEPT !.views = @ \cup {Head(call.ids)}]
  <2>1. call \in RoutineCalls /\ call.op = "createOverlays"
    BY <1>2, <1>20 DEF CreateOverlays, Calling
  <2>2. call.ids # <<>> => next \in Calls /\ next.op = call.op
    <3>1. call \in Calls
      BY <2>1 DEF RoutineCalls
    <3> HIDE DEF call
    <3>2. call.ids \in Seq(AnyId) /\ (call.ids # <<>> => Tail(call.ids) \in Seq(AnyId))
      BY <3>1, HeadBeforeTail DEF Calls
    <3> QED BY <3>1, <3>2 DEF Calls
  <2>3. call.ids # <<>> /\ Head(call.ids) \in Loadable =>
          made \in Calls /\ made.op = call.op
    <3>1. Loadable \subseteq LayoutIds
      BY DEF Loadable
    <3> HIDE DEF next, call
    <3> QED BY <2>2, <3>1 DEF Calls
  <2>4. \/ todo' = Rest
        \/ /\ call.ids # <<>> /\ Head(call.ids) \in Loadable
           /\ todo' = <<made>> \o Rest
        \/ call.ids # <<>> /\ todo' = <<Call("reloadQueue", <<>>), next>> \o Rest
    BY <1>20 DEF CreateOverlays
  <2>5. \A c \in Calls : c.op = "createOverlays" => c \in RoutineCalls
    BY DEF RoutineCalls, Requested
  <2>6. Call("reloadQueue", <<>>) \in RoutineCalls
    BY <1>8, RoutineCallTypes
  <2> HIDE DEF call, next, made
  <2>7. todo' \in Seq(RoutineCalls)
    <3>1. CASE todo' = Rest
      BY <1>1, <3>1
    <3>2. CASE /\ call.ids # <<>> /\ Head(call.ids) \in Loadable
               /\ todo' = <<made>> \o Rest
      <4>1. <<made>> \in Seq(RoutineCalls)
        BY <2>1, <2>3, <2>5, <3>2
      <4> QED BY <1>1, <3>2, <4>1
    <3>3. CASE call.ids # <<>> /\ todo' = <<Call("reloadQueue", <<>>), next>> \o Rest
      <4>1. <<Call("reloadQueue", <<>>), next>> \in Seq(RoutineCalls)
        BY <2>1, <2>2, <2>5, <2>6, <3>3
      <4> QED BY <1>1, <3>3, <4>1
    <3> QED BY <2>4, <3>1, <3>2, <3>3
  <2> QED BY <1>7, <1>20, <2>7 DEF CreateOverlays, overrideVars
<1>21. CASE ScheduleEvent
  <2>1. CASE Status
    <3>1. todo' \in Seq(RoutineCalls)
      BY <1>9, <2>1, RoutineCallTypes DEF Status
    <3> QED BY <1>7, <2>1, <3>1 DEF Status
  <2>2. CASE Tick \/ \E file \in Volatile : FileSaved(file)
    BY <2>2 DEF Tick, FileSaved, RoutineInv, overrideVars
  <2>3. ASSUME todo' = <<Call("reloadQueue", <<>>)>>,
               UNCHANGED <<layoutOverride, overlayOverrides>>
        PROVE  RoutineInv'
    BY <1>7, <1>9, <2>3
  <2> QED BY <1>21, <2>1, <2>2, <2>3
          DEF ScheduleEvent, ReloadSchedule, AddOrReplaceCriteria, TimerFires,
              FilesDownloaded, overrideVars
<1>22. CASE UNCHANGED vars
  BY <1>22 DEF vars, schedulerVars, RoutineInv
<1> QED BY <1>10, <1>11, <1>12, <1>13, <1>14, <1>15, <1>16, <1>17, <1>18, <1>19,
           <1>20, <1>21, <1>22
        DEF PendingCall, SchedulerCall, Routine

(* Playable layouts that are not outranked are in their time.              *)
LEMMA TopPriorityFresh ==
  ASSUME NEW layouts \in Seq(Layout), NEW active
  PROVE  LET kept == TopPriority(layouts, Playable(layouts, active))
         IN  \A l \in Elements(kept) :
               l \in Elements(layouts) /\ l.startDT <= now /\ now < l.endDT
<1> DEFINE P == Playable(layouts, active)
           kept == Keep(layouts, Top(P))
<1>1. Elements(kept) \subseteq Elements(layouts) \cap Top(P)
  <2> HIDE DEF P
  <2> QED BY KeepType
<1>2. Top(P) \subseteq P
  BY DEF Top
<1>3. \A l \in P : l.startDT <= now /\ now < l.endDT
  BY PlayableLayouts
<1>4. TopPriority(layouts, P) = kept
  BY DEF TopPriority
<1> HIDE DEF P, kept
<1>5. \A l \in Elements(kept) : l \in Elements(layouts) /\ l.startDT <= now /\ now < l.endDT
  BY <1>1, <1>2, <1>3
<1> QED BY <1>4, <1>5 DEF P

(* A reload leaves no layout outside its time.                             *)
LEMMA ReloadFresh ==
  ASSUME TypeOK, ReloadQueue
  PROVE  FreshInv'
<1>1. schedule.regular \in Seq(Layout) /\ schedule.overlay \in Seq(Layout)
  BY ScheduleType DEF TypeOK
<1>2. \A l \in Elements(regularQueue'.items) :
        l \in Elements(schedule.regular) /\ l.startDT <= now /\ now < l.endDT
  BY <1>1, ReloadedQueues, TopPriorityFresh
<1>3. \A l \in Elements(overlayQueue') :
        l \in Elements(schedule.overlay) /\ l.startDT <= now /\ now < l.endDT
  BY <1>1, ReloadedQueues, TopPriorityFresh
<1>4. now' = now /\ schedule' = schedule
  BY DEF ReloadQueue, envVars
<1> QED BY <1>2, <1>3, <1>4 DEF FreshInv, QueueFresh

(* A step that leaves the time, the timer and the queues alone.            *)
LEMMA StillFresh ==
  ASSUME FreshInv,
         ~Calling("reloadQueue") \/ todo' = todo,
         now' = now, timer' = timer, schedule' = schedule,
         regularQueue'.items = regularQueue.items, overlayQueue' = overlayQueue
  PROVE  FreshInv'
<1>1. CASE Calling("reloadQueue")
  BY <1>1 DEF FreshInv, Calling
<1>2. CASE ~Calling("reloadQueue")
  <2>1. \A l \in Elements(regularQueue.items) \cup Elements(overlayQueue) :
          TimerIsDue \/ (l.startDT <= now /\ now < l.endDT)
    BY <1>2 DEF FreshInv, QueueFresh
  <2>2. TimerIsDue' = TimerIsDue
    BY DEF TimerIsDue
  <2> QED BY <1>2, <2>1, <2>2 DEF FreshInv, QueueFresh
<1> QED BY <1>1, <1>2

(* Time passes: the timer is due when a queued layout ends.                *)
LEMMA TickFresh ==
  ASSUME TypeOK, TimerCoversBoundaries, FreshInv, Tick
  PROVE  FreshInv'
<1> DEFINE Q == Elements(regularQueue.items) \cup Elements(overlayQueue)
           S == Elements(schedule.regular) \cup Elements(schedule.overlay)
<1>1. /\ ~Calling("reloadQueue") /\ now' = now + 1 /\ now \in Nat /\ timer \in Nat
      /\ UNCHANGED <<timer, regularQueue, overlayQueue, schedule>>
  BY DEF Tick, Idle, Calling, TypeOK, queueVars
<1>2. /\ Elements(regularQueue.items) \subseteq Elements(schedule.regular)
      /\ Elements(overlayQueue) \subseteq Elements(schedule.overlay)
      /\ QueueFresh
  BY <1>1 DEF FreshInv
<1>3. \A l \in S : TimerFiresBy(l.endDT) /\ l.startDT \in Nat /\ l.endDT \in Nat
  <2>1. \A l \in S : l \in Layout
    <3>1. schedule.regular \in Seq(Layout) /\ schedule.overlay \in Seq(Layout)
      BY ScheduleType DEF TypeOK
    <3> QED BY <3>1 DEF Elements
  <2>2. \A l \in S : TimerFiresBy(l.endDT)
    BY <1>1 DEF TimerCoversBoundaries, TimerCovers
  <2> QED BY <2>1, <2>2 DEF Layout
<1>4. CASE TimerIsDue
  <2>1. TimerIsDue'
    BY <1>1, <1>4 DEF TimerIsDue, NoTimer
  <2> QED BY <1>1, <1>2, <2>1 DEF FreshInv, QueueFresh
<1>5. CASE ~TimerIsDue
  <2>1. ASSUME NEW l \in Q PROVE l.startDT <= now /\ now < l.endDT
    BY <1>1, <1>2, <1>5 DEF QueueFresh
  <2>2. ASSUME NEW l \in Q PROVE TimerIsDue' \/ (l.startDT <= now' /\ now' < l.endDT)
    <3>1. l \in S
      BY <1>2
    <3>2. l.startDT \in Nat /\ l.endDT \in Nat /\ TimerFiresBy(l.endDT)
      BY <1>3, <3>1
    <3>3. timer # NoTimer /\ timer <= l.endDT
      BY <2>1, <3>2 DEF TimerFiresBy
    <3> QED BY <1>1, <2>1, <3>2, <3>3 DEF TimerIsDue
  <2> QED BY <1>1, <1>2, <2>2 DEF FreshInv, QueueFresh
<1> QED BY <1>4, <1>5

(* No step of a player without requests leaves a layout in the queues      *)
(* after its time.                                                         *)
LEMMA FreshNext ==
  ASSUME TypeOK, TimerCoversBoundaries, RoutineInv, FreshInv,
         [PendingCall \/ Routine]_vars
  PROVE  FreshInv'
<1>1. todo # <<>> => Head(todo).op \notin Requested
  BY HeadTailProperties DEF RoutineInv, RoutineCalls
<1>2. CASE ReloadQueue
  BY <1>2, ReloadFresh
<1>3. CASE TriggerNextLayout \/ TriggerPreviousLayout \/ TriggerLayoutById
  BY <1>1, <1>3
     DEF TriggerNextLayout, TriggerPreviousLayout, TriggerLayoutById, Calling, Requested
<1>4. CASE UpdateCurrentOverlays \/ CurrentLayoutId
  <2>1. ~Calling("reloadQueue") /\ UNCHANGED <<queueVars, timer, now>>
    BY <1>4 DEF UpdateCurrentOverlays, CurrentLayoutId, Calling, envVars
  <2> QED BY <2>1, StillFresh DEF queueVars
<1>5. CASE FetchMainLayout \/ MainLayoutFailed \/ FetchOverlays \/ ListOverlays
  <2>1. ~Calling("reloadQueue") /\ UNCHANGED <<queueVars, timer, now>>
    BY <1>5 DEF FetchMainLayout, MainLayoutFailed, FetchOverlays, ListOverlays,
                Calling, envVars
  <2> QED BY <2>1, StillFresh DEF queueVars
<1>6. CASE CreateMainLayout
  <2>1. /\ ~Calling("reloadQueue")
        /\ UNCHANGED <<schedule, overlayQueue, timer, now>>
        /\ regularQueue' = NextQueue
    BY <1>6 DEF CreateMainLayout, Calling, envVars, FlagUnsafe
  <2>2. NextQueue.items = regularQueue.items
    BY DEF NextQueue, NextLayout, TypeOK, Queue
  <2> QED BY <2>1, <2>2, StillFresh
<1>7. CASE CreateOverlays
  <2>1. ~Calling("reloadQueue") /\ UNCHANGED <<queueVars, timer, now>>
    BY <1>7 DEF CreateOverlays, Calling, envVars, FlagUnsafe
  <2> QED BY <2>1, StillFresh DEF queueVars
<1>8. CASE MainLayoutExpired
  <2>1. ~Calling("reloadQueue") /\ UNCHANGED <<queueVars, timer, now>>
    BY <1>8 DEF MainLayoutExpired, Calling, Idle, envVars
  <2> QED BY <2>1, StillFresh DEF queueVars
<1>9. CASE ScheduleEvent
  <2>1. CASE Tick
    BY <2>1, TickFresh
  <2>2. CASE \E file \in Volatile : FileSaved(file)
    <3>1. todo' = todo /\ UNCHANGED <<queueVars, timer, now>>
      BY <2>2 DEF FileSaved
    <3> QED BY <3>1, StillFresh DEF queueVars
  <2>3. CASE Status
    <3>1. ~Calling("reloadQueue") /\ UNCHANGED <<queueVars, timer, now>>
      BY <2>3 DEF Status, Request, Calling, Idle
    <3> QED BY <3>1, StillFresh DEF queueVars
  <2>4. ASSUME todo' = <<Call("reloadQueue", <<>>)>> PROVE FreshInv'
    BY <2>4 DEF FreshInv, Calling, Call
  <2> QED BY <1>9, <2>1, <2>2, <2>3, <2>4
          DEF ScheduleEvent, ReloadSchedule, AddOrReplaceCriteria, TimerFires,
              FilesDownloaded
<1>10. CASE UNCHANGED vars
  <2>1. todo' = todo /\ UNCHANGED <<queueVars, timer, now>>
    BY <1>10 DEF vars, schedulerVars, queueVars
  <2> QED BY <2>1, StillFresh DEF queueVars
<1> QED BY <1>2, <1>3, <1>4, <1>5, <1>6, <1>7, <1>8, <1>9, <1>10
        DEF PendingCall, SchedulerCall, Routine

(* A player without requests starts without overrides.                     *)
LEMMA RoutineInit == Init => RoutineInv /\ FreshInv /\ TimerCoversBoundaries
<1> SUFFICES ASSUME Init PROVE RoutineInv /\ FreshInv /\ TimerCoversBoundaries
  OBVIOUS
<1>1. Call("reloadQueue", <<>>) \in RoutineCalls
  BY RoutineCallTypes DEF Operations, Requested
<1>2. todo = <<Call("reloadQueue", <<>>)>> /\ RoutineInv
  BY <1>1, RoutineCallTypes DEF Init, SchedulerInit, RoutineInv
<1>3. Calling("reloadQueue")
  BY <1>2 DEF Calling, Call
<1> QED BY <1>2, <1>3 DEF FreshInv, TimerCoversBoundaries

(* A step without a request is a step.                                     *)
LEMMA RoutineIsNext == [PendingCall \/ Routine]_vars => [Next]_vars
BY DEF Next

(* Without a request, what holds of every behaviour holds, and no override *)
(* comes to be.                                                            *)
LEMMA RoutineAlways == RoutineSpec => [](Inv /\ TimerCoversBoundaries /\ RoutineInv)
<1>1. Init => Inv /\ TimerCoversBoundaries /\ RoutineInv
  BY InitInv, RoutineInit
<1>2. /\ Inv /\ TimerCoversBoundaries /\ RoutineInv
      /\ [PendingCall \/ Routine]_vars
      => Inv' /\ TimerCoversBoundaries' /\ RoutineInv'
  BY NextInv, TimerNext, RoutineNext, RoutineIsNext DEF Inv
<1> QED BY <1>1, <1>2, PTL DEF RoutineSpec

(* Scheduler::reloadQueue is called as often as it takes, in a player that *)
(* gets no override: a queued layout is in its time, or the timer that     *)
(* reloads the queues is due.                                              *)
THEOREM QueueStaysFresh == RoutineSpec => []QueueFresh
<1>1. FreshInv => QueueFresh
  BY DEF FreshInv, QueueFresh
<1>2. Inv => TypeOK
  BY DEF Inv
<1>3. /\ Inv /\ TimerCoversBoundaries /\ RoutineInv /\ FreshInv
      /\ [PendingCall \/ Routine]_vars
      => FreshInv'
  BY <1>2, FreshNext
<1>4. Init => FreshInv
  BY RoutineInit
<1> QED BY <1>1, <1>3, <1>4, RoutineAlways, PTL DEF RoutineSpec

-----------------------------------------------------------------------------
(* The player without overrides whose layouts all load.  A fetch that is   *)
(* pending ends with what the queues hold then; a reload that changes them *)
(* makes one pending.                                                      *)

PendingIn(s, ops) == \E c \in Elements(s) : c.op \in ops

Lists   == {"fetchOverlays", "listOverlays"}
Creates == {"createOverlays"}

OverlayIds == Elements(Ids(overlayQueue))

SplashInv ==
  \/ PendingIn(todo, Choices)
  \/ /\ shown = regularQueue.currentId
     /\ shown = EmptyLayoutId =>
          regularQueue.items = <<>> /\ regularQueue.defaultId = EmptyLayoutId

Compares(c) == c.op = "updateCurrentOverlays" /\ Elements(c.ids) = shownOverlays

OverlaysInv ==
  /\ ~PendingIn(Rest, Creates)
  /\ Calling("createOverlays") =>
       Head(todo).views \cup Elements(Head(todo).ids) = OverlayIds
  /\ \/ PendingIn(todo, Lists)
     \/ Calling("createOverlays")
     \/ shownOverlays = OverlayIds
     \/ \E c \in Elements(todo) : Compares(c)

(* What a clean-up adds to the calls that are pending.                     *)
LEMMA CleanupElements ==
  ASSUME TypeOK, NEW calls \in Seq(Calls), CleanupThen(calls)
  PROVE  /\ Elements(calls) \cup Elements(Rest) \subseteq Elements(todo')
         /\ Elements(todo') \subseteq {Call("reloadQueue", <<>>)}
                                      \cup Elements(calls) \cup Elements(Rest)
<1> DEFINE k == <<Call("reloadQueue", <<>>)>>
<1>1. k \in Seq(Calls) /\ Elements(k) = {Call("reloadQueue", <<>>)}
  BY PlainCall, ShortElements DEF Operations
<1>2. \E s \in {<<>>, k} : todo' = (s \o calls) \o Rest
  BY DEF CleanupThen
<1>3. Rest \in Seq(Calls) /\ <<>> \in Seq(Calls)
  BY RestType DEF TypeOK
<1>4. PICK s \in {<<>>, k} : todo' = (s \o calls) \o Rest
  BY <1>2
<1>5. s \in Seq(Calls) /\ Elements(s) \subseteq {Call("reloadQueue", <<>>)}
  BY <1>1, <1>3, ShortElements
<1> HIDE DEF k
<1>6. s \o calls \in Seq(Calls) /\ Elements(s \o calls) = Elements(s) \cup Elements(calls)
  BY <1>5, ConcatElements
<1> DEFINE u == s \o calls
           r == Rest
<1>7. u \in Seq(Calls) /\ r \in Seq(Calls) /\ todo' = u \o r
  BY <1>3, <1>4, <1>6
<1>8. Elements(u) = Elements(s) \cup Elements(calls)
  BY <1>6
<1>9. Elements(todo') = Elements(u) \cup Elements(r)
  <2> HIDE DEF u, r
  <2> QED BY <1>7, ConcatElements
<1> QED BY <1>5, <1>8, <1>9

(* The calls of a step: those of S and the ones that were pending behind   *)
(* the head are pending after it, and besides them those of T at most.     *)
Grows(S, T) ==
  /\ S \cup Elements(Rest) \subseteq Elements(todo')
  /\ Elements(todo') \subseteq T \cup Elements(Rest)

(* A step that puts calls before those that are pending.                   *)
LEMMA PutGrows ==
  ASSUME TypeOK, NEW calls \in Seq(Calls), todo' = calls \o Rest
  PROVE  Grows(Elements(calls), Elements(calls))
<1> DEFINE r == Rest
<1>1. r \in Seq(Calls) /\ todo' = calls \o r
  BY RestType DEF TypeOK
<1>2. Elements(todo') = Elements(calls) \cup Elements(r)
  <2> HIDE DEF r
  <2> QED BY <1>1, ConcatElements
<1> QED BY <1>2 DEF Grows

(* What is not pending after a step because it ends with its call.         *)
LEMMA PopGrows ==
  ASSUME TypeOK, todo' = Rest
  PROVE  Grows({}, {})
BY DEF Grows

(* A clean-up adds its calls, and a reload at most.                        *)
LEMMA CleanupGrows ==
  ASSUME TypeOK, NEW calls \in Seq(Calls), CleanupThen(calls)
  PROVE  Grows(Elements(calls), Elements(calls) \cup {Call("reloadQueue", <<>>)})
BY CleanupElements, Zenon DEF Grows

(* The slots and the pending parts of handlers, as sequences of calls.     *)
LEMMA PlainCalls ==
  /\ \A op \in Operations : <<Call(op, <<>>)>> \in Seq(Calls)
  /\ \A op : Elements(<<Call(op, <<>>)>>) = {Call(op, <<>>)} /\ Call(op, <<>>).op = op
  /\ <<>> \in Seq(Calls)
  /\ LayoutUpdated \in Seq(Calls) /\ OverlaysUpdated \in Seq(Calls)
  /\ Elements(LayoutUpdated) =
       {Call("fetchMainLayout", <<>>), Call("currentLayoutId", <<>>)}
  /\ Elements(OverlaysUpdated) = {Call("fetchOverlays", <<>>)}
  /\ {"fetchMainLayout", "createMainLayout", "fetchOverlays", "listOverlays",
      "currentLayoutId", "reloadQueue", "createOverlays", "updateCurrentOverlays"}
        \subseteq Operations
<1>1. \A op : Call(op, <<>>).op = op
  BY DEF Call
<1> QED BY <1>1, PlainCall, ShortElements, SignalTypes
        DEF LayoutUpdated, OverlaysUpdated, Operations

(* The calls of each step of a player without overrides.                   *)
LEMMA RoutineGrows ==
  ASSUME TypeOK, RoutineInv, Loadable = LayoutIds
  PROVE  /\ UpdateCurrentOverlays =>
              \/ Ids(overlayQueue) = Head(todo).ids /\ Grows({}, {})
              \/ Grows({Call("fetchOverlays", <<>>)}, {Call("fetchOverlays", <<>>)})
         /\ CurrentLayoutId => Grows({}, {Call("reloadQueue", <<>>)})
         /\ FetchMainLayout =>
              Grows({Call("createMainLayout", <<>>)},
                    {Call("createMainLayout", <<>>), Call("reloadQueue", <<>>)})
         /\ CreateMainLayout => Grows({}, {})
         /\ FetchOverlays =>
              Grows({Call("listOverlays", <<>>)},
                    {Call("listOverlays", <<>>), Call("reloadQueue", <<>>)})
<1>1. ASSUME UpdateCurrentOverlays
      PROVE  \/ Ids(overlayQueue) = Head(todo).ids /\ Grows({}, {})
             \/ Grows({Call("fetchOverlays", <<>>)}, {Call("fetchOverlays", <<>>)})
  <2>1. CASE Ids(overlayQueue) = Head(todo).ids
    <3>1. todo' = <<>> \o Rest
      BY <1>1, <2>1 DEF UpdateCurrentOverlays
    <3>2. Grows(Elements(<<>>), Elements(<<>>))
      BY <3>1, PutGrows, PlainCalls
    <3> QED BY <2>1, <3>2, ShortElements
  <2>2. CASE Ids(overlayQueue) # Head(todo).ids
    <3>1. todo' = OverlaysUpdated \o Rest
      BY <1>1, <2>2 DEF UpdateCurrentOverlays
    <3>2. Grows(Elements(OverlaysUpdated), Elements(OverlaysUpdated))
      BY <3>1, PutGrows, PlainCalls
    <3> QED BY <3>2, PlainCalls
  <2> QED BY <2>1, <2>2
<1>2. CurrentLayoutId => Grows({}, {Call("reloadQueue", <<>>)})
  <2> SUFFICES ASSUME CurrentLayoutId PROVE Grows({}, {Call("reloadQueue", <<>>)})
    OBVIOUS
  <2>1. CleanupThen(<<>>)
    BY DEF CurrentLayoutId
  <2>2. Grows(Elements(<<>>), Elements(<<>>) \cup {Call("reloadQueue", <<>>)})
    BY <2>1, CleanupGrows, PlainCalls
  <2>3. {} \cup {Call("reloadQueue", <<>>)} = {Call("reloadQueue", <<>>)}
    OBVIOUS
  <2> QED BY <2>2, <2>3, ShortElements
<1>3. ASSUME NEW op \in Operations, CleanupThen(<<Call(op, <<>>)>>)
      PROVE  Grows({Call(op, <<>>)}, {Call(op, <<>>), Call("reloadQueue", <<>>)})
  <2> DEFINE calls == <<Call(op, <<>>)>>
  <2>1. calls \in Seq(Calls) /\ Elements(calls) = {Call(op, <<>>)}
    BY PlainCalls
  <2>2. CleanupThen(calls)
    BY <1>3
  <2>3. Grows(Elements(calls), Elements(calls) \cup {Call("reloadQueue", <<>>)})
    <3> HIDE DEF calls
    <3> QED BY <2>1, <2>2, CleanupGrows
  <2>4. Elements(calls) \cup {Call("reloadQueue", <<>>)}
          = {Call(op, <<>>), Call("reloadQueue", <<>>)}
    BY <2>1
  <2> QED BY <2>1, <2>3, <2>4
<1>4. CreateMainLayout => Grows({}, {})
  <2>1. CreateMainLayout => todo' = Rest
    BY DEF CreateMainLayout
  <2> QED BY <2>1, PopGrows
<1>5. UpdateCurrentOverlays =>
        \/ Ids(overlayQueue) = Head(todo).ids /\ Grows({}, {})
        \/ Grows({Call("fetchOverlays", <<>>)}, {Call("fetchOverlays", <<>>)})
  BY <1>1
<1>6. FetchMainLayout =>
        Grows({Call("createMainLayout", <<>>)},
              {Call("createMainLayout", <<>>), Call("reloadQueue", <<>>)})
  BY <1>3, PlainCalls DEF FetchMainLayout
<1>7. FetchOverlays =>
        Grows({Call("listOverlays", <<>>)},
              {Call("listOverlays", <<>>), Call("reloadQueue", <<>>)})
  BY <1>3, PlainCalls DEF FetchOverlays
<1> QED BY <1>2, <1>4, <1>5, <1>6, <1>7

(* Overrides that are not there add nothing to a list of overlays.         *)
LEMMA AddNone ==
  ASSUME NEW ids \in Seq(AnyId), NEW more \in Seq(AnyId), Elements(more) = {}
  PROVE  Elements(AddMissing(ids, more)) = Elements(ids)
<1> DEFINE kept == Keep(more, Elements(more) \ Elements(ids))
<1>1. kept \in Seq(AnyId) /\ Elements(kept) \subseteq Elements(more)
  BY KeepType
<1>2. AddMissing(ids, more) = ids \o kept
  BY DEF AddMissing
<1> HIDE DEF kept
<1>3. Elements(ids \o kept) = Elements(ids) \cup Elements(kept)
  BY <1>1, ConcatElements
<1> QED BY <1>1, <1>2, <1>3

(* What a reload pushes.                                                   *)
LEMMA ReloadGrows ==
  ASSUME TypeOK, RoutineInv, ReloadQueue
  PROVE  LET queue == RegularQueueFrom(LiveCriteria)
         IN  \E c \in Calls :
               /\ c.op = "updateCurrentOverlays" /\ Elements(c.ids) = OverlayIds
               /\ IF InQueue(queue, regularQueue.currentId)
                  THEN /\ Grows({c}, {c})
                       /\ regularQueue' = UpdateCurrent(queue, regularQueue.currentId)
                  ELSE /\ Grows({c} \cup Elements(LayoutUpdated),
                                {c} \cup Elements(LayoutUpdated))
                       /\ regularQueue' = queue
<1> DEFINE ids == AddMissing(Ids(overlayQueue), Ids(overlayOverrides))
           c == Call("updateCurrentOverlays", ids)
           queue == RegularQueueFrom(LiveCriteria)
           found == InQueue(queue, regularQueue.currentId)
           first == IF found THEN <<>> ELSE LayoutUpdated
           calls == first \o <<c>>
<1>1. ids \in Seq(AnyId) /\ Elements(ids) = OverlayIds
  <2>1. Ids(overlayQueue) \in Seq(AnyId) /\ Ids(overlayOverrides) \in Seq(AnyId)
    BY IdsType DEF TypeOK
  <2>2. Elements(Ids(overlayOverrides)) = {}
    BY DEF Ids, Elements, RoutineInv
  <2> QED BY <2>1, <2>2, AddMissingType, AddNone DEF OverlayIds
<1> HIDE DEF ids
<1>2. c \in Calls /\ c.op = "updateCurrentOverlays" /\ c.ids = ids
  BY <1>1, CallType, PlainCalls DEF Call
<1>3. /\ regularQueue' = IF found THEN UpdateCurrent(queue, regularQueue.currentId)
                         ELSE queue
      /\ todo' = calls \o Rest
  BY DEF ReloadQueue, RoutineInv, NoOverride, ids
<1> HIDE DEF c, found, queue
<1>4. /\ first \in Seq(Calls) /\ <<c>> \in Seq(Calls) /\ Elements(<<c>>) = {c}
      /\ Elements(first) = IF found THEN {} ELSE Elements(LayoutUpdated)
  <2>1. <<c>> \in Seq(Calls)
    BY <1>2
  <2>2. Elements(<<c>>) = {c}
    BY ShortElements
  <2>3. CASE found
    BY <2>1, <2>2, <2>3, PlainCalls, ShortElements
  <2>4. CASE ~found
    BY <2>1, <2>2, <2>4, PlainCalls
  <2> QED BY <2>3, <2>4
<1>5. calls \in Seq(Calls) /\ Elements(calls) = Elements(first) \cup {c}
  <2> DEFINE last == <<c>>
  <2>1. last \in Seq(Calls) /\ Elements(last) = {c} /\ calls = first \o last
    BY <1>4
  <2> HIDE DEF last, first
  <2> QED BY <1>4, <2>1, ConcatElements
<1>6. Grows(Elements(calls), Elements(calls))
  <2> HIDE DEF calls
  <2> QED BY <1>3, <1>5, PutGrows
<1>7. IF found THEN Elements(calls) = {c}
      ELSE Elements(calls) = {c} \cup Elements(LayoutUpdated)
  BY <1>4, <1>5
<1> QED BY <1>1, <1>2, <1>3, <1>6, <1>7 DEF found, queue

(* The list of overlays to be made is that of the queue.                   *)
LEMMA ListGrows ==
  ASSUME TypeOK, RoutineInv, ListOverlays
  PROVE  \E c \in Calls :
           /\ c.op = "createOverlays" /\ c.views \cup Elements(c.ids) = OverlayIds
           /\ todo' = <<c>> \o Rest
           /\ Grows({c}, {c})
<1> DEFINE valid == {id \in LayoutIds : LayoutValid(id, {})}
           more == Keep(Ids(overlayOverrides), valid)
           ids == AddMissing(Ids(overlayQueue), more)
           c == Call("createOverlays", ids)
<1>1. Ids(overlayQueue) \in Seq(AnyId) /\ Ids(overlayOverrides) \in Seq(AnyId)
  BY IdsType DEF TypeOK
<1>2. Elements(Ids(overlayOverrides)) = {}
  BY DEF Ids, Elements, RoutineInv
<1>3. more \in Seq(AnyId) /\ Elements(more) = {}
  <2>1. more \in Seq(AnyId) /\ Elements(more) \subseteq Elements(Ids(overlayOverrides))
    <3> HIDE DEF valid
    <3> QED BY <1>1, KeepType
  <2> QED BY <1>2, <2>1
<1>4. todo' = <<c>> \o Rest
  BY DEF ListOverlays
<1> HIDE DEF more
<1>5. ids \in Seq(AnyId) /\ Elements(ids) = OverlayIds
  BY <1>1, <1>3, AddMissingType, AddNone DEF OverlayIds
<1> HIDE DEF ids
<1>6. c \in Calls /\ c.op = "createOverlays" /\ c.ids = ids /\ c.views = {}
  BY <1>5, CallType, PlainCalls DEF Call
<1> HIDE DEF c
<1>7. Grows({c}, {c})
  <2> DEFINE calls == <<c>>
  <2>1. calls \in Seq(Calls) /\ Elements(calls) = {c} /\ todo' = calls \o Rest
    BY <1>4, <1>6, ShortElements
  <2>2. Grows(Elements(calls), Elements(calls))
    <3> HIDE DEF calls
    <3> QED BY <2>1, PutGrows
  <2> QED BY <2>1, <2>2
<1> QED BY <1>4, <1>5, <1>6, <1>7

(* A turn of the loop takes a layout from the list to the views, and the   *)
(* end of the loop shows them.                                             *)
LEMMA CreateGrows ==
  ASSUME TypeOK, RoutineInv, Loadable = LayoutIds, CreateOverlays
  PROVE  \/ /\ todo' = Rest /\ Grows({}, {})
            /\ Head(todo).ids = <<>> /\ shownOverlays' = Head(todo).views
         \/ /\ shownOverlays' = shownOverlays
            /\ \E c \in Calls :
                 /\ c.op = "createOverlays"
                 /\ c.views \cup Elements(c.ids)
                      = Head(todo).views \cup Elements(Head(todo).ids)
                 /\ todo' = <<c>> \o Rest
                 /\ Grows({c}, {c})
<1> DEFINE call == Head(todo)
           next == [call EXCEPT !.ids = Tail(call.ids)]
           c == [next EXCEPT !.views = call.views \cup {Head(call.ids)}]
<1>1. todo # <<>> /\ call \in Calls /\ call.op = "createOverlays"
  BY RestType DEF CreateOverlays, Calling, TypeOK
<1>2. CASE call.ids = <<>>
  <2>1. todo' = Rest /\ shownOverlays' = call.views
    BY <1>2 DEF CreateOverlays
  <2> QED BY <1>2, <2>1, PopGrows
<1>3. CASE call.ids # <<>>
  <2>1. call.ids \in Seq(AnyId)
    BY <1>1 DEF Calls
  <2>2. /\ Head(call.ids) \in Loadable /\ todo' = <<c>> \o Rest
        /\ shownOverlays' = shownOverlays
    BY <1>3 DEF CreateOverlays, Calls
  <2>3. Tail(call.ids) \in Seq(AnyId)
        /\ Elements(call.ids) = {Head(call.ids)} \cup Elements(Tail(call.ids))
    <3> DEFINE ids == call.ids
    <3>1. ids \in Seq(AnyId) /\ ids # <<>>
      BY <1>3, <2>1
    <3> HIDE DEF ids
    <3>2. Tail(ids) \in Seq(AnyId) /\ Elements(ids) = {Head(ids)} \cup Elements(Tail(ids))
      BY <3>1, HeadBeforeTail, TailElements
    <3> QED BY <3>2 DEF ids
  <2>4. /\ c \in Calls /\ c.op = "createOverlays"
        /\ c.views \cup Elements(c.ids) = call.views \cup Elements(call.ids)
    <3> HIDE DEF call
    <3>1. call.views \cup {Head(call.ids)} \subseteq LayoutIds
      BY <1>1, <2>2 DEF Calls
    <3>2. /\ c \in Calls /\ c.op = call.op /\ c.ids = Tail(call.ids)
          /\ c.views = call.views \cup {Head(call.ids)}
      BY <1>1, <2>3, <3>1 DEF Calls
    <3> QED BY <1>1, <2>3, <3>2
  <2> HIDE DEF c
  <2>5. Grows({c}, {c})
    <3> DEFINE calls == <<c>>
    <3>1. calls \in Seq(Calls) /\ Elements(calls) = {c} /\ todo' = calls \o Rest
      BY <2>2, <2>4, ShortElements
    <3>2. Grows(Elements(calls), Elements(calls))
      <4> HIDE DEF calls
      <4> QED BY <3>1, PutGrows
    <3> QED BY <3>1, <3>2
  <2> QED BY <2>2, <2>4, <2>5
<1> QED BY <1>2, <1>3

(* The calls behind the head stay pending; those of a set that the head is *)
(* not one of stay.                                                        *)
LEMMA StillPending ==
  ASSUME TypeOK, NEW ops, NEW S, NEW T, Grows(S, T), todo # <<>>
  PROVE  /\ PendingIn(todo, ops) /\ Head(todo).op \notin ops => PendingIn(todo', ops)
         /\ \A c \in S : c.op \in ops => PendingIn(todo', ops)
         /\ \A c \in Elements(todo) : c = Head(todo) \/ c \in Elements(todo')
<1>1. Elements(todo) = {Head(todo)} \cup Elements(Rest)
  BY PendingElements
<1> QED BY <1>1 DEF PendingIn, Grows

(* A reload that finds the layout that is shown keeps it current.          *)
LEMMA ReloadFinds ==
  ASSUME TypeOK, InQueue(RegularQueueFrom(LiveCriteria), regularQueue.currentId),
         regularQueue' = UpdateCurrent(RegularQueueFrom(LiveCriteria),
                                       regularQueue.currentId)
  PROVE  /\ regularQueue'.currentId = regularQueue.currentId
         /\ regularQueue.currentId # EmptyLayoutId
<1> DEFINE q == RegularQueueFrom(LiveCriteria)
           id == regularQueue.currentId
<1>1. q \in Queue /\ InQueue(q, id) /\ regularQueue' = UpdateCurrent(q, id)
  BY QueuesFromSchedule DEF TypeOK
<1> HIDE DEF q
<1>2. CASE q.items # <<>>
  <2>1. Indices(q, id) # {}
    BY <1>1, <1>2 DEF InQueue
  <2>2. UpdateCurrent(q, id).currentId = id
    BY <1>1, <2>1 DEF UpdateCurrent, Queue
  <2>3. PICK i \in 1..Len(q.items) : q.items[i].id = id
    BY <2>1 DEF Indices
  <2>4. q.items[i] \in Layout
    BY <1>1 DEF Queue
  <2>5. id \in LayoutIds
    BY <2>3, <2>4 DEF Layout
  <2>6. id # EmptyLayoutId
    BY <2>5, SchedulerAssumption
  <2> QED BY <1>1, <2>2, <2>6
<1>3. CASE q.items = <<>>
  <2>1. id # EmptyLayoutId /\ q.defaultId = id
    BY <1>1, <1>3 DEF InQueue
  <2>2. Indices(q, id) = {}
    BY <1>3 DEF Indices
  <2>3. UpdateCurrent(q, id).currentId = id
    BY <1>1, <2>1, <2>2 DEF UpdateCurrent, Queue
  <2> QED BY <1>1, <2>1, <2>3
<1> QED BY <1>2, <1>3

(* What createMainLayout shows, and why it shows nothing.                  *)
LEMMA NextIsShown ==
  ASSUME Inv, RoutineInv, Loadable = LayoutIds, CreateMainLayout
  PROVE  /\ shown' = regularQueue'.currentId
         /\ shown' = EmptyLayoutId =>
              regularQueue'.items = <<>> /\ regularQueue'.defaultId = EmptyLayoutId
<1> DEFINE q == regularQueue
           n == NextLayout(q)
<1>1. q \in Queue /\ CursorInside(q)
  BY DEF Inv, TypeOK, CursorInQueue
<1>2. regularQueue' = n /\ NextId = n.currentId
  BY DEF CreateMainLayout, NextQueue, NextId, PlaysOverride, RoutineInv, NoOverride
<1>3. shown' = NextId
  BY DEF CreateMainLayout
<1> HIDE DEF q
<1>4. CASE q.items = <<>>
  BY <1>1, <1>2, <1>3, <1>4 DEF NextLayout, Queue
<1>5. CASE q.items # <<>>
  <2>1. q.nextIndex \in 1..Len(q.items)
    BY <1>1, <1>5 DEF CursorInside
  <2>2. n.currentId = q.items[q.nextIndex].id
    BY <1>1, <1>5 DEF NextLayout, Queue
  <2>3. q.items[q.nextIndex] \in Layout
    BY <1>1, <2>1 DEF Queue
  <2>4. n.currentId \in LayoutIds
    BY <2>2, <2>3 DEF Layout
  <2>5. n.currentId # EmptyLayoutId
    BY <2>4, SchedulerAssumption
  <2> QED BY <1>2, <1>3, <2>5
<1> QED BY <1>4, <1>5

(* A step that leaves the queue, what is shown and the calls alone.        *)
LEMMA StillShown ==
  ASSUME SplashInv, PendingIn(todo, Choices) => PendingIn(todo', Choices),
         UNCHANGED <<shown, regularQueue>>
  PROVE  SplashInv'
BY DEF SplashInv

(* No step leaves the window without the layout that the queue chose,      *)
(* unless a fetch is pending.                                              *)
LEMMA SplashNext ==
  ASSUME Inv, RoutineInv, Loadable = LayoutIds, SplashInv,
         [PendingCall \/ Routine]_vars
  PROVE  SplashInv'
<1>1. TypeOK
  BY DEF Inv
<1>2. todo # <<>> => Head(todo).op \notin Requested \cup {"mainLayoutFailed"}
  BY HeadTailProperties DEF RoutineInv, RoutineCalls
<1>3. CASE ReloadQueue /\ UNCHANGED managerVars
  <2>1. todo # <<>> /\ Head(todo).op \notin Choices /\ shown' = shown
    BY <1>3 DEF ReloadQueue, Calling, Choices, managerVars
  <2> DEFINE queue == RegularQueueFrom(LiveCriteria)
             found == InQueue(queue, regularQueue.currentId)
  <2>2. PICK c \in Calls :
          IF found
          THEN /\ Grows({c}, {c})
               /\ regularQueue' = UpdateCurrent(queue, regularQueue.currentId)
          ELSE /\ Grows({c} \cup Elements(LayoutUpdated),
                        {c} \cup Elements(LayoutUpdated))
               /\ regularQueue' = queue
    BY <1>1, <1>3, ReloadGrows
  <2>3. CASE found
    <3>1. PendingIn(todo, Choices) => PendingIn(todo', Choices)
      <4> HIDE DEF found, queue
      <4> QED BY <1>1, <2>1, <2>2, <2>3, StillPending
    <3>2. /\ regularQueue'.currentId = regularQueue.currentId
          /\ regularQueue.currentId # EmptyLayoutId
      BY <1>1, <2>2, <2>3, ReloadFinds
    <3> QED BY <2>1, <3>1, <3>2 DEF SplashInv
  <2>4. CASE ~found
    <3> DEFINE call == Call("fetchMainLayout", <<>>)
    <3>1. call \in Elements(LayoutUpdated) /\ call.op \in Choices
      BY PlainCalls DEF Choices
    <3>2. call \in Elements(todo')
      BY <2>2, <2>4, <3>1 DEF Grows
    <3> QED BY <3>1, <3>2 DEF SplashInv, PendingIn
  <2> QED BY <2>3, <2>4
<1>4. CASE (UpdateCurrentOverlays \/ CurrentLayoutId) /\ UNCHANGED managerVars
  <2>1. /\ todo # <<>> /\ Head(todo).op \notin Choices
        /\ UNCHANGED <<shown, regularQueue>>
    BY <1>4 DEF UpdateCurrentOverlays, CurrentLayoutId, Calling, Choices, managerVars,
                queueVars
  <2>2. \E S, T : Grows(S, T)
    BY <1>1, <1>4, RoutineGrows
  <2> QED BY <1>1, <2>1, <2>2, StillPending, StillShown
<1>5. CASE TriggerNextLayout \/ TriggerPreviousLayout \/ TriggerLayoutById
  BY <1>2, <1>5
     DEF TriggerNextLayout, TriggerPreviousLayout, TriggerLayoutById, Calling, Requested
<1>6. CASE FetchMainLayout
  <2> DEFINE call == Call("createMainLayout", <<>>)
  <2>1. call \in Elements(todo')
    BY <1>1, <1>6, RoutineGrows DEF Grows
  <2>2. call.op \in Choices
    BY PlainCalls DEF Choices
  <2> QED BY <2>1, <2>2 DEF SplashInv, PendingIn
<1>7. CASE CreateMainLayout
  BY <1>7, NextIsShown DEF SplashInv
<1>8. CASE MainLayoutFailed
  BY <1>2, <1>8 DEF MainLayoutFailed, Calling
<1>9. CASE FetchOverlays
  <2>1. /\ todo # <<>> /\ Head(todo).op \notin Choices
        /\ UNCHANGED <<shown, regularQueue>>
    BY <1>9 DEF FetchOverlays, Calling, Choices, queueVars
  <2>2. \E S, T : Grows(S, T)
    BY <1>1, <1>9, RoutineGrows
  <2> QED BY <1>1, <2>1, <2>2, StillPending, StillShown
<1>10. CASE ListOverlays
  <2>1. /\ todo # <<>> /\ Head(todo).op \notin Choices
        /\ UNCHANGED <<shown, regularQueue>>
    BY <1>10 DEF ListOverlays, Calling, Choices, queueVars, managerVars
  <2>2. \E S, T : Grows(S, T)
    BY <1>1, <1>10, ListGrows
  <2> QED BY <1>1, <2>1, <2>2, StillPending, StillShown
<1>11. CASE CreateOverlays
  <2>1. /\ todo # <<>> /\ Head(todo).op \notin Choices
        /\ UNCHANGED <<shown, regularQueue>>
    BY <1>11 DEF CreateOverlays, Calling, Choices, queueVars
  <2>2. \E S, T : Grows(S, T)
    BY <1>1, <1>11, CreateGrows
  <2> QED BY <1>1, <2>1, <2>2, StillPending, StillShown
<1>12. CASE ScheduleEvent /\ UNCHANGED managerVars
  <2>1. UNCHANGED <<shown, regularQueue>>
    BY <1>12 DEF ScheduleEvent, ReloadSchedule, AddOrReplaceCriteria, Status, TimerFires,
                 Tick, FilesDownloaded, FileSaved, queueVars, managerVars
  <2>2. Idle \/ todo' = todo
    BY <1>12 DEF ScheduleEvent, ReloadSchedule, AddOrReplaceCriteria, Status, TimerFires,
                 Tick, FilesDownloaded, FileSaved, Request
  <2>3. Idle => ~PendingIn(todo, Choices)
    BY ShortElements DEF Idle, PendingIn
  <2> QED BY <2>1, <2>2, <2>3, StillShown
<1>13. CASE MainLayoutExpired
  <2>1. /\ UNCHANGED <<shown, regularQueue>> /\ ~PendingIn(todo, Choices)
    BY <1>13, ShortElements
       DEF MainLayoutExpired, queueVars, managerVars, Idle, PendingIn
  <2> QED BY <2>1, StillShown
<1>14. CASE UNCHANGED vars
  BY <1>14, StillShown DEF vars, schedulerVars, managerVars
<1> QED BY <1>3, <1>4, <1>5, <1>6, <1>7, <1>8, <1>9, <1>10, <1>11, <1>12, <1>13, <1>14
        DEF PendingCall, SchedulerCall, Routine

(* LayoutsManager.cpp:56 and XiboApp.cpp:580: where every layout loads,    *)
(* and without overrides, the player rests on the splash screen only when  *)
(* its queue is empty and there is no default layout.                      *)
THEOREM SplashIsLastResort ==
  ASSUME Loadable = LayoutIds
  PROVE  RoutineSpec => []SplashOnlyWithoutLayout
<1>1. SplashInv => SplashOnlyWithoutLayout
  BY ShortElements DEF SplashInv, SplashOnlyWithoutLayout, PendingIn, Idle
<1>2. Init => SplashInv
  BY DEF Init, SchedulerInit, SplashInv, NewQueue
<1>3. /\ Inv /\ RoutineInv /\ SplashInv /\ [PendingCall \/ Routine]_vars
      => SplashInv'
  BY SplashNext
<1> QED BY <1>1, <1>2, <1>3, RoutineAlways, PTL DEF RoutineSpec

(* A step after which no loop over overlays is pending.                    *)
LEMMA NoLoop ==
  ASSUME TypeOK', ~PendingIn(todo', Creates)
  PROVE  ~PendingIn(Rest, Creates)' /\ ~Calling("createOverlays")'
<1>1. CASE todo' = <<>>
  BY <1>1, ShortElements DEF Rest, Calling, PendingIn
<1>2. CASE todo' # <<>>
  <2> DEFINE s == todo'
  <2>1. s \in Seq(Calls) /\ s # <<>> /\ Rest' = Tail(s)
    BY <1>2 DEF TypeOK, Rest
  <2> HIDE DEF s
  <2>2. Head(s) \in Elements(s) /\ Elements(s) = {Head(s)} \cup Elements(Tail(s))
    BY <2>1, TailElements
  <2>3. Elements(Rest') \subseteq Elements(todo') /\ Head(todo') \in Elements(todo')
    BY <2>1, <2>2 DEF s
  <2> QED BY <2>3 DEF Calling, PendingIn, Creates
<1> QED BY <1>1, <1>2

(* A step that leaves the overlays alone and makes none.                   *)
LEMMA StillQueued ==
  ASSUME TypeOK, TypeOK', OverlaysInv, NEW S, NEW T, Grows(S, T), todo # <<>>,
         \A c \in T : c.op \notin Creates,
         Head(todo).op \notin Creates,
         UNCHANGED <<shownOverlays, overlayQueue>>,
         \/ Head(todo).op \notin Lists /\ ~Compares(Head(todo))
         \/ \E c \in S : c.op \in Lists
         \/ shownOverlays = OverlayIds
  PROVE  OverlaysInv'
<1>1. Elements(todo) = {Head(todo)} \cup Elements(Rest)
  BY PendingElements
<1>2. ~PendingIn(todo', Creates)
  BY DEF Grows, OverlaysInv, PendingIn
<1>3. ~PendingIn(Rest, Creates)' /\ ~Calling("createOverlays")'
  BY <1>2, NoLoop
<1>4. OverlayIds' = OverlayIds
  BY DEF OverlayIds
<1>5. ~Calling("createOverlays")
  BY DEF Calling, Creates
<1>6. /\ Elements(Rest) \subseteq Elements(todo')
      /\ S \subseteq Elements(todo')
  BY DEF Grows
<1>7. ASSUME NEW c \in Elements(todo) \cup S, c.op \in Lists,
             c # Head(todo) \/ c \in S
      PROVE  PendingIn(todo', Lists)
  BY <1>1, <1>6, <1>7 DEF PendingIn
<1>8. \A c : Compares(c)' <=> Compares(c)
  BY DEF Compares
<1>9. \/ PendingIn(todo', Lists) \/ shownOverlays' = OverlayIds'
      \/ \E c \in Elements(todo') : Compares(c)'
  <2>1. CASE \E c \in S : c.op \in Lists
    BY <1>7, <2>1
  <2>2. CASE shownOverlays = OverlayIds
    BY <1>4, <2>2
  <2>3. CASE Head(todo).op \notin Lists /\ ~Compares(Head(todo))
    <3>1. CASE PendingIn(todo, Lists)
      BY <1>7, <2>3, <3>1 DEF PendingIn
    <3>2. CASE \E c \in Elements(todo) : Compares(c)
      BY <1>1, <1>6, <1>8, <2>3, <3>2
    <3> QED BY <1>5, <2>2, <3>1, <3>2 DEF OverlaysInv
  <2> QED BY <2>1, <2>2, <2>3
<1> QED BY <1>3, <1>9 DEF OverlaysInv

(* A step that leaves the overlays and the pending calls alone, or comes   *)
(* when there are none.                                                    *)
LEMMA EventQueued ==
  ASSUME TypeOK, TypeOK', OverlaysInv, UNCHANGED <<shownOverlays, overlayQueue>>,
         \/ todo' = todo
         \/ /\ Idle
            /\ \A c \in Elements(todo') : c.op \notin Creates
  PROVE  OverlaysInv'
<1>1. OverlayIds' = OverlayIds
  BY DEF OverlayIds
<1>2. \A c : Compares(c)' <=> Compares(c)
  BY DEF Compares
<1>3. CASE todo' = todo
  BY <1>1, <1>2, <1>3 DEF OverlaysInv, Calling, Rest
<1>4. CASE Idle /\ \A c \in Elements(todo') : c.op \notin Creates
  <2>1. shownOverlays = OverlayIds
    BY <1>4, ShortElements DEF OverlaysInv, Idle, Calling, PendingIn
  <2>2. ~PendingIn(Rest, Creates)' /\ ~Calling("createOverlays")'
    <3>1. ~PendingIn(todo', Creates)
      BY <1>4 DEF PendingIn
    <3> QED BY <3>1, NoLoop
  <2> QED BY <1>1, <2>1, <2>2 DEF OverlaysInv
<1> QED BY <1>3, <1>4

(* A call of the loop over the overlays that is next.                      *)
LEMMA CreatesNext ==
  ASSUME TypeOK, NEW c \in Calls, c.op = "createOverlays", todo' = <<c>> \o Rest,
         c.views \cup Elements(c.ids) = OverlayIds, overlayQueue' = overlayQueue,
         ~PendingIn(Rest, Creates)
  PROVE  OverlaysInv'
<1> DEFINE r == Rest
           s == Prefixed(c, r)
<1>1. r \in Seq(Calls) /\ todo' = s
  BY RestType DEF TypeOK, Prefixed
<1>2. s # <<>> /\ Head(s) = c /\ Tail(s) = r
  <2> HIDE DEF r
  <2> QED BY <1>1, PushedElements
<1> HIDE DEF s
<1>3. Calling("createOverlays")'
  BY <1>1, <1>2 DEF Calling
<1>4. Rest' = r
  BY <1>1, <1>2 DEF Rest
<1>5. OverlayIds' = OverlayIds
  BY DEF OverlayIds
<1>6. ~PendingIn(Rest, Creates)'
  BY <1>4
<1>7. Head(todo)' = c
  BY <1>1, <1>2
<1> QED BY <1>3, <1>5, <1>6, <1>7 DEF OverlaysInv

(* The overlays on the screen are those of the queue, or the calls that    *)
(* make it so are pending.                                                 *)
LEMMA OverlaysNext ==
  ASSUME TypeOK, TypeOK', RoutineInv, Loadable = LayoutIds, OverlaysInv,
         [PendingCall \/ Routine]_vars
  PROVE  OverlaysInv'
<1>1. todo # <<>> => Head(todo).op \notin Requested \cup {"mainLayoutFailed"}
  BY HeadTailProperties DEF RoutineInv, RoutineCalls
<1>2. ~PendingIn(Rest, Creates)
  BY DEF OverlaysInv
<1>3. CASE ReloadQueue /\ UNCHANGED managerVars
  <2>1. todo # <<>> /\ Head(todo).op = "reloadQueue" /\ shownOverlays' = shownOverlays
    BY <1>3 DEF ReloadQueue, Calling, managerVars
  <2>2. PICK c \in Calls, S \in {{}, Elements(LayoutUpdated)} :
          /\ c.op = "updateCurrentOverlays" /\ Elements(c.ids) = OverlayIds
          /\ Grows({c} \cup S, {c} \cup S)
    <3>1. \A T : T = {} \cup T
      OBVIOUS
    <3> QED BY <1>3, <3>1, ReloadGrows
  <2>3. \A d \in {c} \cup S : d.op \notin Creates
    BY <2>2, PlainCalls DEF Creates
  <2>4. Elements(todo) = {Head(todo)} \cup Elements(Rest)
    BY <2>1, PendingElements
  <2>5. ~PendingIn(todo', Creates)
    BY <1>2, <2>2, <2>3 DEF Grows, PendingIn
  <2>6. ~PendingIn(Rest, Creates)' /\ ~Calling("createOverlays")'
    BY <2>5, NoLoop
  <2>7. \A d : Compares(d)' <=> Compares(d)
    BY <2>1 DEF Compares
  <2>8. /\ c \in Elements(todo') /\ Elements(Rest) \subseteq Elements(todo')
    BY <2>2 DEF Grows
  <2>9. \/ PendingIn(todo', Lists)
        \/ \E d \in Elements(todo') : Compares(d)'
    <3>1. CASE PendingIn(todo, Lists)
      BY <2>1, <2>4, <2>8, <3>1 DEF PendingIn, Lists
    <3>2. CASE shownOverlays = OverlayIds
      BY <2>2, <2>7, <2>8, <3>2 DEF Compares
    <3>3. CASE \E d \in Elements(todo) : Compares(d)
      BY <2>1, <2>4, <2>7, <2>8, <3>3 DEF Compares
    <3> QED BY <2>1, <3>1, <3>2, <3>3 DEF OverlaysInv, Calling
  <2> QED BY <2>6, <2>9 DEF OverlaysInv
<1>4. CASE UpdateCurrentOverlays /\ UNCHANGED managerVars
  <2>1. /\ todo # <<>> /\ Head(todo).op = "updateCurrentOverlays"
        /\ UNCHANGED <<shownOverlays, overlayQueue>>
    BY <1>4 DEF UpdateCurrentOverlays, Calling, managerVars, queueVars
  <2>2. CASE Ids(overlayQueue) = Head(todo).ids /\ Grows({}, {})
    <3>1. Compares(Head(todo)) => shownOverlays = OverlayIds
      BY <2>2 DEF Compares, OverlayIds
    <3> QED BY <2>1, <2>2, <3>1, StillQueued DEF Creates, Lists
  <2>3. CASE Grows({Call("fetchOverlays", <<>>)}, {Call("fetchOverlays", <<>>)})
    <3>1. Call("fetchOverlays", <<>>).op \in Lists \ Creates
      BY PlainCalls DEF Lists, Creates
    <3> QED BY <2>1, <2>3, <3>1, StillQueued DEF Creates
  <2> QED BY <1>4, <2>2, <2>3, RoutineGrows
<1>5. CASE CurrentLayoutId /\ UNCHANGED managerVars
  <2>1. /\ todo # <<>> /\ Head(todo).op = "currentLayoutId"
        /\ UNCHANGED <<shownOverlays, overlayQueue>>
    BY <1>5 DEF CurrentLayoutId, Calling, managerVars, queueVars
  <2>2. Grows({}, {Call("reloadQueue", <<>>)})
    BY <1>5, RoutineGrows
  <2>3. Call("reloadQueue", <<>>).op \notin Creates
    BY PlainCalls DEF Creates
  <2> QED BY <2>1, <2>2, <2>3, StillQueued DEF Creates, Lists, Compares
<1>6. CASE TriggerNextLayout \/ TriggerPreviousLayout \/ TriggerLayoutById
  BY <1>1, <1>6
     DEF TriggerNextLayout, TriggerPreviousLayout, TriggerLayoutById, Calling, Requested
<1>7. CASE FetchMainLayout
  <2>1. /\ todo # <<>> /\ Head(todo).op = "fetchMainLayout"
        /\ UNCHANGED <<shownOverlays, overlayQueue>>
    BY <1>7 DEF FetchMainLayout, Calling, managerVars, queueVars
  <2> DEFINE c == Call("createMainLayout", <<>>)
             d == Call("reloadQueue", <<>>)
  <2>2. Grows({c}, {c, d})
    BY <1>7, RoutineGrows
  <2>3. c.op \notin Creates /\ d.op \notin Creates
    BY PlainCalls DEF Creates
  <2> HIDE DEF c, d
  <2>4. \A e \in {c, d} : e.op \notin Creates
    BY <2>3
  <2> QED BY <2>1, <2>2, <2>4, StillQueued DEF Creates, Lists, Compares
<1>8. CASE CreateMainLayout
  <2>1. /\ todo # <<>> /\ Head(todo).op = "createMainLayout"
        /\ UNCHANGED <<shownOverlays, overlayQueue>>
    BY <1>8 DEF CreateMainLayout, Calling
  <2>2. Grows({}, {})
    BY <1>8, RoutineGrows
  <2> QED BY <2>1, <2>2, StillQueued DEF Creates, Lists, Compares
<1>9. CASE MainLayoutFailed
  BY <1>1, <1>9 DEF MainLayoutFailed, Calling
<1>10. CASE FetchOverlays
  <2>1. /\ todo # <<>> /\ Head(todo).op = "fetchOverlays"
        /\ UNCHANGED <<shownOverlays, overlayQueue>>
    BY <1>10 DEF FetchOverlays, Calling, queueVars
  <2> DEFINE c == Call("listOverlays", <<>>)
             d == Call("reloadQueue", <<>>)
  <2>2. Grows({c}, {c, d})
    BY <1>10, RoutineGrows
  <2>3. c.op \in Lists /\ c.op \notin Creates /\ d.op \notin Creates
    BY PlainCalls DEF Creates, Lists
  <2> HIDE DEF c, d
  <2>4. \A e \in {c, d} : e.op \notin Creates
    BY <2>3
  <2> QED BY <2>1, <2>2, <2>3, <2>4, StillQueued DEF Creates
<1>11. CASE ListOverlays
  <2>1. overlayQueue' = overlayQueue
    BY <1>11 DEF ListOverlays, queueVars
  <2>2. PICK c \in Calls :
           /\ c.op = "createOverlays" /\ c.views \cup Elements(c.ids) = OverlayIds
           /\ todo' = <<c>> \o Rest
    BY <1>11, ListGrows
  <2> QED BY <1>2, <2>1, <2>2, CreatesNext
<1>12. CASE CreateOverlays
  <2>1. /\ overlayQueue' = overlayQueue
        /\ Head(todo).views \cup Elements(Head(todo).ids) = OverlayIds
    BY <1>12 DEF CreateOverlays, queueVars, OverlaysInv
  <2>2. CASE /\ todo' = Rest /\ Grows({}, {})
             /\ Head(todo).ids = <<>> /\ shownOverlays' = Head(todo).views
    <3>1. shownOverlays' = OverlayIds'
      BY <2>1, <2>2, ShortElements DEF OverlayIds
    <3>2. ~PendingIn(todo', Creates)
      BY <1>2, <2>2
    <3>3. ~PendingIn(Rest, Creates)' /\ ~Calling("createOverlays")'
      BY <3>2, NoLoop
    <3> QED BY <3>1, <3>3 DEF OverlaysInv
  <2>3. CASE \E c \in Calls :
                 /\ c.op = "createOverlays"
                 /\ c.views \cup Elements(c.ids)
                      = Head(todo).views \cup Elements(Head(todo).ids)
                 /\ todo' = <<c>> \o Rest
    <3>1. PICK c \in Calls :
             /\ c.op = "createOverlays"
             /\ c.views \cup Elements(c.ids) = OverlayIds
             /\ todo' = <<c>> \o Rest
      BY <2>1, <2>3
    <3> QED BY <1>2, <2>1, <3>1, CreatesNext
  <2> QED BY <1>12, <2>2, <2>3, CreateGrows
<1>13. CASE ScheduleEvent /\ UNCHANGED managerVars
  <2>1. UNCHANGED <<shownOverlays, overlayQueue>>
    BY <1>13 DEF ScheduleEvent, ReloadSchedule, AddOrReplaceCriteria, Status, TimerFires,
                 Tick, FilesDownloaded, FileSaved, queueVars, managerVars
  <2>2. \A op \in {"reloadQueue", "currentLayoutId"} :
          \A c \in Elements(<<Call(op, <<>>)>>) : c.op \notin Creates
    BY PlainCalls DEF Creates
  <2>3. CASE Status
    <3>1. /\ Idle
          /\ \/ todo' = <<>> \o <<Call("currentLayoutId", <<>>)>>
             \/ todo' = <<Call("reloadQueue", <<>>)>> \o <<Call("currentLayoutId", <<>>)>>
      BY <2>3 DEF Status, Request
    <3> DEFINE k == <<Call("reloadQueue", <<>>)>>
               o == <<Call("currentLayoutId", <<>>)>>
    <3>2. /\ k \in Seq(Calls) /\ o \in Seq(Calls) /\ <<>> \in Seq(Calls)
          /\ \A c \in Elements(k) \cup Elements(o) : c.op \notin Creates
      BY <2>2, PlainCalls
    <3>3. todo' = <<>> \o o \/ todo' = k \o o
      BY <3>1
    <3> HIDE DEF k, o
    <3>4. \A c \in Elements(todo') : c.op \notin Creates
      <4>1. /\ Elements(<<>> \o o) = Elements(<<>>) \cup Elements(o)
            /\ Elements(k \o o) = Elements(k) \cup Elements(o)
        BY <3>2, ConcatElements
      <4> QED BY <3>2, <3>3, <4>1, ShortElements
    <3> QED BY <2>1, <3>1, <3>4, EventQueued
  <2>4. CASE todo' = todo
    BY <2>1, <2>4, EventQueued
  <2>5. CASE Idle /\ todo' = <<Call("reloadQueue", <<>>)>>
    BY <2>1, <2>2, <2>5, EventQueued
  <2> QED BY <1>13, <2>3, <2>4, <2>5
          DEF ScheduleEvent, ReloadSchedule, AddOrReplaceCriteria, TimerFires,
              Tick, FilesDownloaded, FileSaved, Request
<1>14. CASE MainLayoutExpired
  <2>1. UNCHANGED <<shownOverlays, overlayQueue>> /\ Idle
    BY <1>14 DEF MainLayoutExpired, queueVars, managerVars
  <2>2. \A c \in Elements(todo') : c.op \notin Creates
    BY <1>14, PlainCalls DEF MainLayoutExpired, Creates
  <2> QED BY <2>1, <2>2, EventQueued
<1>15. CASE UNCHANGED vars
  BY <1>15, EventQueued DEF vars, schedulerVars, managerVars
<1> QED BY <1>3, <1>4, <1>5, <1>6, <1>7, <1>8, <1>9, <1>10, <1>11, <1>12, <1>13,
           <1>14, <1>15
        DEF PendingCall, SchedulerCall, Routine

(* Scheduler::updateCurrentOverlays and LayoutsManager::fetchOverlays:     *)
(* where every layout loads, and without overrides, the overlays on the    *)
(* screen are those of the queue when the player is at rest.               *)
THEOREM OverlaysFollowTheQueue ==
  ASSUME Loadable = LayoutIds
  PROVE  RoutineSpec => []OverlaysShownAreQueued
<1>1. OverlaysInv => OverlaysShownAreQueued
  BY ShortElements
     DEF OverlaysInv, OverlaysShownAreQueued, PendingIn, Idle, Calling, OverlayIds
<1>2. Init => OverlaysInv
  <2> SUFFICES ASSUME Init PROVE OverlaysInv
    OBVIOUS
  <2> DEFINE c == Call("reloadQueue", <<>>)
  <2>1. todo = <<c>> /\ c.op = "reloadQueue" /\ shownOverlays = {} /\ overlayQueue = <<>>
    BY PlainCalls DEF Init, SchedulerInit
  <2> HIDE DEF c
  <2>2. Rest = <<>> /\ ~Calling("createOverlays")
    BY <2>1 DEF Rest, Calling
  <2>3. OverlayIds = {}
    BY <2>1 DEF OverlayIds, Ids, Elements
  <2> QED BY <2>1, <2>2, <2>3, ShortElements DEF OverlaysInv, PendingIn
<1>3. Inv => TypeOK
  BY DEF Inv
<1>4. /\ Inv /\ Inv' /\ RoutineInv /\ OverlaysInv /\ [PendingCall \/ Routine]_vars
      => OverlaysInv'
  BY <1>3, OverlaysNext DEF Inv
<1> QED BY <1>1, <1>2, <1>4, RoutineAlways, PTL DEF RoutineSpec

-----------------------------------------------------------------------------
(* An override on the screen.  What cannot be played stays so, if no       *)
(* download touches the layouts and what each of them needs, no unsafe     *)
(* layout is given up within the time, and a layout that does not load is  *)
(* flagged unsafe.                                                         *)
GlobalFiles == UNION {s.globalDependants : s \in Schedules}

LayoutsStayUnplayable ==
  /\ Volatile \cap (LayoutIds \cup GlobalFiles) = {}
  /\ UnsafeTtl > MaxTime
  /\ \A id \in LayoutIds : Outcome[id] # "broken"

StayInv ==
  /\ now <= MaxTime
  /\ \A id \in LayoutIds : unsafeUntil[id] = 0 \/ unsafeUntil[id] > MaxTime
  /\ LayoutIds \cap fileCache = {} \/ LayoutIds \cup GlobalFiles \subseteq fileCache

Showable(id) == id \in LayoutIds /\ unsafeUntil[id] = 0 /\ LayoutIds \cap fileCache # {}

(* An override with a duration that lasts, and can be played.              *)
Lasting ==
  /\ layoutOverride.active
  /\ ~layoutOverride.oneShot
  /\ now < layoutOverride.endDT
  /\ Showable(layoutOverride.id)

(* While it lasts, either it is shown or a fetch is pending, and no fetch  *)
(* has failed.                                                             *)
LastingInv ==
  Lasting =>
    /\ ~PendingIn(todo, {"mainLayoutFailed"})
    /\ shown = layoutOverride.id \/ PendingIn(todo, Choices)

(* Which layouts can be played does not depend on the time.                *)
LEMMA ShowableIsValid ==
  ASSUME TypeOK, StayInv
  PROVE  \A id : LayoutValid(id, {}) <=> Showable(id)
<1>1. now \in Nat /\ MaxTime \in Nat /\ unsafeUntil \in [LayoutIds -> Nat]
      /\ schedule.globalDependants \subseteq GlobalFiles
  BY SchedulerAssumption DEF TypeOK, GlobalFiles
<1> TAKE id
<1>2. CASE id \in LayoutIds
  <2>1. unsafeUntil[id] <= now <=> unsafeUntil[id] = 0
    BY <1>1, <1>2 DEF StayInv
  <2>2. (({id} \cup {}) \cup schedule.globalDependants) \subseteq fileCache
          <=> LayoutIds \cap fileCache # {}
    BY <1>1, <1>2 DEF StayInv
  <2> QED BY <1>2, <2>1, <2>2 DEF LayoutValid, Showable
<1> QED BY <1>2 DEF LayoutValid, Showable

(* What a handler may do to the layouts that can be played.                *)
LEMMA FlaggedStay ==
  ASSUME TypeOK, StayInv, LayoutsStayUnplayable, NEW id \in LayoutIds, FlagUnsafe(id)
  PROVE  /\ StayInv'
         /\ \A k : Showable(k)' => Showable(k)
         /\ id \notin Loadable => ~Showable(id)'
<1>1. unsafeUntil \in [LayoutIds -> Nat] /\ now \in Nat /\ MaxTime \in Nat /\ UnsafeTtl \in Nat
      /\ now' = now /\ fileCache' = fileCache
  BY SchedulerAssumption, LayoutsManagerAssumption DEF TypeOK, FlagUnsafe
<1>2. now + UnsafeTtl > MaxTime /\ now + UnsafeTtl # 0
  BY <1>1 DEF LayoutsStayUnplayable
<1>3. \A k \in LayoutIds :
        \/ unsafeUntil'[k] = unsafeUntil[k]
        \/ unsafeUntil'[k] = now + UnsafeTtl
  BY <1>1 DEF FlagUnsafe
<1>4. StayInv'
  BY <1>1, <1>2, <1>3 DEF StayInv
<1>5. \A k : Showable(k)' => Showable(k)
  BY <1>1, <1>2, <1>3 DEF Showable
<1>6. ASSUME id \notin Loadable PROVE ~Showable(id)'
  <2>1. id \in Flagged
    BY <1>6, LayoutsManagerAssumption
       DEF Loadable, Flagged, LayoutsStayUnplayable, Outcomes
  <2>2. unsafeUntil'[id] = now + UnsafeTtl
    BY <1>1, <2>1 DEF FlagUnsafe
  <2> QED BY <1>2, <2>2 DEF Showable
<1> QED BY <1>4, <1>5, <1>6

(* The steps that leave the time, the files and the unsafe items alone.    *)
LEMMA SameEnvironment ==
  ASSUME StayInv, UNCHANGED <<now, fileCache, unsafeUntil>>
  PROVE  StayInv' /\ \A k : Showable(k)' <=> Showable(k)
BY DEF StayInv, Showable

(* No step makes a layout playable again.                                  *)
LEMMA StayNext ==
  ASSUME TypeOK, StayInv, LayoutsStayUnplayable, [Next]_vars
  PROVE  StayInv' /\ \A k : Showable(k)' => Showable(k)
<1>1. CASE UNCHANGED <<now, fileCache, unsafeUntil>>
  BY <1>1, SameEnvironment
<1>2. CASE Tick
  <2>1. now \in Nat /\ now < MaxTime /\ now' = now + 1 /\ fileCache' = fileCache
        /\ unsafeUntil' = unsafeUntil /\ MaxTime \in Nat
    BY <1>2, SchedulerAssumption DEF Tick, TypeOK
  <2> QED BY <2>1 DEF StayInv, Showable
<1>3. ASSUME NEW file \in Volatile, FileSaved(file)
      PROVE  StayInv' /\ \A k : Showable(k)' => Showable(k)
  <2>1. file \notin LayoutIds \cup GlobalFiles
    BY <1>3 DEF LayoutsStayUnplayable
  <2>2. /\ now' = now /\ unsafeUntil' = unsafeUntil
        /\ \A f \in LayoutIds \cup GlobalFiles : f \in fileCache' <=> f \in fileCache
    BY <1>3, <2>1 DEF FileSaved
  <2> QED BY <2>2 DEF StayInv, Showable
<1>4. CASE PurgeAll
  BY <1>4 DEF PurgeAll, StayInv, Showable
<1>5. ASSUME NEW id \in LayoutIds, FlagUnsafe(id)
      PROVE  StayInv' /\ \A k : Showable(k)' => Showable(k)
  BY <1>5, FlaggedStay
<1>6. CASE CreateMainLayout
  <2>1. Loadable \subseteq LayoutIds
    BY DEF Loadable
  <2> QED BY <1>1, <1>5, <1>6, <2>1 DEF CreateMainLayout, envVars
<1>7. CASE CreateOverlays
  <2>1. Loadable \subseteq LayoutIds
    BY DEF Loadable
  <2> QED BY <1>1, <1>5, <1>7, <2>1 DEF CreateOverlays, envVars
<1>8. ASSUME SchedulerCall \/ FetchMainLayout \/ MainLayoutFailed \/ FetchOverlays
             \/ ListOverlays \/ MainLayoutExpired
      PROVE  UNCHANGED <<now, fileCache, unsafeUntil>>
  BY <1>8 DEF SchedulerCall, ReloadQueue, UpdateCurrentOverlays, CurrentLayoutId,
              TriggerNextLayout, TriggerPreviousLayout, TriggerLayoutById, TriggerTo,
              FetchMainLayout, MainLayoutFailed, FetchOverlays, ListOverlays,
              MainLayoutExpired, envVars
<1>9. CASE ScheduleEvent
  BY <1>1, <1>2, <1>3, <1>9
     DEF ScheduleEvent, ReloadSchedule, AddOrReplaceCriteria, Status, Request, TimerFires,
         FilesDownloaded, envVars
<1>10. CASE OverrideRequest
  BY <1>1, <1>4, <1>10
     DEF OverrideRequest, ChangeLayout, AddOverlayOverride, ClearOverrides, Trigger, Request
<1>11. CASE UNCHANGED vars
  BY <1>1, <1>11 DEF vars, schedulerVars
<1> QED BY <1>1, <1>6, <1>7, <1>8, <1>9, <1>10, <1>11 DEF Next, PendingCall, Routine

(* A message puts an override in place; every other step leaves it, ends   *)
(* it, or puts one in its place that plays once.                           *)
Replaced ==
  \E id \in OverrideIds, delay \in Delays, duration \in Durations :
    ChangeLayout(id, delay, duration)

SameOverride ==
  /\ layoutOverride'.id = layoutOverride.id
  /\ layoutOverride'.endDT = layoutOverride.endDT
  /\ layoutOverride'.active = layoutOverride.active
  /\ layoutOverride'.oneShot = layoutOverride.oneShot

(* What a step makes of the override.                                      *)
LEMMA OverrideStays ==
  ASSUME TypeOK, [Next]_vars, ~Replaced
  PROVE  SameOverride \/ ~layoutOverride'.active \/ layoutOverride'.oneShot
<1> DEFINE Stays == SameOverride \/ ~layoutOverride'.active \/ layoutOverride'.oneShot
<1>1. ASSUME layoutOverride' \in {layoutOverride, LiveOverride, NoOverride} PROVE Stays
  BY <1>1 DEF LiveOverride, NoOverride, SameOverride
<1>2. ASSUME NEW id, NEW createdDt, ApplyLayoutOverride(id, createdDt, 0) PROVE Stays
  BY <1>2 DEF ApplyLayoutOverride
<1>3. CASE CreateMainLayout
  <2>1. layoutOverride' = [layoutOverride EXCEPT !.played = @ \/ PlaysOverride]
        /\ layoutOverride \in Override
    BY <1>3 DEF CreateMainLayout, TypeOK
  <2> QED BY <2>1 DEF SameOverride, Override
<1>4. CASE SchedulerCall
  BY <1>1, <1>2, <1>4
     DEF SchedulerCall, ReloadQueue, UpdateCurrentOverlays, CurrentLayoutId,
         TriggerNextLayout, TriggerPreviousLayout, TriggerLayoutById, TriggerTo,
         CleanupThen, CleanupExpiredOverrides, overrideVars
<1>5. CASE FetchMainLayout \/ MainLayoutFailed \/ FetchOverlays \/ ListOverlays
           \/ CreateOverlays \/ MainLayoutExpired
  BY <1>1, <1>5
     DEF FetchMainLayout, MainLayoutFailed, FetchOverlays, ListOverlays, CreateOverlays,
         MainLayoutExpired, CleanupThen, CleanupExpiredOverrides, overrideVars
<1>6. CASE ScheduleEvent
  BY <1>1, <1>6
     DEF ScheduleEvent, ReloadSchedule, AddOrReplaceCriteria, Status, TimerFires, Tick,
         FilesDownloaded, FileSaved, overrideVars
<1>7. CASE OverrideRequest
  BY <1>1, <1>7
     DEF OverrideRequest, Replaced, AddOverlayOverride, ClearOverrides, Trigger, PurgeAll,
         CleanupThen, CleanupExpiredOverrides, overrideVars
<1>8. CASE UNCHANGED vars
  BY <1>1, <1>8 DEF vars, schedulerVars
<1> QED BY <1>3, <1>4, <1>5, <1>6, <1>7, <1>8 DEF Next, PendingCall, Routine

(* The calls behind the head stay pending, and none is added that is made  *)
(* after a fetch that failed.                                              *)
Goes ==
  /\ todo # <<>> /\ Elements(Rest) \subseteq Elements(todo')
  /\ \A c \in Elements(todo') : c \in Elements(Rest) \/ c.op # "mainLayoutFailed"

(* A call that pushes others.                                              *)
LEMMA PutGoes ==
  ASSUME TypeOK, todo # <<>>, NEW calls \in Seq(Calls), todo' = calls \o Rest,
         \A c \in Elements(calls) : c.op # "mainLayoutFailed"
  PROVE  Goes
BY PutGrows, Zenon DEF Goes, Grows

(* A call of its own, and a reload before it.                              *)
LEMMA OneGoes ==
  ASSUME TypeOK, todo # <<>>, NEW c \in Calls, c.op # "mainLayoutFailed"
  PROVE  /\ todo' = <<c>> \o Rest => Goes
         /\ todo' = <<Call("reloadQueue", <<>>), c>> \o Rest => Goes
<1> DEFINE k == Call("reloadQueue", <<>>)
           one == <<c>>
           two == <<k, c>>
<1>1. k \in Calls /\ k.op = "reloadQueue"
  BY PlainCall DEF Operations
<1> HIDE DEF k
<1>2. one \in Seq(Calls) /\ Elements(one) = {c} /\ two \in Seq(Calls) /\ Elements(two) = {k, c}
  BY <1>1, ShortElements
<1> HIDE DEF one, two
<1>3. todo' = one \o Rest => Goes
  BY <1>2, PutGoes
<1>4. todo' = two \o Rest => Goes
  BY <1>1, <1>2, PutGoes
<1> QED BY <1>3, <1>4 DEF one, two, k

(* A clean-up and what it goes on with.                                    *)
LEMMA CleanupGoes ==
  ASSUME TypeOK, todo # <<>>, NEW calls \in Seq(Calls), CleanupThen(calls),
         \A c \in Elements(calls) : c.op # "mainLayoutFailed"
  PROVE  Goes
<1>1. Call("reloadQueue", <<>>).op = "reloadQueue"
  BY DEF Call
<1> QED BY <1>1, CleanupElements, Zenon DEF Goes

(* A call that ends, or makes the overlays be fetched.                     *)
LEMMA SignalGoes ==
  ASSUME TypeOK, todo # <<>>
  PROVE  /\ todo' = Rest => Goes
         /\ todo' = <<>> \o Rest => Goes
         /\ todo' = OverlaysUpdated \o Rest => Goes
<1>1. todo' = Rest => Goes
  BY DEF Goes
<1>2. todo' = <<>> \o Rest => Goes
  BY PutGoes, PlainCalls, ShortElements
<1>3. \A c \in Elements(OverlaysUpdated) : c.op # "mainLayoutFailed"
  BY PlainCalls
<1>4. todo' = OverlaysUpdated \o Rest => Goes
  BY <1>3, PutGoes, PlainCalls
<1> QED BY <1>1, <1>2, <1>4

(* A reload and what it pushes.                                            *)
LEMMA ReloadGoes ==
  ASSUME TypeOK, ReloadQueue
  PROVE  Goes
<1> DEFINE ids == AddMissing(Ids(overlayQueue), Ids(overlayOverrides))
           c == Call("updateCurrentOverlays", ids)
<1>1. ids \in Seq(AnyId)
  BY IdsType, AddMissingType DEF TypeOK
<1>2. c \in Calls /\ c.op = "updateCurrentOverlays"
  <2>1. "updateCurrentOverlays" \in Operations
    BY DEF Operations
  <2> QED BY <1>1, <2>1, CallType DEF Call
<1>3. todo # <<>>
  BY DEF ReloadQueue, Calling
<1>4. \E first \in {<<>>, LayoutUpdated} : todo' = (first \o <<c>>) \o Rest
  BY DEF ReloadQueue
<1> HIDE DEF c
<1>5. PICK first \in {<<>>, LayoutUpdated} : todo' = (first \o <<c>>) \o Rest
  BY <1>4
<1> DEFINE last == <<c>>
<1>6. last \in Seq(Calls) /\ \A k \in Elements(last) : k.op # "mainLayoutFailed"
  BY <1>2, ShortElements
<1>7. first \in Seq(Calls) /\ \A k \in Elements(first) : k.op # "mainLayoutFailed"
  <2>1. first = <<>> \/ first = LayoutUpdated
    BY <1>5
  <2>2. \A k \in Elements(LayoutUpdated) : k.op # "mainLayoutFailed"
    BY PlainCalls
  <2> QED BY <2>1, <2>2, PlainCalls, ShortElements
<1>8. todo' = (first \o last) \o Rest
  BY <1>5
<1> HIDE DEF last
<1>9. /\ first \o last \in Seq(Calls)
      /\ \A k \in Elements(first \o last) : k.op # "mainLayoutFailed"
  <2>1. /\ first \o last \in Seq(Calls)
        /\ Elements(first \o last) = Elements(first) \cup Elements(last)
    BY <1>6, <1>7, ConcatElements
  <2> QED BY <1>6, <1>7, <2>1
<1> QED BY <1>3, <1>8, <1>9, PutGoes

(* Time passes in steps.                                                   *)
LEMMA TimeGoesOn ==
  ASSUME [Next]_vars
  PROVE  now' = now \/ now' = now + 1
BY DEF Next, PendingCall, Routine, SchedulerCall, ReloadQueue, UpdateCurrentOverlays,
       CurrentLayoutId, TriggerNextLayout, TriggerPreviousLayout, TriggerLayoutById,
       TriggerTo, FetchMainLayout, CreateMainLayout, MainLayoutFailed, FetchOverlays,
       ListOverlays, CreateOverlays, MainLayoutExpired, FlagUnsafe, ScheduleEvent,
       ReloadSchedule, AddOrReplaceCriteria, Status, Request, TimerFires, Tick,
       FilesDownloaded, FileSaved, OverrideRequest, ChangeLayout, AddOverlayOverride,
       ClearOverrides, Trigger, PurgeAll, envVars, vars, schedulerVars

(* An override that lasts after a step has lasted before it.               *)
LEMMA LastedBefore ==
  ASSUME TypeOK, StayInv, LayoutsStayUnplayable, [Next]_vars, ~Replaced, Lasting'
  PROVE  Lasting /\ layoutOverride'.id = layoutOverride.id
<1>1. SameOverride
  BY OverrideStays DEF Lasting
<1>2. now \in Nat /\ layoutOverride.endDT \in Int
  BY DEF TypeOK, Override
<1>3. now' = now \/ now' = now + 1
  BY TimeGoesOn
<1>4. Showable(layoutOverride.id)
  <2>1. PICK id : id = layoutOverride'.id
    OBVIOUS
  <2>2. Showable(id)'
    BY <2>1 DEF Lasting, Showable
  <2> QED BY <1>1, <2>1, <2>2, StayNext DEF SameOverride
<1> QED BY <1>1, <1>2, <1>3, <1>4 DEF Lasting, SameOverride

(* A step that shows nothing, and makes neither half of a fetch.           *)
LEMMA GoesOn ==
  ASSUME TypeOK, Lasting, LastingInv, layoutOverride'.id = layoutOverride.id,
         shown' = shown, Goes, Head(todo).op \notin Choices
  PROVE  LastingInv'
<1>1. Elements(todo) = {Head(todo)} \cup Elements(Rest)
  BY PendingElements DEF Goes
<1>2. ~PendingIn(todo', {"mainLayoutFailed"})
  BY <1>1 DEF LastingInv, PendingIn, Goes
<1>3. PendingIn(todo, Choices) => PendingIn(todo', Choices)
  BY <1>1 DEF PendingIn, Goes
<1> QED BY <1>2, <1>3 DEF LastingInv

(* The override that lasts is what createMainLayout shows.                 *)
LEMMA LastingIsChosen ==
  ASSUME TypeOK, StayInv, LayoutsStayUnplayable, Lasting, Lasting', LastingInv,
         layoutOverride'.id = layoutOverride.id, CreateMainLayout
  PROVE  LastingInv'
<1>1. NextId = layoutOverride.id /\ layoutOverride.id \in LayoutIds
  BY ShowableIsValid DEF Lasting, NextId, PlaysOverride, Showable
<1>2. NextId # EmptyLayoutId
  BY <1>1, SchedulerAssumption
<1>3. FlagUnsafe(NextId) => NextId \in Loadable
  BY <1>1, FlaggedStay DEF Lasting
<1>4. todo # <<>> /\ shown' = NextId /\ todo' = Rest
  BY <1>1, <1>2, <1>3 DEF CreateMainLayout, Calling
<1>5. ~PendingIn(todo', {"mainLayoutFailed"})
  BY <1>4, PendingElements DEF LastingInv, PendingIn
<1> QED BY <1>1, <1>4, <1>5 DEF LastingInv

(* Every step shows an override that lasts, or leaves a fetch pending that *)
(* will.                                                                   *)
LEMMA LastingNext ==
  ASSUME TypeOK, StayInv, LayoutsStayUnplayable, LastingInv, [Next]_vars
  PROVE  LastingInv'
<1>1. CASE Replaced
  <2>1. todo' = LayoutUpdated \o <<>>
    BY <1>1 DEF Replaced, ChangeLayout, Request, ApplyLayoutOverride, Rest, Idle
  <2> DEFINE calls == LayoutUpdated
  <2>2. calls \in Seq(Calls) /\ todo' = calls \o <<>>
    BY <2>1, PlainCalls
  <2> HIDE DEF calls
  <2>3. todo' = calls
    BY <2>2
  <2>4. Elements(todo') = {Call("fetchMainLayout", <<>>), Call("currentLayoutId", <<>>)}
    BY <2>3, PlainCalls DEF calls
  <2> QED BY <2>4, PlainCalls DEF LastingInv, PendingIn, Choices
<1> SUFFICES ASSUME ~Replaced, Lasting' PROVE LastingInv'
  BY <1>1 DEF LastingInv
<1>2. Lasting /\ layoutOverride'.id = layoutOverride.id
  BY LastedBefore
<1>3. ASSUME shown' = shown, Goes, Head(todo).op \notin Choices PROVE LastingInv'
  BY <1>2, <1>3, GoesOn
<1>4. CASE SchedulerCall /\ UNCHANGED managerVars
  <2>1. /\ shown' = shown /\ todo # <<>> /\ Head(todo).op \notin Choices
    BY <1>4 DEF managerVars, SchedulerCall, ReloadQueue, UpdateCurrentOverlays,
                CurrentLayoutId, TriggerNextLayout, TriggerPreviousLayout,
                TriggerLayoutById, Calling, Choices
  <2>2. CASE ReloadQueue
    BY <1>3, <2>1, <2>2, ReloadGoes
  <2>3. CASE UpdateCurrentOverlays
    <3>1. todo' = <<>> \o Rest \/ todo' = OverlaysUpdated \o Rest
      BY <2>3 DEF UpdateCurrentOverlays
    <3> QED BY <1>3, <2>1, <3>1, SignalGoes
  <2>4. CASE CurrentLayoutId
    <3>1. CleanupThen(<<>>) /\ <<>> \in Seq(Calls) /\ Elements(<<>>) = {}
      BY <2>4, ShortElements DEF CurrentLayoutId
    <3> QED BY <1>3, <2>1, <3>1, CleanupGoes
  <2>5. CASE TriggerNextLayout \/ TriggerPreviousLayout \/ TriggerLayoutById
    <3>1. ~layoutOverride'.oneShot
      BY DEF Lasting
    <3>2. \A id, createdDt : ~ApplyLayoutOverride(id, createdDt, 0)
      <4>1. ASSUME NEW id, NEW createdDt, ApplyLayoutOverride(id, createdDt, 0)
            PROVE  layoutOverride'.oneShot
        BY <4>1 DEF ApplyLayoutOverride
      <4> QED BY <3>1, <4>1
    <3>3. todo' = Rest
      BY <2>5, <3>2 DEF TriggerNextLayout, TriggerPreviousLayout, TriggerLayoutById, TriggerTo
    <3> QED BY <1>3, <2>1, <3>3, SignalGoes
  <2> QED BY <1>4, <2>2, <2>3, <2>4, <2>5 DEF SchedulerCall
<1>5. CASE FetchMainLayout
  <2> DEFINE c == Call("createMainLayout", <<>>)
             calls == <<c>>
  <2>1. /\ calls \in Seq(Calls) /\ Elements(calls) = {c} /\ c.op = "createMainLayout"
        /\ CleanupThen(calls) /\ todo # <<>>
    BY <1>5, PlainCalls DEF FetchMainLayout, Calling
  <2> HIDE DEF c, calls
  <2>2. Goes /\ c \in Elements(todo')
    BY <2>1, CleanupGoes, CleanupElements
  <2>3. Elements(todo) = {Head(todo)} \cup Elements(Rest)
    BY <2>1, PendingElements
  <2>4. ~PendingIn(todo', {"mainLayoutFailed"})
    BY <1>2, <2>2, <2>3 DEF LastingInv, PendingIn, Goes
  <2> QED BY <2>1, <2>2, <2>4 DEF LastingInv, PendingIn, Choices
<1>6. CASE CreateMainLayout
  BY <1>2, <1>6, LastingIsChosen
<1>7. CASE MainLayoutFailed
  <2>1. todo # <<>> /\ Head(todo).op = "mainLayoutFailed"
    BY <1>7 DEF MainLayoutFailed, Calling
  <2>2. PendingIn(todo, {"mainLayoutFailed"})
    BY <2>1, PendingElements DEF PendingIn
  <2> QED BY <1>2, <2>2 DEF LastingInv
<1>8. CASE FetchOverlays
  <2> DEFINE c == Call("listOverlays", <<>>)
             calls == <<c>>
  <2>1. /\ calls \in Seq(Calls) /\ Elements(calls) = {c} /\ c.op = "listOverlays"
        /\ CleanupThen(calls) /\ todo # <<>> /\ shown' = shown
        /\ Head(todo).op \notin Choices
    BY <1>8, PlainCalls DEF FetchOverlays, Calling, Choices
  <2> HIDE DEF c, calls
  <2> QED BY <1>3, <2>1, CleanupGoes
<1>9. CASE ListOverlays
  <2>1. /\ todo # <<>> /\ shown' = shown /\ Head(todo).op \notin Choices
        /\ \E ids \in Seq(AnyId) : todo' = <<Call("createOverlays", ids)>> \o Rest
    <3>1. /\ Ids(overlayQueue) \in Seq(AnyId) /\ Ids(overlayOverrides) \in Seq(AnyId)
      BY IdsType DEF TypeOK
    <3>2. \A valid : AddMissing(Ids(overlayQueue), Keep(Ids(overlayOverrides), valid))
                       \in Seq(AnyId)
      BY <3>1, KeepType, AddMissingType
    <3> QED BY <1>9, <3>2 DEF ListOverlays, Calling, Choices, managerVars
  <2>2. PICK ids \in Seq(AnyId) : todo' = <<Call("createOverlays", ids)>> \o Rest
    BY <2>1
  <2>3. Call("createOverlays", ids) \in Calls /\ Call("createOverlays", ids).op = "createOverlays"
    BY CallType DEF Call, Operations
  <2> QED BY <1>3, <2>1, <2>2, <2>3, OneGoes
<1>10. CASE CreateOverlays
  <2> DEFINE call == Head(todo)
             next == [call EXCEPT !.ids = Tail(@)]
             made == [next EXCEPT !.views = @ \cup {Head(call.ids)}]
  <2>1. /\ todo # <<>> /\ shown' = shown /\ call.op \notin Choices
        /\ call \in Calls /\ call.op = "createOverlays"
    BY <1>10, PendingElements DEF CreateOverlays, Calling, Choices
  <2>2. CASE todo' = Rest
    BY <1>3, <2>1, <2>2, SignalGoes
  <2>3. call.ids # <<>> =>
          /\ next \in Calls /\ next.op = "createOverlays"
          /\ Head(call.ids) \in Loadable =>
               made \in Calls /\ made.op = "createOverlays"
    <3>1. Loadable \subseteq LayoutIds
      BY DEF Loadable
    <3>2. call.ids \in Seq(AnyId) /\ (call.ids # <<>> => Tail(call.ids) \in Seq(AnyId))
      BY <2>1, HeadBeforeTail DEF Calls
    <3> HIDE DEF call
    <3> QED BY <2>1, <3>1, <3>2 DEF Calls
  <2>4. \/ todo' = Rest
        \/ /\ call.ids # <<>> /\ Head(call.ids) \in Loadable /\ todo' = <<made>> \o Rest
        \/ call.ids # <<>> /\ todo' = <<Call("reloadQueue", <<>>), next>> \o Rest
    BY <1>10 DEF CreateOverlays
  <2> HIDE DEF next, made
  <2> QED BY <1>3, <2>1, <2>2, <2>3, <2>4, OneGoes
<1>11. ASSUME Idle \/ todo' = todo, shown' = shown,
              todo' = todo \/ ~PendingIn(todo', {"mainLayoutFailed"})
       PROVE  LastingInv'
  <2>1. CASE todo' = todo
    BY <1>2, <1>11, <2>1 DEF LastingInv
  <2>2. CASE Idle /\ ~PendingIn(todo', {"mainLayoutFailed"})
    <3>1. ~PendingIn(todo, Choices)
      BY <2>2, ShortElements DEF Idle, PendingIn
    <3> QED BY <1>2, <1>11, <2>2, <3>1 DEF LastingInv
  <2> QED BY <1>11, <2>1, <2>2
<1>12. \A op : op # "mainLayoutFailed" =>
         ~PendingIn(<<Call(op, <<>>)>>, {"mainLayoutFailed"})
  BY PlainCalls DEF PendingIn
<1>13. CASE Routine
  <2>1. shown' = shown
    BY <1>13 DEF Routine, MainLayoutExpired, managerVars
  <2>2. CASE Status
    <3> DEFINE k == Call("reloadQueue", <<>>)
               c == Call("currentLayoutId", <<>>)
               last == <<c>>
    <3>1. \E first \in {<<>>, <<k>>} : todo' = first \o last
      BY <2>2 DEF Status
    <3>2. /\ k.op = "reloadQueue" /\ c.op = "currentLayoutId"
          /\ k \in Calls /\ c \in Calls
      BY PlainCalls, PlainCall
    <3> HIDE DEF k, c
    <3>3. PICK first \in {<<>>, <<k>>} : todo' = first \o last
      BY <3>1
    <3>4. ~PendingIn(todo', {"mainLayoutFailed"})
      <4>1. /\ first \in Seq(Calls) /\ last \in Seq(Calls)
            /\ Elements(first) \subseteq {k} /\ Elements(last) = {c}
        <5>1. Elements(<<>>) = {} /\ Elements(<<k>>) = {k} /\ Elements(last) = {c}
          BY ShortElements
        <5>2. <<>> \in Seq(Calls) /\ <<k>> \in Seq(Calls) /\ last \in Seq(Calls)
          BY <3>2
        <5> HIDE DEF last
        <5> QED BY <3>3, <5>1, <5>2
      <4> HIDE DEF last
      <4>2. Elements(todo') = Elements(first) \cup Elements(last)
        BY <3>3, <4>1, ConcatElements
      <4> QED BY <3>2, <4>1, <4>2 DEF PendingIn
    <3>5. Idle
      BY <2>2 DEF Status, Request
    <3> QED BY <1>11, <2>1, <3>4, <3>5
  <2>3. CASE Routine /\ ~Status
    <3>1. \/ todo' = todo
          \/ /\ Idle
             /\ \/ todo' = <<Call("reloadQueue", <<>>)>>
                \/ todo' = <<Call("fetchMainLayout", <<>>)>>
      BY <2>3 DEF Routine, MainLayoutExpired, ScheduleEvent, ReloadSchedule, Request,
                  AddOrReplaceCriteria, TimerFires, Tick, FilesDownloaded, FileSaved
    <3> QED BY <1>11, <1>12, <2>1, <3>1
  <2> QED BY <1>13, <2>2, <2>3
<1>14. CASE OverrideRequest /\ UNCHANGED managerVars
  <2>1. shown' = shown /\ Idle
    BY <1>14 DEF managerVars, OverrideRequest, ChangeLayout, AddOverlayOverride,
                 ClearOverrides, Trigger, PurgeAll, Request
  <2>2. ~ClearOverrides
    <3>1. layoutOverride'.active
      BY DEF Lasting
    <3>2. ClearOverrides => layoutOverride' = NoOverride
      BY DEF ClearOverrides
    <3> QED BY <3>1, <3>2 DEF NoOverride
  <2>3. CASE PurgeAll \/ \E id, delay, duration : AddOverlayOverride(id, delay, duration)
    <3>1. \/ todo' = <<Call("reloadQueue", <<>>)>>
          \/ todo' = <<Call("fetchOverlays", <<>>)>>
      BY <2>3 DEF PurgeAll, AddOverlayOverride, OverlaysUpdated
    <3> QED BY <1>11, <1>12, <2>1, <3>1
  <2>4. ASSUME NEW op \in Operations, op # "mainLayoutFailed", NEW ids \in Seq(AnyId),
               Trigger(op, ids)
        PROVE  LastingInv'
    <3> DEFINE calls == <<Call(op, ids)>>
    <3>1. /\ calls \in Seq(Calls) /\ Elements(calls) = {Call(op, ids)}
          /\ Call(op, ids).op = op
      <4>1. Call(op, ids) \in Calls
        BY <2>4, CallType
      <4>2. Call(op, ids).op = op
        BY DEF Call
      <4> QED BY <4>1, <4>2, ShortElements
    <3>2. CleanupThen(calls)
      BY <2>4 DEF Trigger
    <3> HIDE DEF calls
    <3>3. Elements(todo') \subseteq {Call("reloadQueue", <<>>)}
                                    \cup Elements(calls) \cup Elements(Rest)
      BY <3>1, <3>2, CleanupElements
    <3>4. Elements(Rest) = {}
      BY <2>1, ShortElements DEF Idle, Rest
    <3>5. ~PendingIn(todo', {"mainLayoutFailed"})
      BY <2>4, <3>1, <3>3, <3>4, PlainCalls DEF PendingIn
    <3> QED BY <1>11, <2>1, <3>5
  <2>5. /\ {"triggerNextLayout", "triggerPreviousLayout", "triggerLayoutById"}
             \subseteq Operations \ {"mainLayoutFailed"}
        /\ <<>> \in Seq(AnyId)
        /\ \A id \in OverrideIds : <<id>> \in Seq(AnyId)
    BY SchedulerAssumption DEF Operations, AnyId
  <2> QED BY <1>14, <2>2, <2>3, <2>4, <2>5 DEF OverrideRequest, Replaced
<1>15. CASE UNCHANGED vars
  BY <1>11, <1>15 DEF vars, schedulerVars, managerVars
<1> QED BY <1>4, <1>5, <1>6, <1>7, <1>8, <1>9, <1>10, <1>13, <1>14, <1>15
        DEF Next, PendingCall

(* applyLayoutOverride, nextLayout and reloadQueue: an override with a     *)
(* duration is on the screen until it ends, whatever fetches, reloads and  *)
(* layouts that fail come in between, if what cannot be played stays so.   *)
THEOREM LastingOverrideIsShown ==
  ASSUME LayoutsStayUnplayable
  PROVE  Spec => []LiveOverrideShown
<1>1. Init => StayInv /\ LastingInv
  <2> SUFFICES ASSUME Init PROVE StayInv /\ LastingInv
    OBVIOUS
  <2>1. \A s \in Schedules : s.globalDependants \subseteq Files
    BY SchedulerAssumption DEF Schedule
  <2>2. LayoutIds \cup GlobalFiles \subseteq fileCache
    BY <2>1, SchedulerAssumption DEF Init, SchedulerInit, LayoutsStayUnplayable, GlobalFiles
  <2>3. StayInv
    BY <2>2, SchedulerAssumption DEF Init, SchedulerInit, StayInv
  <2>4. LastingInv
    BY DEF Init, SchedulerInit, NoOverride, LastingInv, Lasting
  <2> QED BY <2>3, <2>4
<1>2. TypeOK /\ StayInv /\ LastingInv /\ [Next]_vars => StayInv' /\ LastingInv'
  BY StayNext, LastingNext
<1>3. TypeOK /\ StayInv /\ LastingInv => LiveOverrideShown
  BY ShowableIsValid, ShortElements
     DEF LiveOverrideShown, LastingInv, Lasting, Idle, PendingIn
<1> QED BY TypeCorrect, <1>1, <1>2, <1>3, PTL DEF Spec

-----------------------------------------------------------------------------
(* Every fetch that fails flags a layout that was not flagged, so only so  *)
(* many calls can be pending within each other.  The room of a pending     *)
(* call is the depth at which it may stand: it grows by three, for the two *)
(* slots of layoutUpdated and the comparison of the overlays, with each    *)
(* layout that is flagged, and once when the criteria are cleaned up.      *)

Unloadable == LayoutIds \ Loadable

(* No layout is without a file that can be parsed, and the stack is that   *)
(* high.                                                                   *)
FailuresAreFlagged ==
  /\ \A id \in LayoutIds : Outcome[id] # "broken"
  /\ UnsafeTtl # 0
  /\ IsFiniteSet(Unloadable)
  /\ MaxDepth >= 3 * Cardinality(Unloadable) + 6

(* The layouts that have failed, and are unsafe since.                     *)
Failed == {id \in Unloadable : unsafeUntil[id] > now}

(* The layouts that have failed are in no queue: flagging one is followed  *)
(* by a reload at once.                                                    *)
FailedNotQueued ==
  Calling("reloadQueue") \/
    /\ \A l \in Elements(regularQueue.items) \cup Elements(overlayQueue) : l.id \notin Failed
    /\ regularQueue.defaultId \notin Failed

(* How many calls an operation may push beyond those of a reload.          *)
Margin(op) ==
  IF op \in Choices THEN 3 ELSE IF op = "currentLayoutId" THEN 2 ELSE 1

(* The layouts that have failed and that the call does not try again.      *)
Behind(c, F) == IF c.op = "createOverlays" THEN F \ Elements(c.ids) ELSE F

Room(c, F, e) == 3 * Cardinality(Behind(c, F)) + Margin(c.op) + e

(* Every call of s stands no deeper than it may.                           *)
Fits(s, F, e) == \A i \in 1..Len(s) : Len(s) + 1 - i <= Room(s[i], F, e)

(* The criteria are cleaned up once within an event.                       *)
Slack == IF LiveCriteria # criteria THEN 0 ELSE 3

DepthInv == Fits(todo, Failed, Slack)

RecursionInv == FailedNotQueued /\ DepthInv

(* The room of a call that does not create overlays.                       *)
LEMMA PlainRoom ==
  ASSUME NEW c, c.op # "createOverlays", NEW F, NEW e
  PROVE  Room(c, F, e) = 3 * Cardinality(F) + Margin(c.op) + e
BY DEF Room, Behind

(* It is a number that grows with the layouts that have failed.            *)
LEMMA RoomGrows ==
  ASSUME NEW c, NEW F, NEW G, F \subseteq G, IsFiniteSet(G), NEW d \in Nat, NEW e \in Nat,
         d <= e
  PROVE  /\ Room(c, F, d) \in Nat /\ Room(c, G, e) \in Nat
         /\ Room(c, F, d) <= Room(c, G, e)
         /\ Room(c, G, e) <= 3 * Cardinality(G) + 3 + e
         /\ Cardinality(G) \in Nat
<1> DEFINE f == Cardinality(Behind(c, F))
           g == Cardinality(Behind(c, G))
           m == Margin(c.op)
<1>1. Behind(c, F) \subseteq Behind(c, G) /\ Behind(c, G) \subseteq G
  BY DEF Behind
<1>2. IsFiniteSet(Behind(c, G)) /\ g <= Cardinality(G)
  BY <1>1, FS_Subset
<1>3. IsFiniteSet(Behind(c, F)) /\ f <= g
  BY <1>1, <1>2, FS_Subset
<1>4. f \in Nat /\ g \in Nat /\ Cardinality(G) \in Nat
  BY <1>2, <1>3, FS_CardinalityType
<1>5. m \in 1..3
  BY DEF Margin
<1>6. Room(c, F, d) = 3 * f + m + d /\ Room(c, G, e) = 3 * g + m + e
  BY DEF Room
<1> HIDE DEF f, g, m
<1> QED BY <1>2, <1>3, <1>4, <1>5, <1>6

(* Calls that fit do so when more layouts have failed.                     *)
LEMMA FitsGrows ==
  ASSUME NEW s \in Seq(Calls), NEW F, NEW G, F \subseteq G, IsFiniteSet(G),
         NEW d \in Nat, NEW e \in Nat, d <= e, Fits(s, F, d)
  PROVE  Fits(s, G, e)
<1> SUFFICES ASSUME NEW i \in 1..Len(s) PROVE Len(s) + 1 - i <= Room(s[i], G, e)
  BY DEF Fits
<1>1. Len(s) \in Nat /\ Len(s) + 1 - i <= Room(s[i], F, d)
  BY DEF Fits
<1>2. /\ Room(s[i], F, d) \in Nat /\ Room(s[i], G, e) \in Nat
      /\ Room(s[i], F, d) <= Room(s[i], G, e)
  BY RoomGrows
<1> QED BY <1>1, <1>2

(* A call is pushed where it has the room.                                 *)
LEMMA PushFits ==
  ASSUME NEW c \in Calls, NEW r \in Seq(Calls), NEW F, NEW e, Fits(r, F, e),
         Len(r) + 1 <= Room(c, F, e)
  PROVE  /\ Prefixed(c, r) \in Seq(Calls)
         /\ Len(Prefixed(c, r)) = Len(r) + 1
         /\ Fits(Prefixed(c, r), F, e)
<1> DEFINE s == Prefixed(c, r)
<1>1. InFront(s, Calls, c, r)
  BY PushedIndex
<1> HIDE DEF s
<1>2. /\ s \in Seq(Calls) /\ Len(s) = Len(r) + 1 /\ Len(r) \in Nat /\ s[1] = c
      /\ \A i \in 1..Len(r) : s[i + 1] = r[i]
  BY <1>1 DEF InFront
<1>3. ASSUME NEW i \in 1..Len(s) PROVE Len(s) + 1 - i <= Room(s[i], F, e)
  <2>1. CASE i = 1
    <3>1. Len(s) + 1 - i = Len(r) + 1 /\ s[i] = c
      BY <1>2, <2>1
    <3> QED BY <3>1
  <2>2. CASE i # 1
    <3>1. i - 1 \in 1..Len(r) /\ (i - 1) + 1 = i /\ Len(s) + 1 - i = Len(r) + 1 - (i - 1)
      BY <1>2, <2>2
    <3>2. s[i] = r[i - 1]
      BY <1>2, <3>1
    <3> QED BY <3>1, <3>2 DEF Fits
  <2> QED BY <2>1, <2>2
<1> QED BY <1>2, <1>3 DEF Fits, s

(* What is known of the calls when the first one is made.                  *)
LEMMA PopFits ==
  ASSUME NEW c \in Calls, NEW r \in Seq(Calls), NEW F, NEW e, Fits(Prefixed(c, r), F, e)
  PROVE  Fits(r, F, e) /\ Len(r) + 1 <= Room(c, F, e)
<1> DEFINE s == Prefixed(c, r)
<1>1. InFront(s, Calls, c, r) /\ Fits(s, F, e)
  BY PushedIndex
<1> HIDE DEF s
<1>2. /\ s \in Seq(Calls) /\ Len(s) = Len(r) + 1 /\ Len(r) \in Nat /\ s[1] = c
      /\ \A i \in 1..Len(r) : s[i + 1] = r[i]
  BY <1>1 DEF InFront
<1>3. ASSUME NEW i \in 1..Len(r) PROVE Len(r) + 1 - i <= Room(r[i], F, e)
  <2>1. i + 1 \in 1..Len(s) /\ Len(s) + 1 - (i + 1) = Len(r) + 1 - i /\ s[i + 1] = r[i]
    BY <1>2
  <2>2. Len(s) + 1 - (i + 1) <= Room(s[i + 1], F, e)
    BY <1>1, <2>1 DEF Fits
  <2> QED BY <2>1, <2>2
<1>4. Len(r) + 1 <= Room(c, F, e)
  <2>1. 1 \in 1..Len(s) /\ Len(s) + 1 - 1 = Len(r) + 1
    BY <1>2
  <2>2. Len(s) + 1 - 1 <= Room(s[1], F, e)
    BY <1>1, <2>1 DEF Fits
  <2> QED BY <1>2, <2>1, <2>2
<1> QED BY <1>3, <1>4 DEF Fits

(* The calls without arguments, and the room they have.                    *)
LEMMA CallRoom ==
  ASSUME NEW F, NEW e
  PROVE  \A op \in Operations \ {"createOverlays"} : \A ids \in Seq(AnyId) :
           /\ Call(op, ids) \in Calls
           /\ Room(Call(op, ids), F, e) = 3 * Cardinality(F) + Margin(op) + e
<1> SUFFICES ASSUME NEW op \in Operations \ {"createOverlays"}, NEW ids \in Seq(AnyId)
             PROVE  /\ Call(op, ids) \in Calls
                    /\ Room(Call(op, ids), F, e) = 3 * Cardinality(F) + Margin(op) + e
  OBVIOUS
<1>1. Call(op, ids) \in Calls /\ Call(op, ids).op = op
  BY CallType DEF Call
<1> QED BY <1>1, PlainRoom

(* The room of a reload, and of what is left of a fetch that failed.       *)
LEMMA ReloadRoom ==
  ASSUME NEW op \in {"reloadQueue", "mainLayoutFailed"}, NEW F, NEW e
  PROVE  /\ Call(op, <<>>) \in Calls
         /\ Room(Call(op, <<>>), F, e) = 3 * Cardinality(F) + 1 + e
<1>1. op \in Operations \ {"createOverlays"} /\ <<>> \in Seq(AnyId)
  BY DEF Operations
<1>2. Margin(op) = 1
  BY DEF Margin, Choices
<1>3. /\ Call(op, <<>>) \in Calls
      /\ Room(Call(op, <<>>), F, e) = 3 * Cardinality(F) + Margin(op) + e
  BY <1>1, CallRoom, Zenon
<1> QED BY <1>2, <1>3

(* The slots of layoutUpdated fit two steps below the room of a fetch.     *)
LEMMA SignalFits ==
  ASSUME NEW r \in Seq(Calls), NEW F, IsFiniteSet(F), NEW e \in Nat, Fits(r, F, e),
         Len(r) + 1 <= 3 * Cardinality(F) + 2 + e
  PROVE  LayoutUpdated \o r \in Seq(Calls) /\ Fits(LayoutUpdated \o r, F, e)
<1> DEFINE a == Call("fetchMainLayout", <<>>)
           b == Call("currentLayoutId", <<>>)
<1>1. /\ {"fetchMainLayout", "currentLayoutId"} \subseteq Operations \ {"createOverlays"}
      /\ <<>> \in Seq(AnyId)
  BY DEF Operations
<1>2. /\ a \in Calls /\ Room(a, F, e) = 3 * Cardinality(F) + 3 + e
      /\ b \in Calls /\ Room(b, F, e) = 3 * Cardinality(F) + 2 + e
  BY <1>1, CallRoom DEF Margin, Choices
<1>3. LayoutUpdated \o r = Prefixed(a, Prefixed(b, r))
  <2>1. LayoutUpdated = <<a, b>>
    BY DEF LayoutUpdated
  <2> HIDE DEF a, b
  <2>2. TwoForms(a, b, r)
    BY <1>2, PushedForms
  <2> QED BY <2>1, <2>2 DEF TwoForms
<1>4. Cardinality(F) \in Nat /\ Len(r) \in Nat
  BY FS_CardinalityType
<1> HIDE DEF a, b
<1>5. /\ Prefixed(b, r) \in Seq(Calls) /\ Len(Prefixed(b, r)) = Len(r) + 1
      /\ Fits(Prefixed(b, r), F, e)
  BY <1>2, PushFits
<1>6. Len(Prefixed(b, r)) + 1 <= Room(a, F, e)
  BY <1>2, <1>4, <1>5, SMT
<1>7. /\ Prefixed(a, Prefixed(b, r)) \in Seq(Calls)
      /\ Fits(Prefixed(a, Prefixed(b, r)), F, e)
  BY <1>2, <1>5, <1>6, PushFits
<1> QED BY <1>3, <1>7

(* The layouts that have failed are finitely many.                         *)
LEMMA FailedType ==
  ASSUME FailuresAreFlagged
  PROVE  /\ Failed \subseteq Unloadable
         /\ IsFiniteSet(Failed) /\ Cardinality(Failed) \in Nat
         /\ Cardinality(Failed) <= Cardinality(Unloadable)
         /\ Cardinality(Unloadable) \in Nat
         /\ Failed' \subseteq Unloadable /\ IsFiniteSet(Failed')
         /\ Cardinality(Failed') \in Nat
         /\ Slack \in Nat /\ Slack' \in Nat /\ Slack <= 3
<1>1. IsFiniteSet(Unloadable)
  BY DEF FailuresAreFlagged
<1>2. Failed \subseteq Unloadable /\ Failed' \subseteq Unloadable
  BY DEF Failed
<1>3. \A S \in SUBSET Unloadable :
        /\ IsFiniteSet(S) /\ Cardinality(S) \in Nat
        /\ Cardinality(S) <= Cardinality(Unloadable)
  BY <1>1, FS_Subset, FS_CardinalityType
<1>4. Slack \in Nat /\ Slack' \in Nat /\ Slack <= 3
  BY DEF Slack
<1> QED BY <1>1, <1>2, <1>3, <1>4, FS_CardinalityType

(* A layout that fails is flagged.                                         *)
LEMMA FailureFlagged ==
  ASSUME TypeOK, FailuresAreFlagged, NEW id \in LayoutIds, FlagUnsafe(id)
  PROVE  /\ id \in Loadable => Failed' = Failed
         /\ id \notin Loadable => Failed' = Failed \cup {id}
<1>1. /\ unsafeUntil \in [LayoutIds -> Nat] /\ now \in Nat /\ UnsafeTtl \in Nat /\ now' = now
      /\ now + UnsafeTtl > now
  BY LayoutsManagerAssumption DEF TypeOK, FlagUnsafe, FailuresAreFlagged
<1>2. \A k \in LayoutIds :
        unsafeUntil'[k] = IF k = id /\ id \in Flagged THEN now + UnsafeTtl ELSE unsafeUntil[k]
  BY <1>1 DEF FlagUnsafe
<1>3. Unloadable \subseteq LayoutIds
  BY DEF Unloadable
<1>4. ASSUME id \in Loadable PROVE Failed' = Failed
  <2>1. id \notin Unloadable
    BY <1>4 DEF Unloadable
  <2>2. \A k \in Unloadable : unsafeUntil'[k] = unsafeUntil[k]
    BY <1>2, <1>3, <2>1
  <2> QED BY <1>1, <2>2 DEF Failed
<1>5. ASSUME id \notin Loadable PROVE Failed' = Failed \cup {id}
  <2>1. id \in Unloadable /\ id \in Flagged
    BY <1>5, LayoutsManagerAssumption
       DEF Unloadable, Loadable, Flagged, FailuresAreFlagged, Outcomes
  <2>2. unsafeUntil'[id] = now + UnsafeTtl
    BY <1>2, <2>1
  <2>3. \A k \in Unloadable : k # id => unsafeUntil'[k] = unsafeUntil[k]
    BY <1>2, <1>3
  <2>4. \A k \in Unloadable : unsafeUntil'[k] > now' <=> k = id \/ unsafeUntil[k] > now
    BY <1>1, <2>2, <2>3
  <2> QED BY <2>1, <2>4 DEF Failed
<1> QED BY <1>4, <1>5

(* What a clean-up makes of the room.                                      *)
LEMMA CleanSlack ==
  /\ criteria' = LiveCriteria /\ now' = now => Slack' = 3
  /\ criteria' = criteria /\ now' = now => Slack' = Slack
  /\ Slack <= 3
  /\ LiveCriteria # criteria => Slack = 0
<1>1. ASSUME criteria' = LiveCriteria, now' = now PROVE LiveCriteria' = criteria'
  <2> DEFINE cleaned == [m \in Metrics |->
                           IF criteria'[m].expiresAt <= now THEN NoCriteria ELSE criteria'[m]]
  <2>1. LiveCriteria' = cleaned
    BY <1>1 DEF LiveCriteria
  <2>2. criteria' = [m \in Metrics |->
                       IF criteria[m].expiresAt <= now THEN NoCriteria ELSE criteria[m]]
    BY <1>1 DEF LiveCriteria
  <2>3. \A m \in Metrics : cleaned[m] = criteria'[m]
    BY <2>2
  <2>4. cleaned = criteria'
    BY <2>2, <2>3
  <2> QED BY <2>1, <2>4
<1>2. ASSUME criteria' = criteria, now' = now PROVE LiveCriteria' = LiveCriteria
  BY <1>2 DEF LiveCriteria
<1> QED BY <1>1, <1>2 DEF Slack

(* Nothing is pending between two events.                                  *)
LEMMA IdleFits ==
  ASSUME Idle
  PROVE  Rest = <<>> /\ Rest \in Seq(Calls) /\ Len(Rest) = 0 /\ \A F, e : Fits(Rest, F, e)
BY DEF Idle, Rest, Fits

(* A clean-up that removes a criteria makes the queues be reloaded.        *)
LEMMA CleanupCases ==
  ASSUME TypeOK, NEW c \in Calls
  PROVE  LET k == Call("reloadQueue", <<>>)
         IN  /\ CleanupThen(<<c>>) =>
                  \/ LiveCriteria = criteria /\ todo' = Prefixed(c, Rest)
                  \/ LiveCriteria # criteria /\ todo' = Prefixed(k, Prefixed(c, Rest))
             /\ CleanupThen(<<>>) =>
                  \/ LiveCriteria = criteria /\ todo' = Rest
                  \/ LiveCriteria # criteria /\ todo' = Prefixed(k, Rest)
<1> DEFINE k == Call("reloadQueue", <<>>)
           R == Rest
<1>1. k \in Calls /\ R \in Seq(Calls)
  BY RestType, PlainCall DEF TypeOK, Operations
<1>2. ASSUME CleanupThen(<<c>>)
      PROVE  \/ LiveCriteria = criteria /\ todo' = (<<>> \o <<c>>) \o R
             \/ LiveCriteria # criteria /\ todo' = (<<k>> \o <<c>>) \o R
  BY <1>2 DEF CleanupThen
<1>3. ASSUME CleanupThen(<<>>)
      PROVE  \/ LiveCriteria = criteria /\ todo' = (<<>> \o <<>>) \o R
             \/ LiveCriteria # criteria /\ todo' = (<<k>> \o <<>>) \o R
  BY <1>3 DEF CleanupThen
<1> HIDE DEF k, R
<1>4. OneForms(c, R) /\ OneForms(k, R) /\ TwoForms(k, c, R)
  BY <1>1, PushedForms
<1>5. CleanupThen(<<c>>) =>
        \/ LiveCriteria = criteria /\ todo' = Prefixed(c, R)
        \/ LiveCriteria # criteria /\ todo' = Prefixed(k, Prefixed(c, R))
  BY <1>2, <1>4 DEF OneForms, TwoForms
<1>6. CleanupThen(<<>>) =>
        \/ LiveCriteria = criteria /\ todo' = R
        \/ LiveCriteria # criteria /\ todo' = Prefixed(k, R)
  BY <1>3, <1>4 DEF OneForms
<1> QED BY <1>5, <1>6 DEF k, R

(* A call that fits at the head of the others.                             *)
LEMMA NextFits ==
  ASSUME NEW c \in Calls, NEW R \in Seq(Calls), todo' = Prefixed(c, R),
         Fits(R, Failed', Slack'), Len(R) + 1 <= Room(c, Failed', Slack')
  PROVE  DepthInv'
BY PushFits DEF DepthInv

(* The operations that clean up first, in an event or as one.              *)
LEMMA CleanupFits ==
  ASSUME TypeOK, FailuresAreFlagged, UNCHANGED <<now, unsafeUntil>>,
         Fits(Rest, Failed, Slack),
         NEW op \in Operations \ {"createOverlays"}, NEW ids \in Seq(AnyId),
         \/ /\ CleanupThen(<<Call(op, ids)>>)
            /\ Len(Rest) + 1 <= 3 * Cardinality(Failed) + Margin(op) + Slack
         \/ /\ CleanupThen(<<>>)
            /\ Len(Rest) + 1 <= 3 * Cardinality(Failed) + 2 + Slack
  PROVE  DepthInv'
<1> DEFINE c == Call(op, ids)
           k == Call("reloadQueue", <<>>)
           F == Failed
           R == Rest
           f == Cardinality(F)
           m == Margin(op)
<1>1. /\ c \in Calls /\ Room(c, F, 3) = 3 * f + m + 3
      /\ k \in Calls /\ Room(k, F, 3) = 3 * f + 1 + 3
  <2>1. c \in Calls /\ Room(c, F, 3) = 3 * f + m + 3
    BY CallRoom, Zenon
  <2>2. k \in Calls /\ Room(k, F, 3) = 3 * f + 1 + 3
    BY ReloadRoom, Zenon
  <2> QED BY <2>1, <2>2, Zenon
<1>2. R \in Seq(Calls) /\ Len(R) \in Nat
  BY RestType DEF TypeOK
<1>3. f \in Nat /\ IsFiniteSet(F) /\ Slack \in Nat /\ Slack <= 3 /\ m \in 1..3
  BY FailedType DEF Margin
<1>4. Failed' = F
  BY DEF Failed
<1>5. Slack' = 3 /\ (LiveCriteria # criteria => Slack = 0)
  BY CleanSlack DEF CleanupThen, CleanupExpiredCriteria
<1>6. Fits(R, F, 3)
  BY <1>2, <1>3, FitsGrows
<1>7. \/ /\ \/ LiveCriteria = criteria /\ todo' = Prefixed(c, R)
            \/ LiveCriteria # criteria /\ todo' = Prefixed(k, Prefixed(c, R))
         /\ Len(R) + 1 <= 3 * f + m + Slack
      \/ /\ \/ LiveCriteria = criteria /\ todo' = R
            \/ LiveCriteria # criteria /\ todo' = Prefixed(k, R)
         /\ Len(R) + 1 <= 3 * f + 2 + Slack
  BY <1>1, CleanupCases
<1> HIDE DEF c, k, F, R, f, m
<1>8. CASE todo' = R
  BY <1>4, <1>5, <1>6, <1>8 DEF DepthInv
<1>9. CASE todo' = Prefixed(k, R) /\ Slack = 0 /\ Len(R) + 1 <= 3 * f + 2 + Slack
  <2>1. Len(R) + 1 <= Room(k, F, 3)
    BY <1>1, <1>2, <1>3, <1>9
  <2> QED BY <1>1, <1>2, <1>4, <1>5, <1>6, <1>9, <2>1, NextFits
<1>10. ASSUME Len(R) + 1 <= 3 * f + m + Slack
       PROVE  /\ Len(R) + 1 <= Room(c, F, 3)
              /\ Prefixed(c, R) \in Seq(Calls) /\ Len(Prefixed(c, R)) = Len(R) + 1
              /\ Fits(Prefixed(c, R), F, 3)
  <2>1. Len(R) + 1 <= Room(c, F, 3)
    BY <1>1, <1>2, <1>3, <1>10
  <2> QED BY <1>1, <1>2, <1>6, <2>1, PushFits
<1>11. CASE todo' = Prefixed(c, R) /\ Len(R) + 1 <= 3 * f + m + Slack
  BY <1>1, <1>2, <1>4, <1>5, <1>6, <1>10, <1>11, NextFits
<1>12. CASE /\ todo' = Prefixed(k, Prefixed(c, R)) /\ Slack = 0
            /\ Len(R) + 1 <= 3 * f + m + Slack
  <2>1. Len(Prefixed(c, R)) + 1 <= Room(k, F, 3)
    BY <1>1, <1>2, <1>3, <1>10, <1>12
  <2> QED BY <1>1, <1>4, <1>5, <1>10, <1>12, <2>1, NextFits
<1> QED BY <1>5, <1>7, <1>8, <1>9, <1>11, <1>12

(* A call without arguments behind which another was pending.              *)
LEMMA PlainDepth ==
  ASSUME TypeOK, FailuresAreFlagged, DepthInv, todo # <<>>,
         Head(todo).op # "createOverlays",
         UNCHANGED <<now, unsafeUntil>>
  PROVE  /\ Failed' = Failed
         /\ Rest \in Seq(Calls) /\ Len(Rest) \in Nat
         /\ Fits(Rest, Failed, Slack)
         /\ Slack \in Nat /\ Cardinality(Failed) \in Nat /\ IsFiniteSet(Failed)
         /\ Len(Rest) + 1 <= 3 * Cardinality(Failed) + Margin(Head(todo).op) + Slack
<1>1. Failed' = Failed
  BY DEF Failed
<1>2. /\ Rest \in Seq(Calls) /\ Head(todo) \in Calls /\ todo = Prefixed(Head(todo), Rest)
  BY HeadBeforeTail DEF TypeOK, Rest
<1>3. Fits(Rest, Failed, Slack) /\ Len(Rest) + 1 <= Room(Head(todo), Failed, Slack)
  BY <1>2, PopFits DEF DepthInv
<1>4. Room(Head(todo), Failed, Slack)
        = 3 * Cardinality(Failed) + Margin(Head(todo).op) + Slack
  BY PlainRoom
<1>5. Len(Rest) \in Nat
  BY <1>2
<1> QED BY <1>1, <1>2, <1>3, <1>4, <1>5, FailedType

(* The layouts that have failed stay out of queues that stay.              *)
LEMMA StillNotQueued ==
  ASSUME FailedNotQueued, ~Calling("reloadQueue"), Failed' \subseteq Failed,
         regularQueue'.items = regularQueue.items,
         regularQueue'.defaultId = regularQueue.defaultId,
         overlayQueue' = overlayQueue
  PROVE  FailedNotQueued'
BY DEF FailedNotQueued

(* The cursor is moved without a change of the queue.                      *)
LEMMA CursorKeepsQueue ==
  ASSUME NEW q \in Queue, NEW id,
         NEW p \in {NextLayout(q), PreviousLayout(q), UpdateCurrent(q, id)}
  PROVE  p.items = q.items /\ p.defaultId = q.defaultId
BY DEF NextLayout, PreviousLayout, UpdateCurrent, Queue

(* A reload queues no layout that has failed.                              *)
LEMMA ReloadLeavesFailed ==
  ASSUME TypeOK, ReloadQueue
  PROVE  FailedNotQueued'
<1>1. Failed' = Failed /\ EmptyLayoutId \notin Failed
  BY SchedulerAssumption DEF ReloadQueue, envVars, Failed, Unloadable
<1>2. \A id, dependants : LayoutValid(id, dependants) => id \notin Failed
  <2>1. now \in Nat /\ unsafeUntil \in [LayoutIds -> Nat]
    BY DEF TypeOK
  <2> QED BY <2>1 DEF LayoutValid, Failed
<1>3. ASSUME NEW layouts \in Seq(Layout), NEW active,
             NEW l \in Elements(TopPriority(layouts, Playable(layouts, active)))
      PROVE  l.id \notin Failed
  <2> DEFINE P == Playable(layouts, active)
  <2>1. Elements(TopPriority(layouts, P)) \subseteq Top(P)
    <3> HIDE DEF P
    <3> QED BY KeepType DEF TopPriority
  <2>2. l \in P
    BY <1>3, <2>1 DEF Top
  <2> QED BY <1>2, <2>2 DEF Playable
<1>4. schedule.regular \in Seq(Layout) /\ schedule.overlay \in Seq(Layout)
  BY ScheduleType DEF TypeOK
<1>5. \A l \in Elements(regularQueue'.items) \cup Elements(overlayQueue') : l.id \notin Failed
  BY <1>3, <1>4, ReloadedQueues
<1>6. regularQueue'.defaultId \notin Failed
  <2> DEFINE current == IF layoutOverride.active THEN layoutOverride.id
                        ELSE regularQueue.currentId
             queue == RegularQueueFrom(LiveCriteria)
  <2>1. queue \in Queue
    BY QueuesFromSchedule DEF TypeOK
  <2>2. queue.defaultId \notin Failed
    BY <1>1, <1>2 DEF RegularQueueFrom, NewQueue
  <2>3. regularQueue' = IF InQueue(queue, current)
                        THEN UpdateCurrent(queue, current) ELSE queue
    BY DEF ReloadQueue
  <2> HIDE DEF queue, current
  <2>4. UpdateCurrent(queue, current).defaultId = queue.defaultId
    BY <2>1, CursorKeepsQueue
  <2> QED BY <2>2, <2>3, <2>4
<1> QED BY <1>1, <1>5, <1>6 DEF FailedNotQueued

(* A reload and the calls it makes.                                        *)
LEMMA ReloadFits ==
  ASSUME TypeOK, FailuresAreFlagged, DepthInv, ReloadQueue
  PROVE  DepthInv'
<1> DEFINE ids == AddMissing(Ids(overlayQueue), Ids(overlayOverrides))
           c == Call("updateCurrentOverlays", ids)
           F == Failed
           f == Cardinality(F)
           R == Rest
<1>1. ids \in Seq(AnyId)
  BY IdsType, AddMissingType DEF TypeOK
<1>2. c \in Calls /\ Room(c, F, 3) = 3 * f + 1 + 3
  <2>1. "updateCurrentOverlays" \in Operations \ {"createOverlays"}
    BY DEF Operations
  <2>2. Margin("updateCurrentOverlays") = 1
    BY DEF Margin, Choices
  <2> HIDE DEF ids
  <2> QED BY <1>1, <2>1, <2>2, CallRoom
<1>3. /\ R \in Seq(Calls) /\ Len(R) \in Nat /\ Fits(R, F, Slack) /\ Failed' = F
      /\ f \in Nat /\ Slack \in Nat /\ Slack <= 3 /\ IsFiniteSet(F)
      /\ Len(R) + 1 <= 3 * f + 1 + Slack
  <2>1. todo # <<>> /\ Head(todo).op = "reloadQueue" /\ UNCHANGED <<now, unsafeUntil>>
    BY DEF ReloadQueue, Calling, envVars
  <2>2. Margin("reloadQueue") = 1
    BY DEF Margin, Choices
  <2> QED BY <2>1, <2>2, PlainDepth, CleanSlack
<1>4. Slack' = 3
  BY CleanSlack DEF ReloadQueue, CleanupExpiredCriteria, envVars
<1>5. \E first \in {<<>>, LayoutUpdated} : todo' = (first \o <<c>>) \o R
  BY DEF ReloadQueue
<1> HIDE DEF c, F, f, R
<1>6. PICK first \in {<<>>, LayoutUpdated} : todo' = (first \o <<c>>) \o R
  BY <1>5
<1>7. todo' = first \o Prefixed(c, R)
  <2> DEFINE o == <<c>>
  <2>1. o \in Seq(Calls) /\ Prefixed(c, R) = o \o R
    BY <1>2 DEF Prefixed
  <2>2. first \in Seq(Calls) /\ R \in Seq(Calls)
    BY <1>3, <1>6, SignalTypes, Zenon
  <2>3. todo' = (first \o o) \o R
    BY <1>6
  <2> HIDE DEF o
  <2>4. (first \o o) \o R = first \o (o \o R)
    BY <2>1, <2>2, ConcatAssociative
  <2> QED BY <2>1, <2>3, <2>4
<1>8. /\ Prefixed(c, R) \in Seq(Calls) /\ Len(Prefixed(c, R)) = Len(R) + 1
      /\ Fits(Prefixed(c, R), F, 3)
  <2>1. Fits(R, F, 3)
    BY <1>3, FitsGrows
  <2>2. Len(R) + 1 <= Room(c, F, 3)
    BY <1>2, <1>3
  <2> QED BY <1>2, <1>3, <2>1, <2>2, PushFits
<1>9. CASE first = <<>>
  <2>1. todo' = Prefixed(c, R)
    BY <1>7, <1>8, <1>9, ConcatEmptySeq
  <2> QED BY <1>3, <1>4, <1>8, <2>1 DEF DepthInv
<1>10. CASE first = LayoutUpdated
  <2>1. Len(Prefixed(c, R)) + 1 <= 3 * f + 2 + 3
    BY <1>3, <1>8
  <2>2. Fits(LayoutUpdated \o Prefixed(c, R), F, 3)
    BY <1>3, <1>8, <2>1, SignalFits DEF f
  <2> QED BY <1>3, <1>4, <1>7, <1>10, <2>2 DEF DepthInv
<1> QED BY <1>9, <1>10

(* An override that a trigger puts in place, and the fetch it makes.       *)
LEMMA ApplyFits ==
  ASSUME TypeOK, FailuresAreFlagged, Fits(Rest, Failed, Slack),
         Len(Rest) + 1 <= 3 * Cardinality(Failed) + 1 + Slack,
         UNCHANGED <<now, unsafeUntil>>,
         NEW id, NEW createdDt, NEW duration, ApplyLayoutOverride(id, createdDt, duration)
  PROVE  DepthInv'
<1>1. Failed' = Failed
  BY DEF Failed
<1>2. Slack' = Slack
  BY CleanSlack DEF ApplyLayoutOverride
<1>3. Rest \in Seq(Calls) /\ Len(Rest) \in Nat
  BY RestType DEF TypeOK
<1>4. Cardinality(Failed) \in Nat /\ IsFiniteSet(Failed) /\ Slack \in Nat
  BY FailedType
<1>5. Len(Rest) + 1 <= 3 * Cardinality(Failed) + 2 + Slack
  BY <1>3, <1>4
<1>6. Fits(LayoutUpdated \o Rest, Failed, Slack)
  BY <1>3, <1>4, <1>5, SignalFits
<1> QED BY <1>1, <1>2, <1>6 DEF DepthInv, ApplyLayoutOverride

(* A call that leads to one other, of no more room.                        *)
LEMMA OneFits ==
  ASSUME TypeOK, FailuresAreFlagged, DepthInv, todo # <<>>,
         Head(todo).op # "createOverlays",
         UNCHANGED <<now, unsafeUntil, criteria>>,
         NEW op \in Operations \ {"createOverlays"}, Margin(Head(todo).op) <= Margin(op),
         \/ todo' = Rest
         \/ todo' = <<Call(op, <<>>)>> \o Rest
  PROVE  DepthInv'
<1> DEFINE c == Call(op, <<>>)
           R == Rest
           m == Margin(Head(todo).op)
           n == Margin(op)
           f == Cardinality(Failed)
<1>1. /\ R \in Seq(Calls) /\ Len(R) \in Nat /\ Fits(R, Failed, Slack) /\ Failed' = Failed
      /\ f \in Nat /\ Slack \in Nat
      /\ Len(R) + 1 <= 3 * f + m + Slack
  BY PlainDepth
<1>2. Slack' = Slack
  BY CleanSlack
<1>3. c \in Calls /\ Room(c, Failed, Slack) = 3 * f + n + Slack
  <2>1. <<>> \in Seq(AnyId)
    OBVIOUS
  <2> QED BY <2>1, CallRoom
<1>4. m \in Nat /\ n \in Nat /\ m <= n
  BY DEF Margin
<1>5. todo' = R \/ todo' = Prefixed(c, R)
  BY DEF Prefixed
<1> HIDE DEF c, R, m, n, f
<1>6. Len(R) + 1 <= Room(c, Failed, Slack)
  BY <1>1, <1>3, <1>4
<1>7. CASE todo' = R
  BY <1>1, <1>2, <1>7 DEF DepthInv
<1>8. CASE todo' = Prefixed(c, R)
  BY <1>1, <1>2, <1>3, <1>6, <1>8, NextFits
<1> QED BY <1>5, <1>7, <1>8

(* The calls of the scheduler to itself.                                   *)
LEMMA SchedulerDepth ==
  ASSUME TypeOK, FailuresAreFlagged, RecursionInv, SchedulerCall
  PROVE  RecursionInv'
<1> USE DEF RecursionInv
<1>1. CASE ReloadQueue
  BY <1>1, ReloadLeavesFailed, ReloadFits
<1>2. UNCHANGED <<now, unsafeUntil>> /\ Failed' = Failed
  BY DEF SchedulerCall, ReloadQueue, UpdateCurrentOverlays, CurrentLayoutId,
         TriggerNextLayout, TriggerPreviousLayout, TriggerLayoutById, TriggerTo, envVars,
         Failed
<1>3. CASE UpdateCurrentOverlays
  <2>1. FailedNotQueued'
    BY <1>2, <1>3, StillNotQueued DEF UpdateCurrentOverlays, Calling, queueVars
  <2>2. \/ todo' = <<>> \o Rest
        \/ todo' = <<Call("fetchOverlays", <<>>)>> \o Rest
    BY <1>3 DEF UpdateCurrentOverlays, OverlaysUpdated
  <2>3. Rest \in Seq(Calls)
    BY RestType DEF TypeOK
  <2>4. <<>> \o Rest = Rest
    BY <2>3, ConcatEmptySeq
  <2>5. /\ "fetchOverlays" \in Operations \ {"createOverlays"}
        /\ Margin("updateCurrentOverlays") <= Margin("fetchOverlays")
    BY DEF Operations, Margin, Choices
  <2>6. /\ todo # <<>> /\ Head(todo).op = "updateCurrentOverlays"
        /\ UNCHANGED <<now, unsafeUntil, criteria>>
    BY <1>2, <1>3 DEF UpdateCurrentOverlays, Calling, overrideVars
  <2>7. DepthInv'
    BY <2>2, <2>4, <2>5, <2>6, OneFits
  <2> QED BY <2>1, <2>7
<1>4. CASE CurrentLayoutId
  <2>1. FailedNotQueued'
    BY <1>2, <1>4, StillNotQueued DEF CurrentLayoutId, Calling, queueVars
  <2>2. todo # <<>> /\ Head(todo).op = "currentLayoutId" /\ CleanupThen(<<>>)
    BY <1>4 DEF CurrentLayoutId, Calling
  <2>3. Margin("currentLayoutId") = 2
    BY DEF Margin, Choices
  <2>4. /\ Fits(Rest, Failed, Slack)
        /\ Len(Rest) + 1 <= 3 * Cardinality(Failed) + 2 + Slack
    BY <1>2, <2>2, <2>3, PlainDepth
  <2>5. "currentLayoutId" \in Operations \ {"createOverlays"} /\ <<>> \in Seq(AnyId)
    BY DEF Operations
  <2>6. DepthInv'
    BY <1>2, <2>2, <2>4, <2>5, CleanupFits
  <2> QED BY <2>1, <2>6
<1>5. ASSUME TriggerNextLayout \/ TriggerPreviousLayout \/ TriggerLayoutById
      PROVE  RecursionInv'
  <2>1. /\ todo # <<>>
        /\ Head(todo).op \in {"triggerNextLayout", "triggerPreviousLayout", "triggerLayoutById"}
        /\ overlayQueue' = overlayQueue
    BY <1>5 DEF TriggerNextLayout, TriggerPreviousLayout, TriggerLayoutById, TriggerTo,
                Calling, ApplyLayoutOverride
  <2>2. /\ regularQueue'.items = regularQueue.items
        /\ regularQueue'.defaultId = regularQueue.defaultId
    <3>1. \/ regularQueue' = regularQueue
          \/ regularQueue' \in {NextLayout(regularQueue), PreviousLayout(regularQueue)}
      BY <1>5 DEF TriggerNextLayout, TriggerPreviousLayout, TriggerLayoutById, TriggerTo
    <3>2. regularQueue \in Queue
      BY DEF TypeOK
    <3> QED BY <3>1, <3>2, CursorKeepsQueue
  <2>3. FailedNotQueued'
    BY <1>2, <2>1, <2>2, StillNotQueued DEF Calling
  <2>4. Margin(Head(todo).op) = 1
    BY <2>1 DEF Margin, Choices
  <2>5. /\ Fits(Rest, Failed, Slack)
        /\ Len(Rest) + 1 <= 3 * Cardinality(Failed) + 1 + Slack
    BY <1>2, <2>1, <2>4, PlainDepth
  <2>6. \/ todo' = Rest /\ criteria' = criteria
        \/ \E id : ApplyLayoutOverride(id, now, 0)
    BY <1>5 DEF TriggerNextLayout, TriggerPreviousLayout, TriggerLayoutById, TriggerTo,
                overrideVars
  <2>7. CASE todo' = Rest /\ criteria' = criteria
    BY <1>2, <2>3, <2>5, <2>7, CleanSlack DEF DepthInv
  <2>8. ASSUME NEW id, ApplyLayoutOverride(id, now, 0) PROVE DepthInv'
    BY <1>2, <2>5, <2>8, ApplyFits
  <2> QED BY <2>3, <2>6, <2>7, <2>8
<1> QED BY <1>1, <1>3, <1>4, <1>5 DEF SchedulerCall

(* The layout that nextLayout chooses has not failed.                      *)
LEMMA ChosenHasNotFailed ==
  ASSUME Inv, FailedNotQueued, Calling("createMainLayout")
  PROVE  NextId \notin Failed
<1>1. /\ \A l \in Elements(regularQueue.items) : l.id \notin Failed
      /\ regularQueue.defaultId \notin Failed
  BY DEF FailedNotQueued, Calling
<1>2. regularQueue \in Queue /\ CursorInside(regularQueue)
      /\ now \in Nat /\ unsafeUntil \in [LayoutIds -> Nat]
  BY DEF Inv, TypeOK, CursorInQueue
<1>3. CASE PlaysOverride
  <2>1. NextId = layoutOverride.id /\ LayoutValid(layoutOverride.id, {})
    BY <1>3 DEF NextId, PlaysOverride
  <2>2. ~(unsafeUntil[layoutOverride.id] > now)
    BY <1>2, <2>1 DEF LayoutValid
  <2> QED BY <2>1, <2>2 DEF Failed
<1>4. CASE ~PlaysOverride
  <2>1. NextId = NextLayout(regularQueue).currentId
    BY <1>4 DEF NextId, NextQueue
  <2>2. CASE regularQueue.items = <<>>
    <3>1. NextLayout(regularQueue).currentId = regularQueue.defaultId
      BY <1>2, <2>2 DEF NextLayout, Queue
    <3> QED BY <1>1, <2>1, <3>1
  <2>3. CASE regularQueue.items # <<>>
    <3> DEFINE i == regularQueue.nextIndex
    <3>1. i \in 1..Len(regularQueue.items)
      BY <1>2, <2>3 DEF CursorInside
    <3>2. regularQueue.items[i] \in Elements(regularQueue.items)
      <4>1. DOMAIN regularQueue.items = 1..Len(regularQueue.items)
        BY <1>2 DEF Queue
      <4> QED BY <3>1, <4>1 DEF Elements
    <3>3. NextLayout(regularQueue).currentId = regularQueue.items[i].id
      BY <1>2, <2>3 DEF NextLayout, Queue
    <3> QED BY <1>1, <2>1, <3>2, <3>3
  <2> QED BY <2>2, <2>3
<1> QED BY <1>3, <1>4

(* A reload that is pushed because a layout has failed.                    *)
LEMMA ReloadIsNext ==
  ASSUME NEW c \in Calls, NEW R \in Seq(Calls),
         todo' = <<Call("reloadQueue", <<>>), c>> \o R
  PROVE  /\ todo' = Prefixed(Call("reloadQueue", <<>>), Prefixed(c, R))
         /\ FailedNotQueued'
<1> DEFINE k == Call("reloadQueue", <<>>)
<1>1. k \in Calls /\ k.op = "reloadQueue"
  BY PlainCall DEF Operations
<1> HIDE DEF k
<1>2. todo' = Prefixed(k, Prefixed(c, R))
  <2>1. todo' = <<k, c>> \o R
    BY DEF k
  <2>2. TwoForms(k, c, R)
    BY <1>1, PushedForms
  <2> QED BY <2>1, <2>2 DEF TwoForms
<1>3. Prefixed(c, R) \in Seq(Calls)
  BY PushedElements
<1>4. todo' # <<>> /\ Head(todo') = k
  BY <1>1, <1>2, <1>3, PushedElements
<1>5. Calling("reloadQueue")'
  BY <1>1, <1>4 DEF Calling
<1> QED BY <1>2, <1>5 DEF k, FailedNotQueued

(* A failure makes room for the reload and for what follows it.            *)
LEMMA FailureFits ==
  ASSUME NEW c \in Calls, NEW R \in Seq(Calls), NEW F, IsFiniteSet(F), NEW e \in Nat,
         Fits(R, F, e), Len(R) + 1 <= Room(c, F, e), Len(R) + 2 <= 3 * Cardinality(F) + 1 + e
  PROVE  Fits(Prefixed(Call("reloadQueue", <<>>), Prefixed(c, R)), F, e)
<1> DEFINE k == Call("reloadQueue", <<>>)
<1>1. k \in Calls /\ Room(k, F, e) = 3 * Cardinality(F) + 1 + e
  BY ReloadRoom, Zenon
<1>2. Cardinality(F) \in Nat /\ Len(R) \in Nat
  BY FS_CardinalityType
<1> HIDE DEF k
<1>3. /\ Prefixed(c, R) \in Seq(Calls) /\ Len(Prefixed(c, R)) = Len(R) + 1
      /\ Fits(Prefixed(c, R), F, e)
  BY PushFits
<1>4. Len(Prefixed(c, R)) + 1 <= Room(k, F, e)
  BY <1>1, <1>2, <1>3
<1>5. Fits(Prefixed(k, Prefixed(c, R)), F, e)
  BY <1>1, <1>3, <1>4, PushFits
<1> QED BY <1>5 DEF k

(* The rest of fetchMainLayout: a layout that fails has not failed before. *)
LEMMA CreateMainDepth ==
  ASSUME Inv, FailuresAreFlagged, RecursionInv, CreateMainLayout
  PROVE  RecursionInv'
<1> USE DEF RecursionInv
<1>1. /\ Calling("createMainLayout") /\ criteria' = criteria /\ now' = now
      /\ overlayQueue' = overlayQueue /\ regularQueue' = NextQueue
  BY DEF CreateMainLayout, FlagUnsafe, envVars
<1>2. regularQueue'.items = regularQueue.items
      /\ regularQueue'.defaultId = regularQueue.defaultId
  <2>1. regularQueue \in Queue
    BY DEF Inv, TypeOK
  <2> QED BY <1>1, <2>1, CursorKeepsQueue DEF NextQueue
<1>3. ~Calling("reloadQueue") /\ todo # <<>> /\ Head(todo).op = "createMainLayout"
  BY <1>1 DEF Calling
<1>4. Slack' = Slack
  BY <1>1, CleanSlack
<1>5. TypeOK
  BY DEF Inv
<1> DEFINE R == Rest
           F == Failed
           f == Cardinality(Failed)
<1>6. /\ R \in Seq(Calls) /\ Len(R) \in Nat /\ Fits(R, F, Slack)
      /\ Len(R) + 1 <= 3 * f + 3 + Slack
      /\ f \in Nat /\ Slack \in Nat /\ IsFiniteSet(F)
  <2>1. /\ R \in Seq(Calls) /\ Head(todo) \in Calls /\ todo = Prefixed(Head(todo), R)
    BY <1>3, <1>5, HeadBeforeTail DEF TypeOK, Rest
  <2>2. Fits(R, F, Slack) /\ Len(R) + 1 <= Room(Head(todo), F, Slack)
    BY <2>1, PopFits DEF DepthInv
  <2>3. Margin("createMainLayout") = 3
    BY DEF Margin, Choices
  <2>4. Room(Head(todo), F, Slack) = 3 * f + 3 + Slack
    BY <1>3, <2>3, PlainRoom
  <2>5. Len(R) \in Nat
    BY <2>1
  <2> QED BY <2>1, <2>2, <2>4, <2>5, FailedType
<1>7. ASSUME todo' = Rest, Failed' = Failed PROVE RecursionInv'
  BY <1>2, <1>3, <1>1, <1>4, <1>6, <1>7, StillNotQueued DEF DepthInv
<1>8. CASE NextId = EmptyLayoutId
  <2>1. NextId \notin LayoutIds /\ NextId \notin Loadable
    BY <1>8, SchedulerAssumption DEF Loadable
  <2>2. todo' = Rest /\ UNCHANGED envVars
    BY <2>1 DEF CreateMainLayout
  <2>3. Failed' = Failed
    BY <2>2 DEF Failed, envVars
  <2> QED BY <1>7, <2>2, <2>3
<1>9. CASE NextId \in Loadable
  <2>1. NextId \in LayoutIds /\ NextId # EmptyLayoutId
    BY <1>9, SchedulerAssumption DEF Loadable
  <2>2. todo' = Rest /\ FlagUnsafe(NextId)
    BY <1>9, <2>1 DEF CreateMainLayout
  <2>3. Failed' = Failed
    BY <1>5, <1>9, <2>1, <2>2, FailureFlagged
  <2> QED BY <1>7, <2>2, <2>3
<1>10. CASE NextId \in LayoutIds \ Loadable
  <2> DEFINE m == Call("mainLayoutFailed", <<>>)
             G == F \cup {NextId}
  <2>1. NextId # EmptyLayoutId
    BY <1>10, SchedulerAssumption
  <2>2. /\ todo' = <<Call("reloadQueue", <<>>), m>> \o R
        /\ FlagUnsafe(NextId)
    BY <1>10, <2>1 DEF CreateMainLayout
  <2>3. Failed' = G
    BY <1>5, <1>10, <2>2, FailureFlagged
  <2>4. NextId \notin F
    BY <1>1, ChosenHasNotFailed
  <2>5. IsFiniteSet(G) /\ Cardinality(G) = f + 1
    BY <1>6, <2>4, FS_AddElement
  <2>6. m \in Calls /\ Room(m, G, Slack) = 3 * Cardinality(G) + 1 + Slack
    BY ReloadRoom, Zenon
  <2> HIDE DEF m, F, f, R
  <2>7. Fits(R, G, Slack)
    BY <1>6, <2>5, FitsGrows
  <2>8. /\ Len(R) + 1 <= Room(m, G, Slack)
        /\ Len(R) + 2 <= 3 * Cardinality(G) + 1 + Slack
    BY <1>6, <2>5, <2>6
  <2>9. /\ todo' = Prefixed(Call("reloadQueue", <<>>), Prefixed(m, R))
        /\ FailedNotQueued'
    BY <1>6, <2>2, <2>6, ReloadIsNext
  <2>10. Fits(Prefixed(Call("reloadQueue", <<>>), Prefixed(m, R)), G, Slack)
    BY <1>6, <2>5, <2>6, <2>7, <2>8, FailureFits
  <2> QED BY <1>4, <2>3, <2>9, <2>10 DEF DepthInv
<1> QED BY <1>8, <1>9, <1>10 DEF CreateMainLayout

(* A turn of the loop over the overlays.                                   *)
LEMMA TurnRoom ==
  ASSUME NEW c \in Calls, c.op = "createOverlays", c.ids # <<>>,
         NEW d \in Calls, d.op = "createOverlays", d.ids = Tail(c.ids),
         NEW F, IsFiniteSet(F), NEW e \in Nat
  PROVE  /\ Room(c, F, e) <= Room(d, F, e)
         /\ Room(c, F, e) <= 3 * Cardinality(F \cup {Head(c.ids)}) - 2 + e
<1> DEFINE h == Head(c.ids)
           B == F \ Elements(c.ids)
           D == F \ Elements(d.ids)
           G == F \cup {h}
<1>1. c.ids \in Seq(AnyId)
  BY DEF Calls
<1>2. Elements(c.ids) = {h} \cup Elements(d.ids)
  BY <1>1, TailElements
<1>3. B \subseteq D /\ B \cup {h} \subseteq G /\ h \notin B /\ B \subseteq F /\ D \subseteq F
  BY <1>2
<1>4. IsFiniteSet(G) /\ IsFiniteSet(B) /\ IsFiniteSet(D)
  BY <1>3, FS_AddElement, FS_Subset
<1>5. Cardinality(B) <= Cardinality(D)
  BY <1>3, <1>4, FS_Subset
<1>6. Cardinality(B) + 1 <= Cardinality(G)
  <2>1. IsFiniteSet(B \cup {h}) /\ Cardinality(B \cup {h}) = Cardinality(B) + 1
    BY <1>3, <1>4, FS_AddElement
  <2> HIDE DEF B, G, h
  <2>2. Cardinality(B \cup {h}) <= Cardinality(G)
    BY <1>3, <1>4, FS_Subset
  <2> QED BY <2>1, <2>2
<1>7. /\ Room(c, F, e) = 3 * Cardinality(B) + 1 + e
      /\ Room(d, F, e) = 3 * Cardinality(D) + 1 + e
  BY DEF Room, Behind, Margin, Choices
<1>8. Cardinality(B) \in Nat /\ Cardinality(D) \in Nat /\ Cardinality(G) \in Nat
  BY <1>4, FS_CardinalityType
<1> HIDE DEF B, D, G
<1>9. Room(c, F, e) <= Room(d, F, e) /\ Room(c, F, e) <= 3 * Cardinality(G) - 2 + e
  BY <1>5, <1>6, <1>7, <1>8, SMT
<1> QED BY <1>9 DEF G, h

(* fetchOverlays: a layout of its list that fails was not behind it.       *)
LEMMA CreateOverlaysDepth ==
  ASSUME TypeOK, FailuresAreFlagged, RecursionInv, CreateOverlays
  PROVE  RecursionInv'
<1> USE DEF RecursionInv
<1> DEFINE c == Head(todo)
           next == [c EXCEPT !.ids = Tail(@)]
           h == Head(c.ids)
           R == Rest
           F == Failed
<1>1. /\ ~Calling("reloadQueue") /\ todo # <<>> /\ c.op = "createOverlays"
      /\ UNCHANGED <<regularQueue, overlayQueue, criteria, now>>
  BY DEF CreateOverlays, Calling, queueVars, overrideVars, FlagUnsafe, envVars
<1>2. /\ c \in Calls /\ R \in Seq(Calls) /\ todo = Prefixed(c, R) /\ Len(R) \in Nat
  BY <1>1, HeadBeforeTail DEF TypeOK, Rest
<1>3. Fits(R, F, Slack) /\ Len(R) + 1 <= Room(c, F, Slack)
  BY <1>2, PopFits DEF DepthInv
<1>4. Slack' = Slack
  BY <1>1, CleanSlack
<1>5. /\ IsFiniteSet(F) /\ Slack \in Nat /\ IsFiniteSet(Failed')
      /\ Room(c, F, Slack) \in Nat
  BY FailedType, RoomGrows
<1>6. c.ids \in Seq(AnyId) /\ c.views \subseteq LayoutIds
  <2> HIDE DEF c
  <2> QED BY <1>2 DEF Calls
<1>7. ASSUME Failed' = F PROVE FailedNotQueued'
  BY <1>1, <1>7, StillNotQueued
<1>8. CASE c.ids = <<>>
  <2>1. todo' = R /\ UNCHANGED envVars
    BY <1>8 DEF CreateOverlays
  <2>2. Failed' = F
    BY <2>1 DEF Failed, envVars
  <2> QED BY <1>3, <1>4, <1>7, <2>1, <2>2 DEF DepthInv
<1>9. ASSUME c.ids # <<>>
      PROVE  /\ next \in Calls /\ next.op = "createOverlays" /\ next.ids = Tail(c.ids)
             /\ next.views = c.views
  <2>1. Tail(c.ids) \in Seq(AnyId)
    BY <1>6, <1>9
  <2> HIDE DEF c
  <2> QED BY <1>1, <1>2, <2>1 DEF Calls
<1>10. CASE c.ids # <<>> /\ h \in Loadable
  <2> DEFINE d == [next EXCEPT !.views = @ \cup {h}]
  <2>1. todo' = Prefixed(d, R) /\ FlagUnsafe(h) /\ h \in LayoutIds
    BY <1>10 DEF CreateOverlays, Prefixed, Loadable
  <2>2. Failed' = F
    BY <1>10, <2>1, FailureFlagged
  <2>3. d \in Calls /\ d.op = "createOverlays" /\ d.ids = Tail(c.ids)
    <3> HIDE DEF next, h, c
    <3> QED BY <1>6, <1>9, <1>10, <2>1 DEF Calls
  <2> HIDE DEF d, c, R, F
  <2>4. Room(c, F, Slack) <= Room(d, F, Slack)
    BY <1>1, <1>2, <1>5, <1>10, <2>3, TurnRoom
  <2>5. Room(d, F, Slack) \in Nat
    BY <1>5, RoomGrows
  <2>6. Len(R) + 1 <= Room(d, F, Slack)
    BY <1>2, <1>3, <1>5, <2>4, <2>5
  <2>7. DepthInv'
    BY <1>2, <1>3, <1>4, <2>1, <2>2, <2>3, <2>6, NextFits
  <2> QED BY <1>7, <2>2, <2>7
<1>11. CASE c.ids # <<>> /\ h \in LayoutIds \ Loadable
  <2> DEFINE G == F \cup {h}
  <2>1. todo' = <<Call("reloadQueue", <<>>), next>> \o R /\ FlagUnsafe(h)
    BY <1>11 DEF CreateOverlays
  <2>2. Failed' = G
    BY <1>11, <2>1, FailureFlagged
  <2> HIDE DEF next, R, F, c
  <2>3. IsFiniteSet(G) /\ F \subseteq G /\ Cardinality(G) \in Nat
    BY <1>5, FS_AddElement, FS_CardinalityType
  <2>4. /\ Room(c, F, Slack) <= Room(next, F, Slack)
        /\ Room(c, F, Slack) <= 3 * Cardinality(G) - 2 + Slack
    BY <1>1, <1>2, <1>5, <1>9, <1>11, TurnRoom
  <2>5. /\ Room(next, F, Slack) \in Nat /\ Room(next, G, Slack) \in Nat
        /\ Room(next, F, Slack) <= Room(next, G, Slack)
    BY <1>5, <2>3, RoomGrows
  <2> HIDE DEF G
  <2>6. Fits(R, G, Slack)
    BY <1>2, <1>3, <1>5, <2>3, FitsGrows
  <2>7. /\ Len(R) + 1 <= Room(next, G, Slack)
        /\ Len(R) + 2 <= 3 * Cardinality(G) + 1 + Slack
    BY <1>2, <1>3, <1>5, <2>3, <2>4, <2>5, SMT
  <2>8. /\ todo' = Prefixed(Call("reloadQueue", <<>>), Prefixed(next, R))
        /\ FailedNotQueued'
    BY <1>2, <1>9, <1>11, <2>1, ReloadIsNext
  <2>9. Fits(Prefixed(Call("reloadQueue", <<>>), Prefixed(next, R)), G, Slack)
    BY <1>2, <1>5, <1>9, <1>11, <2>3, <2>6, <2>7, FailureFits
  <2> QED BY <1>4, <2>2, <2>8, <2>9 DEF DepthInv
<1> QED BY <1>8, <1>10, <1>11 DEF CreateOverlays

(* The list of overlays has none that has failed.                          *)
LEMMA ListHasNotFailed ==
  ASSUME TypeOK, FailedNotQueued, ~Calling("reloadQueue"), NEW valid,
         \A id \in valid : id \notin Failed
  PROVE  LET ids == AddMissing(Ids(overlayQueue), Keep(Ids(overlayOverrides), valid))
         IN  ids \in Seq(AnyId) /\ \A id \in Elements(ids) : id \notin Failed
<1> DEFINE a == Ids(overlayQueue)
           b == Keep(Ids(overlayOverrides), valid)
           more == Keep(b, Elements(b) \ Elements(a))
<1>1. a \in Seq(AnyId) /\ b \in Seq(AnyId) /\ Elements(b) \subseteq valid
  <2>1. a \in Seq(AnyId) /\ Ids(overlayOverrides) \in Seq(AnyId)
    BY IdsType DEF TypeOK
  <2> QED BY <2>1, KeepType
<1>2. \A id \in Elements(a) : id \notin Failed
  <2> SUFFICES ASSUME NEW i \in DOMAIN a PROVE a[i] \notin Failed
    BY DEF Elements
  <2>1. i \in DOMAIN overlayQueue /\ a[i] = overlayQueue[i].id
    BY DEF Ids, TypeOK
  <2>2. overlayQueue[i] \in Elements(overlayQueue)
    BY <2>1 DEF Elements
  <2> QED BY <2>1, <2>2 DEF FailedNotQueued
<1> HIDE DEF a, b
<1>3. more \in Seq(AnyId) /\ Elements(more) \subseteq Elements(b)
  BY <1>1, KeepType
<1> HIDE DEF more
<1>4. a \o more \in Seq(AnyId) /\ Elements(a \o more) = Elements(a) \cup Elements(more)
  BY <1>1, <1>3, ConcatElements
<1>5. AddMissing(a, b) = a \o more
  BY DEF AddMissing, more
<1>6. \A id \in Elements(a \o more) : id \notin Failed
  BY <1>1, <1>2, <1>3, <1>4, Zenon
<1> QED BY <1>4, <1>5, <1>6 DEF a, b

(* overlayLayouts: nothing of its list has failed yet.                     *)
LEMMA ListDepth ==
  ASSUME TypeOK, FailuresAreFlagged, RecursionInv, ListOverlays
  PROVE  RecursionInv'
<1> USE DEF RecursionInv
<1> DEFINE valid == {id \in LayoutIds : LayoutValid(id, {})}
           ids == AddMissing(Ids(overlayQueue), Keep(Ids(overlayOverrides), valid))
           c == Call("createOverlays", ids)
           R == Rest
           F == Failed
<1>1. /\ ~Calling("reloadQueue") /\ todo # <<>> /\ Head(todo).op = "listOverlays"
      /\ UNCHANGED <<regularQueue, overlayQueue, criteria, now, unsafeUntil>>
  BY DEF ListOverlays, Calling, queueVars, overrideVars, envVars
<1>2. \A id \in valid : id \notin F
  <2>1. now \in Nat /\ unsafeUntil \in [LayoutIds -> Nat]
    BY DEF TypeOK
  <2> QED BY <2>1 DEF LayoutValid, Failed
<1>3. todo' = Prefixed(c, R)
  BY DEF ListOverlays, Prefixed
<1>4. ids \in Seq(AnyId) /\ \A id \in Elements(ids) : id \notin F
  <2> HIDE DEF valid
  <2> QED BY <1>1, <1>2, ListHasNotFailed
<1> HIDE DEF ids
<1>5. c \in Calls /\ c.op = "createOverlays" /\ c.ids = ids
  BY <1>4, CallType DEF Operations, Call
<1>6. Margin("listOverlays") = 1 /\ Margin("createOverlays") = 1
  BY DEF Margin, Choices
<1> HIDE DEF c
<1>7. Room(c, F, Slack) = 3 * Cardinality(F) + 1 + Slack
  <2>1. Behind(c, F) = F
    BY <1>4, <1>5 DEF Behind
  <2> QED BY <1>5, <1>6, <2>1 DEF Room
<1>8. /\ R \in Seq(Calls) /\ Fits(R, F, Slack) /\ Failed' = F
      /\ Len(R) + 1 <= 3 * Cardinality(F) + 1 + Slack
  BY <1>1, <1>6, PlainDepth
<1>9. Slack' = Slack
  BY <1>1, CleanSlack
<1>10. DepthInv'
  <2> HIDE DEF F, R
  <2> QED BY <1>3, <1>5, <1>7, <1>8, <1>9, NextFits
<1>11. FailedNotQueued'
  BY <1>1, <1>8, StillNotQueued
<1> QED BY <1>10, <1>11

(* The beginnings of the fetches, and the end of one that failed.          *)
LEMMA FetchDepth ==
  ASSUME TypeOK, FailuresAreFlagged, RecursionInv,
         FetchMainLayout \/ FetchOverlays \/ MainLayoutFailed
  PROVE  RecursionInv'
<1> USE DEF RecursionInv
<1>1. /\ ~Calling("reloadQueue") /\ todo # <<>>
      /\ Head(todo).op \in {"fetchMainLayout", "fetchOverlays", "mainLayoutFailed"}
      /\ UNCHANGED <<regularQueue, overlayQueue, now, unsafeUntil>>
  BY DEF FetchMainLayout, FetchOverlays, MainLayoutFailed, Calling, queueVars, envVars
<1>2. /\ Failed' = Failed /\ Fits(Rest, Failed, Slack)
      /\ Len(Rest) + 1 <= 3 * Cardinality(Failed) + Margin(Head(todo).op) + Slack
  BY <1>1, PlainDepth
<1>3. FailedNotQueued'
  BY <1>1, <1>2, StillNotQueued
<1>4. /\ {"createMainLayout", "listOverlays"} \subseteq Operations \ {"createOverlays"}
      /\ <<>> \in Seq(AnyId)
      /\ Margin("fetchMainLayout") = Margin("createMainLayout")
      /\ Margin("fetchOverlays") = Margin("listOverlays")
  BY DEF Operations, Margin, Choices
<1>5. CASE FetchMainLayout
  <2>1. CleanupThen(<<Call("createMainLayout", <<>>)>>) /\ Head(todo).op = "fetchMainLayout"
    BY <1>5 DEF FetchMainLayout, Calling
  <2> QED BY <1>1, <1>2, <1>3, <1>4, <2>1, CleanupFits
<1>6. CASE FetchOverlays
  <2>1. CleanupThen(<<Call("listOverlays", <<>>)>>) /\ Head(todo).op = "fetchOverlays"
    BY <1>6 DEF FetchOverlays, Calling
  <2> QED BY <1>1, <1>2, <1>3, <1>4, <2>1, CleanupFits
<1>7. CASE MainLayoutFailed
  <2>1. todo' = Rest /\ criteria' = criteria
    BY <1>7 DEF MainLayoutFailed, overrideVars
  <2>2. Slack' = Slack
    BY <1>1, <2>1, CleanSlack
  <2> QED BY <1>2, <1>3, <2>1, <2>2 DEF DepthInv
<1> QED BY <1>5, <1>6, <1>7

(* What an event begins with fits.                                         *)
LEMMA EventFits ==
  ASSUME NEW F, IsFiniteSet(F), NEW e \in Nat
  PROVE  /\ \A op \in Operations \ {"createOverlays"} :
              /\ <<Call(op, <<>>)>> \in Seq(Calls) /\ Fits(<<Call(op, <<>>)>>, F, e)
              /\ e = 3 => Fits(Prefixed(Call("reloadQueue", <<>>), <<Call(op, <<>>)>>), F, e)
         /\ \A r \in {<<>>, OverlaysUpdated} :
              Fits(<<>> \o r, F, e) /\ Fits(LayoutUpdated \o r, F, e)
<1>1. Cardinality(F) \in Nat
  BY FS_CardinalityType
<1>2. <<>> \in Seq(AnyId) /\ <<>> \in Seq(Calls) /\ Len(<<>>) = 0 /\ Fits(<<>>, F, e)
  BY DEF Fits
<1>3. ASSUME NEW op \in Operations \ {"createOverlays"}
      PROVE  /\ <<Call(op, <<>>)>> \in Seq(Calls) /\ Len(<<Call(op, <<>>)>>) = 1
             /\ Fits(<<Call(op, <<>>)>>, F, e)
             /\ e = 3 => Fits(Prefixed(Call("reloadQueue", <<>>), <<Call(op, <<>>)>>), F, e)
  <2> DEFINE c == Call(op, <<>>)
             k == Call("reloadQueue", <<>>)
             o == <<c>>
  <2>1. c \in Calls /\ Room(c, F, e) = 3 * Cardinality(F) + Margin(op) + e
    BY <1>2, CallRoom, Zenon
  <2>2. k \in Calls /\ Room(k, F, e) = 3 * Cardinality(F) + 1 + e
    BY ReloadRoom, Zenon
  <2>3. Margin(op) \in 1..3
    BY DEF Margin
  <2> HIDE DEF c, k
  <2>4. o = Prefixed(c, <<>>)
    BY <2>1, OneElement
  <2>5. Len(<<>>) + 1 <= Room(c, F, e)
    BY <1>1, <1>2, <2>1, <2>3
  <2>6. o \in Seq(Calls) /\ Len(o) = 1 /\ Fits(o, F, e)
    <3>1. Prefixed(c, <<>>) \in Seq(Calls) /\ Fits(Prefixed(c, <<>>), F, e)
      BY <1>2, <2>1, <2>5, PushFits
    <3>2. Len(o) = 1
      OBVIOUS
    <3> HIDE DEF o
    <3> QED BY <2>4, <3>1, <3>2
  <2> HIDE DEF o
  <2>7. ASSUME e = 3 PROVE Fits(Prefixed(k, o), F, e)
    <3>1. Len(o) + 1 <= Room(k, F, e)
      BY <1>1, <2>2, <2>6, <2>7
    <3> QED BY <2>2, <2>6, <3>1, PushFits
  <2>8. o \in Seq(Calls) /\ Len(o) = 1 /\ Fits(o, F, e) /\ (e = 3 => Fits(Prefixed(k, o), F, e))
    BY <2>6, <2>7
  <2> QED BY <2>8 DEF o, c, k
<1>4. ASSUME NEW r \in {<<>>, OverlaysUpdated}
      PROVE  Fits(<<>> \o r, F, e) /\ Fits(LayoutUpdated \o r, F, e)
  <2>1. "fetchOverlays" \in Operations \ {"createOverlays"}
    BY DEF Operations
  <2>2. /\ OverlaysUpdated \in Seq(Calls) /\ Len(OverlaysUpdated) = 1
        /\ Fits(OverlaysUpdated, F, e)
    BY <1>3, <2>1 DEF OverlaysUpdated
  <2>3. r \in Seq(Calls) /\ Len(r) \in 0..1 /\ Fits(r, F, e)
    <3>1. CASE r = <<>>
      BY <1>2, <3>1
    <3>2. CASE r = OverlaysUpdated
      BY <2>2, <3>2
    <3> QED BY <3>1, <3>2
  <2>4. <<>> \o r = r
    BY <2>3, ConcatEmptySeq
  <2> DEFINE n == Len(r)
             f == Cardinality(F)
  <2>5. n \in 0..1 /\ f \in Nat
    BY <1>1, <2>3
  <2> HIDE DEF n, f
  <2>6. n + 1 <= 3 * f + 2 + e
    BY <2>5
  <2> QED BY <2>3, <2>4, <2>6, SignalFits DEF n, f
<1> QED BY <1>3, <1>4

(* The events keep the queues, and begin with few calls.                   *)
LEMMA EventDepth ==
  ASSUME TypeOK, FailuresAreFlagged, RecursionInv,
         ScheduleEvent \/ MainLayoutExpired \/ OverrideRequest
  PROVE  RecursionInv'
<1> USE DEF RecursionInv
<1>1. ASSUME NEW file, FileSaved(file) PROVE RecursionInv'
  BY <1>1 DEF FileSaved, queueVars, overrideVars, FailedNotQueued, DepthInv, Failed, Slack,
              LiveCriteria, Calling
<1>2. ASSUME ~\E file : FileSaved(file) PROVE RecursionInv'
  <2>1. Idle
    BY <1>2 DEF ScheduleEvent, ReloadSchedule, AddOrReplaceCriteria, Status, TimerFires, Tick,
                FilesDownloaded, MainLayoutExpired, OverrideRequest, ChangeLayout,
                AddOverlayOverride, ClearOverrides, Trigger, PurgeAll, Request
  <2>2. /\ regularQueue' = regularQueue /\ overlayQueue' = overlayQueue
        /\ unsafeUntil' = unsafeUntil
        /\ now' = now \/ Tick
    BY <1>2
       DEF ScheduleEvent, ReloadSchedule, AddOrReplaceCriteria, Status, TimerFires, Tick,
           FilesDownloaded, MainLayoutExpired, OverrideRequest, ChangeLayout,
           AddOverlayOverride, ClearOverrides, Trigger, PurgeAll, Request, queueVars, envVars,
           ApplyLayoutOverride
  <2>3. Failed' \subseteq Failed
    <3>1. now \in Nat /\ unsafeUntil \in [LayoutIds -> Nat] /\ (now' = now \/ now' = now + 1)
      BY <2>2 DEF Tick, TypeOK
    <3>2. Unloadable \subseteq LayoutIds
      BY DEF Unloadable
    <3>3. \A id \in Unloadable : unsafeUntil'[id] > now' => unsafeUntil[id] > now
      BY <2>2, <3>1, <3>2
    <3> QED BY <3>3 DEF Failed
  <2>4. ~Calling("reloadQueue")
    BY <2>1 DEF Idle, Calling
  <2>5. FailedNotQueued'
    BY <2>2, <2>3, <2>4, StillNotQueued
  <2>6. IsFiniteSet(Failed') /\ Slack' \in Nat /\ IsFiniteSet(Failed) /\ Slack \in Nat
        /\ Cardinality(Failed) \in Nat
    BY FailedType
  <2>7. Rest \in Seq(Calls) /\ Len(Rest) = 0 /\ Fits(Rest, Failed, Slack) /\ Rest = <<>>
    BY <2>1, IdleFits
  <2>8. /\ {"reloadQueue", "fetchMainLayout", "currentLayoutId", "fetchOverlays",
            "triggerNextLayout", "triggerPreviousLayout", "triggerLayoutById"}
             \subseteq Operations \ {"createOverlays"}
        /\ <<>> \in Seq(AnyId)
        /\ \A id \in OverrideIds : <<id>> \in Seq(AnyId)
    BY SchedulerAssumption DEF Operations, AnyId
  <2>9. ASSUME NEW op \in Operations \ {"createOverlays"}, todo' = <<Call(op, <<>>)>>
        PROVE  DepthInv'
    BY <2>6, <2>9, EventFits DEF DepthInv
  <2>10. CASE \/ \E s \in Schedules : ReloadSchedule(s)
              \/ \E m \in Metrics, v \in Values, ttl \in Ttls : AddOrReplaceCriteria(m, v, ttl)
              \/ TimerFires \/ FilesDownloaded \/ PurgeAll
    <3>1. todo' = <<Call("reloadQueue", <<>>)>>
      BY <2>10 DEF ReloadSchedule, AddOrReplaceCriteria, TimerFires, FilesDownloaded, PurgeAll
    <3> QED BY <2>5, <2>8, <2>9, <3>1
  <2>11. CASE MainLayoutExpired
    <3>1. todo' = <<Call("fetchMainLayout", <<>>)>>
      BY <2>11 DEF MainLayoutExpired
    <3> QED BY <2>5, <2>8, <2>9, <3>1
  <2>12. CASE \E id \in OverrideIds, delay \in Delays, duration \in Durations :
                AddOverlayOverride(id, delay, duration)
    <3>1. todo' = <<Call("fetchOverlays", <<>>)>>
      BY <2>12 DEF AddOverlayOverride, OverlaysUpdated
    <3> QED BY <2>5, <2>8, <2>9, <3>1
  <2>13. CASE Tick
    <3>1. todo' = <<>>
      BY <2>1, <2>13 DEF Tick, Idle
    <3> QED BY <2>5, <3>1 DEF DepthInv, Fits
  <2>14. CASE Status
    <3> DEFINE k == Call("reloadQueue", <<>>)
               c == Call("currentLayoutId", <<>>)
    <3>1. /\ todo' = <<>> \o <<c>> \/ todo' = <<k>> \o <<c>>
          /\ criteria' = LiveCriteria /\ now' = now
      BY <2>14 DEF Status, Request
    <3>2. Slack' = 3
      BY <3>1, CleanSlack
    <3>3. c \in Calls /\ k \in Calls
      BY <2>8, CallRoom
    <3>4. Fits(<<c>>, Failed', Slack') /\ Fits(Prefixed(k, <<c>>), Failed', Slack')
      BY <2>6, <2>8, <3>2, EventFits
    <3> HIDE DEF k, c
    <3>5. <<>> \o <<c>> = <<c>> /\ <<k>> \o <<c>> = Prefixed(k, <<c>>)
      BY <3>3, OneElement DEF Prefixed
    <3> QED BY <2>5, <3>1, <3>4, <3>5 DEF DepthInv
  <2>15. ASSUME NEW id \in OverrideIds, NEW delay \in Delays, NEW duration \in Durations,
                ChangeLayout(id, delay, duration)
         PROVE  DepthInv'
    <3>1. /\ ApplyLayoutOverride(id, Created(delay), duration)
          /\ UNCHANGED <<now, unsafeUntil>>
      BY <2>15 DEF ChangeLayout, Request
    <3>2. Len(Rest) + 1 <= 3 * Cardinality(Failed) + 1 + Slack
      BY <2>6, <2>7
    <3> QED BY <2>7, <3>1, <3>2, ApplyFits
  <2>16. CASE ClearOverrides
    <3>1. PICK r \in {<<>>, OverlaysUpdated} :
            todo' = <<>> \o r \/ todo' = LayoutUpdated \o r
      BY <2>16 DEF ClearOverrides
    <3>2. Fits(<<>> \o r, Failed', Slack') /\ Fits(LayoutUpdated \o r, Failed', Slack')
      BY <2>6, EventFits
    <3> QED BY <2>5, <3>1, <3>2 DEF DepthInv
  <2>17. ASSUME NEW op \in Operations \ {"createOverlays"}, NEW ids \in Seq(AnyId),
                Trigger(op, ids)
         PROVE  DepthInv'
    <3>1. CleanupThen(<<Call(op, ids)>>) /\ UNCHANGED <<now, unsafeUntil>>
      BY <2>17 DEF Trigger, Request
    <3>2. Len(Rest) + 1 <= 3 * Cardinality(Failed) + Margin(op) + Slack
      <4>1. Margin(op) \in 1..3
        BY DEF Margin
      <4> QED BY <2>6, <2>7, <4>1
    <3> QED BY <2>7, <3>1, <3>2, CleanupFits
  <2>18. CASE ScheduleEvent
    BY <1>2, <2>10, <2>13, <2>14, <2>18 DEF ScheduleEvent
  <2>19. CASE OverrideRequest
    BY <2>5, <2>8, <2>10, <2>12, <2>15, <2>16, <2>17, <2>19 DEF OverrideRequest
  <2> QED BY <2>11, <2>18, <2>19
<1> QED BY <1>1, <1>2

(* Every step keeps the calls within their room.                           *)
LEMMA DepthNext ==
  ASSUME Inv, FailuresAreFlagged, RecursionInv, [Next]_vars
  PROVE  RecursionInv'
<1>1. TypeOK
  BY DEF Inv
<1>2. CASE PendingCall
  BY <1>1, <1>2, SchedulerDepth, CreateMainDepth, CreateOverlaysDepth, ListDepth, FetchDepth
     DEF PendingCall
<1>3. CASE Routine \/ OverrideRequest
  BY <1>1, <1>3, EventDepth DEF Routine
<1>4. CASE UNCHANGED vars
  BY <1>4 DEF vars, schedulerVars, RecursionInv, FailedNotQueued, DepthInv, Failed, Slack,
              LiveCriteria, Calling
<1> QED BY <1>2, <1>3, <1>4 DEF Next

(* The room of the first call bounds the calls that are pending.           *)
LEMMA DepthBounds ==
  ASSUME TypeOK, FailuresAreFlagged, DepthInv
  PROVE  BoundedRecursion
<1>1. /\ IsFiniteSet(Failed) /\ Slack \in Nat /\ Slack <= 3
      /\ Cardinality(Failed) <= Cardinality(Unloadable)
      /\ Cardinality(Failed) \in Nat /\ Cardinality(Unloadable) \in Nat
  BY FailedType
<1>2. Len(todo) \in Nat /\ MaxDepth \in Nat /\ MaxDepth >= 3 * Cardinality(Unloadable) + 6
  BY LayoutsManagerAssumption DEF TypeOK, FailuresAreFlagged
<1>3. CASE Len(todo) = 0
  BY <1>2, <1>3 DEF BoundedRecursion
<1>4. CASE Len(todo) # 0
  <2>1. 1 \in 1..Len(todo) /\ Len(todo) + 1 - 1 = Len(todo)
    BY <1>2, <1>4
  <2>2. Len(todo) <= Room(todo[1], Failed, Slack)
    BY <2>1 DEF DepthInv, Fits
  <2>3. /\ Room(todo[1], Failed, Slack) \in Nat
        /\ Room(todo[1], Failed, Slack) <= 3 * Cardinality(Failed) + 3 + Slack
    BY <1>1, RoomGrows
  <2> QED BY <1>1, <1>2, <2>2, <2>3, SMT DEF BoundedRecursion
<1> QED BY <1>3, <1>4

(* fetchMainLayout, fetchOverlays and reloadQueue: however the calls nest, *)
(* at most three of them are pending for each layout that can fail, and    *)
(* six more; a layout that fails is flagged, and not tried again.          *)
THEOREM RecursionEnds ==
  ASSUME FailuresAreFlagged
  PROVE  Spec => []BoundedRecursion
<1>1. Init => RecursionInv
  <2> SUFFICES ASSUME Init PROVE RecursionInv
    OBVIOUS
  <2>1. Calling("reloadQueue")
    BY DEF Init, SchedulerInit, Calling, Call
  <2>2. "reloadQueue" \in Operations \ {"createOverlays"} /\ todo = <<Call("reloadQueue", <<>>)>>
    BY DEF Init, SchedulerInit, Operations
  <2>3. DepthInv
    BY <2>2, FailedType, EventFits DEF DepthInv
  <2> QED BY <2>1, <2>3 DEF RecursionInv, FailedNotQueued
<1>2. Inv /\ RecursionInv /\ [Next]_vars => RecursionInv'
  BY DepthNext
<1>3. Inv /\ RecursionInv => BoundedRecursion
  BY DepthBounds DEF Inv, RecursionInv
<1> QED BY InitInv, NextInv, <1>1, <1>2, <1>3, PTL DEF Spec
=============================================================================
