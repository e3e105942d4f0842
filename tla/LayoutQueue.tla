---------------------------- MODULE LayoutQueue ----------------------------
(***************************************************************************)
(* The layout queues of src/player/schedule: the vector of scheduled       *)
(* layouts that LayoutQueue fills, and the cursor that RegularLayoutQueue  *)
(* adds to it.  A queue object is a value here, and a method that changes  *)
(* (possibly mutable) members is an operator that returns the new value.   *)
(*                                                                         *)
(* A layout is a record with at least an id and a priority.  Indices start *)
(* at 1 where the code's start at 0.                                       *)
(***************************************************************************)
EXTENDS Selection

EmptyLayoutId   == 0
FirstItemIndex  == 1
DefaultPriority == 0

-----------------------------------------------------------------------------
(* LayoutQueue                                                             *)

HighestPriority(items) ==
  IF items = <<>> THEN DefaultPriority ELSE items[FirstItemIndex].priority

(* A fault to be caught: <= where the code has <.                          *)
AddDropsEqual(items, layout) ==
  IF items # <<>> /\ layout.priority <= HighestPriority(items) THEN items ELSE <<layout>>

(* A layout of a higher priority empties the queue first, one of a lower   *)
(* priority is dropped.                                                    *)
Add(items, layout) ==
  IF layout.priority < HighestPriority(items) THEN items
  ELSE IF layout.priority > HighestPriority(items) THEN <<layout>>
  ELSE Append(items, layout)

(* The loop of Scheduler::regularQueueFrom and overlayQueueFrom: the       *)
(* playable layouts of a schedule are added in the schedule's order.       *)
QueueItems(layouts, playable) ==
  LET queue[n \in 0..Len(layouts)] ==
        IF n = 0 THEN <<>>
        ELSE IF layouts[n] \in playable THEN Add(queue[n - 1], layouts[n])
        ELSE queue[n - 1]
  IN  queue[Len(layouts)]

(* OverlayLayoutQueue::overlays                                            *)
Ids(items) == [i \in 1..Len(items) |-> items[i].id]

-----------------------------------------------------------------------------
(* RegularLayoutQueue.  defaultId is EmptyLayoutId when defaultLayout_ is  *)
(* not set.                                                                *)

NewQueue(items, defaultId) ==
  [items |-> items, defaultId |-> defaultId,
   nextIndex |-> FirstItemIndex, currentId |-> EmptyLayoutId]

(* Faults to be caught: the index wraps late, or to one before the first.  *)
IncreaseIndexLate(q, index) ==
  IF index > Len(q.items) THEN FirstItemIndex ELSE index + 1

IncreaseIndexToZero(q, index) ==
  IF index + 1 > Len(q.items) THEN 0 ELSE index + 1

IncreaseIndex(q, index) ==
  IF index + 1 > Len(q.items) THEN FirstItemIndex ELSE index + 1

Indices(q, id) == {i \in 1..Len(q.items) : q.items[i].id = id}

(* The first index with this id, for an id that is in the queue.           *)
LayoutIndexBy(q, id) ==
  CHOOSE i \in Indices(q, id) : \A j \in Indices(q, id) : i <= j

(* A fault to be caught: the default layout counts in a queue with others. *)
InQueueOrDefault(q, id) ==
  Indices(q, id) # {} \/ q.defaultId = id

InQueue(q, id) ==
  IF q.items # <<>> THEN Indices(q, id) # {}
  ELSE q.defaultId # EmptyLayoutId /\ q.defaultId = id

(* A fault to be caught: the place in the queue is lost.                   *)
UpdateCurrentKeepsFirst(q, id) ==
  IF Indices(q, id) # {} \/ q.defaultId = id THEN [q EXCEPT !.currentId = id] ELSE q

UpdateCurrent(q, id) ==
  IF Indices(q, id) # {}
  THEN [q EXCEPT !.nextIndex = IncreaseIndex(q, LayoutIndexBy(q, id)),
                 !.currentId = id]
  ELSE IF q.defaultId = id THEN [q EXCEPT !.currentId = id]
  ELSE q

(* The methods next and previous return the currentId of the new value.    *)
NextLayout(q) ==
  IF q.items = <<>> THEN [q EXCEPT !.currentId = q.defaultId]
  ELSE [q EXCEPT !.currentId = q.items[q.nextIndex].id,
                 !.nextIndex = IncreaseIndex(q, q.nextIndex)]

PreviousIndex(q) ==
  LET current == IF Indices(q, q.currentId) = {} THEN FirstItemIndex
                 ELSE LayoutIndexBy(q, q.currentId)
  IN  IF current = FirstItemIndex THEN Len(q.items) ELSE current - 1

PreviousLayout(q) ==
  IF q.items = <<>> THEN [q EXCEPT !.currentId = q.defaultId]
  ELSE [q EXCEPT !.currentId = q.items[PreviousIndex(q)].id,
                 !.nextIndex = IncreaseIndex(q, PreviousIndex(q))]
=============================================================================
