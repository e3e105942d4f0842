------------------------- MODULE LayoutQueue_proofs -------------------------
(***************************************************************************)
(* Facts about the operators of LayoutQueue.  QueueItems is a recursive    *)
(* function like Keep of Selection, and so are the steps of its proofs.    *)
(***************************************************************************)
EXTENDS LayoutQueue, Selection_proofs

(* LayoutQueue::add puts no other layout into the queue.                  *)
LEMMA AddType ==
  ASSUME NEW U, NEW items \in Seq(U), NEW layout \in U
  PROVE  Add(items, layout) \in Seq(U)
<1>1. <<layout>> \in Seq(U) /\ Append(items, layout) \in Seq(U)
  OBVIOUS
<1> QED BY <1>1 DEF Add

(* The steps of QueueItems: the queue after the first n layouts.           *)
QueueSteps(U, layouts, S, queue) ==
  /\ queue \in [0..Len(layouts) -> Seq(U)]
  /\ QueueItems(layouts, S) = queue[Len(layouts)]
  /\ queue[0] = <<>>
  /\ \A n \in 1..Len(layouts) :
       queue[n] = IF layouts[n] \in S THEN Add(queue[n - 1], layouts[n])
                  ELSE queue[n - 1]

HasQueueSteps(U, layouts, S) == \E queue : QueueSteps(U, layouts, S, queue)

(* QueueItems, a recursive function, takes these steps.                    *)
LEMMA QueueItemsSteps ==
  ASSUME NEW U, NEW layouts \in Seq(U), NEW S
  PROVE  HasQueueSteps(U, layouts, S)
<1> DEFINE N == Len(layouts)
           Eq(f) == f = [n \in 0..N |->
                           IF n = 0 THEN <<>>
                           ELSE IF layouts[n] \in S THEN Add(f[n - 1], layouts[n])
                           ELSE f[n - 1]]
           queue == CHOOSE f : Eq(f)
           F == [n \in 1..N |-> [x \in Seq(U) |->
                   IF layouts[n] \in S THEN Add(x, layouts[n]) ELSE x]]
<1>1. N \in Nat /\ \A n \in 1..N : layouts[n] \in U
  OBVIOUS
<1>2. F \in [1..N -> [Seq(U) -> Seq(U)]]
  <2>1. ASSUME NEW n \in 1..N, NEW x \in Seq(U)
        PROVE  (IF layouts[n] \in S THEN Add(x, layouts[n]) ELSE x) \in Seq(U)
    BY <1>1, AddType
  <2> HIDE DEF N
  <2> QED BY <2>1
<1>3. \E f : Eq(f)
  <2>1. <<>> \in Seq(U)
    OBVIOUS
  <2>2. PICK f \in [0..N -> Seq(U)] :
          f[0] = <<>> /\ \A n \in 1..N : f[n] = F[n][f[n - 1]]
    <3> DEFINE e == <<>>
               V == Seq(U)
    <3>1. N \in Nat /\ e \in V /\ F \in [1..N -> [V -> V]]
      BY <1>1, <1>2, <2>1
    <3>2. \E f \in [0..N -> V] : IsRecursion(f, N, e, F)
      <4> HIDE DEF F, N, e, V
      <4> QED BY <3>1, RecursionExists
    <3> HIDE DEF F, N
    <3> QED BY <3>2 DEF IsRecursion
  <2>3. ASSUME NEW n \in 0..N, n # 0
        PROVE  f[n] = IF layouts[n] \in S THEN Add(f[n - 1], layouts[n]) ELSE f[n - 1]
    <3>1. n \in 1..N /\ n - 1 \in 0..N
      BY <1>1, <2>3
    <3>2. f[n - 1] \in Seq(U)
      BY <3>1
    <3> HIDE DEF N
    <3> QED BY <2>2, <3>1, <3>2
  <2>4. \A n \in 0..N : f[n] = IF n = 0 THEN <<>>
                               ELSE IF layouts[n] \in S THEN Add(f[n - 1], layouts[n])
                               ELSE f[n - 1]
    BY <2>2, <2>3
  <2>5. Eq(f)
    <3>1. f = [n \in 0..N |-> f[n]]
      OBVIOUS
    <3> HIDE DEF N
    <3> QED BY <2>4, <3>1
  <2> HIDE DEF Eq
  <2> QED BY <2>5
<1>4. Eq(queue)
  <2> HIDE DEF Eq
  <2> QED BY <1>3
<1>5. /\ queue = [n \in 0..N |-> queue[n]]
      /\ queue[0] = <<>>
      /\ \A n \in 1..N : queue[n] = IF layouts[n] \in S THEN Add(queue[n - 1], layouts[n])
                                    ELSE queue[n - 1]
  <2> HIDE DEF queue, N
  <2>1. queue = [n \in 0..N |-> IF n = 0 THEN <<>>
                               ELSE IF layouts[n] \in S THEN Add(queue[n - 1], layouts[n])
                               ELSE queue[n - 1]]
    BY <1>4
  <2> HIDE DEF Eq
  <2>2. \A n \in 0..N :
          queue[n] = IF n = 0 THEN <<>>
                     ELSE IF layouts[n] \in S THEN Add(queue[n - 1], layouts[n])
                     ELSE queue[n - 1]
    BY <2>1
  <2>3. queue = [n \in 0..N |-> queue[n]]
    BY <2>1, <2>2
  <2>4. 0 \in 0..N /\ \A n \in 1..N : n \in 0..N /\ n # 0
    BY <1>1
  <2> QED BY <2>2, <2>3, <2>4
<1>6. queue \in [0..N -> Seq(U)]
  <2> DEFINE T == {n \in 0..N : queue[n] \in Seq(U)}
  <2> HIDE DEF queue, N
  <2>1. 0 \in T
    BY <1>1, <1>5
  <2>2. ASSUME NEW n \in 1..N, n - 1 \in T PROVE n \in T
    <3>1. queue[n - 1] \in Seq(U) /\ layouts[n] \in U /\ n \in 0..N
      BY <1>1, <2>2
    <3>2. Add(queue[n - 1], layouts[n]) \in Seq(U)
      BY <3>1, AddType
    <3>3. \/ queue[n] = Add(queue[n - 1], layouts[n])
          \/ queue[n] = queue[n - 1]
      BY <1>5
    <3>4. queue[n] \in Seq(U)
      BY <3>1, <3>2, <3>3
    <3> QED BY <3>1, <3>4
  <2>3. \A n \in 0..N : n \in T
    <3> HIDE DEF T
    <3> QED BY <1>1, <2>1, <2>2, IntervalInduction
  <2>4. \A n \in 0..N : queue[n] \in Seq(U)
    BY <2>3
  <2> QED BY <1>5, <2>4
<1>7. QueueItems(layouts, S) = queue[N]
  BY DEF QueueItems
<1> HIDE DEF queue
<1> QED BY <1>5, <1>6, <1>7 DEF HasQueueSteps, QueueSteps

(* A queue holds layouts of the schedule it is made from.                  *)
LEMMA QueueItemsType ==
  ASSUME NEW U, NEW layouts \in Seq(U), NEW S
  PROVE  QueueItems(layouts, S) \in Seq(U)
<1>1. Len(layouts) \in 0..Len(layouts)
  OBVIOUS
<1>2. HasQueueSteps(U, layouts, S)
  BY QueueItemsSteps
<1>3. PICK queue : QueueSteps(U, layouts, S, queue)
  BY <1>2 DEF HasQueueSteps
<1> QED BY <1>1, <1>3 DEF QueueSteps

(* The first index with an id that is in the queue.                        *)
LEMMA LayoutIndexType ==
  ASSUME NEW q, NEW id, Len(q.items) \in Nat, Indices(q, id) # {}
  PROVE  /\ LayoutIndexBy(q, id) \in 1..Len(q.items)
         /\ q.items[LayoutIndexBy(q, id)].id = id
<1>1. Indices(q, id) \subseteq Nat
  BY DEF Indices
<1>2. \E i \in Indices(q, id) : \A j \in Indices(q, id) : i <= j
  BY <1>1, NatMin
<1>3. LayoutIndexBy(q, id) \in Indices(q, id)
  BY <1>2 DEF LayoutIndexBy
<1> QED BY <1>3 DEF Indices
=============================================================================
