-------------------------- MODULE Delivery_proofs --------------------------
(***************************************************************************)
(* What becomes of the records of statistics, wherever requests fail,      *)
(* sessions overlap and the player dies.                                   *)
(***************************************************************************)
EXTENDS Collection_proofs

(***************************************************************************)
(* What holds however sessions overlap                                     *)
(***************************************************************************)
(* A record in the table, or one that is not made yet, has not arrived.    *)
StoredIsNew == \A r \in 1..MaxRecords : r \in stats \/ r > offered => arrived[r] = 0

(* What a worker has read it will remove, if it is still there; then it is *)
(* no longer in the table.  A worker that does neither has nothing.        *)
BatchLeaves ==
  \A w \in Threads :
    /\ stage[w] = "removeFromQueue" => batch[w] \cap stats \subseteq Oldest(RecordsToSend(counted[w]))
    /\ stage[w] = "submitStats" => batch[w] \cap stats = {}
    /\ stage[w] \notin {"removeFromQueue", "submitStats"} => batch[w] = {}

(* Who may still send a record: of one that has arrived, a single worker,  *)
(* and of one that has arrived twice, nobody.                              *)
FewSenders ==
  \A r \in 1..MaxRecords :
    /\ arrived[r] \in 0..2
    /\ arrived[r] = 1 => \A v, w \in Threads : r \in batch[v] /\ r \in batch[w] => v = w
    /\ arrived[r] = 2 => \A w \in Threads : r \notin batch[w]

(***************************************************************************)
(* What holds besides when sessions do not overlap                         *)
(***************************************************************************)
(* A worker that is about to read or to remove has counted no more records *)
(* than there are, because others only add to them.                        *)
CountedHolds ==
  \A w \in Threads :
    stage[w] \in {"readRecords", "removeFromQueue"} => counted[w] <= Cardinality(stats)

(* What a worker has read is all that it will remove, and has not arrived. *)
BatchIsRead ==
  \A w \in Threads :
    /\ stage[w] = "removeFromQueue" => batch[w] = Oldest(RecordsToSend(counted[w]))
    /\ \A r \in batch[w] : arrived[r] = 0

AloneInv == ~overlapped => CountedHolds /\ BatchIsRead

RecordsInv == StoredIsNew /\ BatchLeaves /\ FewSenders /\ AloneInv

(* No more records are sent than were counted.                             *)
LEMMA SendsNoMore ==
  ASSUME NEW count \in Nat
  PROVE  RecordsToSend(count) <= count
BY StatisticsAssumption DEF RecordsToSend

(* The table is finite.                                                    *)
LEMMA StatsFinite ==
  ASSUME CollectionTypeOK
  PROVE  IsFiniteSet(stats)
<1>1. IsFiniteSet(1..offered)
  BY FS_Interval DEF CollectionTypeOK
<1> QED BY <1>1, FS_Subset DEF CollectionTypeOK

(* A new record comes after the others: the oldest stay the same.          *)
LEMMA OldestStays ==
  ASSUME CollectionTypeOK, AddRecord, NEW n \in Nat, n <= Cardinality(stats)
  PROVE  Oldest(n)' = Oldest(n) /\ Cardinality(stats) <= Cardinality(stats')
<1>1. CASE stats' = stats
  BY <1>1, StatsCounted DEF Oldest
<1>2. CASE stats' = stats \cup {offered'}
  <2>1. offered' = offered + 1 /\ offered \in Nat /\ stats \subseteq 1..offered
    BY DEF AddRecord, CollectionTypeOK
  <2>2. \A r \in stats : r \in Nat /\ r < offered'
    BY <2>1
  <2>3. \A r \in stats : {q \in stats' : q < r} = {q \in stats : q < r}
    BY <1>2, <2>1, <2>2
  <2>4. {q \in stats' : q < offered'} = stats
    <3>1. ~(offered' < offered')
      BY <2>1
    <3> QED BY <1>2, <2>2, <3>1
  <2>5. Cardinality(stats) \in Nat
    BY StatsCounted
  <2>6. ~(Cardinality({q \in stats' : q < offered'}) < n)
    BY <2>4, <2>5
  <2>7. Oldest(n)' = {r \in stats' : Cardinality({q \in stats' : q < r}) < n}
    BY DEF Oldest
  <2>8. Oldest(n)' = Oldest(n)
    BY <1>2, <2>3, <2>6, <2>7 DEF Oldest
  <2>9. Cardinality(stats') = Cardinality(stats) + 1
    <3>1. offered' \notin stats
      BY <2>2
    <3> QED BY <1>2, <3>1, StatsFinite, FS_AddElement
  <2> QED BY <2>5, <2>8, <2>9
<1> QED BY <1>1, <1>2 DEF AddRecord

(* What stays in the table is as old as before, or older.                  *)
LEMMA OldestGrows ==
  ASSUME CollectionTypeOK, NEW n \in Nat,
         \A r \in stats \cap stats' : {q \in stats' : q < r} \subseteq {q \in stats : q < r}
  PROVE  Oldest(n) \cap stats' \subseteq Oldest(n)'
<1> SUFFICES ASSUME NEW r \in Oldest(n), r \in stats'
             PROVE  r \in Oldest(n)'
  OBVIOUS
<1>1. r \in stats /\ Cardinality({q \in stats : q < r}) < n
  BY DEF Oldest
<1>2. IsFiniteSet({q \in stats : q < r})
  BY StatsFinite, FS_Subset
<1>3. {q \in stats' : q < r} \subseteq {q \in stats : q < r}
  BY <1>1
<1>4. /\ Cardinality({q \in stats' : q < r}) <= Cardinality({q \in stats : q < r})
      /\ IsFiniteSet({q \in stats' : q < r})
  BY <1>2, <1>3, FS_Subset
<1>5. Cardinality({q \in stats' : q < r}) < n
  BY <1>1, <1>2, <1>4, FS_CardinalityType
<1> QED BY <1>5 DEF Oldest

(* A step that leaves the records alone, and starts no thread in the       *)
(* middle of submitStats, keeps the invariant; so does one after which     *)
(* sessions no longer overlap because no thread is there.                  *)
Idle(w) == stage[w] \notin {"readRecords", "removeFromQueue", "submitStats"}

LEMMA RecordsUntouched ==
  ASSUME RecordsInv, UNCHANGED statsVars,
         \A w \in Threads :
           \/ stage'[w] = stage[w]
           \/ Idle(w)' /\ stage[w] \notin {"removeFromQueue", "submitStats"},
         overlapped' = overlapped \/ \A w \in Threads : Idle(w) /\ Idle(w)'
  PROVE  RecordsInv'
<1> USE DEF RecordsInv, statsVars, Idle
<1>1. \A n : Oldest(n)' = Oldest(n)
  BY DEF Oldest
<1>2. StoredIsNew' /\ FewSenders'
  BY DEF StoredIsNew, FewSenders
<1>3. BatchLeaves'
  BY <1>1 DEF BatchLeaves
<1>4. AloneInv'
  <2>1. CASE overlapped' = overlapped
    <3>1. CountedHolds => CountedHolds'
      BY DEF CountedHolds
    <3>2. BatchIsRead => BatchIsRead'
      BY <1>1 DEF BatchIsRead
    <3> QED BY <2>1, <3>1, <3>2 DEF AloneInv
  <2>2. CASE \A w \in Threads : Idle(w) /\ Idle(w)'
    <3>1. \A w \in Threads : batch'[w] = {}
      BY <2>2 DEF BatchLeaves
    <3>2. CountedHolds' /\ BatchIsRead'
      BY <2>2, <3>1 DEF CountedHolds, BatchIsRead
    <3> QED BY <3>2 DEF AloneInv
  <2> QED BY <2>1, <2>2
<1> QED BY <1>2, <1>3, <1>4

(* A layout that ends keeps it: its record is none of the oldest.          *)
LEMMA RecordAdded ==
  ASSUME CollectionTypeOK, CollectionTypeOK', RecordsInv, AddRecord,
         UNCHANGED <<stage, overlapped>>
  PROVE  RecordsInv'
<1> USE DEF RecordsInv
<1>1. /\ offered' = offered + 1 /\ offered \in Nat
      /\ UNCHANGED <<counted, batch, arrived>>
      /\ stats' = stats \/ stats' = stats \cup {offered'}
  BY DEF AddRecord, CollectionTypeOK
<1>2. \A w \in Threads : counted[w] \in Nat /\ batch[w] \subseteq 1..offered
  BY DEF CollectionTypeOK
<1>3. Cardinality(stats) \in Nat /\ Cardinality(stats') \in Nat
  <2>1. IsFiniteSet(stats')
    <3>1. IsFiniteSet(1..offered')
      BY FS_Interval DEF CollectionTypeOK
    <3> QED BY <3>1, FS_Subset DEF CollectionTypeOK
  <2> QED BY <2>1, StatsCounted, FS_CardinalityType
<1>4. StoredIsNew' /\ FewSenders'
  BY <1>1 DEF StoredIsNew, FewSenders
<1>5. BatchLeaves'
  <2>1. \A r \in stats : r \in Nat /\ r < offered'
    BY <1>1 DEF CollectionTypeOK
  <2>2. \A r \in stats \cap stats' : {q \in stats' : q < r} \subseteq {q \in stats : q < r}
    BY <1>1, <2>1
  <2>3. \A w \in Threads : RecordsToSend(counted[w]) \in Nat /\ RecordsToSend(counted[w])' = RecordsToSend(counted[w])
    BY <1>1, <1>2, RecordsToSendType DEF RecordsToSend
  <2>4. \A w \in Threads :
          Oldest(RecordsToSend(counted[w])) \cap stats' \subseteq Oldest(RecordsToSend(counted[w]))'
    <3> SUFFICES ASSUME NEW w \in Threads
                 PROVE  Oldest(RecordsToSend(counted[w])) \cap stats' \subseteq Oldest(RecordsToSend(counted[w]))'
      OBVIOUS
    <3> DEFINE n == RecordsToSend(counted[w])
    <3>1. n \in Nat /\ n' = n
      BY <2>3
    <3> HIDE DEF n
    <3>2. {r \in stats : Cardinality({q \in stats : q < r}) < n} \cap stats'
            \subseteq {r \in stats' : Cardinality({q \in stats' : q < r}) < n}
      BY <2>2, <3>1, OldestGrows DEF Oldest
    <3> QED BY <3>1, <3>2 DEF Oldest, n
  <2>5. \A w \in Threads : batch[w] \cap stats' \subseteq batch[w] \cap stats
    BY <1>1, <1>2
  <2> QED BY <1>1, <2>4, <2>5 DEF BatchLeaves
<1>6. ASSUME ~overlapped PROVE CountedHolds' /\ BatchIsRead'
  <2>0. CountedHolds /\ BatchIsRead
    BY <1>6 DEF AloneInv
  <2>1. ASSUME NEW w \in Threads, stage[w] \in {"readRecords", "removeFromQueue"}
        PROVE  /\ counted[w] <= Cardinality(stats')
               /\ Oldest(RecordsToSend(counted[w]))' = Oldest(RecordsToSend(counted[w]))
    <3>1. counted[w] <= Cardinality(stats)
      BY <2>0, <2>1 DEF CountedHolds
    <3>2. RecordsToSend(counted[w]) \in Nat /\ RecordsToSend(counted[w]) <= Cardinality(stats)
      BY <1>2, <1>3, <3>1, SendsNoMore, RecordsToSendType
    <3>3. Cardinality(stats) <= Cardinality(stats')
          /\ Oldest(RecordsToSend(counted[w]))' = Oldest(RecordsToSend(counted[w]))
      <4> DEFINE n == RecordsToSend(counted[w])
      <4>1. n' = n
        BY <1>1 DEF RecordsToSend
      <4> QED BY <3>2, <4>1, OldestStays DEF Oldest
    <3> QED BY <1>2, <1>3, <3>1, <3>3
  <2> QED BY <1>1, <2>0, <2>1 DEF CountedHolds, BatchIsRead
<1> QED BY <1>4, <1>5, <1>6 DEF AloneInv

RemovesOnlyRead == \A r \in stats \ stats' : overlapped \/ \E w \in Threads : r \in batch[w]
SendsOnce == \A r \in DOMAIN arrived : arrived'[r] # arrived[r] => overlapped \/ arrived[r] = 0

(* A step that gives up what it holds keeps it.                            *)
LEMMA RecordsDropped ==
  ASSUME CollectionTypeOK, RecordsInv, NEW w \in Threads, GiveUp(w),
         stage' = [stage EXCEPT ![w] = "notifyStatus"], UNCHANGED overlapped
  PROVE  RecordsInv'
<1>1. /\ \A v \in Threads \ {w} : stage'[v] = stage[v] /\ batch'[v] = batch[v] /\ counted'[v] = counted[v]
      /\ stage'[w] = "notifyStatus" /\ batch'[w] = {}
      /\ UNCHANGED <<stats, offered, arrived>>
  BY DEF GiveUp, Forget, CollectionTypeOK
<1>2. \A v \in Threads \ {w} : Oldest(RecordsToSend(counted[v]))' = Oldest(RecordsToSend(counted[v]))
  BY <1>1 DEF Oldest, RecordsToSend
<1>3. StoredIsNew' /\ FewSenders'
  <2>1. \A v \in Threads : batch'[v] \subseteq batch[v]
    BY <1>1
  <2> QED BY <1>1, <2>1 DEF RecordsInv, StoredIsNew, FewSenders
<1>4. BatchLeaves'
  BY <1>1, <1>2 DEF RecordsInv, BatchLeaves
<1>5. CountedHolds => CountedHolds'
  BY <1>1 DEF CountedHolds
<1>6. BatchIsRead => BatchIsRead'
  BY <1>1, <1>2 DEF BatchIsRead
<1> QED BY <1>3, <1>4, <1>5, <1>6 DEF RecordsInv, AloneInv

(* Counting keeps it.                                                      *)
LEMMA RecordsCounted ==
  ASSUME CollectionTypeOK, RecordsInv, NEW w \in Threads, stage[w] = "countRecords", CountRecords(w),
         stage' = [stage EXCEPT ![w] = IF stats = {} THEN "notifyStatus" ELSE "readRecords"],
         UNCHANGED overlapped
  PROVE  RecordsInv'
<1>1. /\ \A v \in Threads \ {w} : stage'[v] = stage[v] /\ counted'[v] = counted[v]
      /\ stage'[w] \in {"notifyStatus", "readRecords"} /\ counted'[w] = Cardinality(stats)
      /\ UNCHANGED <<stats, offered, batch, arrived>>
  BY DEF CountRecords, CollectionTypeOK
<1>2. \A v \in Threads \ {w} : Oldest(RecordsToSend(counted[v]))' = Oldest(RecordsToSend(counted[v]))
  BY <1>1 DEF Oldest, RecordsToSend
<1>3. StoredIsNew' /\ FewSenders'
  BY <1>1 DEF RecordsInv, StoredIsNew, FewSenders
<1>4. BatchLeaves'
  BY <1>1, <1>2 DEF RecordsInv, BatchLeaves
<1>5. CountedHolds => CountedHolds'
  BY <1>1, StatsCounted DEF CountedHolds
<1>6. BatchIsRead => BatchIsRead'
  BY <1>1, <1>2 DEF BatchIsRead
<1> QED BY <1>1, <1>3, <1>4, <1>5, <1>6 DEF RecordsInv, AloneInv

(* Reading keeps it: what is in the table has not arrived.                 *)
LEMMA RecordsRead ==
  ASSUME CollectionTypeOK, RecordsInv, NEW w \in Threads, stage[w] = "readRecords", ReadRecords(w),
         stage' = [stage EXCEPT ![w] = "removeFromQueue"], UNCHANGED overlapped
  PROVE  RecordsInv'
<1>1. /\ \A v \in Threads \ {w} : stage'[v] = stage[v] /\ batch'[v] = batch[v]
      /\ stage'[w] = "removeFromQueue" /\ batch'[w] = Oldest(RecordsToSend(counted[w]))
      /\ UNCHANGED <<stats, offered, counted, arrived>>
  BY DEF ReadRecords, CollectionTypeOK
<1>2. \A v \in Threads : Oldest(RecordsToSend(counted[v]))' = Oldest(RecordsToSend(counted[v]))
  BY <1>1 DEF Oldest, RecordsToSend
<1>3. \A r \in batch'[w] : r \in 1..MaxRecords /\ arrived[r] = 0
  <2>1. batch'[w] \subseteq stats
    BY <1>1 DEF Oldest
  <2>2. stats \subseteq 1..MaxRecords
    BY StatisticsAssumption DEF CollectionTypeOK
  <2> QED BY <2>1, <2>2 DEF RecordsInv, StoredIsNew
<1>4. StoredIsNew' /\ FewSenders'
  BY <1>1, <1>3 DEF RecordsInv, StoredIsNew, FewSenders
<1>5. BatchLeaves'
  BY <1>1, <1>2 DEF RecordsInv, BatchLeaves
<1>6. CountedHolds => CountedHolds'
  BY <1>1 DEF CountedHolds
<1>7. BatchIsRead => BatchIsRead'
  BY <1>1, <1>2, <1>3 DEF BatchIsRead
<1> QED BY <1>1, <1>4, <1>5, <1>6, <1>7 DEF RecordsInv, AloneInv

(* Removing keeps it, and removes only what was read by the only worker.   *)
LEMMA RecordsRemoved ==
  ASSUME CollectionTypeOK, RecordsInv, NEW w \in Threads, stage[w] = "removeFromQueue",
         RemoveFromQueue(w), stage' = [stage EXCEPT ![w] = "submitStats"], UNCHANGED overlapped,
         ~overlapped => \A v \in Threads \ {w} : stage[v] = "none"
  PROVE  RecordsInv' /\ RemovesOnlyRead
<1>1. /\ \A v \in Threads \ {w} : stage'[v] = stage[v]
      /\ stage'[w] = "submitStats" /\ stats' = stats \ Oldest(RecordsToSend(counted[w]))
      /\ UNCHANGED <<offered, counted, batch, arrived>>
  BY DEF RemoveFromQueue, CollectionTypeOK
<1>2. \A v \in Threads :
        Oldest(RecordsToSend(counted[v])) \cap stats' \subseteq Oldest(RecordsToSend(counted[v]))'
  <2> SUFFICES ASSUME NEW v \in Threads
               PROVE  Oldest(RecordsToSend(counted[v])) \cap stats' \subseteq Oldest(RecordsToSend(counted[v]))'
    OBVIOUS
  <2> DEFINE n == RecordsToSend(counted[v])
  <2>1. n \in Nat /\ n' = n
    BY <1>1, RecordsToSendType DEF RecordsToSend, CollectionTypeOK
  <2> HIDE DEF n
  <2>2. \A r \in stats \cap stats' : {q \in stats' : q < r} \subseteq {q \in stats : q < r}
    BY <1>1
  <2>3. {r \in stats : Cardinality({q \in stats : q < r}) < n} \cap stats'
          \subseteq {r \in stats' : Cardinality({q \in stats' : q < r}) < n}
    BY <2>1, <2>2, OldestGrows DEF Oldest
  <2> QED BY <2>1, <2>3 DEF Oldest, n
<1>3. StoredIsNew' /\ FewSenders'
  BY <1>1 DEF RecordsInv, StoredIsNew, FewSenders
<1>4. BatchLeaves'
  BY <1>1, <1>2 DEF RecordsInv, BatchLeaves
<1>5. ASSUME ~overlapped PROVE CountedHolds' /\ BatchIsRead' /\ RemovesOnlyRead
  <2>1. \A v \in Threads : stage'[v] \in {"none", "submitStats"}
    BY <1>1, <1>5
  <2>2. CountedHolds'
    BY <2>1 DEF CountedHolds
  <2>3. BatchIsRead'
    BY <1>1, <1>5, <2>1 DEF BatchIsRead, RecordsInv, AloneInv
  <2>4. batch[w] = Oldest(RecordsToSend(counted[w]))
    BY <1>5 DEF RecordsInv, AloneInv, BatchIsRead
  <2> QED BY <1>1, <2>2, <2>3, <2>4 DEF RemovesOnlyRead
<1> QED BY <1>3, <1>4, <1>5 DEF RecordsInv, AloneInv, RemovesOnlyRead

(* Sending keeps it: no more than one other worker can hold the record.    *)
LEMMA RecordsSent ==
  ASSUME CollectionTypeOK, RecordsInv, WorkersAreOwned, NEW w \in Threads, stage[w] = "submitStats",
         NEW arrives \in BOOLEAN, SendRecords(w, arrives),
         stage' = [stage EXCEPT ![w] = "notifyStatus"], UNCHANGED overlapped,
         ~overlapped => \A v \in Threads \ {w} : stage[v] = "none"
  PROVE  RecordsInv' /\ SendsOnce
<1>1. /\ \A v \in Threads \ {w} : stage'[v] = stage[v] /\ batch'[v] = batch[v] /\ counted'[v] = counted[v]
      /\ stage'[w] = "notifyStatus" /\ batch'[w] = {}
      /\ UNCHANGED <<stats, offered>>
  BY DEF SendRecords, Forget, CollectionTypeOK
<1>2. /\ DOMAIN arrived = 1..MaxRecords
      /\ \A r \in 1..MaxRecords :
           arrived'[r] = IF arrives /\ r \in batch[w] THEN arrived[r] + 1 ELSE arrived[r]
  BY DEF SendRecords, CollectionTypeOK
<1>3. \A v \in Threads \ {w} : Oldest(RecordsToSend(counted[v]))' = Oldest(RecordsToSend(counted[v]))
  BY <1>1 DEF Oldest, RecordsToSend
<1>4. \A r \in batch[w] : r \notin stats /\ ~(r > offered)
  BY DEF RecordsInv, BatchLeaves, CollectionTypeOK
<1>5. StoredIsNew'
  BY <1>1, <1>2, <1>4 DEF RecordsInv, StoredIsNew
<1>6. FewSenders'
  <2> SUFFICES ASSUME NEW r \in 1..MaxRecords
               PROVE  /\ arrived'[r] \in 0..2
                      /\ arrived'[r] = 1 =>
                           \A u, v \in Threads : r \in batch'[u] /\ r \in batch'[v] => u = v
                      /\ arrived'[r] = 2 => \A v \in Threads : r \notin batch'[v]
    BY DEF FewSenders
  <2>o. /\ arrived[r] \in 0..2
        /\ arrived[r] = 1 => \A u, v \in Threads : r \in batch[u] /\ r \in batch[v] => u = v
        /\ arrived[r] = 2 => \A v \in Threads : r \notin batch[v]
    BY DEF RecordsInv, FewSenders
  <2>1. \A v \in Threads : batch'[v] \subseteq batch[v]
    BY <1>1
  <2>2. CASE ~(arrives /\ r \in batch[w])
    BY <1>2, <2>o, <2>1, <2>2
  <2>3. CASE arrives /\ r \in batch[w] /\ arrived[r] = 0
    <3>1. ASSUME NEW u \in Threads, NEW v \in Threads, r \in batch'[u], r \in batch'[v]
          PROVE  u = v
      <4>1. u # w /\ v # w /\ r \in batch[u] /\ r \in batch[v]
        BY <1>1, <3>1
      <4>2. u \in Live /\ v \in Live /\ w \in Live
        BY <4>1 DEF Live, RecordsInv, BatchLeaves
      <4> QED BY <4>1, <4>2 DEF WorkersAreOwned
    <3>2. arrived'[r] = 1
      BY <1>2, <2>3
    <3> QED BY <3>1, <3>2
  <2>4. CASE arrives /\ r \in batch[w] /\ arrived[r] = 1
    <3>1. \A v \in Threads : r \notin batch'[v]
      BY <1>1, <2>o, <2>4
    <3>2. arrived'[r] = 2
      BY <1>2, <2>4
    <3> QED BY <3>1, <3>2
  <2> QED BY <2>o, <2>2, <2>3, <2>4
<1>7. BatchLeaves'
  BY <1>1, <1>3 DEF RecordsInv, BatchLeaves
<1>8. ASSUME ~overlapped PROVE CountedHolds' /\ BatchIsRead' /\ SendsOnce
  <2>1. \A v \in Threads : stage'[v] \in {"none", "notifyStatus"} /\ batch'[v] = {}
    BY <1>1, <1>8 DEF RecordsInv, BatchLeaves
  <2>2. CountedHolds' /\ BatchIsRead'
    BY <2>1 DEF CountedHolds, BatchIsRead
  <2>3. \A r \in batch[w] : arrived[r] = 0
    BY <1>8 DEF RecordsInv, AloneInv, BatchIsRead
  <2> QED BY <1>2, <2>2, <2>3 DEF SendsOnce
<1> QED BY <1>5, <1>6, <1>7, <1>8 DEF RecordsInv, AloneInv, SendsOnce

(* Every step keeps it, removes only what a worker has read and sends      *)
(* nothing twice, but when sessions overlap.                               *)
LEMMA RecordsStep ==
  ASSUME FeedInv, RecordsInv, [Next]_vars
  PROVE  RecordsInv' /\ RemovesOnlyRead /\ SendsOnce
<1> USE DEF cmsVars, uiVars, sessionVars, workerVars
<1>f. FeedInv'
  BY FeedStep
<1>t. CollectionTypeOK /\ CollectionTypeOK' /\ WorkersAreOwned
  BY <1>f DEF FeedInv, ControlInv
<1>k. UNCHANGED <<stats, arrived>> => RemovesOnlyRead /\ SendsOnce
  BY DEF RemovesOnlyRead, SendsOnce
<1>u. ASSUME UNCHANGED statsVars, UNCHANGED <<stage, overlapped>>
      PROVE  RecordsInv' /\ RemovesOnlyRead /\ SendsOnce
  BY <1>k, <1>u, RecordsUntouched DEF statsVars
<1>1. ASSUME CollectNow, UNCHANGED statsVars
      PROVE  RecordsInv' /\ RemovesOnlyRead /\ SendsOnce
  <2>1. CASE UNCHANGED <<overlapped, stage>>
    BY <1>1, <1>u, <2>1
  <2>2. CASE /\ \E w \in Threads : /\ stage[w] = "none"
                                   /\ stage' = [stage EXCEPT ![w] = "registerDisplay"]
             /\ overlapped' = (Live # {} \/ (overlapped /\ pending # <<>>))
    <3>1. \A v \in Threads : stage'[v] = stage[v] \/ (stage[v] = "none" /\ stage'[v] = "registerDisplay")
      BY <1>t, <2>2 DEF CollectionTypeOK
    <3>2. \A v \in Threads :
            stage'[v] = stage[v] \/ (Idle(v)' /\ stage[v] \notin {"removeFromQueue", "submitStats"})
      BY <3>1 DEF Idle
    <3>3. CASE Live = {}
      <4>1. \A v \in Threads : stage[v] = "none"
        BY <3>3 DEF Live
      <4>2. \A v \in Threads : Idle(v) /\ Idle(v)'
        BY <3>1, <4>1 DEF Idle
      <4>3. RecordsInv'
        BY <1>1, <3>2, <4>2, RecordsUntouched
      <4> QED BY <1>1, <1>k, <4>3 DEF statsVars
    <3>4. CASE overlapped' = TRUE
      <4>1. StoredIsNew' /\ FewSenders'
        BY <1>1 DEF RecordsInv, StoredIsNew, FewSenders, statsVars
      <4>2. \A n : Oldest(n)' = Oldest(n)
        BY <1>1 DEF Oldest, statsVars
      <4>3. BatchLeaves'
        BY <1>1, <3>2, <4>2 DEF RecordsInv, BatchLeaves, Idle, statsVars
      <4> QED BY <1>1, <1>k, <3>4, <4>1, <4>3 DEF RecordsInv, AloneInv, statsVars
    <3> QED BY <2>2, <3>3, <3>4
  <2> QED BY <1>t, <1>1, <2>1, <2>2, CollectNowEffect
<1>2. CASE Start \/ Request \/ TimerFires
  BY <1>1, <1>2 DEF Start, Request, TimerFires
<1>3. CASE Joined \/ ScheduleAvailable \/ ToFile \/ Stop \/ PublishSchedule \/ UNCHANGED vars
  <2>1. UNCHANGED statsVars /\ UNCHANGED <<stage, overlapped>>
    BY <1>3 DEF Joined, ScheduleAvailable, ToFile, Stop, PublishSchedule, vars
  <2> QED BY <2>1, <1>u
<1>4. CASE LayoutEnds
  <2>1. RecordsInv'
    BY <1>4, <1>t, RecordAdded DEF LayoutEnds
  <2>2. stats \subseteq stats' /\ UNCHANGED arrived
    BY <1>4 DEF LayoutEnds, AddRecord
  <2> QED BY <2>1, <2>2 DEF RemovesOnlyRead, SendsOnce
<1>5. CASE Crash
  <2>1. \A w \in Threads : stage'[w] = "none" /\ batch'[w] = {}
    BY <1>5 DEF Crash, ForgetAll
  <2>2. UNCHANGED <<stats, offered, arrived>>
    BY <1>5 DEF Crash, ForgetAll
  <2>3. StoredIsNew' /\ FewSenders'
    BY <2>1, <2>2 DEF RecordsInv, StoredIsNew, FewSenders
  <2>4. BatchLeaves' /\ AloneInv'
    BY <2>1 DEF BatchLeaves, AloneInv, CountedHolds, BatchIsRead
  <2> QED BY <1>k, <2>2, <2>3, <2>4 DEF RecordsInv
<1>6. ASSUME NEW w \in Threads, Worker(w)
      PROVE  RecordsInv' /\ RemovesOnlyRead /\ SendsOnce
  <2>1. WorkerEffect(w)
    BY <1>t, <1>6, WorkerSteps
  <2>2. UNCHANGED overlapped
    BY <2>1 DEF WorkerEffect
  <2>3. ~overlapped => \A v \in Threads \ {w} : stage[v] = "none"
    <3>1. w \in Live
      BY <1>t, <2>1, WorkerLive
    <3> QED BY <3>1 DEF FeedInv, Alone, Live
  <2>4. ASSUME UNCHANGED statsVars, stage[w] \notin {"removeFromQueue", "submitStats"},
               \E s \in Stages \ {"readRecords", "removeFromQueue", "submitStats"} :
                 stage' = [stage EXCEPT ![w] = s]
        PROVE  RecordsInv' /\ RemovesOnlyRead /\ SendsOnce
    <3>1. \A v \in Threads :
            stage'[v] = stage[v] \/ (Idle(v)' /\ stage[v] \notin {"removeFromQueue", "submitStats"})
      BY <1>t, <2>4 DEF CollectionTypeOK, Idle
    <3>2. RecordsInv'
      BY <2>2, <2>4, <3>1, RecordsUntouched
    <3> QED BY <1>k, <2>4, <3>2 DEF statsVars
  <2>g. ASSUME GiveUp(w), stage' = [stage EXCEPT ![w] = "notifyStatus"]
        PROVE  RecordsInv' /\ RemovesOnlyRead /\ SendsOnce
    BY <1>t, <1>k, <2>2, <2>g, RecordsDropped DEF GiveUp
  <2>5. CASE RegisterDisplay(w) \/ RequiredFiles(w) \/ GetSchedule(w) \/ OnSchedule(w)
             \/ OnRequiredFiles(w) \/ SubmitLogs(w) \/ NotifyStatus(w) \/ Finish(w)
    BY <2>4, <2>5 DEF RegisterDisplay, RequiredFiles, GetSchedule, OnSchedule,
       OnRequiredFiles, SubmitLogs, NotifyStatus, Finish, Stages, At, Go
  <2>6. CASE CountStats(w)
    BY <1>t, <1>k, <2>2, <2>6, <2>g, RecordsCounted DEF CountStats, Recorded, CountRecords, At, Go
  <2>7. CASE ReadStats(w)
    BY <1>t, <1>k, <2>2, <2>7, <2>g, RecordsRead DEF ReadStats, Recorded, ReadRecords, At, Go
  <2>8. CASE RemoveStats(w)
    <3>1. CASE RemoveFromQueue(w) /\ Go(w, "submitStats")
      <4>1. RecordsInv' /\ RemovesOnlyRead
        BY <1>t, <2>2, <2>3, <2>8, <3>1, RecordsRemoved DEF RemoveStats, Recorded, At, Go
      <4>2. SendsOnce
        BY <3>1 DEF RemoveFromQueue, SendsOnce
      <4> QED BY <4>1, <4>2
    <3> QED BY <2>8, <2>g, <3>1 DEF RemoveStats, Recorded, At, Go
  <2>9. CASE SubmitStats(w)
    <3>1. PICK arrives \in BOOLEAN : SendRecords(w, arrives)
      BY <2>9 DEF SubmitStats
    <3>2. RecordsInv' /\ SendsOnce
      BY <1>t, <2>2, <2>3, <2>9, <3>1, RecordsSent DEF SubmitStats, At, Go
    <3>3. RemovesOnlyRead
      BY <3>1 DEF SendRecords, RemovesOnlyRead
    <3> QED BY <3>2, <3>3
  <2> QED BY <1>6, <2>5, <2>6, <2>7, <2>8, <2>9 DEF Worker
<1> QED BY <1>2, <1>3, <1>4, <1>5, <1>6 DEF Next

(* It holds at the start.                                                  *)
LEMMA RecordsStart == Init => RecordsInv
<1> SUFFICES ASSUME Init PROVE RecordsInv
  OBVIOUS
<1>1. StoredIsNew /\ FewSenders
  BY DEF Init, StatsInit, StoredIsNew, FewSenders
<1>2. BatchLeaves /\ AloneInv
  BY DEF Init, StatsInit, BatchLeaves, AloneInv, CountedHolds, BatchIsRead
<1> QED BY <1>1, <1>2 DEF RecordsInv

LEMMA RecordsAlways == Spec => [](FeedInv /\ RecordsInv)
<1>1. FeedInv /\ RecordsInv /\ [Next]_vars => RecordsInv'
  BY RecordsStep
<1> QED BY <1>1, RecordsStart, FeedAlways, PTL DEF Spec

(* Recorder and submitStats: what the CMS got is no longer in the table,   *)
(* and no record is sent more than twice, wherever requests fail, sessions *)
(* overlap and the player dies.                                            *)
THEOREM SentRecordsAreRemoved == Spec => []SentIsRemoved
<1>1. RecordsInv => SentIsRemoved
  BY DEF RecordsInv, StoredIsNew, FewSenders, SentIsRemoved
<1> QED BY <1>1, RecordsAlways, PTL

(* Recorder and submitStats: but when sessions overlap, what is removed    *)
(* from the table is what was read from it, though the two are different   *)
(* queries.                                                                *)
THEOREM OnlyReadRecordsAreRemoved == Spec => RemovedWhenRead
<1>1. FeedInv /\ RecordsInv /\ [Next]_vars => [RemovesOnlyRead]_vars
  BY RecordsStep
<1>2. RemovedWhenRead <=> [][RemovesOnlyRead]_vars
  BY DEF RemovedWhenRead, RemovesOnlyRead
<1> QED BY <1>1, <1>2, RecordsAlways, PTL DEF Spec

(* submitStats: only sessions that overlap send a record twice.            *)
THEOREM RecordsAreSentOnce == Spec => SentOnce
<1>1. FeedInv /\ RecordsInv /\ [Next]_vars => [SendsOnce]_vars
  BY RecordsStep
<1>2. SentOnce <=> [][SendsOnce]_vars
  BY DEF SentOnce, SendsOnce
<1> QED BY <1>1, <1>2, RecordsAlways, PTL DEF Spec
=============================================================================
