----------------------------- MODULE Statistics -----------------------------
(***************************************************************************)
(* The statistics of what was played: src/player/stat/Recorder.cpp with    *)
(* the table behind it, and CollectionInterval::submitStats, which takes a *)
(* batch of records to the CMS.                                            *)
(*                                                                         *)
(* Each operation of the Recorder holds its lock, so it is one step; those *)
(* of submitStats are four steps, between which the UI thread adds records *)
(* and another worker may do the same.  A record is its id, which the      *)
(* table counts up.                                                        *)
(***************************************************************************)
EXTENDS Integers, FiniteSets

CONSTANTS
  Threads,       \* the worker threads a collection may run on
  AFewRecords,   \* 50: all are sent up to here, and that many beyond
  ManyRecords,   \* 500: beyond it, batches are large
  LargeBatch,    \* 300: the size of a large batch
  MaxRecords     \* bound on the records that are made

ASSUME StatisticsAssumption ==
  /\ {AFewRecords, ManyRecords, LargeBatch, MaxRecords} \subseteq Nat
  /\ AFewRecords <= LargeBatch /\ LargeBatch <= ManyRecords

VARIABLES
  stats,     \* the records in the table
  offered,   \* how many records were made so far
  counted,   \* of each thread, the recordsCount of its submitStats
  batch,     \* of each thread, the records it has read
  arrived    \* how often the CMS got each record

statsVars == <<stats, offered, counted, batch, arrived>>

StatsInit ==
  /\ stats = {}
  /\ offered = 0
  /\ counted = [w \in Threads |-> 0]
  /\ batch = [w \in Threads |-> {}]
  /\ arrived = [record \in 1..MaxRecords |-> 0]

(* The record of a layout has no media, and the column of the media is     *)
(* NOT NULL.  LayoutsManager logs what the insertion throws.               *)
Storable(media) == media

(* A layout that ends records itself and its media, on the UI thread.      *)
AddRecord ==
  /\ offered < MaxRecords
  /\ offered' = offered + 1
  /\ \E media \in BOOLEAN :
       stats' = IF Storable(media) THEN stats \cup {offered'} ELSE stats
  /\ UNCHANGED <<counted, batch, arrived>>

RecordsToSend(count) ==
  CASE count > ManyRecords -> LargeBatch
    [] count > AFewRecords /\ count <= ManyRecords -> AFewRecords
    [] OTHER -> count

(* The first n records of the table.                                       *)
Oldest(n) == {r \in stats : Cardinality({q \in stats : q < r}) < n}

CountRecords(w) ==
  /\ counted' = [counted EXCEPT ![w] = Cardinality(stats)]
  /\ UNCHANGED <<stats, offered, batch, arrived>>

ReadRecords(w) ==
  /\ batch' = [batch EXCEPT ![w] = Oldest(RecordsToSend(counted[w]))]
  /\ UNCHANGED <<stats, offered, counted, arrived>>

(* A fault to be caught: the last record of the batch stays.               *)
RemoveAllButOne(w) ==
  /\ stats' = stats \ Oldest(RecordsToSend(counted[w]) - 1)
  /\ UNCHANGED <<offered, counted, batch, arrived>>

(* A fault to be caught: removeAll for remove.                             *)
RemoveAll(w) ==
  /\ stats' = {}
  /\ UNCHANGED <<offered, counted, batch, arrived>>

RemoveFromQueue(w) ==
  /\ stats' = stats \ Oldest(RecordsToSend(counted[w]))
  /\ UNCHANGED <<offered, counted, batch, arrived>>

(* The locals of submitStats are gone when it returns.                     *)
Forget(w) ==
  /\ counted' = [counted EXCEPT ![w] = 0]
  /\ batch' = [batch EXCEPT ![w] = {}]

(* The batch is sent; the CMS may or may not have got a batch whose        *)
(* submission failed.                                                      *)
SendRecords(w, arrives) ==
  /\ arrived' = [r \in DOMAIN arrived |->
                   IF arrives /\ r \in batch[w] THEN arrived[r] + 1 ELSE arrived[r]]
  /\ Forget(w)
  /\ UNCHANGED <<stats, offered>>

(* The table throws: submitStats logs it and returns.                      *)
GiveUp(w) == Forget(w) /\ UNCHANGED <<stats, offered, arrived>>

(* The table outlives the player.                                          *)
ForgetAll ==
  /\ counted' = [w \in Threads |-> 0]
  /\ batch' = [w \in Threads |-> {}]
  /\ UNCHANGED <<stats, offered, arrived>>

(***************************************************************************)
(* Properties                                                              *)
(***************************************************************************)
(* submitStats takes a batch out of the table before it sends it: what the *)
(* CMS got is never in the table again, so only the workers that had read  *)
(* a record before can send it.  Whatever fails, and however often the     *)
(* player dies, these are two at most.                                     *)
SentIsRemoved ==
  \A r \in 1..MaxRecords : (r \in stats => arrived[r] = 0) /\ arrived[r] <= 2

(* A record that was made is in the table, on its way or with the CMS (as  *)
(* long as no submission fails): Recorder.cpp keeps the records of layouts *)
(* and of media alike.                                                     *)
RecordsAreKept ==
  \A r \in 1..offered :
    r \in stats \/ arrived[r] > 0 \/ \E w \in Threads : r \in batch[w]
=============================================================================
