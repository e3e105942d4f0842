------------------------- MODULE Collection_proofs -------------------------
(***************************************************************************)
(* Theorems about Collection: its state stays within its types, no worker  *)
(* is on its own, the collections go on, running_ has its worker, and the  *)
(* player follows the CMS, wherever requests fail and sessions overlap.    *)
(***************************************************************************)
EXTENDS Collection, FiniteSetTheorems, TLAPS

(***************************************************************************)
(* Types                                                                   *)
(***************************************************************************)
(* A batch has a number of records.                                        *)
LEMMA RecordsToSendType ==
  ASSUME NEW count \in Nat
  PROVE  RecordsToSend(count) \in Nat
BY StatisticsAssumption DEF RecordsToSend

(* The table has a number of records.                                      *)
LEMMA StatsCounted ==
  ASSUME CollectionTypeOK
  PROVE  Cardinality(stats) \in Nat
<1>1. IsFiniteSet(1..offered)
  BY FS_Interval DEF CollectionTypeOK
<1>2. IsFiniteSet(stats)
  BY <1>1, FS_Subset DEF CollectionTypeOK
<1> QED BY <1>2, FS_CardinalityType

StatsTypeOK ==
  /\ stats \subseteq 1..offered
  /\ offered \in 0..MaxRecords
  /\ counted \in [Threads -> Nat]
  /\ batch \in [Threads -> SUBSET (1..offered)]
  /\ arrived \in [1..MaxRecords -> Nat]

(* The operations on the records keep their types.                         *)
LEMMA StatsOperations ==
  ASSUME CollectionTypeOK, NEW w \in Threads
  PROVE  /\ CountRecords(w) => StatsTypeOK'
         /\ ReadRecords(w) => StatsTypeOK'
         /\ RemoveFromQueue(w) => StatsTypeOK'
         /\ \A arrives \in BOOLEAN : SendRecords(w, arrives) => StatsTypeOK'
         /\ GiveUp(w) => StatsTypeOK'
<1> USE DEF CollectionTypeOK, StatsTypeOK
<1>1. CountRecords(w) => StatsTypeOK'
  BY StatsCounted DEF CountRecords
<1>2. ReadRecords(w) => StatsTypeOK'
  BY DEF ReadRecords, Oldest
<1>3. RemoveFromQueue(w) => StatsTypeOK'
  BY DEF RemoveFromQueue
<1>4. ASSUME NEW arrives \in BOOLEAN, SendRecords(w, arrives) PROVE StatsTypeOK'
  <2>1. arrived' \in [1..MaxRecords -> Nat]
    BY <1>4 DEF SendRecords
  <2> QED BY <1>4, <2>1 DEF SendRecords, Forget
<1>5. GiveUp(w) => StatsTypeOK'
  BY DEF GiveUp, Forget
<1> QED BY <1>1, <1>2, <1>3, <1>4, <1>5

(* The types of the worker's own state.                                    *)
WorkerTypeOK ==
  /\ published \in Nat /\ failures \in Nat /\ crashes \in Nat
  /\ ui \in {"starting", "running", "stopped"}
  /\ joining \in Threads \cup {NoThread}
  /\ workerThread \in Threads \cup {NoThread}
  /\ overlapped \in BOOLEAN
  /\ running \in BOOLEAN /\ timer \in BOOLEAN /\ leaked \in Nat
  /\ stage \in [Threads -> Stages]
  /\ listed \in [Threads -> BOOLEAN]
  /\ fetched \in [Threads -> Nat \cup {NoSchedule}]
  /\ pending \in Seq(Nat)
  /\ schedule \in Nat /\ stored \in Nat /\ saving \in BOOLEAN

(* The parts of the type invariant are all of it.                          *)
LEMMA TypeParts ==
  CollectionTypeOK <=> WorkerTypeOK /\ StatsTypeOK
BY Zenon DEF CollectionTypeOK, WorkerTypeOK, StatsTypeOK

(* A step that leaves the records alone leaves their types alone.          *)
LEMMA StatsUnchanged ==
  ASSUME StatsTypeOK, UNCHANGED statsVars
  PROVE  StatsTypeOK'
BY DEF StatsTypeOK, statsVars

(* A failure is counted.                                                   *)
LEMMA FailsType ==
  ASSUME WorkerTypeOK, NEW s, Fails(s)
  PROVE  failures' \in Nat /\ UNCHANGED <<published, crashes>>
BY DEF WorkerTypeOK, Fails

(* A step of a worker leaves the session as it is or ends it.               *)
SessionStep == Session \/ (running' = FALSE /\ timer' = TRUE /\ leaked' \in Nat)

(* The session variables keep their types when a session ends.             *)
LEMMA SessionEnds ==
  ASSUME WorkerTypeOK, NEW w \in Threads, SessionFinished(w)
  PROVE  SessionStep
BY DEF WorkerTypeOK, SessionFinished, StartTimer, SessionStep

(* A request that may fail leaves the session as it is or ends it.         *)
LEMMA SubmittedStep ==
  ASSUME WorkerTypeOK, NEW w \in Threads, NEW s, Submitted(w, s)
  PROVE  SessionStep /\ (UNCHANGED cmsVars \/ Fails(s))
BY SessionEnds DEF Submitted, SessionStep

(* What a step of a worker does: it keeps the types, leaves the UI thread  *)
(* alone, and ends the thread only together with the session.              *)
WorkerEffect(w) ==
  /\ UNCHANGED uiVars
  /\ SessionStep
  /\ stage[w] # "none"
  /\ \/ \E s \in Stages \ {"none"} : stage' = [stage EXCEPT ![w] = s]
     \/ stage' = [stage EXCEPT ![w] = "none"] /\ running' = FALSE /\ timer' = TRUE
  /\ UNCHANGED cmsVars \/ (failures' \in Nat /\ UNCHANGED <<published, crashes>>)
  /\ listed' \in [Threads -> BOOLEAN]
  /\ fetched' \in [Threads -> Nat \cup {NoSchedule}]
  /\ pending' \in Seq(Nat)
  /\ UNCHANGED <<schedule, fileVars>>
  /\ StatsTypeOK'

(* Each action of a worker has that effect.                                *)
LEMMA WorkerSteps ==
  ASSUME CollectionTypeOK, NEW w \in Threads, Worker(w)
  PROVE  WorkerEffect(w)
<1> USE DEF WorkerEffect, At, Go, Stages, uiVars, cmsVars, fileVars, feedVars, workerVars
<1>t. WorkerTypeOK /\ StatsTypeOK
  BY TypeParts
<1>f. \A s : Fails(s) => failures' \in Nat /\ UNCHANGED <<published, crashes>>
  BY <1>t, FailsType
<1>e. SessionFinished(w) => SessionStep /\ running' = FALSE /\ timer' = TRUE
  BY <1>t, SessionEnds DEF SessionFinished, StartTimer
<1>n. Session => SessionStep
  BY DEF SessionStep
<1>s. \A s : Submitted(w, s) => SessionStep /\ (UNCHANGED cmsVars \/ Fails(s))
  BY <1>t, SubmittedStep
<1>u. UNCHANGED statsVars => StatsTypeOK'
  BY <1>t, StatsUnchanged
<1>1. CASE RegisterDisplay(w)
  BY <1>1, <1>t, <1>f, <1>e, <1>n, <1>u DEF RegisterDisplay, WorkerTypeOK
<1>2. CASE RequiredFiles(w)
  BY <1>2, <1>t, <1>f, <1>n, <1>u DEF RequiredFiles, WorkerTypeOK
<1>3. CASE GetSchedule(w)
  BY <1>3, <1>t, <1>f, <1>n, <1>u DEF GetSchedule, WorkerTypeOK
<1>4. CASE OnSchedule(w)
  <2>1. CASE /\ fetched[w] # NoSchedule /\ Session
             /\ \E read \in {fetched[w], Empty} :
                  FromString(fetched[w], read) /\ pending' = Append(pending, read)
    <3>1. PICK read \in {fetched[w], Empty} :
            FromString(fetched[w], read) /\ pending' = Append(pending, read)
      BY <2>1
    <3>2. read \in Nat
      BY <1>t, <2>1 DEF WorkerTypeOK, Empty
    <3>3. pending' \in Seq(Nat)
      BY <1>t, <3>1, <3>2 DEF WorkerTypeOK
    <3>4. UNCHANGED cmsVars \/ (failures' \in Nat /\ UNCHANGED <<published, crashes>>)
      BY <1>f, <3>1 DEF FromString
    <3> QED BY <1>4, <2>1, <3>3, <3>4, <1>t, <1>n, <1>u DEF OnSchedule, WorkerTypeOK
  <2>2. CASE SessionFinished(w) /\ UNCHANGED <<pending, cmsVars>>
    BY <1>4, <2>2, <1>t, <1>e, <1>u DEF OnSchedule, WorkerTypeOK
  <2> QED BY <1>4, <2>1, <2>2 DEF OnSchedule
<1>5. CASE OnRequiredFiles(w)
  BY <1>5, <1>t, <1>f, <1>e, <1>s, <1>u DEF OnRequiredFiles, WorkerTypeOK
<1>6. CASE SubmitLogs(w)
  BY <1>6, <1>t, <1>f, <1>s, <1>u DEF SubmitLogs, WorkerTypeOK
<1>7. CASE CountStats(w)
  BY <1>7, <1>t, <1>f, <1>n, StatsOperations DEF CountStats, Recorded, WorkerTypeOK
<1>8. CASE ReadStats(w)
  BY <1>8, <1>t, <1>f, <1>n, StatsOperations DEF ReadStats, Recorded, WorkerTypeOK
<1>9. CASE RemoveStats(w)
  BY <1>9, <1>t, <1>f, <1>n, StatsOperations DEF RemoveStats, Recorded, WorkerTypeOK
<1>10. CASE SubmitStats(w)
  BY <1>10, <1>t, <1>f, <1>e, <1>n, StatsOperations DEF SubmitStats, WorkerTypeOK
<1>11. CASE NotifyStatus(w)
  BY <1>11, <1>t, <1>f, <1>s, <1>u DEF NotifyStatus, WorkerTypeOK
<1>12. CASE Finish(w)
  BY <1>12, <1>t, <1>e, <1>u DEF Finish, WorkerTypeOK
<1> QED
  BY <1>1, <1>2, <1>3, <1>4, <1>5, <1>6, <1>7, <1>8, <1>9, <1>10, <1>11, <1>12 DEF Worker

(* collectNow does nothing, or a thread that was idle runs and the one it  *)
(* replaces is waited for.                                                 *)
LEMMA CollectNowEffect ==
  ASSUME CollectionTypeOK, CollectNow
  PROVE  /\ UNCHANGED <<listed, fetched>>
         /\ \/ running /\ UNCHANGED <<joining, workerThread, overlapped, running, stage>>
            \/ /\ ~running /\ running' = TRUE
               /\ \E w \in Threads : /\ workerThread' = w /\ stage[w] = "none"
                                     /\ stage' = [stage EXCEPT ![w] = "registerDisplay"]
               /\ joining' = workerThread
               /\ overlapped' = (Live # {} \/ (overlapped /\ pending # <<>>))
BY DEF CollectionTypeOK, CollectNow, NewWorker, Go, Live, workerVars

(* ... which keeps the types.                                              *)
LEMMA CollectNowType ==
  ASSUME CollectionTypeOK, CollectNow
  PROVE  /\ joining' \in Threads \cup {NoThread}
         /\ workerThread' \in Threads \cup {NoThread}
         /\ overlapped' \in BOOLEAN
         /\ running' \in BOOLEAN
         /\ stage' \in [Threads -> Stages]
         /\ listed' \in [Threads -> BOOLEAN]
         /\ fetched' \in [Threads -> Nat \cup {NoSchedule}]
<1>1. CASE UNCHANGED <<joining, workerThread, overlapped, running, stage>>
  BY <1>1, CollectNowEffect DEF CollectionTypeOK
<1>2. CASE ~running
  BY <1>2, CollectNowEffect DEF CollectionTypeOK, Stages
<1> QED BY <1>1, <1>2, CollectNowEffect

(* The types hold in every state.                                          *)
LEMMA TypeStep ==
  ASSUME CollectionTypeOK, [Next]_vars
  PROVE  CollectionTypeOK'
<1> USE DEF cmsVars, uiVars, sessionVars, timerVars, workerVars, fileVars, feedVars
<1>t. WorkerTypeOK /\ StatsTypeOK
  BY TypeParts
<1>p. WorkerTypeOK' /\ StatsTypeOK' => CollectionTypeOK'
  BY Zenon DEF CollectionTypeOK, WorkerTypeOK, StatsTypeOK
<1>u. UNCHANGED statsVars => StatsTypeOK'
  BY <1>t, StatsUnchanged
<1>1. CASE Start
  <2>1. WorkerTypeOK'
    BY <1>1, <1>t, CollectNowType DEF Start, WorkerTypeOK
  <2> QED BY <1>1, <1>p, <1>u, <2>1 DEF Start
<1>2. CASE Request
  <2>1. WorkerTypeOK'
    BY <1>2, <1>t, CollectNowType DEF Request, WorkerTypeOK
  <2> QED BY <1>2, <1>p, <1>u, <2>1 DEF Request
<1>3. CASE TimerFires
  <2>1. timer' \in BOOLEAN /\ leaked' \in Nat
    <3>1. CASE timer' = FALSE /\ UNCHANGED leaked
      BY <1>t, <3>1 DEF WorkerTypeOK
    <3>2. CASE leaked > 0 /\ leaked' = leaked - 1 /\ UNCHANGED timer
      BY <1>t, <3>2 DEF WorkerTypeOK
    <3> QED BY <1>3, <3>1, <3>2, Zenon DEF TimerFires
  <2>2. WorkerTypeOK'
    BY <1>3, <1>t, <2>1, CollectNowType DEF TimerFires, WorkerTypeOK
  <2> QED BY <1>3, <1>p, <1>u, <2>2 DEF TimerFires
<1>4. CASE Joined
  <2>1. WorkerTypeOK'
    BY <1>4, <1>t DEF Joined, WorkerTypeOK
  <2> QED BY <1>4, <1>p, <1>u, <2>1 DEF Joined
<1>5. CASE ScheduleAvailable
  <2>1. Head(pending) \in Nat /\ Tail(pending) \in Seq(Nat)
    BY <1>5, <1>t DEF ScheduleAvailable, WorkerTypeOK
  <2>2. WorkerTypeOK'
    BY <1>5, <1>t, <2>1 DEF ScheduleAvailable, WorkerTypeOK
  <2> QED BY <1>5, <1>p, <1>u, <2>2 DEF ScheduleAvailable
<1>12. CASE ToFile
  <2>0. saving' = FALSE /\ stored' \in {schedule, stored, Empty}
    BY <1>12 DEF ToFile
  <2>1. stored' \in Nat /\ saving' \in BOOLEAN
    <3>1. schedule \in Nat /\ stored \in Nat
      BY <1>t DEF WorkerTypeOK
    <3>2. saving' \in BOOLEAN
      BY <2>0
    <3> QED BY <2>0, <3>1, <3>2 DEF Empty
  <2>2. published' \in Nat /\ failures' \in Nat /\ crashes' \in Nat
    BY <1>12, <1>t, FailsType DEF ToFile, WorkerTypeOK
  <2>3. WorkerTypeOK'
    BY <1>12, <1>t, <2>1, <2>2 DEF ToFile, WorkerTypeOK
  <2> QED BY <1>12, <1>p, <1>u, <2>3 DEF ToFile
<1>6. CASE LayoutEnds
  <2>1. WorkerTypeOK'
    BY <1>6, <1>t DEF LayoutEnds, WorkerTypeOK
  <2>0. offered' = offered + 1 /\ offered' \in 0..MaxRecords
    BY <1>6, <1>t, StatisticsAssumption DEF LayoutEnds, AddRecord, StatsTypeOK
  <2>2. stats' \subseteq 1..offered'
    <3>1. stats' \subseteq stats \cup {offered'}
      BY <1>6 DEF LayoutEnds, AddRecord
    <3> QED BY <1>t, <2>0, <3>1 DEF StatsTypeOK
  <2>3. batch' \in [Threads -> SUBSET (1..offered')]
    BY <1>6, <1>t, <2>0 DEF LayoutEnds, AddRecord, StatsTypeOK
  <2>4. StatsTypeOK'
    BY <1>6, <1>t, <2>0, <2>2, <2>3 DEF LayoutEnds, AddRecord, StatsTypeOK
  <2> QED BY <1>p, <2>1, <2>4
<1>7. CASE Stop
  <2>1. WorkerTypeOK'
    BY <1>7, <1>t DEF Stop, WorkerTypeOK
  <2> QED BY <1>7, <1>p, <1>u, <2>1 DEF Stop
<1>8. CASE PublishSchedule
  <2>1. WorkerTypeOK'
    BY <1>8, <1>t DEF PublishSchedule, WorkerTypeOK
  <2> QED BY <1>8, <1>p, <1>u, <2>1 DEF PublishSchedule
<1>9. CASE Crash
  <2>0. pending' \in Seq(Nat) /\ stage' \in [Threads -> Stages]
    BY <1>9 DEF Crash, Stages
  <2>3. fetched' \in [Threads -> Nat \cup {NoSchedule}] /\ listed' \in [Threads -> BOOLEAN]
    BY <1>9 DEF Crash
  <2>4. joining' = NoThread /\ workerThread' = NoThread /\ running' = FALSE /\ timer' = FALSE
        /\ overlapped' = FALSE
        /\ leaked' = 0 /\ ui' = "starting" /\ UNCHANGED <<published, failures>>
    BY <1>9 DEF Crash
  <2>6. stored' \in Nat /\ schedule' \in Nat /\ saving' = FALSE
    BY <1>9, <1>t DEF Crash, FromFile, Empty, WorkerTypeOK
  <2>5. crashes' \in Nat
    BY <1>9, <1>t DEF Crash, WorkerTypeOK
  <2>1. WorkerTypeOK'
    BY <1>t, <2>0, <2>3, <2>4, <2>5, <2>6 DEF WorkerTypeOK
  <2>2. StatsTypeOK'
    BY <1>9, <1>t DEF Crash, ForgetAll, StatsTypeOK
  <2> QED BY <1>p, <2>1, <2>2
<1>10. ASSUME NEW w \in Threads, Worker(w) PROVE CollectionTypeOK'
  <2>1. WorkerEffect(w)
    BY <1>10, WorkerSteps
  <2>2. stage' \in [Threads -> Stages]
    BY <1>t, <2>1 DEF WorkerEffect, WorkerTypeOK, Stages
  <2>3. running' \in BOOLEAN /\ timer' \in BOOLEAN /\ leaked' \in Nat
    BY <1>t, <2>1 DEF WorkerEffect, SessionStep, Session, WorkerTypeOK
  <2>4. WorkerTypeOK'
    BY <1>t, <2>1, <2>2, <2>3 DEF WorkerEffect, WorkerTypeOK
  <2>5. StatsTypeOK'
    BY <2>1 DEF WorkerEffect
  <2> QED BY <1>p, <2>4, <2>5
<1>11. CASE UNCHANGED vars
  <2>1. WorkerTypeOK'
    BY <1>11, <1>t DEF vars, WorkerTypeOK
  <2> QED BY <1>11, <1>p, <1>u, <2>1 DEF vars
<1> QED
  BY <1>1, <1>2, <1>3, <1>4, <1>5, <1>6, <1>7, <1>8, <1>9, <1>10, <1>11, <1>12 DEF Next

(* The types hold in the first state.                                      *)
LEMMA InitType == Init => CollectionTypeOK
<1> SUFFICES ASSUME Init PROVE CollectionTypeOK
  OBVIOUS
<1>1. stage \in [Threads -> Stages] /\ pending \in Seq(Nat)
  BY DEF Init, Stages
<1>2. WorkerTypeOK
  BY <1>1 DEF Init, WorkerTypeOK, Empty
<1>3. StatsTypeOK
  BY StatisticsAssumption DEF Init, StatsInit, StatsTypeOK
<1> QED BY <1>2, <1>3, TypeParts

(* Collection and Statistics: every variable stays within its type.        *)
THEOREM CollectionTypeCorrect == Spec => []CollectionTypeOK
<1>1. CollectionTypeOK /\ [Next]_vars => CollectionTypeOK'
  BY TypeStep
<1> QED BY <1>1, InitType, PTL DEF Spec

(***************************************************************************)
(* Workers and timers                                                      *)
(***************************************************************************)
(* Before the main loop starts there is no worker.                         *)
FreshStart ==
  ui = "starting" => Live = {} /\ joining = NoThread /\ workerThread = NoThread /\ ~running

ControlInv == CollectionTypeOK /\ WorkersAreOwned /\ NeverStranded /\ FreshStart

(* A step of a worker keeps its thread or ends it with the session.        *)
LEMMA WorkerLive ==
  ASSUME CollectionTypeOK, NEW w \in Threads, WorkerEffect(w)
  PROVE  /\ w \in Live
         /\ Live' = Live \/ (Live' = Live \ {w} /\ running' = FALSE /\ timer' = TRUE)
BY DEF WorkerEffect, Live, CollectionTypeOK

(* collectNow keeps the threads that run and may add one; the thread it    *)
(* takes out of workerThread_ is waited for.                               *)
LEMMA CollectNowLive ==
  ASSUME CollectionTypeOK, CollectNow
  PROVE  \/ running /\ Live' = Live /\ UNCHANGED <<joining, workerThread, running>>
         \/ /\ ~running /\ running' = TRUE
            /\ Live' = Live \cup {workerThread'}
            /\ joining' = workerThread
            /\ workerThread' \in Threads
BY CollectNowEffect DEF Live, CollectionTypeOK

(* When the UI thread is free, or at the start, collectNow leaves a worker *)
(* or a timer, and no worker on its own.                                   *)
LEMMA CollectNowControl ==
  ASSUME ControlInv, CollectNow, joining = NoThread, ui' = "running",
         running => Live # {}
  PROVE  WorkersAreOwned' /\ NeverStranded' /\ FreshStart'
<1>1. NoThread \notin Live
  BY CollectionAssumption DEF Live
<1>2. Live \subseteq {workerThread}
  BY <1>1 DEF ControlInv, WorkersAreOwned
<1>3. CASE running /\ Live' = Live /\ UNCHANGED <<joining, workerThread, running>>
  BY <1>2, <1>3 DEF WorkersAreOwned, NeverStranded, FreshStart
<1>4. CASE Live' = Live \cup {workerThread'} /\ joining' = workerThread
  BY <1>2, <1>4 DEF WorkersAreOwned, NeverStranded, FreshStart
<1> QED BY <1>3, <1>4, CollectNowLive DEF ControlInv

(* The inductive invariant is kept by every step.                          *)
LEMMA ControlStep ==
  ASSUME ControlInv, [Next]_vars
  PROVE  ControlInv'
<1> USE DEF cmsVars, uiVars, sessionVars, timerVars, workerVars, fileVars, feedVars
<1>t. CollectionTypeOK /\ CollectionTypeOK'
  BY TypeStep DEF ControlInv
<1>i. WorkersAreOwned /\ NeverStranded /\ FreshStart
  BY DEF ControlInv
<1>l. UNCHANGED stage => Live' = Live
  BY DEF Live
<1>n. NoThread \notin Live
  BY CollectionAssumption DEF Live
<1> SUFFICES WorkersAreOwned' /\ NeverStranded' /\ FreshStart'
  BY <1>t DEF ControlInv
<1>1. CASE Start
  BY <1>1, <1>i, CollectNowControl DEF Start, FreshStart
<1>2. CASE Request
  BY <1>2, <1>i, CollectNowControl DEF Request, UiFree, NeverStranded
<1>3. CASE TimerFires
  BY <1>3, <1>i, CollectNowControl DEF TimerFires, UiFree, NeverStranded
<1>4. CASE Joined
  BY <1>4, <1>i, <1>l DEF Joined, WorkersAreOwned, NeverStranded, FreshStart
<1>5. CASE ScheduleAvailable
  BY <1>5, <1>i, <1>l DEF ScheduleAvailable, WorkersAreOwned, NeverStranded, FreshStart
<1>12. CASE ToFile
  BY <1>12, <1>i, <1>l DEF ToFile, WorkersAreOwned, NeverStranded, FreshStart
<1>6. CASE LayoutEnds
  BY <1>6, <1>i, <1>l DEF LayoutEnds, WorkersAreOwned, NeverStranded, FreshStart
<1>7. CASE Stop
  BY <1>7, <1>i, <1>l, <1>n DEF Stop, UiFree, WorkersAreOwned, NeverStranded, FreshStart
<1>8. CASE PublishSchedule
  BY <1>8, <1>i, <1>l DEF PublishSchedule, WorkersAreOwned, NeverStranded, FreshStart
<1>9. CASE Crash
  <2>1. Live' = {}
    BY <1>9 DEF Crash, Live
  <2> QED BY <1>9, <2>1 DEF Crash, WorkersAreOwned, NeverStranded, FreshStart
<1>10. ASSUME NEW w \in Threads, Worker(w)
       PROVE  WorkersAreOwned' /\ NeverStranded' /\ FreshStart'
  <2>1. WorkerEffect(w)
    BY <1>t, <1>10, WorkerSteps
  <2>2. w \in Live
        /\ (Live' = Live \/ (Live' = Live \ {w} /\ running' = FALSE /\ timer' = TRUE))
    BY <1>t, <2>1, WorkerLive
  <2>3. UNCHANGED <<ui, joining, workerThread>>
    BY <2>1 DEF WorkerEffect
  <2>4. ui # "starting"
    BY <1>i, <2>2 DEF FreshStart
  <2> QED BY <1>i, <2>2, <2>3, <2>4 DEF WorkersAreOwned, NeverStranded, FreshStart
<1>11. CASE UNCHANGED vars
  BY <1>11, <1>i, <1>l DEF vars, WorkersAreOwned, NeverStranded, FreshStart
<1> QED
  BY <1>1, <1>2, <1>3, <1>4, <1>5, <1>6, <1>7, <1>8, <1>9, <1>10, <1>11, <1>12 DEF Next

(* The inductive invariant holds in every state.                           *)
LEMMA ControlAlways == Spec => []ControlInv
<1>1. Init => CollectionTypeOK
  BY InitType
<1>2. Init => ControlInv
  BY <1>1 DEF Init, ControlInv, WorkersAreOwned, NeverStranded, FreshStart, Live
<1>3. ControlInv /\ [Next]_vars => ControlInv'
  BY ControlStep
<1> QED BY <1>2, <1>3, PTL DEF Spec

(* CollectionInterval: every worker thread that runs is in workerThread_   *)
(* or waited for by the UI thread, whatever fails and however sessions     *)
(* overlap.                                                                *)
THEOREM WorkersAlwaysOwned == Spec => []WorkersAreOwned
<1>1. ControlInv => WorkersAreOwned
  BY DEF ControlInv
<1> QED BY <1>1, ControlAlways, PTL

(* CollectionInterval: while the main loop runs, a worker is running or    *)
(* the timer will start one.                                               *)
THEOREM CollectionsGoOn == Spec => []NeverStranded
<1>1. ControlInv => NeverStranded
  BY DEF ControlInv
<1> QED BY <1>1, ControlAlways, PTL

(***************************************************************************)
(* running_ has its worker                                                 *)
(***************************************************************************)
(* A step that leaves the thread of workerThread_ at work, or ends the     *)
(* session, keeps it.                                                      *)
LEMMA RunningStep ==
  ASSUME ControlInv, RunningHasWorker, [Next]_vars
  PROVE  RunningHasWorker'
<1> USE DEF RunningHasWorker, cmsVars, uiVars, sessionVars, timerVars, workerVars, fileVars, feedVars
<1>t. CollectionTypeOK /\ FreshStart
  BY DEF ControlInv
<1>l. UNCHANGED stage => Live' = Live
  BY DEF Live
<1>1. ASSUME CollectNow, ui = "running" \/ ui = "starting"
      PROVE  RunningHasWorker'
  <2>1. CASE running /\ Live' = Live /\ UNCHANGED <<joining, workerThread, running>>
    <3>1. ui = "running" /\ workerThread \in Live
      BY <1>1, <1>t, <2>1 DEF FreshStart
    <3> QED BY <2>1, <3>1
  <2>2. CASE Live' = Live \cup {workerThread'}
    BY <2>2
  <2> QED BY <1>1, <1>t, <2>1, <2>2, CollectNowLive
<1>2. CASE Start \/ Request \/ TimerFires
  BY <1>1, <1>2 DEF Start, Request, TimerFires, UiFree
<1>3. CASE Joined \/ ScheduleAvailable \/ ToFile \/ LayoutEnds \/ PublishSchedule \/ UNCHANGED vars
  <2>1. UNCHANGED <<ui, workerThread, running, stage>>
    BY <1>3 DEF Joined, ScheduleAvailable, ToFile, LayoutEnds, PublishSchedule, vars
  <2> QED BY <2>1, <1>l
<1>4. CASE Stop \/ Crash
  BY <1>4 DEF Stop, Crash
<1>5. ASSUME NEW w \in Threads, Worker(w) PROVE RunningHasWorker'
  <2>1. WorkerEffect(w)
    BY <1>t, <1>5, WorkerSteps
  <2>2. Live' = Live \/ running' = FALSE
    BY <1>t, <2>1, WorkerLive
  <2>3. running' = running \/ running' = FALSE
    BY <2>1 DEF WorkerEffect, SessionStep, Session
  <2> QED BY <2>1, <2>2, <2>3 DEF WorkerEffect
<1> QED BY <1>2, <1>3, <1>4, <1>5 DEF Next

(* CollectionInterval: while running_ is set the worker in workerThread_   *)
(* is at work, wherever requests fail and sessions overlap.                *)
THEOREM RunningAlwaysHasWorker == Spec => []RunningHasWorker
<1>1. Init => RunningHasWorker
  BY DEF Init, RunningHasWorker
<1>2. ControlInv /\ RunningHasWorker /\ [Next]_vars => RunningHasWorker'
  BY RunningStep
<1> QED BY <1>1, <1>2, ControlAlways, PTL DEF Spec

(***************************************************************************)
(* The schedules come in order                                             *)
(***************************************************************************)
(* A worker has a schedule between its answer and the call that hands it   *)
(* on only.                                                                *)
HeldBriefly == \A w \in Threads : fetched[w] # NoSchedule => stage[w] = "onSchedule"

(* All that is on its way comes from the CMS.                              *)
FromTheCms ==
  /\ schedule <= published /\ stored <= published /\ published <= MaxVersion
  /\ \A i \in 1..Len(pending) : pending[i] <= published
  /\ \A w \in Threads : fetched[w] <= published

(* Sessions that have not overlapped: there is one worker at most.         *)
Alone == ~overlapped => \A v, w \in Live : v = w

(* What the player plays, what is on its way to it and what a worker has   *)
(* got are ever newer schedules, or the empty one.                         *)
Ordered ==
  /\ \A i \in 1..Len(pending) : pending[i] = Empty \/ schedule <= pending[i]
  /\ \A i, j \in 1..Len(pending) : i < j => pending[j] = Empty \/ pending[i] <= pending[j]
  /\ \A w \in Threads : fetched[w] # NoSchedule =>
       schedule <= fetched[w] /\ \A i \in 1..Len(pending) : pending[i] <= fetched[w]

InOrder == ~overlapped => Ordered

FeedInv == ControlInv /\ HeldBriefly /\ FromTheCms /\ Alone /\ InOrder

(* A worker asks for the newest schedule, hands on the one it has got, or  *)
(* the empty one for it, or neither.                                       *)
Asks(w) ==
  /\ fetched[w] = NoSchedule /\ fetched'[w] = published
  /\ stage'[w] = "onSchedule" /\ UNCHANGED pending
HandsOn(w) ==
  /\ fetched[w] # NoSchedule /\ fetched'[w] = NoSchedule
  /\ \E read \in {fetched[w], Empty} : pending' = Append(pending, read)
GoesOn(w) == fetched'[w] = NoSchedule /\ UNCHANGED pending

LEMMA WorkerLocal ==
  ASSUME CollectionTypeOK, HeldBriefly, NEW w \in Threads, Worker(w)
  PROVE  /\ \A v \in Threads \ {w} : stage'[v] = stage[v] /\ fetched'[v] = fetched[v]
         /\ Asks(w) \/ HandsOn(w) \/ GoesOn(w)
         /\ UNCHANGED <<published, overlapped, schedule, fileVars>>
<1> USE DEF At, Go, HeldBriefly, CollectionTypeOK, Fails, Submitted, Recorded, cmsVars, uiVars, feedVars
<1>1. CASE RegisterDisplay(w)
  BY <1>1 DEF RegisterDisplay, GoesOn
<1>2. CASE RequiredFiles(w)
  BY <1>2 DEF RequiredFiles, GoesOn
<1>3. CASE GetSchedule(w)
  BY <1>3 DEF GetSchedule, Asks, GoesOn
<1>4. CASE OnSchedule(w)
  BY <1>4 DEF OnSchedule, FromString, HandsOn, GoesOn
<1>5. CASE OnRequiredFiles(w)
  BY <1>5 DEF OnRequiredFiles, GoesOn
<1>6. CASE SubmitLogs(w)
  BY <1>6 DEF SubmitLogs, GoesOn
<1>7. CASE CountStats(w)
  BY <1>7 DEF CountStats, GoesOn
<1>8. CASE ReadStats(w)
  BY <1>8 DEF ReadStats, GoesOn
<1>9. CASE RemoveStats(w)
  BY <1>9 DEF RemoveStats, GoesOn
<1>10. CASE SubmitStats(w)
  BY <1>10 DEF SubmitStats, GoesOn
<1>11. CASE NotifyStatus(w)
  BY <1>11 DEF NotifyStatus, GoesOn
<1>12. CASE Finish(w)
  BY <1>12 DEF Finish, GoesOn
<1> QED
  BY <1>1, <1>2, <1>3, <1>4, <1>5, <1>6, <1>7, <1>8, <1>9, <1>10, <1>11, <1>12 DEF Worker

(* A schedule that is handed on comes last in the queue.                   *)
LEMMA Appended ==
  ASSUME pending \in Seq(Nat), NEW read \in Nat, pending' = Append(pending, read)
  PROVE  /\ Len(pending) \in Nat /\ Len(pending') = Len(pending) + 1
         /\ pending'[Len(pending) + 1] = read
         /\ \A i \in 1..Len(pending) : pending'[i] = pending[i]
OBVIOUS

(* A step of a worker keeps the schedules in order.                        *)
LEMMA WorkerInOrder ==
  ASSUME FeedInv, NEW w \in Threads, Worker(w)
  PROVE  HeldBriefly' /\ FromTheCms' /\ Alone' /\ InOrder'
<1>t. CollectionTypeOK
  BY DEF FeedInv, ControlInv
<1>y. /\ published \in Nat /\ schedule \in Nat /\ stored \in Nat /\ pending \in Seq(Nat)
      /\ \A v \in Threads : fetched[v] \in Nat \cup {NoSchedule}
      /\ NoSchedule = -1 /\ Empty = 0
  BY <1>t DEF CollectionTypeOK, NoSchedule, Empty
<1>w. WorkerEffect(w)
  BY <1>t, WorkerSteps
<1>l. /\ \A v \in Threads \ {w} : stage'[v] = stage[v] /\ fetched'[v] = fetched[v]
      /\ Asks(w) \/ HandsOn(w) \/ GoesOn(w)
      /\ UNCHANGED <<published, overlapped, schedule, fileVars>>
  BY <1>t, WorkerLocal DEF FeedInv
<1>1. HeldBriefly'
  BY <1>l, <1>y DEF FeedInv, HeldBriefly, Asks, HandsOn, GoesOn
<1>2. Alone'
  <2>1. Live' \subseteq Live
    BY <1>t, <1>w, WorkerLive
  <2> QED BY <2>1, <1>l DEF FeedInv, Alone
<1>o. ~overlapped => \A v \in Threads \ {w} : fetched[v] = NoSchedule
  <2>1. w \in Live
    BY <1>t, <1>w, WorkerLive
  <2> QED BY <2>1 DEF FeedInv, Alone, HeldBriefly, Live
<1>3. FromTheCms'
  <2>1. schedule' <= published' /\ stored' <= published' /\ published' <= MaxVersion
    BY <1>l DEF FeedInv, FromTheCms, fileVars
  <2>2. \A v \in Threads : fetched'[v] <= published'
    BY <1>l, <1>y DEF FeedInv, FromTheCms, Asks, HandsOn, GoesOn
  <2>3. CASE UNCHANGED pending
    BY <1>l, <2>1, <2>2, <2>3 DEF FeedInv, FromTheCms
  <2>4. CASE HandsOn(w)
    <3>1. PICK read \in {fetched[w], Empty} : pending' = Append(pending, read)
      BY <2>4 DEF HandsOn
    <3>2. read \in Nat /\ read <= published
      BY <1>y, <2>4, <3>1 DEF FeedInv, FromTheCms, HandsOn
    <3>3. \A i \in 1..Len(pending') : pending'[i] <= published'
      BY <1>l, <1>y, <3>1, <3>2, Appended DEF FeedInv, FromTheCms
    <3> QED BY <2>1, <2>2, <3>3 DEF FromTheCms
  <2> QED BY <1>l, <2>3, <2>4 DEF Asks, GoesOn
<1>4. ASSUME ~overlapped PROVE Ordered'
  <2>o. Ordered
    BY <1>4 DEF FeedInv, InOrder
  <2>1. CASE GoesOn(w)
    BY <2>o, <2>1, <1>4, <1>l, <1>o DEF Ordered, GoesOn
  <2>2. CASE Asks(w)
    BY <2>o, <2>2, <1>4, <1>l, <1>o DEF Ordered, Asks, FeedInv, FromTheCms
  <2>3. CASE HandsOn(w)
    <3>1. PICK read \in {fetched[w], Empty} : pending' = Append(pending, read)
      BY <2>3 DEF HandsOn
    <3>2. /\ read \in Nat
          /\ read = Empty \/ (schedule <= read /\ \A i \in 1..Len(pending) : pending[i] <= read)
      BY <1>y, <2>o, <2>3, <3>1 DEF HandsOn, Ordered
    <3>3. /\ Len(pending) \in Nat /\ Len(pending') = Len(pending) + 1
          /\ pending'[Len(pending) + 1] = read
          /\ \A i \in 1..Len(pending) : pending'[i] = pending[i]
      BY <1>y, <3>1, <3>2, Appended
    <3>4. \A v \in Threads : fetched'[v] = NoSchedule
      BY <1>4, <1>l, <1>o, <2>3 DEF HandsOn
    <3>5. \A i \in 1..Len(pending') : pending'[i] = Empty \/ schedule' <= pending'[i]
      BY <1>l, <2>o, <3>2, <3>3 DEF Ordered
    <3>6. \A i, j \in 1..Len(pending') : i < j => pending'[j] = Empty \/ pending'[i] <= pending'[j]
      <4> SUFFICES ASSUME NEW i \in 1..Len(pending'), NEW j \in 1..Len(pending'), i < j
                   PROVE  pending'[j] = Empty \/ pending'[i] <= pending'[j]
        OBVIOUS
      <4>1. i \in 1..Len(pending)
        BY <3>3
      <4>2. CASE j \in 1..Len(pending)
        BY <2>o, <3>3, <4>1, <4>2 DEF Ordered
      <4>3. CASE j = Len(pending) + 1
        BY <3>2, <3>3, <4>1, <4>3
      <4> QED BY <3>3, <4>2, <4>3
    <3> QED BY <3>4, <3>5, <3>6 DEF Ordered
  <2> QED BY <1>l, <2>1, <2>2, <2>3
<1> QED BY <1>1, <1>2, <1>3, <1>4, <1>l DEF InOrder

(* The order is kept by every step.                                        *)
LEMMA FeedStep ==
  ASSUME FeedInv, [Next]_vars
  PROVE  FeedInv'
<1> USE DEF cmsVars, uiVars, sessionVars, timerVars, workerVars, fileVars, feedVars
<1>c. ControlInv'
  BY ControlStep DEF FeedInv
<1>t. CollectionTypeOK /\ CollectionTypeOK'
  BY <1>c DEF FeedInv, ControlInv
<1>y. /\ published \in Nat /\ schedule \in Nat /\ stored \in Nat /\ pending \in Seq(Nat)
      /\ \A v \in Threads : fetched[v] \in Nat \cup {NoSchedule}
      /\ NoSchedule = -1 /\ Empty = 0
  BY <1>t DEF CollectionTypeOK, NoSchedule, Empty
<1>i. HeldBriefly /\ FromTheCms /\ Alone /\ InOrder
  BY DEF FeedInv
<1>h. UNCHANGED workerVars => HeldBriefly'
  BY <1>i DEF HeldBriefly
<1>a. UNCHANGED <<stage, overlapped>> => Alone'
  BY <1>i DEF Alone, Live
<1>f. UNCHANGED <<fetched, feedVars, published>> => FromTheCms'
  BY <1>i DEF FromTheCms
<1>o. UNCHANGED <<fetched, feedVars, overlapped>> => InOrder'
  BY <1>i DEF InOrder, Ordered
<1> SUFFICES HeldBriefly' /\ FromTheCms' /\ Alone' /\ InOrder'
  BY <1>c DEF FeedInv
<1>1. ASSUME CollectNow, UNCHANGED <<published, feedVars>>
      PROVE  HeldBriefly' /\ FromTheCms' /\ Alone' /\ InOrder'
  <2>1. UNCHANGED <<listed, fetched>>
    BY <1>t, <1>1, CollectNowEffect
  <2>2. CASE UNCHANGED <<joining, workerThread, overlapped, running, stage>>
    BY <1>1, <2>1, <2>2, <1>h, <1>a, <1>f, <1>o
  <2>3. CASE /\ \E w \in Threads : /\ stage[w] = "none"
                                   /\ stage' = [stage EXCEPT ![w] = "registerDisplay"]
             /\ overlapped' = (Live # {} \/ (overlapped /\ pending # <<>>))
    <3>1. PICK w \in Threads : /\ stage[w] = "none"
                               /\ stage' = [stage EXCEPT ![w] = "registerDisplay"]
      BY <2>3
    <3>2. \A v \in Threads : stage'[v] = IF v = w THEN "registerDisplay" ELSE stage[v]
      BY <1>t, <3>1 DEF CollectionTypeOK
    <3>3. HeldBriefly'
      BY <1>i, <2>1, <3>1, <3>2 DEF HeldBriefly
    <3>4. ~overlapped' => Live = {} /\ (~overlapped \/ pending = <<>>)
      BY <2>3
    <3>5. Alone'
      BY <3>2, <3>4 DEF Alone, Live
    <3>6. ASSUME ~overlapped' PROVE Ordered'
      <4>1. \A v \in Threads : fetched'[v] = NoSchedule
        BY <1>i, <2>1, <3>4, <3>6 DEF HeldBriefly, Live
      <4>2. CASE pending = <<>>
        <5>1. Len(pending') = 0
          BY <1>1, <4>2
        <5> QED BY <4>1, <5>1 DEF Ordered
      <4>3. CASE ~overlapped
        BY <1>1, <1>i, <4>3, <2>1 DEF InOrder, Ordered
      <4> QED BY <3>4, <3>6, <4>2, <4>3
    <3> QED BY <1>1, <1>f, <2>1, <3>3, <3>5, <3>6 DEF InOrder
  <2> QED BY <1>t, <1>1, <2>2, <2>3, CollectNowEffect
<1>2. CASE Start \/ Request \/ TimerFires
  BY <1>1, <1>2 DEF Start, Request, TimerFires
<1>3. CASE Joined \/ LayoutEnds \/ Stop \/ UNCHANGED vars
  BY <1>3, <1>h, <1>a, <1>f, <1>o DEF Joined, LayoutEnds, Stop, vars
<1>4. CASE ScheduleAvailable
  <2>1. /\ schedule' = pending[1] /\ Len(pending) > 0 /\ pending' = Tail(pending)
        /\ Len(pending') = Len(pending) - 1
        /\ \A i \in 1..Len(pending') : pending'[i] = pending[i + 1]
        /\ UNCHANGED <<stored, fetched, published, overlapped, stage>>
    BY <1>4, <1>y DEF ScheduleAvailable
  <2>2. Len(pending) \in Nat /\ \A i \in 1..Len(pending) : pending[i] \in Nat
    BY <1>y
  <2>3. FromTheCms'
    BY <1>i, <2>1, <2>2 DEF FromTheCms
  <2>4. ASSUME Ordered PROVE Ordered'
    <3>1. \A i \in 1..Len(pending') : pending'[i] = Empty \/ schedule' <= pending'[i]
      BY <2>1, <2>2, <2>4 DEF Ordered
    <3>2. \A i, j \in 1..Len(pending') : i < j => pending'[j] = Empty \/ pending'[i] <= pending'[j]
      <4> SUFFICES ASSUME NEW i \in 1..Len(pending'), NEW j \in 1..Len(pending'), i < j
                   PROVE  pending'[j] = Empty \/ pending'[i] <= pending'[j]
        OBVIOUS
      <4>1. i + 1 \in 1..Len(pending) /\ j + 1 \in 1..Len(pending) /\ i + 1 < j + 1
        BY <2>1, <2>2
      <4>2. pending'[i] = pending[i + 1] /\ pending'[j] = pending[j + 1]
        BY <2>1
      <4> QED BY <2>4, <4>1, <4>2 DEF Ordered
    <3>3. \A w \in Threads : fetched'[w] # NoSchedule =>
            schedule' <= fetched'[w] /\ \A i \in 1..Len(pending') : pending'[i] <= fetched'[w]
      BY <2>1, <2>2, <2>4 DEF Ordered
    <3> QED BY <3>1, <3>2, <3>3 DEF Ordered
  <2> QED BY <1>4, <1>h, <1>a, <1>i, <2>1, <2>3, <2>4 DEF ScheduleAvailable, InOrder
<1>5. CASE ToFile
  <2>1. stored' \in {schedule, stored, Empty} /\ UNCHANGED <<published, overlapped, stage, fetched>>
    BY <1>5 DEF ToFile, Fails
  <2>2. FromTheCms'
    BY <1>5, <1>y, <1>i, <2>1 DEF ToFile, FromTheCms
  <2>3. InOrder'
    BY <1>5, <1>i DEF ToFile, InOrder, Ordered
  <2> QED BY <1>5, <1>h, <1>a, <2>1, <2>2, <2>3 DEF ToFile
<1>7. CASE PublishSchedule
  <2>1. published' = published + 1 /\ published < MaxVersion /\ MaxVersion \in Nat
    BY <1>7, CollectionAssumption DEF PublishSchedule
  <2>2. \A i \in 1..Len(pending) : pending[i] \in Nat
    BY <1>y
  <2>3. FromTheCms'
    BY <1>7, <1>i, <1>y, <2>1, <2>2 DEF PublishSchedule, FromTheCms
  <2> QED BY <1>7, <1>h, <1>a, <1>o, <2>3 DEF PublishSchedule
<1>8. CASE Crash
  <2>1. \A w \in Threads : stage'[w] = "none" /\ fetched'[w] = NoSchedule
    BY <1>8 DEF Crash
  <2>2. Len(pending') = 0 /\ UNCHANGED published
    BY <1>8 DEF Crash
  <2>3. schedule' = stored' /\ stored' \in {stored, Empty, schedule}
    BY <1>8 DEF Crash, FromFile
  <2>4. FromTheCms'
    BY <1>i, <1>y, <2>1, <2>2, <2>3 DEF FromTheCms
  <2>5. HeldBriefly' /\ Alone' /\ InOrder'
    BY <2>1, <2>2 DEF HeldBriefly, Alone, InOrder, Ordered, Live
  <2> QED BY <2>4, <2>5
<1>9. ASSUME NEW w \in Threads, Worker(w)
      PROVE  HeldBriefly' /\ FromTheCms' /\ Alone' /\ InOrder'
  BY <1>9, WorkerInOrder
<1> QED BY <1>2, <1>3, <1>4, <1>5, <1>7, <1>8, <1>9 DEF Next

(* The order holds at the start.                                           *)
LEMMA FeedStart == Init => FeedInv
<1> SUFFICES ASSUME Init PROVE FeedInv
  OBVIOUS
<1>1. ControlInv
  BY InitType DEF Init, ControlInv, WorkersAreOwned, NeverStranded, FreshStart, Live
<1>2. HeldBriefly /\ Alone
  BY DEF Init, HeldBriefly, Alone, Live
<1>3. FromTheCms /\ InOrder
  BY CollectionAssumption DEF Init, FromTheCms, InOrder, Ordered, Empty, NoSchedule
<1> QED BY <1>1, <1>2, <1>3 DEF FeedInv

(* It holds in every state.                                                *)
LEMMA FeedAlways == Spec => []FeedInv
<1>1. FeedInv /\ [Next]_vars => FeedInv'
  BY FeedStep
<1> QED BY <1>1, FeedStart, PTL DEF Spec

(* A step that leaves the schedules on their way alone stutters there.     *)
LEMMA FlightUnchanged == UNCHANGED <<fetched, pending>> => InFlight' = InFlight
BY DEF InFlight

(* What a worker does to the schedules in flight.                          *)
LEMMA WorkerFlight ==
  ASSUME FeedInv, NEW w \in Threads, Worker(w)
  PROVE  InFlight' = InFlight \cup {published} \/ InFlight' \subseteq InFlight \cup {Empty}
<1>t. CollectionTypeOK /\ HeldBriefly /\ pending \in Seq(Nat)
  BY DEF FeedInv, ControlInv, CollectionTypeOK
<1>y. published # NoSchedule /\ \A v \in Threads : fetched[v] \in Nat \cup {NoSchedule}
  BY <1>t DEF CollectionTypeOK, NoSchedule
<1>l. /\ \A v \in Threads \ {w} : fetched'[v] = fetched[v]
      /\ Asks(w) \/ HandsOn(w) \/ GoesOn(w)
  BY <1>t, WorkerLocal
<1>1. CASE Asks(w)
  BY <1>1, <1>l, <1>y DEF Asks, InFlight
<1>2. CASE GoesOn(w)
  BY <1>2, <1>l DEF GoesOn, InFlight
<1>3. CASE HandsOn(w)
  <2>1. PICK read \in {fetched[w], Empty} : pending' = Append(pending, read)
    BY <1>3 DEF HandsOn
  <2>2. read \in Nat
    BY <1>3, <1>y, <2>1 DEF HandsOn, Empty
  <2>3. {pending'[i] : i \in DOMAIN pending'} \subseteq {pending[i] : i \in DOMAIN pending} \cup {read}
    BY <1>t, <2>1, <2>2, Appended
  <2>4. {fetched'[v] : v \in Threads} \subseteq {fetched[v] : v \in Threads} \cup {NoSchedule}
    BY <1>3, <1>l DEF HandsOn
  <2>5. read \in InFlight \cup {Empty}
    BY <1>3, <2>1 DEF HandsOn, InFlight
  <2> QED BY <2>3, <2>4, <2>5 DEF InFlight
<1> QED BY <1>l, <1>1, <1>2, <1>3

(* A step of the player is one of ScheduleFeed, or changes nothing there.  *)
LEMMA FeedRefines ==
  ASSUME FeedInv, [Next]_vars
  PROVE  [Feed!FeedNext]_Feed!feedVars
<1> USE DEF cmsVars, uiVars, workerVars, fileVars, feedVars, Feed!FeedNext, Feed!feedVars
<1>t. CollectionTypeOK /\ FromTheCms /\ InOrder /\ HeldBriefly
  BY DEF FeedInv, ControlInv
<1>y. published \in Nat /\ schedule \in Nat /\ pending \in Seq(Nat)
  BY <1>t DEF CollectionTypeOK
<1>f. UNCHANGED <<fetched, pending>> => InFlight' = InFlight
  BY FlightUnchanged
<1>1. CASE PublishSchedule
  <2>1. published' \in published + 1..MaxVersion
    BY <1>1, <1>y, CollectionAssumption DEF PublishSchedule
  <2> QED BY <1>1, <1>f, <2>1 DEF PublishSchedule, Feed!Publish
<1>2. CASE ScheduleAvailable
  <2>1. /\ schedule' = pending[1] /\ 1 \in DOMAIN pending /\ Len(pending) > 0
        /\ \A i \in DOMAIN pending' : i + 1 \in DOMAIN pending /\ pending'[i] = pending[i + 1]
        /\ UNCHANGED <<fetched, published, overlapped, stored>>
        /\ ~saving /\ saving' = (schedule' # schedule)
    BY <1>2, <1>y DEF ScheduleAvailable, UiFree
  <2>2. schedule' \in InFlight /\ InFlight' \subseteq InFlight
    BY <2>1 DEF InFlight
  <2>3. CASE schedule' = schedule
    <3>1. saving' = FALSE /\ saving = FALSE
      BY <1>t, <2>1, <2>3 DEF CollectionTypeOK
    <3> QED BY <2>1, <2>2, <2>3, <3>1 DEF Feed!Lose
  <2>4. CASE schedule' # schedule
    <3>1. overlapped \/ schedule' > schedule \/ schedule' = Feed!Empty
      <4>1. ~overlapped => pending[1] = Empty \/ schedule <= pending[1]
        BY <1>t, <1>y, <2>1 DEF InOrder, Ordered
      <4>2. schedule' \in Nat
        BY <1>y, <2>1
      <4> QED BY <1>y, <2>1, <2>4, <4>1, <4>2 DEF Empty, Feed!Empty
    <3>2. saving' = TRUE
      BY <2>1, <2>4
    <3> QED BY <2>1, <2>2, <2>4, <3>1, <3>2 DEF Feed!Follow
  <2> QED BY <2>3, <2>4
<1>3. CASE ToFile
  <2>1. stored' \in {schedule, stored, Feed!Empty}
    BY <1>3 DEF ToFile, Empty, Feed!Empty
  <2> QED BY <1>3, <1>f, <2>1 DEF ToFile, Fails, Feed!Save
<1>4. CASE Crash
  <2>1. InFlight' = {}
    BY <1>4 DEF Crash, InFlight
  <2>2. stored' \in IF saving THEN {schedule, stored, Feed!Empty} ELSE {stored}
    BY <1>4 DEF Crash, FromFile, Empty, Feed!Empty
  <2> QED BY <1>4, <2>1, <2>2 DEF Crash, Feed!Restart
<1>5. ASSUME NEW w \in Threads, Worker(w) PROVE [Feed!FeedNext]_Feed!feedVars
  <2>1. UNCHANGED <<published, overlapped, schedule, fileVars>>
    BY <1>5, <1>t, WorkerLocal
  <2>2. CASE InFlight' = InFlight \cup {published}
    BY <2>1, <2>2 DEF Feed!Ask
  <2>3. CASE InFlight' \subseteq InFlight \cup {Empty}
    BY <2>1, <2>3 DEF Feed!Lose, Empty, Feed!Empty
  <2> QED BY <1>5, <2>2, <2>3, WorkerFlight
<1>6. ASSUME CollectNow, UNCHANGED <<published, feedVars>>
      PROVE  [Feed!FeedNext]_Feed!feedVars
  <2>1. InFlight' = InFlight
    BY <1>6, <1>t, <1>f, CollectNowEffect
  <2>2. CASE UNCHANGED overlapped
    BY <1>6, <2>1, <2>2
  <2>3. CASE overlapped' = (Live # {} \/ (overlapped /\ pending # <<>>))
    <3>1. ASSUME ~overlapped', overlapped PROVE InFlight = {}
      <4>1. Live = {} /\ pending = <<>>
        BY <2>3, <3>1
      <4> QED BY <4>1, <1>t DEF HeldBriefly, Live, InFlight
    <3>2. overlapped' \in BOOLEAN
      BY <2>3
    <3> QED BY <1>6, <2>1, <3>1, <3>2 DEF Feed!Overlap
  <2> QED BY <1>6, <1>t, <2>2, <2>3, CollectNowEffect
<1>7. CASE Start \/ Request \/ TimerFires
  BY <1>6, <1>7 DEF Start, Request, TimerFires
<1>8. CASE Joined \/ LayoutEnds \/ Stop \/ UNCHANGED vars
  BY <1>8, <1>f DEF Joined, LayoutEnds, Stop, vars
<1> QED BY <1>1, <1>2, <1>3, <1>4, <1>5, <1>7, <1>8 DEF Next

(* CollectionInterval and Scheduler: the player follows the schedules that *)
(* it asked the CMS for, in their order but when sessions overlapped, and  *)
(* goes on after a restart with what is in its file, wherever requests     *)
(* fail.                                                                   *)
THEOREM PlayerFollowsTheCms == Spec => FollowsTheCms
<1>1. Init => Feed!FeedInit
  <2>1. Init => InFlight = {}
    BY DEF Init, InFlight
  <2> QED BY <2>1 DEF Init, Feed!FeedInit, Empty, Feed!Empty
<1>2. FeedInv /\ [Next]_vars => [Feed!FeedNext]_Feed!feedVars
  BY FeedRefines
<1> QED BY <1>1, <1>2, FeedAlways, PTL DEF Spec, FollowsTheCms, Feed!FeedSpec
=============================================================================
