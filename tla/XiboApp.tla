------------------------------- MODULE XiboApp -------------------------------
(* XiboApp: the threads of XMR, of the HTTP client and of the embedded     *)
(* server around the one UI thread, from the start of the program to its   *)
(* end.  A collection is its first request, whose answer brings the        *)
(* settings; what the slots do to the scheduler is in module Scheduler.    *)
EXTENDS Xmr, HttpClient, EmbeddedServer

CONSTANTS FirstSettings,  \* playerSettings.xml when the player starts
          Messages,       \* what the CMS sends over XMR
          Requests,       \* what pages ask of the server
          MaxStimuli      \* bound: messages, requests and collections of the timer

VARIABLES collector,      \* the thread of CollectionInterval
          stimuli

appVars == <<collector, stimuli, connection>>
vars == <<phase, ui, queue, xmrVars, httpVars, appVars>>

ASSUME AppAssumption == /\ FirstSettings \in Settings
                        /\ Requesters = {"collector", "screenShot"}
                        /\ Requests \subseteq HttpRequests
                        /\ Messages \subseteq [action : STRING, downloadRequired : BOOLEAN,
                                               expired : BOOLEAN]
                        /\ MaxStimuli \in Nat

Slots == {SlotOf[a] : a \in DOMAIN SlotOf} \cup {"settingsUpdated"}
         \cup UNION {HandedOver(r) : r \in HttpRequests}
-----------------------------------------------------------------------------
(* XiboApp::XiboApp runs connect once; XiboApp::run makes the collection   *)
(* and the screenshots and enters the main loop, whose start begins a      *)
(* collection.                                                             *)
AppInit ==
  /\ phase = "starting" /\ ui = <<"connect">> /\ queue = <<>>
  /\ settings = FirstSettings /\ incoming = FirstSettings
  /\ manager = [host |-> "", type |-> "", address |-> "", key |-> "", endpoint |-> Cleared]
  /\ zmq = [worker |-> None, context |-> None, old |-> None]
  /\ thread = [t \in Threads |-> NoThread]
  /\ contexts = [c \in Threads \cup {None} |-> "terminated"]
  /\ ws = NoWs /\ overtaken = FALSE
  /\ stopped = FALSE /\ session = [s \in Requesters |-> NoSession] /\ cancelling = {}
  /\ connection = [c \in Clients |-> "none"]
  /\ collector = "idle" /\ stimuli = 0

Started ==
  /\ phase = "starting" /\ ui = <<>>
  /\ phase' = "running"
  /\ collector' = "starting"
  /\ UNCHANGED <<ui, queue, xmrVars, httpVars, connection, stimuli>>

-----------------------------------------------------------------------------
(* CollectionInterval::collectNow and its thread: registerDisplay posts a  *)
(* request and waits, and settingsUpdated is handed to the UI thread.      *)
CollectNow == collector' = IF collector = "idle" THEN "starting" ELSE collector

RegisterDisplay ==
  /\ collector = "starting"
  /\ Post("collector")
  /\ collector' = "waiting"
  /\ HttpStep /\ UNCHANGED <<xmrVars, connection, stimuli>>

(* What the CMS answers; BaseResponseParser takes only a body that can be  *)
(* read, and parseBody makes settings of it when the display is ready.     *)
Answers == [body : {"fault", "unreadable", "display"},
            status : {"Ready", "Added", "Waiting", "Invalid"}, settings : Settings]
Parsed(answer) == answer.body = "display"
ParseBody(answer) ==
  IF answer.status = "Ready"
  THEN {[answer.settings EXCEPT !.type = NormalizeType(@)]} ELSE {}

OnDisplayRegistered ==
  /\ collector = "waiting" /\ session["collector"].result # "none"
  /\ collector' = "idle"
  /\ \/ /\ session["collector"].result = "answer"
        /\ \E answer \in Answers :
             /\ Parsed(answer)
             /\ \E sent \in ParseBody(answer) :
                  PushToUiThread([Task("settingsUpdated") EXCEPT !.settings = sent])
     \/ UNCHANGED queue
  /\ session' = [session EXCEPT !["collector"] = IF @.stage = "done" THEN NoSession ELSE @]
  /\ UNCHANGED <<phase, ui, xmrVars, stopped, cancelling, connection, stimuli>>

-----------------------------------------------------------------------------
(* The slots, one task of the queue at a time.  Those that are left out of *)
(* the first four change the scheduler, the layouts or nothing.            *)
Collects(task) ==
  \/ task.slot \in {"collectNow", "dataUpdate", "purgeAll"}
  \/ task.slot \in {"layoutChange", "overlayLayout"} /\ task.download

Slot ==
  /\ phase = "running" /\ ui = <<>> /\ queue # <<>>
  /\ queue' = Tail(queue)
  /\ LET task == Head(queue)
     IN /\ IF Collects(task) THEN CollectNow ELSE UNCHANGED collector
        /\ IF task.slot = "settingsUpdated"
           THEN incoming' = task.settings /\ ui' = <<"host", "type", "address", "key">>
           ELSE /\ UNCHANGED incoming
                /\ ui' = IF task.slot = "screenShot" THEN <<"screenShot">> ELSE <<>>
  /\ UNCHANGED <<phase, settings, manager, zmq, thread, contexts, ws, overtaken,
                 httpVars, connection, stimuli>>

(* GdkScreenShoter: without a window, a surface of some size, or a buffer  *)
(* that can be encoded, the picture is empty.                              *)
Pictures == {"png", "empty"}

(* ScreenShotInterval::takeScreenShot: the picture is taken on the UI      *)
(* thread and submitted, unless it is empty.  Bound: one submission at a   *)
(* time.                                                                   *)
TakeScreenShot ==
  /\ Step("screenShot")
  /\ Goto(<<>>)
  /\ \E picture \in Pictures :
       IF picture = "png" /\ session["screenShot"].stage = "done"
       THEN Post("screenShot") ELSE UNCHANGED session
  /\ UNCHANGED <<phase, queue, stopped, cancelling, xmrVars, appVars>>

(* The shutdown action: XMR, the HTTP client, and the thread of the        *)
(* collection, in this order.                                              *)
Shutdown ==
  /\ phase = "running" /\ ui = <<>>
  /\ phase' = "ending"
  /\ ui' = <<"zmqStop", "wsStop", "clientStop", "collectorJoin">>
  /\ UNCHANGED <<queue, xmrVars, httpVars, appVars>>

CollectorJoin ==
  /\ Step("collectorJoin")
  /\ collector = "idle"
  /\ phase' = "ended" /\ ui' = <<>>
  /\ UNCHANGED <<queue, xmrVars, httpVars, appVars>>

-----------------------------------------------------------------------------
(* What comes from outside, MaxStimuli times.                              *)
Stimulus == stimuli < MaxStimuli /\ stimuli' = stimuli + 1

Message(m) == Stimulus /\ MessageReceived(m) /\ UNCHANGED <<httpVars, collector, connection>>

(* The timer of the collections, and that of the screenshots.              *)
TimerFires ==
  /\ Stimulus /\ phase = "running" /\ ui = <<>>
  /\ \/ CollectNow /\ UNCHANGED ui
     \/ ui' = <<"screenShot">> /\ UNCHANGED collector
  /\ UNCHANGED <<phase, queue, xmrVars, httpVars, connection>>

Request(c, r) ==
  /\ Stimulus
  /\ OnRead(c, r)
  /\ UNCHANGED <<xmrVars, httpVars, collector>>

Accept(c) == OnAccept(c) /\ UNCHANGED <<xmrVars, httpVars, collector, stimuli>>
Answer(c) == OnWrite(c) /\ UNCHANGED <<xmrVars, httpVars, collector, stimuli>>
HangUp(c) == Close(c) /\ UNCHANGED <<xmrVars, httpVars, collector, stimuli>>
PeerCloses == Stimulus /\ WsPeerCloses /\ UNCHANGED <<httpVars, collector, connection>>

-----------------------------------------------------------------------------
UiThread ==
  \/ XmrUi /\ UNCHANGED <<httpVars, appVars>>
  \/ HttpUi /\ UNCHANGED <<xmrVars, appVars>>
  \/ Started \/ Slot \/ TakeScreenShot \/ CollectorJoin

XmrZmqThread(t) == ZmqThread(t) /\ UNCHANGED <<httpVars, appVars>>
XmrWsThread     == WsThread /\ UNCHANGED <<httpVars, appVars>>
IoThread(s)     == HttpThread(s) /\ UNCHANGED <<xmrVars, appVars>>
CollectorThread == RegisterDisplay \/ OnDisplayRegistered

System ==
  \/ UiThread \/ CollectorThread \/ XmrWsThread
  \/ \E t \in Threads : XmrZmqThread(t)
  \/ \E s \in Requesters : IoThread(s)
  \/ \E c \in Clients : Answer(c)

Environment ==
  \/ Shutdown \/ TimerFires \/ PeerCloses
  \/ \E m \in Messages : Message(m)
  \/ \E c \in Clients : Accept(c) \/ HangUp(c) \/ \E r \in Requests : Request(c, r)

Over == phase \in {"ended", "crashed"}
AppNext == (~Over /\ (System \/ Environment)) \/ (Over /\ UNCHANGED vars)

AppSpec == AppInit /\ [][AppNext]_vars

(* Every thread that can go on does; the CMS answers a request or refuses  *)
(* it, and so do the servers of XMR.                                       *)
AppFairness ==
  /\ WF_vars(~Over /\ UiThread)
  /\ WF_vars(~Over /\ CollectorThread)
  /\ WF_vars(~Over /\ XmrWsThread)
  /\ \A t \in Threads : WF_vars(~Over /\ XmrZmqThread(t))
  /\ \A s \in Requesters : WF_vars(~Over /\ IoThread(s))

AppFairSpec == AppSpec /\ AppFairness

-----------------------------------------------------------------------------
(* Every variable keeps its type through the start, the changes of         *)
(* settings, which come field by field, and the end of the program; the    *)
(* thread of the web socket is told to run only while there is one.        *)
Field(f) == {s[f] : s \in Settings} \cup (IF f = "type" THEN {NormalizeType("")} ELSE {})
SettingsType == [host : Field("host"), type : Field("type"),
                 address : Field("address"), key : Field("key")]
Tasks == [slot : Slots, download : BOOLEAN, settings : SettingsType \cup {<<>>}]
UiSteps == Fields \cup {"connect", "zmqStop", "zmqJoin", "zmqTerminate", "zmqRun", "zmqReplace",
                       "wsStop", "wsJoin", "wsRun", "screenShot", "clientStop", "cancelActive",
                       "collectorJoin"}
ThreadStates == {"starting", "disposing", "connecting", "receiving", "ended"}
WsStates == {"looping", "connecting", "greeting", "reading", "closing", "failed", "sleeping", "ended"}

XmrTypeOK ==
  /\ settings \in SettingsType /\ incoming \in SettingsType
  /\ zmq \in [worker : Threads \cup {None}, context : Threads \cup {None}, old : Threads \cup {None}]
  /\ contexts \in [Threads \cup {None} -> ContextStates] /\ contexts[None] = "terminated"
  /\ \A t \in Threads :
       /\ thread[t].pc \in ThreadStates
       /\ thread[t].socket \in Threads \cup {None} /\ thread[t].old \in Threads \cup {None}
       /\ thread[t].pc = "receiving" => thread[t].socket # None
  /\ ws.pc \in WsStates /\ overtaken \in BOOLEAN
  /\ ws.running => ws.pc # "ended"

HttpTypeOK ==
  /\ stopped \in BOOLEAN /\ cancelling \subseteq Requesters
  /\ session \in [Requesters -> [stage : {"posted", "busy", "setting", "done"}, result : Results,
                                 outcome : Results, tested : BOOLEAN, late : BOOLEAN]]

AppTypeOK ==
  /\ phase \in Phases /\ stimuli \in 0..MaxStimuli
  /\ \A i \in 1..Len(ui) : ui[i] \in UiSteps
  /\ \A i \in 1..Len(queue) : queue[i] \in Tasks
  /\ XmrTypeOK /\ HttpTypeOK
  /\ connection \in [Clients -> SessionStates]
  /\ collector \in {"idle", "starting", "waiting"}

(* Between two slots, and when the program has ended, the one subscriber   *)
(* that runs is the one that the settings ask for, of the host, address    *)
(* and key they name, and no thread, socket or context of an earlier one   *)
(* is left: connect and stop of XmrManager, whatever the threads are at    *)
(* when they are stopped.  Except when the thread of ZMQ had not made its  *)
(* context yet: stop does not see it then.                                 *)
SubscribedAsConfigured ==
  (~overtaken /\ ui = <<>> /\ phase \in {"running", "ended"}) =>
    LET on(isWs) == phase = "running" /\ Usable(Requested) /\ UsesWs(Requested) = isWs
    IN /\ \A t \in LiveThreads :
            on(FALSE) /\ t = zmq.worker /\ thread[t].host = settings.host
       /\ \A c \in Threads : contexts[c] # "terminated" => c = zmq.context /\ on(FALSE)
       /\ IF on(TRUE)
          THEN ws.running /\ ws.uri = Requested.endpoint[2] /\ ws.key = Requested.key
          ELSE ws.pc = "ended"

(* Nothing is under way; and the races in which the code does not come to  *)
(* rest.                                                                   *)
AtRest ==
  \/ phase = "ended"
  \/ phase = "running" /\ ui = <<>> /\ queue = <<>> /\ collector = "idle"
Raced == overtaken \/ session["collector"].late \/ phase = "crashed"

(* The UI thread comes back from every stop of a subscriber, whatever the  *)
(* other threads hand over is handled in the end, each collection ends,    *)
(* and so does the program once it is told to: no join, no context and no  *)
(* promise waits for ever.  Except when a stop overtakes the thread of     *)
(* ZMQ, or a session begins or ends while shutdown cancels the others.     *)
EverythingEnds == []<>(AtRest \/ Raced)
=============================================================================
