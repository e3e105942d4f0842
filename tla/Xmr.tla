-------------------------------- MODULE Xmr --------------------------------
(* XmrManager and its two subscribers.  Each change of a setting makes the *)
(* UI thread stop both subscribers and start one: Zmq::Subscriber has a    *)
(* thread that makes its own context and socket, Ws::Subscriber one that   *)
(* connects again whenever its connection ends.                            *)
EXTENDS MainLoop, Integers, FiniteSets

CONSTANTS Settings,         \* what the CMS may send: host, type, address, key
          Uris,             \* the addresses whose scheme is ws or wss
          DefaultEndpoint,  \* the address that is derived from that of the CMS
          CmsKey,           \* the key that stands in for an empty one
          MaxThreads        \* threads of ZMQ at a time

VARIABLES settings,   \* the XMR fields of playerSettings_
          incoming,   \* the settings that fromFields copies
          manager,    \* the configuration that XmrManager has stored
          zmq,        \* worker_ and context_ of Zmq::Subscriber
          thread,     \* its threads
          contexts,   \* Zmq::Context: that of a thread has its number
          ws,         \* Ws::Subscriber and its thread
          overtaken   \* a stop came before the thread had made its context

xmrVars == <<settings, incoming, manager, zmq, thread, contexts, ws, overtaken>>

(* MaxThreads leaves a number for a new thread: one thread may still run,  *)
(* and one context that is not its own may still be there.                 *)
ASSUME XmrAssumption ==
  /\ Settings \subseteq [host : STRING, type : STRING, address : STRING, key : STRING]
  /\ MaxThreads \in Nat /\ MaxThreads >= 3

Threads == 1..MaxThreads
None    == 0
Fields  == {"host", "type", "address", "key"}

(* What shutdown and zmq_ctx_term do to a context: running_ and whether    *)
(* its sockets still receive.  `dying' is one that zmq_ctx_term waits for. *)
ContextStates == {"running", "shut", "dying", "terminated"}
Running(c)    == contexts[c] \in {"running", "dying"}
Sockets(c)    == {t \in Threads : thread[t].pc = "receiving" /\ thread[t].socket = c}
LiveThreads   == {t \in Threads : thread[t].pc # "ended"}
NoThread      == [pc |-> "ended", host |-> "", socket |-> None, old |-> None]
NoWs          == [pc |-> "ended", running |-> FALSE, fd |-> FALSE, shut |-> FALSE,
                  uri |-> "", key |-> ""]

-----------------------------------------------------------------------------
(* normalizeType, and what connect makes of the settings.                  *)
NormalizeType(type) == IF type = "" THEN "zmq" ELSE type
UsesWs(c) == c.type = "ws"

Requested ==
  LET type == NormalizeType(settings.type)
  IN [host |-> settings.host, type |-> type, address |-> settings.address,
      key |-> IF settings.key = "" THEN CmsKey ELSE settings.key,
      endpoint |-> IF type # "ws" THEN <<"tcp", settings.host>>
                   ELSE <<"ws", IF settings.address # "" THEN settings.address
                                ELSE DefaultEndpoint>>]

Cleared == <<>>
Usable(c) ==
  /\ c.host \notin {"", "DISABLED"}
  /\ UsesWs(c) => c.endpoint[2] \in Uris /\ c.key # ""

(* Fault to be caught: the fields of the web socket are forgotten.         *)
IsSameHost(c) == manager.host = c.host /\ manager.type = c.type

(* isSameConfig: ZMQ does not look at the fields of the other subscriber.  *)
IsSameConfig(c) ==
  /\ manager.host = c.host /\ manager.type = c.type
  /\ manager.endpoint = c.endpoint
  /\ UsesWs(c) => manager.address = c.address /\ manager.key = c.key

(* XmrManager::connect: both subscribers are stopped, one is run, and run  *)
(* begins with a stop of its own.  info_.host is cleared when none is run. *)
Connect ==
  /\ Step("connect")
  /\ \/ IsSameConfig(Requested) /\ Goto(<<>>) /\ UNCHANGED manager
     \/ /\ ~IsSameConfig(Requested)
        /\ manager' = [Requested EXCEPT !.endpoint = IF Usable(Requested) THEN @ ELSE Cleared]
        /\ Goto(<<"zmqStop", "wsStop">> \o
                IF ~Usable(Requested) THEN <<>>
                ELSE IF UsesWs(Requested) THEN <<"wsStop", "wsRun">>
                ELSE <<"zmqStop", "zmqRun">>)
  /\ UNCHANGED <<phase, queue, settings, incoming, zmq, thread, contexts, ws, overtaken>>

(* Field::setValue: the value, then the slot of valueChanged, which is     *)
(* connect.                                                                *)
SetValue(field, value) ==
  /\ settings' = [settings EXCEPT ![field] = value]
  /\ Goto(<<"connect">>)

(* PlayerSettings::fromFields: the slot of a field that changes runs       *)
(* before the next field is looked at.                                     *)
SetIfChanged(field) ==
  /\ Step(field)
  /\ \/ settings[field] = incoming[field] /\ Goto(<<>>) /\ UNCHANGED settings
     \/ settings[field] # incoming[field] /\ SetValue(field, incoming[field])
  /\ UNCHANGED <<phase, queue, incoming, manager, zmq, thread, contexts, ws, overtaken>>

-----------------------------------------------------------------------------
(* Zmq::Subscriber on the UI thread.  stop does nothing unless there is a  *)
(* context that runs; otherwise it shuts it down, joins the thread, and    *)
(* terminates the context that context_ holds by then.                     *)
ZmqStop ==
  /\ Step("zmqStop")
  /\ IF Running(zmq.context)
     THEN /\ contexts' = [contexts EXCEPT ![zmq.context] = "shut"]
          /\ Goto(<<"zmqJoin", "zmqTerminate">>)
          /\ UNCHANGED overtaken
     ELSE /\ overtaken' = (overtaken \/ LiveThreads # {})
          /\ Goto(<<>>)
          /\ UNCHANGED contexts
  /\ UNCHANGED <<phase, queue, settings, incoming, manager, zmq, thread, ws>>

ZmqJoin ==
  /\ Step("zmqJoin")
  /\ zmq.worker # None => thread[zmq.worker].pc = "ended"
  /\ zmq' = [zmq EXCEPT !.worker = None]
  /\ Goto(<<>>)
  /\ UNCHANGED <<phase, queue, settings, incoming, manager, thread, contexts, ws, overtaken>>

(* Context::safeTerminate: zmq_ctx_term first wakes every socket, then     *)
(* waits until the last is closed.                                         *)
TermBegins(c) ==
  /\ Sockets(c) # {} /\ contexts[c] = "running"
  /\ contexts' = [contexts EXCEPT ![c] = "dying"]
TermEnds(c) == Sockets(c) = {} /\ contexts' = [contexts EXCEPT ![c] = "terminated"]

ZmqTerminate ==
  /\ Step("zmqTerminate")
  /\ \/ TermBegins(zmq.context) /\ UNCHANGED <<ui, overtaken>>
     \/ TermEnds(zmq.context) /\ Goto(<<>>) /\ overtaken' = (LiveThreads # {})
  /\ UNCHANGED <<phase, queue, settings, incoming, manager, zmq, thread, ws>>

(* run: the new thread starts before the old one is joined.                *)
FreeThread ==
  CHOOSE t \in LET used == {zmq.worker, zmq.context, zmq.old} \cup
                           UNION {{thread[u].socket, thread[u].old} : u \in LiveThreads}
               IN (Threads \ LiveThreads) \ used : TRUE

ZmqRun ==
  /\ Step("zmqRun")
  /\ LET t == FreeThread
     IN /\ thread' = [thread EXCEPT ![t] = [NoThread EXCEPT !.pc = "starting", !.host = manager.host]]
        /\ zmq' = [zmq EXCEPT !.worker = t, !.old = zmq.worker]
  /\ Goto(<<"zmqReplace">>)
  /\ UNCHANGED <<phase, queue, settings, incoming, manager, contexts, ws, overtaken>>

ZmqReplace ==
  /\ Step("zmqReplace")
  /\ zmq.old # None => thread[zmq.old].pc = "ended"
  /\ zmq' = [zmq EXCEPT !.old = None]
  /\ Goto(<<>>)
  /\ UNCHANGED <<phase, queue, settings, incoming, manager, thread, contexts, ws, overtaken>>

(* The thread of Zmq::Subscriber::run.  It stores its context first, and   *)
(* the one that context_ held is terminated.                               *)
ThreadStep == UNCHANGED <<phase, ui, queue, settings, incoming, manager, ws, overtaken>>

MakeContext(t) ==
  /\ thread[t].pc = "starting"
  /\ zmq' = [zmq EXCEPT !.context = t]
  /\ contexts' = [contexts EXCEPT ![t] = "running",
                                  ![zmq.context] = IF @ = "running" THEN "dying" ELSE @]
  /\ thread' = [thread EXCEPT ![t].old = zmq.context,
                              ![t].pc = IF contexts[zmq.context] = "terminated"
                                        THEN "connecting" ELSE "disposing"]
  /\ ThreadStep

DisposeContext(t) ==
  /\ thread[t].pc = "disposing"
  /\ TermEnds(thread[t].old)
  /\ thread' = [thread EXCEPT ![t].pc = "connecting"]
  /\ ThreadStep /\ UNCHANGED zmq

(* Socket is made of the context that context_ holds by now, and connects; *)
(* either may fail, and the exception ends the thread.                     *)
OpenSocket(t) ==
  /\ thread[t].pc = "connecting"
  /\ \/ /\ contexts[zmq.context] = "running"
        /\ thread' = [thread EXCEPT ![t].pc = "receiving", ![t].socket = zmq.context]
     \/ thread' = [thread EXCEPT ![t] = NoThread]
  /\ ThreadStep /\ UNCHANGED <<zmq, contexts>>

(* runMessageQueue: ETERM leads back to the condition of the loop, which   *)
(* asks the context that context_ holds.                                   *)
LeaveQueue(t) ==
  /\ thread[t].pc = "receiving"
  /\ contexts[thread[t].socket] # "running" /\ ~Running(zmq.context)
  /\ thread' = [thread EXCEPT ![t] = NoThread]
  /\ ThreadStep /\ UNCHANGED <<zmq, contexts>>

ZmqThread(t) == MakeContext(t) \/ DisposeContext(t) \/ OpenSocket(t) \/ LeaveQueue(t)

-----------------------------------------------------------------------------
(* Ws::Subscriber on the UI thread: running_ is cleared, the descriptor    *)
(* that has been stored is shut down, and the thread is joined.            *)
WsUiStep == UNCHANGED <<phase, queue, settings, incoming, manager, zmq, thread, contexts, overtaken>>

WsStop ==
  /\ Step("wsStop")
  /\ ws' = [ws EXCEPT !.running = FALSE, !.fd = FALSE, !.shut = @ \/ ws.fd]
  /\ Goto(<<"wsJoin">>)
  /\ WsUiStep

WsJoin ==
  /\ Step("wsJoin")
  /\ ws.pc = "ended"
  /\ Goto(<<>>)
  /\ WsUiStep /\ UNCHANGED ws

WsRun ==
  /\ Step("wsRun")
  /\ ws' = [NoWs EXCEPT !.pc = "looping", !.running = TRUE,
                        !.uri = manager.endpoint[2], !.key = manager.key]
  /\ Goto(<<>>)
  /\ WsUiStep

(* runLoop.  Each call of the connection may fail, and does when it has    *)
(* been shut down.                                                         *)
WsMoves(pc) == ws' = [ws EXCEPT !.pc = pc]
WsStep == UNCHANGED <<phase, ui, queue, settings, incoming, manager, zmq, thread, contexts, overtaken>>

WsLoop ==
  /\ ws.pc = "looping"
  /\ IF ws.running THEN WsMoves("connecting") ELSE ws' = NoWs
  /\ WsStep

WsConnect ==
  /\ ws.pc = "connecting"
  /\ \/ ws' = [ws EXCEPT !.pc = "greeting", !.fd = TRUE]
     \/ WsMoves("failed")
  /\ WsStep

WsGreet ==
  /\ ws.pc = "greeting"
  /\ \/ ~ws.shut /\ WsMoves(IF ws.running THEN "reading" ELSE "closing")
     \/ WsMoves("failed")
  /\ WsStep

WsReadFails  == ws.pc = "reading" /\ ws.shut /\ WsMoves("failed") /\ WsStep
WsPeerCloses == ws.pc = "reading" /\ WsMoves("failed") /\ WsStep
WsClose      == ws.pc = "closing" /\ WsMoves("failed") /\ WsStep

(* activeSocketFd_ is cleared.                                             *)
WsForget == ws.pc = "failed" /\ ws' = [ws EXCEPT !.pc = "sleeping", !.fd = FALSE, !.shut = FALSE] /\ WsStep

(* Fault to be caught: the first connection that fails ends the thread.    *)
WsGivesUp == ws.pc = "sleeping" /\ WsMoves("ended") /\ WsStep

(* sleepBeforeReconnect looks at running_ every second.                    *)
WsSleep ==
  /\ ws.pc = "sleeping"
  /\ IF ws.running THEN WsMoves("looping") ELSE ws' = NoWs
  /\ WsStep

WsThread == WsLoop \/ WsConnect \/ WsGreet \/ WsReadFails \/ WsClose \/ WsForget \/ WsSleep

-----------------------------------------------------------------------------
(* A message is received by a thread of ZMQ whose socket is healthy, or by *)
(* that of the web socket; processXmrMessage drops one that has expired or *)
(* whose action it does not know.                                          *)
Listening ==
  \/ \E t \in Threads : thread[t].pc = "receiving" /\ contexts[thread[t].socket] = "running"
  \/ ws.pc = "reading" /\ ~ws.shut

SlotOf ==
  [collectNow    |-> "collectNow",    rekeyAction       |-> "collectNow",
   licenceCheck  |-> "collectNow",    clearStatsAndLogs |-> "collectNow",
   screenShot    |-> "screenShot",    changeLayout      |-> "layoutChange",
   overlayLayout |-> "overlayLayout", revertToSchedule  |-> "revertToSchedule",
   criteriaUpdate |-> "criteriaUpdate", commandAction   |-> "commandAction",
   dataUpdate    |-> "dataUpdate",    triggerWebhook    |-> "triggerWebhook",
   purgeAll      |-> "purgeAll"]

MessageReceived(message) ==
  /\ Listening
  /\ IF ~message.expired /\ message.action \in DOMAIN SlotOf
     THEN PushToUiThread([Task(SlotOf[message.action]) EXCEPT !.download = message.downloadRequired])
     ELSE UNCHANGED queue
  /\ UNCHANGED <<phase, ui>> /\ UNCHANGED xmrVars

XmrUi ==
  \/ Connect \/ (\E f \in Fields : SetIfChanged(f))
  \/ ZmqStop \/ ZmqJoin \/ ZmqTerminate \/ ZmqRun \/ ZmqReplace
  \/ WsStop \/ WsJoin \/ WsRun
=============================================================================
