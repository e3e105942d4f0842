--------------------------- MODULE EmbeddedServer ---------------------------
(* The HTTP server inside the player, which the pages of widgets call: its *)
(* connections, the controller that takes a request, and what is handed    *)
(* over to the UI thread.                                                  *)
EXTENDS MainLoop

CONSTANTS Clients   \* connections

VARIABLES connection

(* A Session reads a request or writes the answer to it.                   *)
SessionStates == {"none", "reading", "writing"}

-----------------------------------------------------------------------------
(* The controllers, by the requests they match and what they hand over.    *)
(* `readable' stands for a body from which the fields can be read: if not, *)
(* the answer is an error and nothing is handed over.                      *)
HttpRequests == [method : {"get", "post"}, readable : BOOLEAN,
                 path : {"info", "criteria", "trigger", "expire", "extend", "set", "fault", "file"}]

InfoController(r)     == r.method = "get"  /\ r.path = "info"
CriteriaController(r) == r.method = "post" /\ r.path = "criteria"
HookController(r)     == r.method = "post" /\ r.path = "trigger"
DurationController(r) == r.method = "post" /\ r.path \in {"expire", "extend", "set"}
FaultController(r)    == r.method = "post" /\ r.path = "fault"

(* Session::onRead asks them in this order; /info and files are answered   *)
(* on the thread of the server.                                            *)
HandedOver(r) ==
  IF ~r.readable \/ InfoController(r) THEN {}
  ELSE IF CriteriaController(r) THEN {"criteriaUpdate"}
  ELSE IF HookController(r) THEN {"triggerWebhook"}
  ELSE IF DurationController(r) THEN {"duration"}
  ELSE IF FaultController(r) THEN {"fault"}
  ELSE {}

ServerStep == UNCHANGED <<phase, ui>>

OnAccept(c) ==
  /\ connection[c] = "none"
  /\ connection' = [connection EXCEPT ![c] = "reading"]
  /\ ServerStep /\ UNCHANGED queue

(* Session::onRead: the request is handed over before it is answered.      *)
OnRead(c, request) ==
  /\ connection[c] = "reading"
  /\ connection' = [connection EXCEPT ![c] = "writing"]
  /\ \/ HandedOver(request) = {} /\ UNCHANGED queue
     \/ \E slot \in HandedOver(request) : PushToUiThread(Task(slot))
  /\ ServerStep

(* Session::onWrite reads again unless the answer ends the connection; an  *)
(* error of either direction, or the end of the stream, ends the session.  *)
OnWrite(c) ==
  /\ connection[c] = "writing"
  /\ connection' = [connection EXCEPT ![c] = "reading"]
  /\ ServerStep /\ UNCHANGED queue

Close(c) ==
  /\ connection[c] \in {"reading", "writing"}
  /\ connection' = [connection EXCEPT ![c] = "none"]
  /\ ServerStep /\ UNCHANGED queue
=============================================================================
