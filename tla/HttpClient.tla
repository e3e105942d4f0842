----------------------------- MODULE HttpClient -----------------------------
(* HttpClient and its sessions.  A thread posts a request and waits for    *)
(* the promise of its session; the threads of the io_context take the      *)
(* session from one operation to the next; shutdown stops the io_context   *)
(* and cancels the sessions it finds.                                      *)
EXTENDS MainLoop, Integers, FiniteSets

CONSTANTS Requesters    \* who has a request under way, one at a time

VARIABLES stopped,      \* ioc_.stopped()
          session,      \* the last HttpSession of each requester
          cancelling    \* activeSessions_ that shutdown has still to cancel

httpVars == <<stopped, session, cancelling>>

Results == {"none", "answer", "error"}
NoSession == [stage |-> "done", result |-> "none", outcome |-> "none",
               tested |-> FALSE, late |-> FALSE]
Busy(s) == session[s].stage = "busy"

HttpStep == UNCHANGED <<phase, ui, queue, stopped, cancelling>>

-----------------------------------------------------------------------------
(* HttpClient::send on the thread that asks: a client that is stopped      *)
(* answers at once; otherwise the session is made, and enters              *)
(* activeSessions_, when stopped() has been read.                          *)
Post(s) ==
  session' = [session EXCEPT ![s] =
    [NoSession EXCEPT !.stage = IF stopped THEN session[s].stage ELSE "posted",
                      !.result = IF stopped THEN "error" ELSE "none"]]

StartSession(s) ==
  /\ session[s].stage = "posted"
  /\ session' = [session EXCEPT ![s].stage = "busy", ![s].late = stopped]
  /\ HttpStep

(* A session goes from one operation to the next, resolve, connect,        *)
(* handshake, write and read, on the threads of the io_context, and ends   *)
(* with the first error or the answer.  setHttpResult reads resultSet_     *)
(* first, and sets the flag and the promise in a second step.              *)
SessionFinished(s) ==
  /\ ~stopped /\ Busy(s)
  /\ \E outcome \in {"error", "answer"} :
       session' = [session EXCEPT ![s].stage = IF session[s].result = "none" THEN "setting" ELSE "done",
                                  ![s].outcome = outcome]
  /\ HttpStep

(* A promise that is set twice throws, and nothing catches it.             *)
SetResult(s) ==
  /\ session[s].stage = "setting"
  /\ IF session[s].result = "none"
     THEN /\ session' = [session EXCEPT ![s].result = session[s].outcome, ![s].stage = "done"]
          /\ UNCHANGED phase
     ELSE phase' = "crashed" /\ UNCHANGED session
  /\ UNCHANGED <<ui, queue, stopped, cancelling>>

HttpThread(s) == StartSession(s) \/ SessionFinished(s) \/ SetResult(s)

-----------------------------------------------------------------------------
(* Fault to be caught: the sessions are left to the stopped io_context.    *)
ClientStopAlone ==
  /\ Step("clientStop")
  /\ stopped' = TRUE
  /\ Goto(<<"cancelActive">>)
  /\ UNCHANGED <<phase, queue, session, cancelling>>

(* HttpClient::shutdown on the UI thread, and cancelActiveSession: each    *)
(* session that has not been destroyed has its result set, in the same two *)
(* steps.                                                                  *)
ClientStop ==
  /\ Step("clientStop")
  /\ stopped' = TRUE
  /\ cancelling' = IF stopped THEN {}
                   ELSE {s \in Requesters : session[s].stage \in {"busy", "setting"}}
  /\ Goto(<<"cancelActive">>)
  /\ UNCHANGED <<phase, queue, session>>

CancelActive ==
  /\ Step("cancelActive")
  /\ \A s \in cancelling : ~session[s].tested
  /\ IF cancelling = {}
     THEN Goto(<<>>) /\ UNCHANGED <<session, cancelling>>
     ELSE /\ UNCHANGED ui
          /\ \E s \in cancelling :
               IF session[s].result = "none"
               THEN session' = [session EXCEPT ![s].tested = TRUE] /\ UNCHANGED cancelling
               ELSE cancelling' = cancelling \ {s} /\ UNCHANGED session
  /\ UNCHANGED <<phase, queue, stopped>>

CancelResult(s) ==
  /\ Step("cancelActive")
  /\ s \in cancelling /\ session[s].tested
  /\ IF session[s].result = "none"
     THEN /\ session' = [session EXCEPT ![s].result = "error", ![s].tested = FALSE,
                                       ![s].stage = IF @ = "setting" THEN @ ELSE "done"]
          /\ cancelling' = cancelling \ {s}
          /\ UNCHANGED phase
     ELSE phase' = "crashed" /\ UNCHANGED <<session, cancelling>>
  /\ UNCHANGED <<ui, queue, stopped>>

HttpUi == ClientStop \/ CancelActive \/ \E s \in Requesters : CancelResult(s)
=============================================================================
