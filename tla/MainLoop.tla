------------------------------ MODULE MainLoop ------------------------------
(* The main loop of GTK and the one thread that runs it.  What other       *)
(* threads hand over waits in the queue of the loop; a call of the UI      *)
(* thread that may block is split into steps, and `ui' holds the steps     *)
(* that are left of the call it is in.                                     *)
EXTENDS Naturals, Sequences

VARIABLES phase,    \* of the program: before, in, after the loop, or crashed
          ui,       \* the steps left of the call that the UI thread is in
          queue     \* what pushToUiThread has handed over

Phases == {"starting", "running", "ending", "ended", "crashed"}

Step(op)  == ui # <<>> /\ Head(ui) = op
Goto(ops) == ui' = ops \o Tail(ui)

(* What a slot is called with: the message that asks for a download, the   *)
(* settings that the CMS has sent.                                         *)
Task(slot) == [slot |-> slot, download |-> FALSE, settings |-> <<>>]

(* MainLoop::pushToUiThread.  The UI thread owns the context of GLib from  *)
(* the start of the loop to the end of the shutdown action.  Before that   *)
(* invoke acquires the context and runs the callback on the thread that    *)
(* calls: it finds no collection and no screenshots to start, and what it  *)
(* does to the scheduler is not part of this model.                        *)
PushToUiThread(task) ==
  queue' = IF phase = "starting" THEN queue ELSE Append(queue, task)
=============================================================================
