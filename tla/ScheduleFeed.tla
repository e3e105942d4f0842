---------------------------- MODULE ScheduleFeed ----------------------------
(***************************************************************************)
(* What the collections promise of the schedule.  The CMS publishes ever   *)
(* newer schedules, the player asks for the newest and follows what has    *)
(* been asked for, in that order but when sessions overlapped.  An answer  *)
(* may be lost, or be read as the empty schedule.  A player that starts    *)
(* goes on with what is in the file, which is what was followed last when  *)
(* that was written to its end.                                            *)
(***************************************************************************)
EXTENDS Naturals

CONSTANT MaxVersion    \* the newest schedule

VARIABLES
  published,    \* the newest schedule of the CMS
  inFlight,     \* the schedules that the player has asked for
  overlapped,   \* whether these may be out of order
  followed,     \* the schedule of the player
  stored,       \* the schedule in the file
  saving        \* whether the file is being written

feedVars == <<published, inFlight, overlapped, followed, stored, saving>>

Empty == 0

FeedInit ==
  /\ published = 0 /\ inFlight = {} /\ overlapped = FALSE
  /\ followed = Empty /\ stored = Empty /\ saving = FALSE

Publish ==
  /\ published' \in published + 1..MaxVersion
  /\ UNCHANGED <<inFlight, overlapped, followed, stored, saving>>

(* The schedules are in order again when none is in flight.                *)
Overlap ==
  /\ overlapped' \in BOOLEAN
  /\ overlapped => overlapped' \/ inFlight = {}
  /\ UNCHANGED <<published, inFlight, followed, stored, saving>>

Ask ==
  /\ inFlight' = inFlight \cup {published}
  /\ UNCHANGED <<published, overlapped, followed, stored, saving>>

Lose ==
  /\ inFlight' \in SUBSET (inFlight \cup {Empty})
  /\ UNCHANGED <<published, overlapped, followed, stored, saving>>

Follow ==
  /\ ~saving /\ saving' = TRUE
  /\ followed' \in inFlight \ {followed}
  /\ overlapped \/ followed' > followed \/ followed' = Empty
  /\ inFlight' \in SUBSET inFlight
  /\ UNCHANGED <<published, overlapped, stored>>

Save ==
  /\ saving /\ saving' = FALSE
  /\ stored' \in {followed, stored, Empty}
  /\ UNCHANGED <<published, inFlight, overlapped, followed>>

Restart ==
  /\ stored' \in IF saving THEN {followed, stored, Empty} ELSE {stored}
  /\ followed' = stored' /\ saving' = FALSE
  /\ inFlight' = {} /\ overlapped' = FALSE
  /\ UNCHANGED published

FeedNext == Publish \/ Overlap \/ Ask \/ Lose \/ Follow \/ Save \/ Restart

FeedSpec == FeedInit /\ [][FeedNext]_feedVars
=============================================================================
