-------------------------- MODULE XiboApp_proofs --------------------------
(***************************************************************************)
(* The types of XiboApp, and that the subscriber that runs is the one the  *)
(* settings ask for: for any settings the CMS may send, in any order, and  *)
(* whatever the threads are at when they are stopped.                      *)
(***************************************************************************)
EXTENDS XiboApp, Selection_proofs

-----------------------------------------------------------------------------
(* The calls of the UI thread.  Stops come before the run they make room   *)
(* for; what is split into steps is not interrupted; the fields that are   *)
(* still to be looked at come last.                                        *)

ZmqStops   == {"zmqStop", "zmqJoin", "zmqTerminate"}
WsStops    == {"wsStop", "wsJoin"}
Configures == Fields \cup {"connect", "zmqRun", "zmqReplace", "wsRun"}
Ends       == {"clientStop", "cancelActive", "collectorJoin"}
HeadOnly   == {"connect", "zmqJoin", "wsJoin", "zmqReplace", "cancelActive", "screenShot"}

Pending(ops) == \E op \in Elements(ui) : op \in ops

(* What may come after a.                                                  *)
Follows(a, b) ==
  /\ b \notin HeadOnly
  /\ b = "zmqTerminate" => a = "zmqJoin"
  /\ a \in Configures => b \in Fields
  /\ a \in {"clientStop", "cancelActive"} => b = "collectorJoin"
  /\ a \notin {"screenShot", "collectorJoin"}

Ordered(s) == \A i, j \in 1..Len(s) : i < j => Follows(s[i], s[j])

UiInv ==
  /\ phase \in Phases
  /\ ui \in Seq(UiSteps)
  /\ Ordered(ui)
  /\ Pending({"zmqJoin"}) => Pending({"zmqTerminate"})
  /\ Pending(Configures) => phase \notin {"ending", "ended"}
  /\ Pending(Ends) => phase \in {"ending", "crashed"}
  /\ phase = "ended" => ui = <<>>

(* The steps of the call the UI thread is in that come after the next one. *)
Later == Elements(Tail(ui))

(* The next step is h; when it is done those of S come before the others.  *)
Moves(h, S) ==
  /\ ui # <<>> /\ Head(ui) = h
  /\ Elements(ui) = {h} \cup Later
  /\ Elements(ui') = S \cup Later
  /\ Later \subseteq UiSteps
  /\ \A b \in Later : Follows(h, b)
  /\ ui' \in Seq(UiSteps) /\ Ordered(ui')

(* What follows the first of two sequences and the second is ordered.      *)
LEMMA ConcatOrdered ==
  ASSUME NEW U, NEW s \in Seq(U), NEW t \in Seq(U), Ordered(s), Ordered(t),
         \A a \in Elements(s), b \in Elements(t) : Follows(a, b)
  PROVE  Ordered(s \o t)
<1> DEFINE u == s \o t
<1>1. /\ Len(u) = Len(s) + Len(t) /\ Len(s) \in Nat /\ Len(t) \in Nat
      /\ \A i \in 1..(Len(s) + Len(t)) :
           u[i] = IF i <= Len(s) THEN s[i] ELSE t[i - Len(s)]
  BY ConcatProperties
<1>2. /\ \A i \in 1..Len(s) : s[i] \in Elements(s)
      /\ \A i \in 1..Len(t) : t[i] \in Elements(t)
  BY DEF Elements
<1> HIDE DEF u
<1>3. ASSUME NEW i \in 1..Len(u), NEW j \in 1..Len(u), i < j
      PROVE  Follows(u[i], u[j])
  <2>1. CASE j <= Len(s)
    <3>1. /\ i \in 1..Len(s) /\ j \in 1..Len(s)
          /\ u[i] = s[i] /\ u[j] = s[j]
      BY <1>1, <1>3, <2>1
    <3> QED BY <1>3, <3>1 DEF Ordered
  <2>2. CASE i <= Len(s) /\ ~(j <= Len(s))
    <3>1. /\ i \in 1..Len(s) /\ j - Len(s) \in 1..Len(t)
          /\ u[i] = s[i] /\ u[j] = t[j - Len(s)]
      BY <1>1, <2>2
    <3> QED BY <1>2, <3>1
  <2>3. CASE ~(i <= Len(s))
    <3>1. /\ i - Len(s) \in 1..Len(t) /\ j - Len(s) \in 1..Len(t)
          /\ i - Len(s) < j - Len(s)
          /\ u[i] = t[i - Len(s)] /\ u[j] = t[j - Len(s)]
      BY <1>1, <1>3, <2>3
    <3> QED BY <3>1 DEF Ordered
  <2> QED BY <2>1, <2>2, <2>3
<1> QED BY <1>3 DEF Ordered, u

(* What is left of an ordered sequence follows its head.                   *)
LEMMA TailOrdered ==
  ASSUME NEW U, NEW s \in Seq(U), s # <<>>, Ordered(s)
  PROVE  /\ Tail(s) \in Seq(U) /\ Ordered(Tail(s))
         /\ \A b \in Elements(Tail(s)) : Follows(Head(s), b)
<1> DEFINE t == Tail(s)
<1>1. /\ Len(s) \in Nat \ {0} /\ Head(s) = s[1]
      /\ t \in Seq(U) /\ Len(t) = Len(s) - 1
      /\ \A i \in 1..Len(t) : t[i] = s[i + 1]
  BY EmptySeq, HeadTailProperties
<1> HIDE DEF t
<1>2. \A i \in 1..Len(t) : i + 1 \in 1..Len(s) /\ 1 < i + 1
  BY <1>1
<1>3. Ordered(t)
  <2> SUFFICES ASSUME NEW i \in 1..Len(t), NEW j \in 1..Len(t), i < j
               PROVE  Follows(t[i], t[j])
    BY DEF Ordered
  <2>1. i + 1 \in 1..Len(s) /\ j + 1 \in 1..Len(s) /\ i + 1 < j + 1
    BY <1>2
  <2>2. Follows(s[i + 1], s[j + 1])
    BY <2>1 DEF Ordered
  <2> QED BY <1>1, <2>2
<1>4. \A b \in Elements(t) : Follows(Head(s), b)
  <2> SUFFICES ASSUME NEW i \in 1..Len(t) PROVE Follows(Head(s), t[i])
    BY <1>1 DEF Elements
  <2>1. i + 1 \in 1..Len(s) /\ 1 \in 1..Len(s) /\ 1 < i + 1
    BY <1>1, <1>2
  <2>2. Follows(s[1], s[i + 1])
    BY <2>1 DEF Ordered
  <2> QED BY <1>1, <2>2
<1> QED BY <1>1, <1>3, <1>4 DEF t

(* A step that puts others in its place.                                   *)
LEMMA GotoMoves ==
  ASSUME UiInv, NEW h, Step(h), NEW ops \in Seq(UiSteps), Ordered(ops), Goto(ops),
         \A a \in Elements(ops) : \A b \in UiSteps : Follows(h, b) => Follows(a, b)
  PROVE  Moves(h, Elements(ops))
<1> DEFINE r == Tail(ui)
<1>1. ui \in Seq(UiSteps) /\ ui # <<>> /\ Head(ui) = h /\ ui' = ops \o r
  BY DEF UiInv, Step, Goto
<1>2. /\ r \in Seq(UiSteps) /\ Ordered(r)
      /\ \A b \in Elements(r) : Follows(h, b)
  BY <1>1, TailOrdered DEF UiInv
<1>3. Elements(ui) = {h} \cup Elements(r)
  BY <1>1, TailElements
<1> HIDE DEF r
<1>4. Elements(r) \subseteq UiSteps
  BY <1>2 DEF Elements
<1>5. \A a \in Elements(ops), b \in Elements(r) : Follows(a, b)
  BY <1>2, <1>4
<1>6. ui' \in Seq(UiSteps) /\ Elements(ui') = Elements(ops) \cup Elements(r)
  BY <1>1, <1>2, ConcatElements
<1>7. Ordered(ui')
  BY <1>1, <1>2, <1>5, ConcatOrdered
<1> QED BY <1>1, <1>2, <1>3, <1>4, <1>6, <1>7 DEF Moves, Later, r

(* A step that is the end of its call.                                     *)
LEMMA DoneMoves ==
  ASSUME UiInv, NEW h, Step(h), Goto(<<>>)
  PROVE  Moves(h, {})
<1>1. <<>> \in Seq(UiSteps) /\ Elements(<<>>) = {} /\ Ordered(<<>>)
  BY ShortElements DEF Ordered
<1>2. Moves(h, Elements(<<>>))
  BY <1>1, GotoMoves
<1> QED BY <1>1, <1>2

(* A step that is followed by one other.                                   *)
LEMMA OneMoves ==
  ASSUME UiInv, NEW h, Step(h), NEW a \in UiSteps, Goto(<<a>>),
         \A b \in UiSteps : Follows(h, b) => Follows(a, b)
  PROVE  Moves(h, {a})
<1> DEFINE ops == <<a>>
<1>1. ops \in Seq(UiSteps) /\ Elements(ops) = {a} /\ Ordered(ops) /\ Goto(ops)
  BY ShortElements DEF Ordered
<1> HIDE DEF ops
<1>2. Moves(h, Elements(ops))
  BY <1>1, GotoMoves
<1> QED BY <1>1, <1>2

(* A step that is followed by two others.                                  *)
LEMMA TwoOrdered ==
  ASSUME NEW a \in UiSteps, NEW b \in UiSteps, Follows(a, b)
  PROVE  /\ <<a, b>> \in Seq(UiSteps) /\ Elements(<<a, b>>) = {a, b}
         /\ Ordered(<<a, b>>)
<1> DEFINE s == <<a, b>>
<1>1. s \in Seq(UiSteps) /\ Len(s) = 2 /\ s[1] = a /\ s[2] = b
  OBVIOUS
<1>2. Elements(<<a, b>>) = {a, b}
  BY ShortElements
<1> HIDE DEF s
<1>3. \A i, j \in 1..Len(s) : i < j => i = 1 /\ j = 2
  BY <1>1
<1>4. Ordered(s)
  BY <1>1, <1>3 DEF Ordered
<1> QED BY <1>1, <1>2, <1>4 DEF s

(* What connect runs when its stops are done.                              *)
Runs ==
  IF ~Usable(Requested) THEN {}
  ELSE IF UsesWs(Requested) THEN {"wsStop", "wsRun"} ELSE {"zmqStop", "zmqRun"}

(* XmrManager::connect: both stops, and the run of one subscriber.         *)
LEMMA ConnectMoves ==
  ASSUME UiInv, Connect
  PROVE  \/ /\ IsSameConfig(Requested) /\ manager' = manager
            /\ Moves("connect", {})
         \/ /\ manager' = [Requested EXCEPT !.endpoint =
                             IF Usable(Requested) THEN Requested.endpoint ELSE Cleared]
            /\ Moves("connect", {"zmqStop", "wsStop"} \cup Runs)
<1>1. CASE IsSameConfig(Requested) /\ Goto(<<>>) /\ manager' = manager
  BY <1>1, DoneMoves DEF Connect
<1>2. CASE ~IsSameConfig(Requested)
  <2> DEFINE stops == <<"zmqStop", "wsStop">>
             runs == IF ~Usable(Requested) THEN <<>>
                     ELSE IF UsesWs(Requested) THEN <<"wsStop", "wsRun">>
                     ELSE <<"zmqStop", "zmqRun">>
             ops == stops \o runs
  <2>1. /\ Goto(ops) /\ Step("connect")
        /\ manager' = [Requested EXCEPT !.endpoint =
                         IF Usable(Requested) THEN Requested.endpoint ELSE Cleared]
    BY <1>2 DEF Connect
  <2>2. {"zmqStop", "wsStop", "wsRun", "zmqRun"} \subseteq UiSteps
    BY DEF UiSteps
  <2>3. /\ Follows("zmqStop", "wsStop") /\ Follows("wsStop", "wsRun")
        /\ Follows("zmqStop", "zmqRun")
    BY DEF Follows, HeadOnly, Configures, Fields
  <2>4. /\ stops \in Seq(UiSteps) /\ Ordered(stops)
        /\ Elements(stops) = {"zmqStop", "wsStop"}
    BY <2>2, <2>3, TwoOrdered
  <2>5. runs \in Seq(UiSteps) /\ Ordered(runs) /\ Elements(runs) = Runs
    <3>1. CASE ~Usable(Requested)
      BY <3>1, ShortElements DEF Runs, Ordered
    <3>2. CASE Usable(Requested) /\ UsesWs(Requested)
      BY <2>2, <2>3, <3>2, TwoOrdered DEF Runs
    <3>3. CASE Usable(Requested) /\ ~UsesWs(Requested)
      BY <2>2, <2>3, <3>3, TwoOrdered DEF Runs
    <3> QED BY <3>1, <3>2, <3>3
  <2>6. \A a \in {"zmqStop", "wsStop"}, b \in Runs : Follows(a, b)
    BY DEF Runs, Follows, HeadOnly, Configures, Fields
  <2> HIDE DEF stops, runs
  <2>7. /\ ops \in Seq(UiSteps) /\ Ordered(ops)
        /\ Elements(ops) = {"zmqStop", "wsStop"} \cup Runs
    BY <2>4, <2>5, <2>6, ConcatElements, ConcatOrdered
  <2>8. \A a \in {"zmqStop", "wsStop"} \cup Runs : \A b \in UiSteps :
          Follows("connect", b) => Follows(a, b)
    BY DEF Runs, Follows, HeadOnly, Configures, Fields
  <2> HIDE DEF ops
  <2>9. Moves("connect", Elements(ops))
    BY <2>1, <2>7, <2>8, GotoMoves
  <2> QED BY <2>1, <2>7, <2>9
<1> QED BY <1>1, <1>2 DEF Connect

(* The other steps of XmrManager and its subscribers on the UI thread.     *)
LEMMA XmrMoves ==
  ASSUME UiInv
  PROVE  /\ \A f \in Fields : SetIfChanged(f) =>
              \/ settings' = settings /\ Moves(f, {})
              \/ Moves(f, {"connect"})
         /\ ZmqStop =>
              \/ Running(zmq.context) /\ Moves("zmqStop", {"zmqJoin", "zmqTerminate"})
              \/ ~Running(zmq.context) /\ Moves("zmqStop", {})
         /\ ZmqJoin => Moves("zmqJoin", {})
         /\ ZmqRun => Moves("zmqRun", {"zmqReplace"})
         /\ ZmqReplace => Moves("zmqReplace", {})
         /\ WsStop => Moves("wsStop", {"wsJoin"})
         /\ WsJoin => Moves("wsJoin", {})
         /\ WsRun => Moves("wsRun", {})
<1>1. /\ {"connect", "zmqJoin", "zmqTerminate", "zmqReplace", "wsJoin"} \subseteq UiSteps
      /\ Fields \subseteq UiSteps
  BY DEF UiSteps
<1>2. \A f \in Fields : SetIfChanged(f) =>
        \/ settings' = settings /\ Moves(f, {})
        \/ Moves(f, {"connect"})
  <2> SUFFICES ASSUME NEW f \in Fields, SetIfChanged(f)
               PROVE  \/ settings' = settings /\ Moves(f, {})
                      \/ Moves(f, {"connect"})
    OBVIOUS
  <2>1. Step(f) /\ ((settings' = settings /\ Goto(<<>>)) \/ Goto(<<"connect">>))
    BY DEF SetIfChanged, SetValue
  <2>2. \A b \in UiSteps : Follows(f, b) => Follows("connect", b)
    BY DEF Follows, HeadOnly, Configures, Fields
  <2>3. CASE settings' = settings /\ Goto(<<>>)
    BY <2>1, <2>3, DoneMoves
  <2>4. CASE Goto(<<"connect">>)
    BY <1>1, <2>1, <2>2, <2>4, OneMoves
  <2> QED BY <2>1, <2>3, <2>4
<1>3. ZmqStop =>
        \/ Running(zmq.context) /\ Moves("zmqStop", {"zmqJoin", "zmqTerminate"})
        \/ ~Running(zmq.context) /\ Moves("zmqStop", {})
  <2> SUFFICES ASSUME ZmqStop
               PROVE  \/ Running(zmq.context) /\ Moves("zmqStop", {"zmqJoin", "zmqTerminate"})
                      \/ ~Running(zmq.context) /\ Moves("zmqStop", {})
    OBVIOUS
  <2> DEFINE ops == <<"zmqJoin", "zmqTerminate">>
  <2>1. Step("zmqStop") /\ IF Running(zmq.context) THEN Goto(ops) ELSE Goto(<<>>)
    BY DEF ZmqStop
  <2>2. Follows("zmqJoin", "zmqTerminate")
    BY DEF Follows, HeadOnly, Configures, Fields
  <2>3. /\ ops \in Seq(UiSteps) /\ Ordered(ops)
        /\ Elements(ops) = {"zmqJoin", "zmqTerminate"}
    BY <1>1, <2>2, TwoOrdered
  <2>4. \A a \in {"zmqJoin", "zmqTerminate"} : \A b \in UiSteps :
          Follows("zmqStop", b) => Follows(a, b)
    BY DEF Follows, HeadOnly, Configures, Fields
  <2>5. CASE Running(zmq.context)
    <3> HIDE DEF ops
    <3>1. Moves("zmqStop", Elements(ops))
      BY <2>1, <2>3, <2>4, <2>5, GotoMoves
    <3> QED BY <2>3, <2>5, <3>1
  <2>6. CASE ~Running(zmq.context)
    BY <2>1, <2>6, DoneMoves
  <2> QED BY <2>5, <2>6
<1>4. ZmqJoin => Moves("zmqJoin", {})
  BY DoneMoves DEF ZmqJoin
<1>5. ZmqRun => Moves("zmqRun", {"zmqReplace"})
  <2>1. \A b \in UiSteps : Follows("zmqRun", b) => Follows("zmqReplace", b)
    BY DEF Follows, Configures
  <2>2. ZmqRun => Step("zmqRun") /\ Goto(<<"zmqReplace">>)
    BY DEF ZmqRun
  <2> QED BY <1>1, <2>1, <2>2, OneMoves
<1>6. ZmqReplace => Moves("zmqReplace", {})
  BY DoneMoves DEF ZmqReplace
<1>7. WsStop => Moves("wsStop", {"wsJoin"})
  <2>1. \A b \in UiSteps : Follows("wsStop", b) => Follows("wsJoin", b)
    BY DEF Follows, HeadOnly, Configures, Fields
  <2>2. WsStop => Step("wsStop") /\ Goto(<<"wsJoin">>)
    BY DEF WsStop
  <2> QED BY <1>1, <2>1, <2>2, OneMoves
<1>8. WsJoin => Moves("wsJoin", {})
  BY DoneMoves DEF WsJoin
<1>9. WsRun => Moves("wsRun", {})
  BY DoneMoves DEF WsRun
<1> QED BY <1>2, <1>3, <1>4, <1>5, <1>6, <1>7, <1>8, <1>9

(* The end of zmq_ctx_term, and the steps of shutdown and the screenshot.  *)
LEMMA OtherMoves ==
  ASSUME UiInv
  PROVE  /\ ZmqTerminate =>
              \/ /\ TermBegins(zmq.context) /\ Step("zmqTerminate")
                 /\ ui' = ui /\ overtaken' = overtaken
              \/ /\ TermEnds(zmq.context) /\ Moves("zmqTerminate", {})
                 /\ overtaken' = (LiveThreads # {})
         /\ ClientStop => Moves("clientStop", {"cancelActive"})
         /\ CancelActive => ui' = ui \/ Moves("cancelActive", {})
         /\ TakeScreenShot => Moves("screenShot", {})
<1>1. "cancelActive" \in UiSteps
  BY DEF UiSteps
<1>2. \A b \in UiSteps : Follows("clientStop", b) => Follows("cancelActive", b)
  BY DEF Follows, HeadOnly, Configures, Fields
<1>3. ClientStop => Step("clientStop") /\ Goto(<<"cancelActive">>)
  BY DEF ClientStop
<1>4. ClientStop => Moves("clientStop", {"cancelActive"})
  BY <1>1, <1>2, <1>3, OneMoves
<1>5. CancelActive => Step("cancelActive") /\ (ui' = ui \/ Goto(<<>>))
  BY DEF CancelActive
<1>6. TakeScreenShot => Step("screenShot") /\ Goto(<<>>)
  BY DEF TakeScreenShot
<1>7. ZmqTerminate =>
        /\ Step("zmqTerminate")
        /\ \/ TermBegins(zmq.context) /\ ui' = ui /\ overtaken' = overtaken
           \/ TermEnds(zmq.context) /\ Goto(<<>>) /\ overtaken' = (LiveThreads # {})
  BY DEF ZmqTerminate
<1> QED BY <1>4, <1>5, <1>6, <1>7, DoneMoves

-----------------------------------------------------------------------------
(* What is pending, and the order of the calls.                            *)

(* What may come after each step.                                          *)
LEMMA LaterSteps ==
  ASSUME NEW h, NEW S, Moves(h, S)
  PROVE  /\ Later \cap HeadOnly = {}
         /\ h \in Configures => Later \subseteq Fields
         /\ h # "zmqJoin" => "zmqTerminate" \notin Later
         /\ h \in {"clientStop", "cancelActive"} => Later \subseteq {"collectorJoin"}
         /\ h \in {"screenShot", "collectorJoin"} => Later = {}
BY Zenon DEF Moves, Follows

(* What is pending before a step and after it.                             *)
LEMMA MovesPending ==
  ASSUME NEW h, NEW S, Moves(h, S), NEW ops
  PROVE  /\ Pending(ops) <=> (h \in ops \/ (\E b \in ops : b \in Later))
         /\ Pending(ops)' <=> ((\E a \in S : a \in ops) \/ (\E b \in ops : b \in Later))
BY Zenon DEF Moves, Pending

(* Nothing is pending when the UI thread is in no call.                    *)
LEMMA NothingPending ==
  ASSUME ui = <<>>, NEW ops
  PROVE  ~Pending(ops)
BY ShortElements DEF Pending

(* A step of a call, while the program goes on.                            *)
LEMMA MovesUi ==
  ASSUME UiInv, NEW h, NEW S, Moves(h, S), phase' = phase,
         "zmqJoin" \in S => "zmqTerminate" \in S,
         S \cap Configures # {} => h \in Configures,
         S \cap Ends # {} => h \in Ends
  PROVE  UiInv'
<1>1. ui' \in Seq(UiSteps) /\ Ordered(ui)'
  BY DEF Moves, Ordered
<1>2. "zmqJoin" \notin Later
  BY LaterSteps, Zenon DEF HeadOnly
<1>3. Pending({"zmqJoin"})' => Pending({"zmqTerminate"})'
  <2>1. /\ Pending({"zmqJoin"})' => S \cap {"zmqJoin"} # {} \/ Later \cap {"zmqJoin"} # {}
        /\ S \cap {"zmqTerminate"} # {} => Pending({"zmqTerminate"})'
    BY MovesPending, Zenon
  <2> QED BY <1>2, <2>1
<1>4. Pending(Configures)' => Pending(Configures)
  BY MovesPending, Zenon
<1>5. Pending(Ends)' => Pending(Ends)
  BY MovesPending, Zenon
<1>6. phase # "ended"
  BY DEF UiInv, Moves
<1> QED BY <1>1, <1>3, <1>4, <1>5, <1>6 DEF UiInv

(* A step of another thread, which at most ends the program.               *)
LEMMA UiKept ==
  ASSUME UiInv, ui' = ui, phase' \in {phase, "crashed"}
  PROVE  UiInv'
<1>1. \A ops : Pending(ops)' <=> Pending(ops)
  BY Zenon DEF Pending
<1>2. Ordered(ui)'
  BY DEF UiInv, Ordered
<1>3. CASE phase' = phase
  BY <1>1, <1>2, <1>3 DEF UiInv
<1>4. CASE phase' = "crashed"
  <2>1. phase' \in Phases /\ phase' \notin {"ending", "ended"}
    BY <1>4 DEF Phases
  <2> QED BY <1>1, <1>2, <1>4, <2>1 DEF UiInv
<1> QED BY <1>3, <1>4

(* A call that begins.                                                     *)
LEMMA UiBegins ==
  ASSUME UiInv, phase' \in Phases, ui' \in Seq(UiSteps), Ordered(ui'),
         "zmqJoin" \notin Elements(ui'),
         Elements(ui') \cap Configures # {} => phase' \notin {"ending", "ended"},
         Elements(ui') \cap Ends # {} => phase' \in {"ending", "crashed"},
         phase' = "ended" => ui' = <<>>
  PROVE  UiInv'
<1>1. \A ops : Pending(ops)' <=> Elements(ui') \cap ops # {}
  BY Zenon DEF Pending
<1>2. Ordered(ui)'
  BY DEF Ordered
<1> QED BY <1>1, <1>2 DEF UiInv

(* The calls that slots, timers and the shutdown action make.              *)
LEMMA Calls ==
  /\ <<>> \in Seq(UiSteps) /\ Ordered(<<>>) /\ Elements(<<>>) = {}
  /\ <<"screenShot">> \in Seq(UiSteps) /\ Ordered(<<"screenShot">>)
  /\ Elements(<<"screenShot">>) = {"screenShot"}
  /\ LET s == <<"host", "type", "address", "key">>
     IN s \in Seq(UiSteps) /\ Ordered(s) /\ Elements(s) = Fields
  /\ LET s == <<"zmqStop", "wsStop", "clientStop", "collectorJoin">>
     IN /\ s \in Seq(UiSteps) /\ Ordered(s)
        /\ Elements(s) = {"zmqStop", "wsStop", "clientStop", "collectorJoin"}
<1>1. <<>> \in Seq(UiSteps) /\ Ordered(<<>>) /\ Elements(<<>>) = {}
  BY ShortElements DEF Ordered
<1>2. /\ <<"screenShot">> \in Seq(UiSteps) /\ Ordered(<<"screenShot">>)
      /\ Elements(<<"screenShot">>) = {"screenShot"}
  BY ShortElements DEF Ordered, UiSteps
<1>3. LET s == <<"host", "type", "address", "key">>
      IN s \in Seq(UiSteps) /\ Ordered(s) /\ Elements(s) = Fields
  <2> DEFINE s == <<"host", "type", "address", "key">>
  <2>1. /\ Len(s) = 4 /\ s[1] = "host" /\ s[2] = "type" /\ s[3] = "address" /\ s[4] = "key"
        /\ s \in Seq(UiSteps)
    BY DEF UiSteps, Fields
  <2> HIDE DEF s
  <2>2. \A i \in 1..Len(s) : i \in {1, 2, 3, 4}
    BY <2>1
  <2>3. \A i \in 1..Len(s) : s[i] \in Fields
    BY <2>1, <2>2 DEF Fields
  <2>4. \A a, b \in Fields : Follows(a, b)
    BY DEF Fields, Follows, HeadOnly
  <2>5. Ordered(s)
    BY <2>3, <2>4 DEF Ordered
  <2>6. {1, 2, 3, 4} \subseteq 1..Len(s)
    BY <2>1
  <2>7. Elements(s) = Fields
    BY <2>1, <2>3, <2>6 DEF Elements, Fields
  <2> QED BY <2>1, <2>5, <2>7 DEF s
<1>4. LET s == <<"zmqStop", "wsStop", "clientStop", "collectorJoin">>
      IN /\ s \in Seq(UiSteps) /\ Ordered(s)
         /\ Elements(s) = {"zmqStop", "wsStop", "clientStop", "collectorJoin"}
  <2> DEFINE s == <<"zmqStop", "wsStop", "clientStop", "collectorJoin">>
             S == {"zmqStop", "wsStop", "clientStop", "collectorJoin"}
  <2>1. /\ Len(s) = 4 /\ s[1] = "zmqStop" /\ s[2] = "wsStop" /\ s[3] = "clientStop"
        /\ s[4] = "collectorJoin" /\ s \in Seq(UiSteps)
    BY DEF UiSteps, Fields
  <2> HIDE DEF s
  <2>2. \A i \in 1..Len(s) : i \in {1, 2, 3, 4}
    BY <2>1
  <2>3. \A i \in 1..Len(s) : s[i] \in S
    BY <2>1, <2>2
  <2>4. /\ Follows(s[1], s[2]) /\ Follows(s[1], s[3]) /\ Follows(s[1], s[4])
        /\ Follows(s[2], s[3]) /\ Follows(s[2], s[4]) /\ Follows(s[3], s[4])
    BY <2>1 DEF Fields, Follows, HeadOnly, Configures
  <2>5. Ordered(s)
    <3> SUFFICES ASSUME NEW i \in 1..Len(s), NEW j \in 1..Len(s), i < j
                 PROVE  Follows(s[i], s[j])
      BY DEF Ordered
    <3>1. i \in {1, 2, 3, 4} /\ j \in {1, 2, 3, 4} /\ i < j
      BY <2>2
    <3>2. \/ i = 1 /\ j \in {2, 3, 4}
          \/ i = 2 /\ j \in {3, 4}
          \/ i = 3 /\ j = 4
      BY <3>1
    <3> QED BY <2>4, <3>2
  <2>6. {1, 2, 3, 4} \subseteq 1..Len(s)
    BY <2>1
  <2>7. Elements(s) = S
    BY <2>1, <2>3, <2>6 DEF Elements
  <2> QED BY <2>1, <2>5, <2>7 DEF s, S
<1> QED BY <1>1, <1>2, <1>3, <1>4

-----------------------------------------------------------------------------
(* The invariant.                                                          *)

Sent(task) == task.slot = "settingsUpdated" => task.settings \in SettingsType
QueueInv   == queue \in Seq({task \in Tasks : Sent(task)})

Hosts == Field("host") \cup {""}
Keys  == Field("key") \cup {"", CmsKey}
ThreadType == [pc : ThreadStates, host : Hosts, socket : Threads \cup {None},
               old : Threads \cup {None}]
WsType == [pc : WsStates, running : BOOLEAN, fd : BOOLEAN, shut : BOOLEAN,
           uri : Uris \cup {""}, key : Keys]

SettingsInv == settings \in SettingsType /\ incoming \in SettingsType

WsInv == ws \in WsType /\ (ws.running => ws.pc # "ended")

ZmqTypes ==
  /\ zmq \in [worker : Threads \cup {None}, context : Threads \cup {None},
              old : Threads \cup {None}]
  /\ contexts \in [Threads \cup {None} -> ContextStates] /\ contexts[None] = "terminated"
  /\ thread \in [Threads -> ThreadType]
  /\ overtaken \in BOOLEAN

Starting(t)  == thread[t].pc = "starting"
Disposing(t) == thread[t].pc = "disposing"

(* The threads and contexts of ZMQ.  A context is that of context_, or one *)
(* that the thread which replaced it is about to terminate.                *)
ThreadsInv ==
  /\ LiveThreads \subseteq {zmq.worker, zmq.old}
  /\ \A t \in Threads : thread[t].pc = "receiving" => thread[t].socket # None
  /\ \A t \in Threads : Disposing(t) => thread[t].old # zmq.context
  /\ \A t \in Threads : thread[t].pc \in {"starting", "ended"} =>
       thread[t].socket = None /\ thread[t].old = None
  /\ \A t \in Threads : Starting(t) =>
       /\ zmq.context # t /\ contexts[t] = "terminated"
       /\ \A u \in Threads : thread[u].socket # t /\ thread[u].old # t
  /\ \A c \in Threads : contexts[c] # "terminated" =>
       c = zmq.context \/ \E t \in Threads : Disposing(t) /\ thread[t].old = c
  /\ contexts[zmq.context] = "terminated" => \A t \in LiveThreads : Starting(t)

(* What the UI thread still has to do about them.                          *)
CallsInv ==
  /\ zmq.old # None => Pending({"zmqReplace"})
  /\ Pending({"zmqTerminate"}) => Pending({"zmqJoin"}) \/ zmq.worker = None
  /\ contexts[zmq.context] \in {"shut", "dying"} => Pending({"zmqJoin", "zmqTerminate"})
  /\ Pending({"zmqRun"}) => Pending(ZmqStops) \/ \A t \in LiveThreads :
       Starting(t) \/ (zmq.context = t /\ thread[t].socket \in {None, t})

ZmqInv == ZmqTypes /\ ThreadsInv /\ CallsInv

zmqVars == <<zmq, thread, contexts, overtaken>>

(* A step that leaves the threads and what is to be done about them alone. *)
LEMMA ZmqKept ==
  ASSUME ZmqInv, UNCHANGED zmqVars,
         Pending({"zmqReplace"}) => Pending({"zmqReplace"})',
         Pending({"zmqTerminate"})' => Pending({"zmqTerminate"}),
         Pending({"zmqJoin"}) => Pending({"zmqJoin"})',
         Pending({"zmqJoin", "zmqTerminate"}) => Pending({"zmqJoin", "zmqTerminate"})',
         Pending({"zmqRun"})' => Pending({"zmqRun"}) \/ Pending(ZmqStops)',
         Pending(ZmqStops) => Pending(ZmqStops)'
  PROVE  ZmqInv'
<1>1. ZmqTypes'
  BY DEF ZmqInv, ZmqTypes, zmqVars
<1>2. ThreadsInv'
  BY DEF ZmqInv, ThreadsInv, zmqVars, LiveThreads, Starting, Disposing
<1>3. CallsInv'
  BY DEF ZmqInv, CallsInv, zmqVars, LiveThreads, Starting, Disposing
<1> QED BY <1>1, <1>2, <1>3 DEF ZmqInv

ZmqSteps == ZmqStops \cup {"zmqRun", "zmqReplace"}

(* A step of the calls about something else.                               *)
LEMMA ZmqElsewhere ==
  ASSUME ZmqInv, UNCHANGED zmqVars,
         NEW h, NEW S, Moves(h, S), h \notin ZmqSteps,
         \/ S \cap ZmqSteps = {}
         \/ /\ h = "connect" /\ "zmqStop" \in S
            /\ S \cap {"zmqJoin", "zmqTerminate"} = {}
  PROVE  ZmqInv'
<1>1. CASE S \cap ZmqSteps = {}
  <2>1. \A ops : ops \subseteq ZmqSteps => (Pending(ops)' <=> Pending(ops))
    <3> SUFFICES ASSUME NEW ops, ops \subseteq ZmqSteps
                 PROVE  Pending(ops)' <=> Pending(ops)
      OBVIOUS
    <3>1. h \notin ops /\ S \cap ops = {}
      BY <1>1
    <3> QED BY <3>1, MovesPending, Zenon
  <2>2. /\ {"zmqReplace"} \subseteq ZmqSteps /\ {"zmqTerminate"} \subseteq ZmqSteps
        /\ {"zmqJoin"} \subseteq ZmqSteps /\ {"zmqJoin", "zmqTerminate"} \subseteq ZmqSteps
        /\ {"zmqRun"} \subseteq ZmqSteps /\ ZmqStops \subseteq ZmqSteps
    BY DEF ZmqSteps, ZmqStops
  <2> QED BY <2>1, <2>2, ZmqKept
<1>2. CASE /\ h = "connect" /\ "zmqStop" \in S
           /\ S \cap {"zmqJoin", "zmqTerminate"} = {}
  <2>1. Later \subseteq Fields
    BY <1>2, LaterSteps DEF Configures
  <2>2. "connect" \notin ZmqSteps
    BY DEF ZmqSteps, ZmqStops
  <2>3. Fields \cap ZmqSteps = {}
    BY DEF Fields, ZmqSteps, ZmqStops
  <2>4. \A ops : ops \subseteq ZmqSteps => ~Pending(ops)
    BY <1>2, <2>1, <2>2, <2>3, MovesPending, Zenon
  <2>5. /\ {"zmqReplace"} \subseteq ZmqSteps /\ {"zmqJoin"} \subseteq ZmqSteps
        /\ {"zmqJoin", "zmqTerminate"} \subseteq ZmqSteps /\ ZmqStops \subseteq ZmqSteps
        /\ {"zmqTerminate"} \subseteq ZmqSteps
    BY DEF ZmqSteps, ZmqStops
  <2>6. Pending(ZmqStops)'
    <3>1. S \cap ZmqStops # {}
      BY <1>2 DEF ZmqStops
    <3> QED BY <3>1, MovesPending, Zenon
  <2>7. ~Pending({"zmqTerminate"})'
    <3>1. S \cap {"zmqTerminate"} = {} /\ Later \cap {"zmqTerminate"} = {}
      BY <1>2, <2>1 DEF Fields
    <3> QED BY <3>1, MovesPending, Zenon
  <2> QED BY <2>4, <2>5, <2>6, <2>7, ZmqKept
<1> QED BY <1>1, <1>2

(* A call that begins, of which the only step about ZMQ is a stop.         *)
LEMMA ZmqBegins ==
  ASSUME ZmqInv, UNCHANGED zmqVars, ui = <<>>,
         Elements(ui') \cap ZmqSteps \subseteq {"zmqStop"}
  PROVE  ZmqInv'
<1>1. \A ops : Pending(ops)' <=> Elements(ui') \cap ops # {}
  BY Zenon DEF Pending
<1>2. \A ops : ~Pending(ops)
  BY NothingPending, Zenon
<1>3. "zmqTerminate" \notin Elements(ui') /\ "zmqRun" \notin Elements(ui')
  BY DEF ZmqSteps, ZmqStops
<1>4. ~Pending({"zmqTerminate"})' /\ ~Pending({"zmqRun"})'
  BY <1>1, <1>3, Zenon
<1> QED BY <1>2, <1>4, ZmqKept

(* A step that is none of the UI thread's and none of theirs.              *)
LEMMA ZmqStays ==
  ASSUME ZmqInv, UNCHANGED zmqVars, ui' = ui
  PROVE  ZmqInv'
<1>1. \A ops : Pending(ops)' <=> Pending(ops)
  BY Zenon DEF Pending
<1> QED BY <1>1, ZmqKept

-----------------------------------------------------------------------------
(* Zmq::Subscriber on the UI thread.                                       *)

(* What is pending with each of its steps: nothing else of ZMQ but, after  *)
(* the join, the end of the context, and after a stop a run.               *)
LEMMA ZmqCalls ==
  ASSUME ZmqInv
  PROVE  /\ \A S : Moves("zmqStop", S) =>
              zmq.old = None /\ contexts[zmq.context] \notin {"shut", "dying"}
         /\ \A S : UiInv /\ Moves("zmqJoin", S) =>
              zmq.old = None /\ "zmqTerminate" \in Later
         /\ \A S : Moves("zmqTerminate", S) => zmq.old = None /\ zmq.worker = None
         /\ \A S : Moves("zmqRun", S) =>
              /\ zmq.old = None /\ contexts[zmq.context] \notin {"shut", "dying"}
              /\ \A t \in LiveThreads :
                   Starting(t) \/ (zmq.context = t /\ thread[t].socket \in {None, t})
         /\ \A S : Moves("zmqReplace", S) => contexts[zmq.context] \notin {"shut", "dying"}
<1>1. /\ {"zmqJoin", "zmqReplace"} \subseteq HeadOnly
      /\ Fields \cap ZmqSteps = {} /\ {"zmqRun", "zmqReplace"} \subseteq Configures
      /\ ZmqStops = {"zmqStop", "zmqJoin", "zmqTerminate"}
      /\ ZmqSteps = {"zmqStop", "zmqJoin", "zmqTerminate", "zmqRun", "zmqReplace"}
  BY DEF HeadOnly, Fields, ZmqSteps, ZmqStops, Configures
<1>2. ASSUME NEW S, NEW h, Moves(h, S), h \in ZmqSteps
      PROVE  /\ h # "zmqReplace" => zmq.old = None
             /\ h \notin {"zmqJoin", "zmqTerminate"} =>
                  contexts[zmq.context] \notin {"shut", "dying"}
  <2>1. /\ h # "zmqJoin" => "zmqTerminate" \notin Later
        /\ "zmqJoin" \notin Later /\ "zmqReplace" \notin Later
    BY <1>1, <1>2, LaterSteps
  <2>2. /\ h # "zmqReplace" => ~Pending({"zmqReplace"})
        /\ h \notin {"zmqJoin", "zmqTerminate"} => ~Pending({"zmqJoin", "zmqTerminate"})
    BY <1>2, <2>1, MovesPending
  <2> QED BY <2>2 DEF ZmqInv, CallsInv
<1>3. ASSUME NEW S, UiInv, Moves("zmqJoin", S)
      PROVE  "zmqTerminate" \in Later
  <2>1. Pending({"zmqJoin"})
    BY <1>3, MovesPending
  <2>2. Pending({"zmqTerminate"})
    BY <2>1, <1>3 DEF UiInv
  <2> QED BY <1>3, <2>2, MovesPending
<1>4. ASSUME NEW S, Moves("zmqTerminate", S)
      PROVE  zmq.worker = None
  <2>1. "zmqJoin" \notin Later
    BY <1>1, <1>4, LaterSteps
  <2>2. Pending({"zmqTerminate"}) /\ ~Pending({"zmqJoin"})
    BY <1>4, <2>1, MovesPending
  <2> QED BY <2>2 DEF ZmqInv, CallsInv
<1>5. ASSUME NEW S, Moves("zmqRun", S)
      PROVE  \A t \in LiveThreads :
               Starting(t) \/ (zmq.context = t /\ thread[t].socket \in {None, t})
  <2>1. Later \cap ZmqStops = {} /\ "zmqRun" \notin ZmqStops
    BY <1>1, <1>5, LaterSteps
  <2>2. Pending({"zmqRun"}) /\ ~Pending(ZmqStops)
    BY <1>5, <2>1, MovesPending
  <2> QED BY <2>2 DEF ZmqInv, CallsInv
<1> QED BY <1>1, <1>2, <1>3, <1>4, <1>5

(* Nothing of the threads is left when a stop has seen the context and     *)
(* joined the thread.                                                      *)
LEMMA NoThreads ==
  ASSUME ZmqInv, zmq.old = None,
         zmq.worker # None => thread[zmq.worker].pc = "ended"
  PROVE  LiveThreads = {}
BY DEF ZmqInv, ZmqTypes, ThreadsInv, LiveThreads, Threads, None

(* stop: the context is shut down, or there is none that runs.             *)
LEMMA ZmqStopStep ==
  ASSUME UiInv, ZmqInv, ZmqStop
  PROVE  /\ UiInv' /\ ZmqInv'
         /\ \/ Running(zmq.context) /\ Moves("zmqStop", {"zmqJoin", "zmqTerminate"})
            \/ /\ ~Running(zmq.context) /\ Moves("zmqStop", {})
               /\ contexts[zmq.context] = "terminated"
<1>1. \/ Running(zmq.context) /\ Moves("zmqStop", {"zmqJoin", "zmqTerminate"})
      \/ ~Running(zmq.context) /\ Moves("zmqStop", {})
  BY XmrMoves
<1>2. /\ phase' = phase /\ zmq' = zmq /\ thread' = thread
      /\ Running(zmq.context) => /\ contexts' = [contexts EXCEPT ![zmq.context] = "shut"]
                                 /\ overtaken' = overtaken
      /\ ~Running(zmq.context) => /\ contexts' = contexts
                                  /\ overtaken' = (overtaken \/ LiveThreads # {})
  BY DEF ZmqStop
<1>3. zmq.old = None /\ contexts[zmq.context] \notin {"shut", "dying"}
  BY <1>1, ZmqCalls
<1>4. zmq.context \in Threads \cup {None} /\ contexts[zmq.context] \in ContextStates
  BY DEF ZmqInv, ZmqTypes
<1>5. /\ {"zmqJoin", "zmqTerminate"} \cap Configures = {}
      /\ {"zmqJoin", "zmqTerminate"} \cap Ends = {}
  BY DEF Configures, Ends, Fields
<1>6. UiInv'
  BY <1>1, <1>2, <1>5, MovesUi
<1>7. CASE Running(zmq.context) /\ Moves("zmqStop", {"zmqJoin", "zmqTerminate"})
  <2>1. zmq.context \in Threads /\ contexts'[zmq.context] = "shut"
    BY <1>2, <1>4, <1>7 DEF Running, ZmqInv, ZmqTypes, ContextStates
  <2>2. ZmqTypes'
    BY <1>2, <1>7, <2>1 DEF ZmqInv, ZmqTypes, ContextStates, None, Threads
  <2>3. \A c \in Threads : c # zmq.context => contexts'[c] = contexts[c]
    BY <1>2, <1>7 DEF ZmqInv, ZmqTypes
  <2>4. ThreadsInv'
    BY <1>2, <2>1, <2>3 DEF ZmqInv, ThreadsInv, LiveThreads, Starting, Disposing
  <2>5. Pending({"zmqJoin"})' /\ Pending({"zmqJoin", "zmqTerminate"})' /\ Pending(ZmqStops)'
    <3>1. /\ {"zmqJoin", "zmqTerminate"} \cap {"zmqJoin"} # {}
          /\ {"zmqJoin", "zmqTerminate"} \cap {"zmqJoin", "zmqTerminate"} # {}
          /\ {"zmqJoin", "zmqTerminate"} \cap ZmqStops # {}
      BY DEF ZmqStops
    <3> QED BY <1>7, <3>1, MovesPending
  <2>6. CallsInv'
    BY <1>2, <1>3, <2>5 DEF CallsInv
  <2> QED BY <1>6, <1>7, <2>2, <2>4, <2>6 DEF ZmqInv
<1>8. CASE ~Running(zmq.context) /\ Moves("zmqStop", {})
  <2>1. contexts[zmq.context] = "terminated" /\ contexts' = contexts
    BY <1>2, <1>3, <1>4, <1>8 DEF Running, ContextStates
  <2>2. ZmqTypes'
    BY <1>2, <1>8 DEF ZmqInv, ZmqTypes
  <2>3. ThreadsInv'
    BY <1>2, <2>1 DEF ZmqInv, ThreadsInv, LiveThreads, Starting, Disposing
  <2>4. "zmqTerminate" \notin Later
    BY <1>8, LaterSteps
  <2>5. ~Pending({"zmqTerminate"})'
    BY <1>8, <2>4, MovesPending
  <2>6. \A t \in LiveThreads' : Starting(t)'
    BY <1>2, <2>1 DEF ZmqInv, ThreadsInv, LiveThreads, Starting
  <2>7. CallsInv'
    BY <1>2, <1>3, <2>1, <2>5, <2>6 DEF CallsInv
  <2> QED BY <1>6, <1>8, <2>1, <2>2, <2>3, <2>7 DEF ZmqInv
<1> QED BY <1>1, <1>7, <1>8

(* The join of the thread.                                                 *)
LEMMA ZmqJoinStep ==
  ASSUME UiInv, ZmqInv, ZmqJoin
  PROVE  /\ UiInv' /\ ZmqInv'
         /\ Moves("zmqJoin", {}) /\ "zmqTerminate" \in Later
<1>1. Moves("zmqJoin", {})
  BY XmrMoves
<1>2. /\ phase' = phase /\ thread' = thread /\ contexts' = contexts /\ overtaken' = overtaken
      /\ zmq' = [zmq EXCEPT !.worker = None]
      /\ zmq.worker # None => thread[zmq.worker].pc = "ended"
  BY DEF ZmqJoin
<1>3. zmq.old = None /\ "zmqTerminate" \in Later
  BY <1>1, ZmqCalls
<1>4. UiInv'
  BY <1>1, <1>2, MovesUi
<1>5. LiveThreads = {} /\ LiveThreads' = {}
  BY <1>2, <1>3, NoThreads DEF LiveThreads
<1>6. /\ ZmqTypes' /\ zmq'.worker = None /\ zmq'.old = None /\ zmq'.context = zmq.context
  BY <1>2, <1>3 DEF ZmqInv, ZmqTypes
<1>7. ThreadsInv'
  BY <1>2, <1>5, <1>6 DEF ZmqInv, ThreadsInv, Starting, Disposing
<1>8. Pending({"zmqJoin", "zmqTerminate"})' /\ Pending(ZmqStops)'
  <2>1. Later \cap {"zmqJoin", "zmqTerminate"} # {} /\ Later \cap ZmqStops # {}
    BY <1>3 DEF ZmqStops
  <2> QED BY <1>1, <2>1, MovesPending
<1>9. CallsInv'
  BY <1>6, <1>8 DEF CallsInv
<1> QED BY <1>1, <1>3, <1>4, <1>6, <1>7, <1>9 DEF ZmqInv

(* The end of the context: nothing uses it by then.                        *)
LEMMA ZmqTerminateStep ==
  ASSUME UiInv, ZmqInv, ZmqTerminate
  PROVE  /\ UiInv' /\ ZmqInv'
         /\ Moves("zmqTerminate", {})
         /\ LiveThreads = {} /\ contexts'[zmq.context] = "terminated"
         /\ overtaken' = FALSE
<1>1. /\ phase' = phase /\ zmq' = zmq /\ thread' = thread
      /\ \/ TermBegins(zmq.context) /\ Step("zmqTerminate")
         \/ /\ TermEnds(zmq.context) /\ Moves("zmqTerminate", {})
            /\ overtaken' = (LiveThreads # {})
  BY OtherMoves DEF ZmqTerminate
<1>2. ASSUME Step("zmqTerminate")
      PROVE  zmq.old = None /\ zmq.worker = None
  <2> DEFINE r == Tail(ui)
  <2>2. ui \in Seq(UiSteps) /\ ui # <<>> /\ Head(ui) = "zmqTerminate" /\ Ordered(ui)
    BY <1>2 DEF Step, UiInv
  <2>3. \A b \in Elements(r) : Follows("zmqTerminate", b)
    BY <2>2, TailOrdered
  <2>4. Elements(ui) = {"zmqTerminate"} \cup Elements(r)
    BY <2>2, TailElements
  <2> HIDE DEF r
  <2>5. /\ "zmqReplace" \notin Elements(ui) /\ "zmqJoin" \notin Elements(ui)
        /\ "zmqTerminate" \in Elements(ui)
    BY <2>3, <2>4 DEF Follows, HeadOnly
  <2>6. ~Pending({"zmqReplace"}) /\ ~Pending({"zmqJoin"}) /\ Pending({"zmqTerminate"})
    BY <2>5 DEF Pending
  <2> QED BY <2>6 DEF ZmqInv, CallsInv
<1>3. zmq.old = None /\ zmq.worker = None
  BY <1>2 DEF ZmqTerminate
<1>4. LiveThreads = {}
  BY <1>3, NoThreads
<1>5. Sockets(zmq.context) = {}
  BY <1>4 DEF Sockets, LiveThreads
<1>6. /\ Moves("zmqTerminate", {}) /\ overtaken' = FALSE
      /\ contexts' = [contexts EXCEPT ![zmq.context] = "terminated"]
  BY <1>1, <1>4, <1>5 DEF TermBegins, TermEnds
<1>7. UiInv'
  BY <1>1, <1>6, MovesUi
<1>8. /\ ZmqTypes' /\ contexts'[zmq.context] = "terminated"
      /\ \A c \in Threads : c # zmq.context => contexts'[c] = contexts[c]
  BY <1>1, <1>6 DEF ZmqInv, ZmqTypes, ContextStates
<1>9. ThreadsInv'
  <2>1. \A t \in Threads : ~Starting(t) /\ ~Disposing(t)
    BY <1>4 DEF LiveThreads, Starting, Disposing
  <2> QED BY <1>1, <1>4, <1>8, <2>1 DEF ZmqInv, ThreadsInv, LiveThreads, Starting, Disposing
<1>10. ~Pending({"zmqTerminate"})'
  <2>1. "zmqTerminate" \notin Later
    BY <1>6, LaterSteps
  <2> QED BY <1>6, <2>1, MovesPending
<1>11. LiveThreads' = {}
  BY <1>1, <1>4 DEF LiveThreads
<1>12. CallsInv'
  BY <1>1, <1>3, <1>8, <1>10, <1>11 DEF CallsInv
<1> QED BY <1>4, <1>6, <1>7, <1>8, <1>9, <1>12 DEF ZmqInv

(* A number is left for a new thread: those in use are that of the thread  *)
(* that still runs, and of the context it terminates.                      *)
LEMMA FreeThreadExists ==
  ASSUME ZmqInv, zmq.old = None,
         \A t \in LiveThreads :
           Starting(t) \/ (zmq.context = t /\ thread[t].socket \in {None, t})
  PROVE  /\ FreeThread \in Threads /\ FreeThread \notin LiveThreads
         /\ FreeThread \notin {zmq.worker, zmq.context}
         /\ \A t \in LiveThreads : thread[t].socket # FreeThread /\ thread[t].old # FreeThread
<1> DEFINE used == {zmq.worker, zmq.context, zmq.old} \cup
                   UNION {{thread[u].socket, thread[u].old} : u \in LiveThreads}
           free == (Threads \ LiveThreads) \ used
<1>1. LiveThreads \subseteq {zmq.worker} /\ LiveThreads \subseteq Threads /\ None \notin Threads
  BY DEF ZmqInv, ThreadsInv, LiveThreads, Threads, None
<1>2. /\ 1 \in Threads /\ 2 \in Threads /\ 3 \in Threads
  BY XmrAssumption DEF Threads
<1>0. \A x : x \in used <=>
       \/ x \in {zmq.worker, zmq.context, zmq.old}
       \/ \E u \in LiveThreads : x \in {thread[u].socket, thread[u].old}
  BY Zenon
<1> HIDE DEF used
<1>3. \E a, b : LiveThreads \cup used \subseteq {a, b, None}
  <2>1. CASE LiveThreads = {}
    <3>1. used \subseteq {zmq.worker, zmq.context, None}
      BY <1>0, <2>1
    <3> QED BY <2>1, <3>1, Zenon
  <2>2. CASE \E t \in LiveThreads : Starting(t)
    <3>1. PICK t \in LiveThreads : Starting(t)
      BY <2>2
    <3>2. LiveThreads = {t} /\ zmq.worker = t
      BY <1>1, <3>1
    <3>3. thread[t].socket = None /\ thread[t].old = None
      BY <1>1, <3>1 DEF ZmqInv, ThreadsInv, Starting
    <3>4. used \subseteq {t, zmq.context, None}
      BY <1>0, <3>2, <3>3
    <3> QED BY <3>2, <3>4, Zenon
  <2>3. CASE \E t \in LiveThreads : zmq.context = t /\ thread[t].socket \in {None, t}
    <3>1. PICK t \in LiveThreads : zmq.context = t /\ thread[t].socket \in {None, t}
      BY <2>3
    <3>2. LiveThreads = {t} /\ zmq.worker = t
      BY <1>1, <3>1
    <3>3. used \subseteq {t, thread[t].old, None}
      BY <1>0, <3>1, <3>2
    <3> QED BY <3>2, <3>3, Zenon
  <2> QED BY <2>1, <2>2, <2>3, Zenon
<1>4. free # {}
  <2>1. PICK a, b : LiveThreads \cup used \subseteq {a, b, None}
    BY <1>3
  <2>2. \E t \in {1, 2, 3} : t # a /\ t # b /\ t # None
    BY DEF None
  <2> QED BY <1>2, <2>1, <2>2
<1>5. FreeThread = CHOOSE t \in free : TRUE
  BY DEF FreeThread, used
<1>6. FreeThread \in free
  <2> HIDE DEF free
  <2> QED BY <1>4, <1>5, Zenon
<1> QED BY <1>0, <1>6

(* run: a thread that has no context yet.                                  *)
LEMMA ZmqRunStep ==
  ASSUME UiInv, ZmqInv, ZmqRun, manager.host \in Hosts
  PROVE  /\ UiInv' /\ ZmqInv'
         /\ Moves("zmqRun", {"zmqReplace"})
         /\ zmq'.worker \notin LiveThreads /\ LiveThreads' = LiveThreads \cup {zmq'.worker}
         /\ thread'[zmq'.worker].host = manager.host
         /\ thread'[zmq'.worker].pc = "starting"
<1>1. Moves("zmqRun", {"zmqReplace"})
  BY XmrMoves
<1> PICK n : n = FreeThread
  OBVIOUS
<1>2. /\ phase' = phase /\ contexts' = contexts /\ overtaken' = overtaken
      /\ thread' = [thread EXCEPT ![n] = [NoThread EXCEPT !.pc = "starting", !.host = manager.host]]
      /\ zmq' = [zmq EXCEPT !.worker = n, !.old = zmq.worker]
  BY DEF ZmqRun
<1>3. /\ zmq.old = None /\ contexts[zmq.context] \notin {"shut", "dying"}
      /\ \A t \in LiveThreads :
           Starting(t) \/ (zmq.context = t /\ thread[t].socket \in {None, t})
  BY <1>1, ZmqCalls
<1>4. /\ n \in Threads /\ n \notin LiveThreads /\ n # zmq.context
      /\ \A t \in LiveThreads : thread[t].socket # n /\ thread[t].old # n
  BY <1>3, FreeThreadExists
<1>5. UiInv'
  <2>1. {"zmqReplace"} \cap Configures # {} => "zmqRun" \in Configures
    BY DEF Configures
  <2>2. {"zmqReplace"} \cap Ends = {} /\ "zmqJoin" \notin {"zmqReplace"}
    BY DEF Ends
  <2> QED BY <1>1, <1>2, <2>1, <2>2, MovesUi
<1>6. zmq'.worker = n /\ zmq'.old = zmq.worker /\ zmq'.context = zmq.context
  BY <1>2 DEF ZmqInv, ZmqTypes
<1>7. /\ thread'[n].pc = "starting" /\ thread'[n].host = manager.host
      /\ thread'[n].socket = None /\ thread'[n].old = None
      /\ \A t \in Threads : t # n => thread'[t] = thread[t]
      /\ thread' \in [Threads -> ThreadType]
  BY <1>2, <1>4 DEF ZmqInv, ZmqTypes, NoThread, ThreadType, ThreadStates, None
<1>8. ZmqTypes'
  BY <1>2, <1>4, <1>7 DEF ZmqInv, ZmqTypes
<1>9. LiveThreads' = LiveThreads \cup {n}
  BY <1>4, <1>7 DEF LiveThreads
<1>10. None \notin Threads
  BY DEF Threads, None
<1>11. contexts[n] = "terminated"
  <2>1. \A t \in Threads : Disposing(t) => t \in LiveThreads
    BY DEF Disposing, LiveThreads
  <2> QED BY <1>4, <2>1 DEF ZmqInv, ThreadsInv
<1>12. \A t \in Threads : thread[t].socket # n /\ thread[t].old # n
  <2>1. \A t \in Threads : t \notin LiveThreads => thread[t].socket = None /\ thread[t].old = None
    BY DEF ZmqInv, ThreadsInv, LiveThreads
  <2> QED BY <1>4, <1>10, <2>1
<1>13. ThreadsInv'
  <2>1. LiveThreads' \subseteq {zmq'.worker, zmq'.old}
    BY <1>3, <1>6, <1>9, <1>10 DEF ZmqInv, ThreadsInv, LiveThreads
  <2>2. \A t \in Threads : t # n =>
          (Starting(t)' <=> Starting(t)) /\ (Disposing(t)' <=> Disposing(t))
    BY <1>7 DEF Starting, Disposing
  <2>3. Starting(n)' /\ ~Disposing(n)'
    BY <1>7 DEF Starting, Disposing
  <2>4. \A t \in Threads : Starting(t)' =>
          /\ zmq'.context # t /\ contexts'[t] = "terminated"
          /\ \A u \in Threads : thread'[u].socket # t /\ thread'[u].old # t
    BY <1>2, <1>4, <1>6, <1>7, <1>10, <1>11, <1>12, <2>2 DEF ZmqInv, ThreadsInv
  <2>5. \A t \in Threads : Disposing(t) => t # n
    BY <1>4 DEF Disposing, LiveThreads
  <2>6. \A c \in Threads : contexts'[c] # "terminated" =>
          c = zmq'.context \/ \E t \in Threads : Disposing(t)' /\ thread'[t].old = c
    BY <1>2, <1>6, <1>7, <2>2, <2>5 DEF ZmqInv, ThreadsInv
  <2>7. contexts'[zmq'.context] = "terminated" => \A t \in LiveThreads' : Starting(t)'
    BY <1>2, <1>6, <1>9, <2>2, <2>3 DEF ZmqInv, ThreadsInv, LiveThreads
  <2>8. /\ \A t \in Threads : thread'[t].pc = "receiving" => thread'[t].socket # None
        /\ \A t \in Threads : Disposing(t)' => thread'[t].old # zmq'.context
        /\ \A t \in Threads : thread'[t].pc \in {"starting", "ended"} =>
             thread'[t].socket = None /\ thread'[t].old = None
    BY <1>6, <1>7, <2>2, <2>3 DEF ZmqInv, ThreadsInv
  <2> QED BY <2>1, <2>4, <2>6, <2>7, <2>8 DEF ThreadsInv
<1>14. CallsInv'
  <2>1. Later \subseteq Fields
    BY <1>1, LaterSteps DEF Configures
  <2>2. Pending({"zmqReplace"})'
    <3>1. \E a \in {"zmqReplace"} : a \in {"zmqReplace"}
      OBVIOUS
    <3> QED BY <1>1, <3>1, MovesPending, Zenon
  <2>3. ~Pending({"zmqTerminate"})' /\ ~Pending({"zmqRun"})'
    BY <1>1, <2>1, MovesPending DEF Fields
  <2> QED BY <1>2, <1>3, <1>6, <2>2, <2>3 DEF CallsInv
<1> QED BY <1>1, <1>4, <1>5, <1>6, <1>7, <1>8, <1>9, <1>13, <1>14 DEF ZmqInv

(* The join of the thread before it.                                       *)
LEMMA ZmqReplaceStep ==
  ASSUME UiInv, ZmqInv, ZmqReplace
  PROVE  /\ UiInv' /\ ZmqInv'
         /\ Moves("zmqReplace", {}) /\ zmq'.worker = zmq.worker /\ zmq'.context = zmq.context
<1>1. Moves("zmqReplace", {})
  BY XmrMoves
<1>2. /\ phase' = phase /\ thread' = thread /\ contexts' = contexts /\ overtaken' = overtaken
      /\ zmq' = [zmq EXCEPT !.old = None]
      /\ zmq.old # None => thread[zmq.old].pc = "ended"
  BY DEF ZmqReplace
<1>3. UiInv'
  BY <1>1, <1>2, MovesUi
<1>4. /\ ZmqTypes'
      /\ zmq'.worker = zmq.worker /\ zmq'.old = None /\ zmq'.context = zmq.context
  BY <1>2 DEF ZmqInv, ZmqTypes
<1>5. LiveThreads' = LiveThreads /\ LiveThreads \subseteq {zmq.worker}
  BY <1>2 DEF ZmqInv, ThreadsInv, LiveThreads, Threads, None
<1>6. ThreadsInv'
  BY <1>2, <1>4, <1>5 DEF ZmqInv, ThreadsInv, Starting, Disposing
<1>7. CallsInv'
  <2>1. Later \subseteq Fields /\ contexts[zmq.context] \notin {"shut", "dying"}
    BY <1>1, LaterSteps, ZmqCalls DEF Configures
  <2>2. ~Pending({"zmqTerminate"})' /\ ~Pending({"zmqRun"})'
    BY <1>1, <2>1, MovesPending DEF Fields
  <2> QED BY <1>2, <1>4, <2>1, <2>2 DEF CallsInv
<1> QED BY <1>1, <1>3, <1>4, <1>6, <1>7 DEF ZmqInv

(* A run that is pending is not the one whose thread waits for the other.  *)
LEMMA RunAlone ==
  ASSUME UiInv, Pending({"zmqRun"})
  PROVE  ~Pending({"zmqReplace"})
<1> SUFFICES ASSUME Pending({"zmqReplace"}) PROVE FALSE
  OBVIOUS
<1>1. "zmqRun" \in Elements(ui) /\ "zmqReplace" \in Elements(ui)
  BY DEF Pending
<1>2. PICK i \in 1..Len(ui), j \in 1..Len(ui) : ui[i] = "zmqRun" /\ ui[j] = "zmqReplace"
  BY <1>1 DEF Elements
<1>3. i < j \/ j < i
  <2>1. i # j
    BY <1>2
  <2>2. i \in Int /\ j \in Int
    OBVIOUS
  <2> QED BY <2>1, <2>2
<1>4. Follows("zmqRun", "zmqReplace") \/ Follows("zmqReplace", "zmqRun")
  BY <1>2, <1>3 DEF UiInv, Ordered
<1> QED BY <1>4 DEF Follows, HeadOnly, Configures, Fields

-----------------------------------------------------------------------------
(* The threads of Zmq::Subscriber.                                         *)

(* What a thread changes of itself.                                        *)
LEMMA ThreadMoves ==
  ASSUME ZmqInv, ThreadStep
  PROVE  /\ phase' = phase /\ ui' = ui /\ overtaken' = overtaken /\ manager' = manager
         /\ \A ops : Pending(ops)' <=> Pending(ops)
BY Zenon DEF ThreadStep, Pending

(* The thread runs with a new context; the one before it is terminated.    *)
LEMMA MakeContextStep ==
  ASSUME UiInv, ZmqInv, NEW t \in Threads, MakeContext(t)
  PROVE  /\ ZmqInv' /\ LiveThreads' = LiveThreads /\ zmq'.worker = zmq.worker
         /\ zmq'.context = t /\ thread'[t].host = thread[t].host
         /\ thread'[t].pc = IF contexts[zmq.context] = "terminated"
                            THEN "connecting" ELSE "disposing"
         /\ \A c \in Threads : c \notin {t, zmq.context} => contexts'[c] = contexts[c]
         /\ \A u \in Threads : u # t => thread'[u] = thread[u]
<1> PICK old : old = zmq.context
  OBVIOUS
<1> PICK pc : pc = IF contexts[old] = "terminated" THEN "connecting" ELSE "disposing"
  OBVIOUS
<1>1. /\ thread[t].pc = "starting" /\ ThreadStep
      /\ zmq' = [zmq EXCEPT !.context = t]
      /\ contexts' = [contexts EXCEPT ![t] = "running",
                                      ![old] = IF @ = "running" THEN "dying" ELSE @]
      /\ thread' = [thread EXCEPT ![t].old = old, ![t].pc = pc]
  BY DEF MakeContext
<1>2. /\ old \in Threads \cup {None} /\ None \notin Threads
      /\ thread[t] \in ThreadType /\ pc \in {"connecting", "disposing"}
  BY DEF ZmqInv, ZmqTypes, Threads, None
<1>3. /\ old # t /\ contexts[t] = "terminated" /\ Starting(t)
      /\ \A u \in Threads : thread[u].socket # t /\ thread[u].old # t
      /\ thread[t].socket = None
  BY <1>1 DEF ZmqInv, ThreadsInv, Starting
<1>4. /\ zmq' \in [worker : Threads \cup {None}, context : Threads \cup {None},
                   old : Threads \cup {None}]
      /\ zmq'.worker = zmq.worker /\ zmq'.old = zmq.old /\ zmq'.context = t
  BY <1>1, <1>2 DEF ZmqInv, ZmqTypes
<1>5. /\ thread'[t].pc = pc /\ thread'[t].old = old
      /\ thread'[t].socket = None /\ thread'[t].host = thread[t].host
      /\ \A u \in Threads : u # t => thread'[u] = thread[u]
      /\ thread' \in [Threads -> ThreadType]
  BY <1>1, <1>2, <1>3 DEF ZmqInv, ZmqTypes, ThreadType, ThreadStates
<1>6. /\ contexts'[t] = "running"
      /\ contexts'[old] = IF contexts[old] = "running" THEN "dying" ELSE contexts[old]
      /\ \A c \in Threads \cup {None} : c \notin {t, old} => contexts'[c] = contexts[c]
      /\ contexts' \in [Threads \cup {None} -> ContextStates]
      /\ contexts'[None] = "terminated"
  BY <1>1, <1>2, <1>3 DEF ZmqInv, ZmqTypes, ContextStates
<1>7. overtaken' = overtaken /\ \A ops : Pending(ops)' <=> Pending(ops)
  BY <1>1, ThreadMoves
<1>8. ZmqTypes'
  BY <1>4, <1>5, <1>6, <1>7 DEF ZmqInv, ZmqTypes
<1>9. LiveThreads' = LiveThreads /\ t \in LiveThreads
  BY <1>1, <1>2, <1>5 DEF LiveThreads
<1>10. /\ ~Starting(t)'
       /\ Disposing(t)' <=> pc = "disposing"
       /\ \A u \in Threads : u # t =>
            (Starting(u)' <=> Starting(u)) /\ (Disposing(u)' <=> Disposing(u))
       /\ ~Disposing(t)
  BY <1>2, <1>3, <1>5 DEF Starting, Disposing
<1>11. ThreadsInv'
  <2>1. LiveThreads' \subseteq {zmq'.worker, zmq'.old}
    BY <1>4, <1>9 DEF ZmqInv, ThreadsInv
  <2>2. /\ \A u \in Threads : thread'[u].pc = "receiving" => thread'[u].socket # None
        /\ \A u \in Threads : thread'[u].pc \in {"starting", "ended"} =>
             thread'[u].socket = None /\ thread'[u].old = None
    BY <1>2, <1>5 DEF ZmqInv, ThreadsInv
  <2>3. \A u \in Threads : Disposing(u)' => thread'[u].old # zmq'.context
    BY <1>3, <1>4, <1>5
  <2>4. \A u \in Threads : Starting(u)' =>
          /\ zmq'.context # u /\ contexts'[u] = "terminated"
          /\ \A v \in Threads : thread'[v].socket # u /\ thread'[v].old # u
    <3> SUFFICES ASSUME NEW u \in Threads, Starting(u)'
                 PROVE  /\ zmq'.context # u /\ contexts'[u] = "terminated"
                        /\ \A v \in Threads : thread'[v].socket # u /\ thread'[v].old # u
      OBVIOUS
    <3>1. u # t /\ Starting(u)
      BY <1>10
    <3>2. /\ old # u /\ contexts[u] = "terminated"
          /\ \A v \in Threads : thread[v].socket # u /\ thread[v].old # u
      BY <3>1 DEF ZmqInv, ThreadsInv
    <3> QED BY <1>2, <1>4, <1>5, <1>6, <3>1, <3>2
  <2>5. \A c \in Threads : contexts'[c] # "terminated" =>
          c = zmq'.context \/ \E u \in Threads : Disposing(u)' /\ thread'[u].old = c
    <3> SUFFICES ASSUME NEW c \in Threads, contexts'[c] # "terminated", c # t
                 PROVE  \E u \in Threads : Disposing(u)' /\ thread'[u].old = c
      BY <1>4
    <3>1. CASE c = old
      <4>1. contexts[old] # "terminated"
        BY <1>6, <3>1
      <4> QED BY <1>5, <1>10, <3>1, <4>1
    <3>2. CASE c # old
      <4>1. contexts[c] # "terminated"
        BY <1>6, <3>2
      <4>2. \E u \in Threads : Disposing(u) /\ thread[u].old = c
        BY <3>2, <4>1 DEF ZmqInv, ThreadsInv
      <4> QED BY <1>5, <1>10, <4>2
    <3> QED BY <3>1, <3>2
  <2>6. contexts'[zmq'.context] # "terminated"
    BY <1>4, <1>6
  <2> QED BY <2>1, <2>2, <2>3, <2>4, <2>5, <2>6 DEF ThreadsInv
<1>12. CallsInv'
  <2>1. /\ zmq'.old # None => Pending({"zmqReplace"})'
        /\ Pending({"zmqTerminate"})' => Pending({"zmqJoin"})' \/ zmq'.worker = None
        /\ contexts'[zmq'.context] \notin {"shut", "dying"}
    BY <1>4, <1>6, <1>7 DEF ZmqInv, CallsInv
  <2>2. ASSUME Pending({"zmqRun"})'
        PROVE  \A u \in LiveThreads' : u = t
    <3>1. Pending({"zmqRun"})
      BY <1>7, <2>2
    <3>2. ~Pending({"zmqReplace"})
      BY <3>1, RunAlone
    <3>3. zmq.old = None
      BY <3>2 DEF ZmqInv, CallsInv
    <3> QED BY <1>2, <1>9, <3>3 DEF ZmqInv, ThreadsInv, LiveThreads
  <2> QED BY <1>4, <1>5, <2>1, <2>2 DEF CallsInv
<1> QED BY <1>1, <1>4, <1>5, <1>6, <1>8, <1>9, <1>11, <1>12 DEF ZmqInv

(* The context before it is gone.                                          *)
LEMMA DisposeContextStep ==
  ASSUME ZmqInv, NEW t \in Threads, DisposeContext(t)
  PROVE  /\ ZmqInv' /\ Disposing(t)
<1> PICK old : old = thread[t].old
  OBVIOUS
<1>1. /\ thread[t].pc = "disposing" /\ ThreadStep /\ zmq' = zmq
      /\ contexts' = [contexts EXCEPT ![old] = "terminated"]
      /\ thread' = [thread EXCEPT ![t].pc = "connecting"]
  BY DEF DisposeContext, TermEnds
<1>2. /\ thread[t] \in ThreadType /\ old \in Threads \cup {None} /\ old # zmq.context
  BY <1>1 DEF ZmqInv, ZmqTypes, ThreadsInv, ThreadType, Disposing
<1>3. /\ thread'[t].pc = "connecting" /\ thread'[t].old = old
      /\ thread'[t].socket = thread[t].socket
      /\ \A u \in Threads : u # t => thread'[u] = thread[u]
      /\ thread' \in [Threads -> ThreadType]
  BY <1>1, <1>2 DEF ZmqInv, ZmqTypes, ThreadType, ThreadStates
<1>4. /\ \A c \in Threads \cup {None} :
           contexts'[c] = IF c = old THEN "terminated" ELSE contexts[c]
      /\ contexts' \in [Threads \cup {None} -> ContextStates]
  BY <1>1 DEF ZmqInv, ZmqTypes, ContextStates
<1>5. overtaken' = overtaken /\ \A ops : Pending(ops)' <=> Pending(ops)
  BY <1>1, ThreadMoves
<1>6. ZmqTypes'
  BY <1>1, <1>3, <1>4, <1>5 DEF ZmqInv, ZmqTypes
<1>7. LiveThreads' = LiveThreads
  BY <1>1, <1>3 DEF LiveThreads
<1>8. /\ \A u \in Threads : Starting(u)' <=> Starting(u)
      /\ \A u \in Threads : Disposing(u)' <=> (Disposing(u) /\ u # t)
  BY <1>1, <1>3 DEF Starting, Disposing
<1>9. /\ \A u \in Threads : thread'[u].old = thread[u].old
      /\ \A u \in Threads : thread'[u].socket = thread[u].socket
      /\ contexts'[zmq.context] = contexts[zmq.context]
  BY <1>2, <1>3, <1>4 DEF ZmqInv, ZmqTypes
<1>10. ThreadsInv'
  <2>1. \A u \in Threads : Starting(u)' =>
          /\ zmq'.context # u /\ contexts'[u] = "terminated"
          /\ \A v \in Threads : thread'[v].socket # u /\ thread'[v].old # u
    BY <1>1, <1>4, <1>8, <1>9 DEF ZmqInv, ThreadsInv
  <2>2. \A c \in Threads : contexts'[c] # "terminated" =>
          c = zmq'.context \/ \E u \in Threads : Disposing(u)' /\ thread'[u].old = c
    BY <1>1, <1>4, <1>8, <1>9 DEF ZmqInv, ThreadsInv
  <2>3. /\ \A u \in Threads : thread'[u].pc = "receiving" => thread'[u].socket # None
        /\ \A u \in Threads : Disposing(u)' => thread'[u].old # zmq'.context
        /\ \A u \in Threads : thread'[u].pc \in {"starting", "ended"} =>
             thread'[u].socket = None /\ thread'[u].old = None
    BY <1>1, <1>3, <1>8, <1>9 DEF ZmqInv, ThreadsInv
  <2>4. LiveThreads' \subseteq {zmq'.worker, zmq'.old}
    BY <1>1, <1>7 DEF ZmqInv, ThreadsInv
  <2>5. contexts'[zmq'.context] = "terminated" => \A u \in LiveThreads' : Starting(u)'
    BY <1>1, <1>7, <1>8, <1>9 DEF ZmqInv, ThreadsInv, LiveThreads
  <2> QED BY <2>1, <2>2, <2>3, <2>4, <2>5 DEF ThreadsInv
<1>11. CallsInv'
  <2>1. \A u \in LiveThreads : u \in Threads
    BY DEF LiveThreads
  <2> QED BY <1>1, <1>5, <1>7, <1>8, <1>9, <2>1 DEF ZmqInv, CallsInv
<1> QED BY <1>1, <1>6, <1>10, <1>11 DEF ZmqInv, Disposing

(* The socket is made of the context there is, or the thread ends.         *)
LEMMA OtherThreadSteps ==
  ASSUME ZmqInv, NEW t \in Threads, OpenSocket(t) \/ LeaveQueue(t)
  PROVE  /\ ZmqInv' /\ zmq' = zmq /\ contexts' = contexts
         /\ LiveThreads' \subseteq LiveThreads
         /\ thread'[t].pc \in {"receiving", "ended"}
         /\ thread'[t].pc # "ended" => thread'[t].host = thread[t].host
         /\ \A u \in Threads : u # t => thread'[u] = thread[u]
<1>1. /\ thread[t].pc \in {"connecting", "receiving"} /\ ThreadStep
      /\ zmq' = zmq /\ contexts' = contexts
      /\ \/ /\ contexts[zmq.context] = "running" /\ thread[t].pc = "connecting"
            /\ thread' = [thread EXCEPT ![t].pc = "receiving", ![t].socket = zmq.context]
         \/ thread' = [thread EXCEPT ![t] = NoThread]
  BY DEF OpenSocket, LeaveQueue
<1>2. /\ thread[t] \in ThreadType /\ zmq.context \in Threads \cup {None}
      /\ contexts[None] = "terminated"
  BY DEF ZmqInv, ZmqTypes
<1>3. /\ thread' \in [Threads -> ThreadType]
      /\ \A u \in Threads : u # t => thread'[u] = thread[u]
      /\ \/ /\ thread'[t].pc = "receiving" /\ thread'[t].socket = zmq.context
            /\ thread'[t].old = thread[t].old /\ thread'[t].host = thread[t].host
            /\ zmq.context # None /\ thread[t].pc = "connecting"
            /\ contexts[zmq.context] = "running"
         \/ thread'[t].pc = "ended" /\ thread'[t].socket = None /\ thread'[t].old = None
  <2>1. CASE /\ contexts[zmq.context] = "running" /\ thread[t].pc = "connecting"
             /\ thread' = [thread EXCEPT ![t].pc = "receiving", ![t].socket = zmq.context]
    <3>1. zmq.context # None
      BY <1>2, <2>1
    <3> QED BY <1>2, <2>1, <3>1 DEF ZmqInv, ZmqTypes, ThreadType, ThreadStates
  <2>2. CASE thread' = [thread EXCEPT ![t] = NoThread]
    <3>1. NoThread \in ThreadType
      BY DEF NoThread, ThreadType, ThreadStates, Hosts
    <3>2. NoThread.pc = "ended" /\ NoThread.socket = None /\ NoThread.old = None
      BY DEF NoThread
    <3> QED BY <2>2, <3>1, <3>2 DEF ZmqInv, ZmqTypes
  <2> QED BY <1>1, <2>1, <2>2
<1>4. overtaken' = overtaken /\ \A ops : Pending(ops)' <=> Pending(ops)
  BY <1>1, ThreadMoves
<1>5. ZmqTypes'
  BY <1>1, <1>3, <1>4 DEF ZmqInv, ZmqTypes
<1>6. /\ LiveThreads' \subseteq LiveThreads /\ t \in LiveThreads
      /\ \A u \in LiveThreads : u \in Threads
  BY <1>1, <1>3 DEF LiveThreads
<1>7. /\ \A u \in Threads : Starting(u)' <=> Starting(u)
      /\ \A u \in Threads : Disposing(u)' <=> Disposing(u)
      /\ ~Starting(t) /\ ~Disposing(t) /\ None \notin Threads
  BY <1>1, <1>3 DEF Starting, Disposing, None, Threads
<1>8. ThreadsInv'
  <2>1. \A u \in Threads : Starting(u)' =>
          /\ zmq'.context # u /\ contexts'[u] = "terminated"
          /\ \A v \in Threads : thread'[v].socket # u /\ thread'[v].old # u
    <3> SUFFICES ASSUME NEW u \in Threads, Starting(u)'
                 PROVE  /\ zmq'.context # u /\ contexts'[u] = "terminated"
                        /\ \A v \in Threads : thread'[v].socket # u /\ thread'[v].old # u
      OBVIOUS
    <3>1. /\ zmq.context # u /\ contexts[u] = "terminated"
          /\ \A v \in Threads : thread[v].socket # u /\ thread[v].old # u
      BY <1>7 DEF ZmqInv, ThreadsInv
    <3> QED BY <1>1, <1>3, <1>7, <3>1
  <2>2. \A c \in Threads : contexts'[c] # "terminated" =>
          c = zmq'.context \/ \E u \in Threads : Disposing(u)' /\ thread'[u].old = c
    BY <1>1, <1>3, <1>7 DEF ZmqInv, ThreadsInv
  <2>3. /\ \A u \in Threads : thread'[u].pc = "receiving" => thread'[u].socket # None
        /\ \A u \in Threads : Disposing(u)' => thread'[u].old # zmq'.context
        /\ \A u \in Threads : thread'[u].pc \in {"starting", "ended"} =>
             thread'[u].socket = None /\ thread'[u].old = None
    BY <1>1, <1>3, <1>7 DEF ZmqInv, ThreadsInv
  <2>4. LiveThreads' \subseteq {zmq'.worker, zmq'.old}
    BY <1>1, <1>6 DEF ZmqInv, ThreadsInv
  <2>5. contexts'[zmq'.context] = "terminated" => \A u \in LiveThreads' : Starting(u)'
    BY <1>1, <1>6, <1>7 DEF ZmqInv, ThreadsInv
  <2> QED BY <2>1, <2>2, <2>3, <2>4, <2>5 DEF ThreadsInv
<1>9. CallsInv'
  <2>1. Pending({"zmqRun"}) => Pending(ZmqStops) \/ \A u \in LiveThreads' :
          Starting(u)' \/ (zmq.context = u /\ thread'[u].socket \in {None, u})
    BY <1>3, <1>6, <1>7 DEF ZmqInv, CallsInv
  <2> QED BY <1>1, <1>4, <2>1 DEF ZmqInv, CallsInv
<1> QED BY <1>1, <1>3, <1>5, <1>6, <1>8, <1>9 DEF ZmqInv

-----------------------------------------------------------------------------
(* What the subscribers do and what the settings ask for.                  *)

ManagerInv ==
  /\ manager.host \in Hosts /\ manager.key \in Keys
  /\ manager.endpoint # Cleared => Usable(manager)

Ending     == phase \in {"ending", "ended"}
ZmqWanted  == ~Ending /\ manager.endpoint # Cleared /\ ~UsesWs(manager)
WsWanted   == ~Ending /\ manager.endpoint # Cleared /\ UsesWs(manager)
Configured == IF Usable(Requested) THEN IsSameConfig(Requested)
              ELSE manager.endpoint = Cleared

(* No thread and no context of ZMQ is left; or they are those of the       *)
(* configuration that XmrManager has stored.                               *)
NoZmq == LiveThreads = {} /\ \A c \in Threads : contexts[c] = "terminated"
ZmqOn ==
  /\ \A t \in LiveThreads :
       /\ t = zmq.worker /\ thread[t].host = manager.host
       /\ ~Disposing(t)
       /\ Starting(t) => \A c \in Threads : contexts[c] = "terminated"
  /\ \A c \in Threads : contexts[c] # "terminated" => c = zmq.context
WsOn == ws.running /\ ws.uri = manager.endpoint[2] /\ ws.key = manager.key

(* The configuration is that of the settings, unless connect is about to   *)
(* store it; what is about to run is what it asks for; and each subscriber *)
(* is about to be stopped, at rest, or the one that is asked for.          *)
Asked == Pending({"connect"}) \/ Configured
RunsWanted ==
  /\ Pending({"zmqRun"}) => ZmqWanted
  /\ Pending({"wsRun"}) => WsWanted
ZmqSide ==
  \/ overtaken \/ Pending(ZmqStops) \/ NoZmq
  \/ ZmqWanted /\ ~Pending({"zmqRun"}) /\ ZmqOn
WsSide ==
  IF WsWanted /\ ~Pending({"wsRun"})
  THEN ~Pending(WsStops) /\ WsOn
  ELSE Pending(WsStops) \/ ws.pc = "ended"

ConfigInv == phase # "crashed" => Asked /\ RunsWanted /\ ZmqSide /\ WsSide

(* The subscriber of ZMQ while a step is about something else.             *)
LEMMA ZmqSideKept ==
  ASSUME ZmqSide, thread' = thread, contexts' = contexts, overtaken' = overtaken,
         zmq'.worker = zmq.worker, zmq'.context = zmq.context, manager' = manager,
         Ending' <=> Ending,
         Pending(ZmqStops)' <=> Pending(ZmqStops),
         Pending({"zmqRun"})' <=> Pending({"zmqRun"})
  PROVE  ZmqSide'
BY DEF ZmqSide, NoZmq, ZmqOn, ZmqWanted, UsesWs, LiveThreads, Starting, Disposing

(* The same of the web socket.                                             *)
LEMMA WsSideKept ==
  ASSUME WsSide, ws' = ws, manager' = manager, Ending' <=> Ending,
         Pending(WsStops)' <=> Pending(WsStops),
         Pending({"wsRun"})' <=> Pending({"wsRun"})
  PROVE  WsSide'
BY DEF WsSide, WsOn, WsWanted, UsesWs

(* The steps of a call that are not about ops.                             *)
LEMMA PendingKept ==
  ASSUME NEW h, NEW S, Moves(h, S), NEW ops, h \notin ops, S \cap ops = {}
  PROVE  Pending(ops)' <=> Pending(ops)
BY MovesPending

(* What is asked for, while a step is done that is not connect.            *)
LEMMA MovesConfig ==
  ASSUME ConfigInv, phase # "crashed", phase' = phase, manager' = manager,
         NEW h, NEW S, Moves(h, S), h # "connect",
         settings' = settings \/ "connect" \in S,
         S \cap {"zmqRun", "wsRun"} = {}
  PROVE  Asked' /\ RunsWanted'
<1>1. Asked'
  <2>1. CASE "connect" \in S
    BY <2>1, MovesPending DEF Asked
  <2>2. CASE settings' = settings
    <3>1. "connect" \notin Later
      BY LaterSteps DEF HeadOnly
    <3>2. ~Pending({"connect"})
      BY <3>1, MovesPending
    <3>3. Configured
      BY <3>2 DEF ConfigInv, Asked
    <3>4. Configured'
      BY <2>2, <3>3 DEF Configured, IsSameConfig, Usable, UsesWs, Requested
    <3> QED BY <3>4 DEF Asked
  <2> QED BY <2>1, <2>2
<1>2. RunsWanted'
  <2>1. Pending({"zmqRun"})' => Pending({"zmqRun"})
    BY MovesPending
  <2>2. Pending({"wsRun"})' => Pending({"wsRun"})
    BY MovesPending
  <2>3. (ZmqWanted' <=> ZmqWanted) /\ (WsWanted' <=> WsWanted)
    BY DEF ZmqWanted, WsWanted, Ending, UsesWs
  <2> QED BY <2>1, <2>2, <2>3 DEF ConfigInv, RunsWanted
<1> QED BY <1>1, <1>2

(* What the settings ask of connect.                                       *)
LEMMA RequestedIs ==
  ASSUME SettingsInv
  PROVE  /\ Requested.host = settings.host /\ Requested.host \in Hosts
         /\ Requested.key \in Keys
         /\ Requested.endpoint # Cleared
<1>1. settings.host \in Field("host") /\ settings.key \in Field("key")
  BY DEF SettingsInv, SettingsType
<1>2. /\ Requested.host = settings.host
      /\ Requested.key = IF settings.key = "" THEN CmsKey ELSE settings.key
  BY DEF Requested
<1>3. \E a, b : Requested.endpoint = <<a, b>>
  <2>1. Requested.endpoint = IF NormalizeType(settings.type) # "ws" THEN <<"tcp", settings.host>>
                   ELSE <<"ws", IF settings.address # "" THEN settings.address
                                ELSE DefaultEndpoint>>
    BY DEF Requested
  <2> QED BY <2>1
<1>4. \A a, b : <<a, b>> # <<>>
  <2>1. \A a, b : Len(<<a, b>>) = 2 /\ Len(<<>>) = 0
    OBVIOUS
  <2> QED BY <2>1
<1> QED BY <1>1, <1>2, <1>3, <1>4 DEF Hosts, Keys, Cleared

(* connect: both subscribers are about to be stopped, unless nothing has   *)
(* changed.                                                                *)
LEMMA ConnectStep ==
  ASSUME UiInv, ZmqInv, SettingsInv, ManagerInv, ConfigInv, phase # "crashed", Connect
  PROVE  UiInv' /\ ZmqInv' /\ ManagerInv' /\ ConfigInv'
<1>1. /\ phase' = phase /\ settings' = settings /\ UNCHANGED zmqVars /\ ws' = ws
  BY DEF Connect, zmqVars
<1>2. CASE /\ IsSameConfig(Requested) /\ manager' = manager
           /\ Moves("connect", {})
  <2>1. UiInv'
    BY <1>1, <1>2, MovesUi
  <2>2. ZmqInv'
    BY <1>1, <1>2, ZmqElsewhere DEF ZmqSteps, ZmqStops
  <2>3. ManagerInv'
    BY <1>2 DEF ManagerInv, Usable, UsesWs
  <2>4. Later \subseteq Fields
    BY <1>2, LaterSteps DEF Configures
  <2>5. Configured
    <3>1. CASE Usable(Requested)
      BY <1>2, <3>1 DEF Configured
    <3>2. CASE ~Usable(Requested)
      <4>1. manager.endpoint # Cleared => Usable(manager)
        BY DEF ManagerInv
      <4>2. Usable(manager) => Usable(Requested)
        BY <1>2 DEF IsSameConfig, Usable, UsesWs
      <4> QED BY <3>2, <4>1, <4>2 DEF Configured
    <3> QED BY <3>1, <3>2
  <2>6. Configured'
    BY <1>1, <1>2, <2>5 DEF Configured, IsSameConfig, Usable, UsesWs, Requested
  <2>7. ~Pending({"zmqRun"})' /\ ~Pending({"wsRun"})'
    BY <1>2, <2>4, MovesPending DEF Fields
  <2>8. /\ Pending({"zmqRun"})' <=> Pending({"zmqRun"})
        /\ Pending({"wsRun"})' <=> Pending({"wsRun"})
        /\ Pending(ZmqStops)' <=> Pending(ZmqStops)
        /\ Pending(WsStops)' <=> Pending(WsStops)
    BY <1>2, PendingKept DEF ZmqStops, WsStops
  <2>9. ZmqSide' /\ WsSide'
    BY <1>1, <1>2, <2>8, ZmqSideKept, WsSideKept DEF ConfigInv, zmqVars, Ending
  <2> QED BY <2>1, <2>2, <2>3, <2>6, <2>7, <2>9 DEF ConfigInv, Asked, RunsWanted
<1>3. CASE /\ manager' = [Requested EXCEPT !.endpoint =
                            IF Usable(Requested) THEN Requested.endpoint ELSE Cleared]
           /\ Moves("connect", {"zmqStop", "wsStop"} \cup Runs)
  <2> DEFINE S == {"zmqStop", "wsStop"} \cup Runs
  <2>1. /\ manager'.host = Requested.host /\ manager'.key = Requested.key
        /\ manager'.type = Requested.type /\ manager'.address = Requested.address
        /\ manager'.endpoint = IF Usable(Requested) THEN Requested.endpoint ELSE Cleared
    BY <1>3 DEF Requested
  <2>2. Runs \subseteq {"zmqStop", "wsStop", "zmqRun", "wsRun"}
    BY DEF Runs
  <2>3. UiInv'
    <3>1. "zmqJoin" \notin S /\ S \cap Ends = {} /\ "connect" \in Configures
      BY <2>2 DEF Ends, Configures
    <3> HIDE DEF S
    <3> QED BY <1>1, <1>3, <3>1, MovesUi DEF S
  <2>4. ZmqInv'
    <3>1. "zmqStop" \in S /\ S \cap {"zmqJoin", "zmqTerminate"} = {} /\ "connect" \notin ZmqSteps
      BY <2>2 DEF ZmqSteps, ZmqStops
    <3> HIDE DEF S
    <3> QED BY <1>1, <1>3, <3>1, ZmqElsewhere DEF S
  <2>5. ManagerInv'
    <3>1. manager'.endpoint # Cleared => Usable(Requested) /\ manager'.endpoint = Requested.endpoint
      BY <2>1
    <3>2. manager'.endpoint # Cleared => Usable(manager')
      BY <2>1, <3>1 DEF Usable, UsesWs
    <3>3. manager'.host \in Hosts /\ manager'.key \in Keys
      BY <2>1, RequestedIs
    <3> QED BY <3>2, <3>3 DEF ManagerInv, Usable, UsesWs
  <2>6. Later \subseteq Fields
    BY <1>3, LaterSteps DEF Configures
  <2>7. /\ Pending({"zmqRun"})' => "zmqRun" \in Runs
        /\ Pending({"wsRun"})' <=> "wsRun" \in Runs
        /\ Pending(ZmqStops)' /\ Pending(WsStops)'
    <3>1. /\ "zmqStop" \in S /\ "wsStop" \in S
          /\ "zmqRun" \in S => "zmqRun" \in Runs
          /\ "wsRun" \in S <=> "wsRun" \in Runs
      BY DEF S
    <3> HIDE DEF S
    <3> QED BY <1>3, <2>6, <3>1, MovesPending DEF Fields, ZmqStops, WsStops, S
  <2>8. ~Ending'
    <3>1. "connect" \in Configures
      BY DEF Configures
    <3>2. Pending(Configures)
      BY <1>3, <3>1, MovesPending
    <3> QED BY <1>1, <3>2 DEF UiInv, Ending
  <2>9. /\ "zmqRun" \in Runs => Usable(Requested) /\ ~UsesWs(Requested)
        /\ "wsRun" \in Runs <=> Usable(Requested) /\ UsesWs(Requested)
    BY DEF Runs
  <2>10. RunsWanted'
    BY <2>1, <2>7, <2>8, <2>9, RequestedIs DEF RunsWanted, ZmqWanted, WsWanted, UsesWs
  <2>11. WsWanted' => Pending({"wsRun"})'
    BY <2>1, <2>7, <2>9 DEF WsWanted, UsesWs
  <2>12. Configured'
    <3>1. Requested' = Requested
      BY <1>1 DEF Requested
    <3> QED BY <2>1, <3>1 DEF Configured, IsSameConfig, Usable, UsesWs
  <2> QED BY <2>3, <2>4, <2>5, <2>7, <2>10, <2>11, <2>12
          DEF ConfigInv, Asked, ZmqSide, WsSide
<1> QED BY <1>2, <1>3, ConnectMoves

(* The field that changes, and connect is next.                            *)
LEMMA SetIfChangedStep ==
  ASSUME UiInv, ZmqInv, SettingsInv, ConfigInv, phase # "crashed",
         NEW f \in Fields, SetIfChanged(f)
  PROVE  UiInv' /\ ZmqInv' /\ SettingsInv' /\ ConfigInv'
<1>1. /\ phase' = phase /\ UNCHANGED zmqVars /\ ws' = ws /\ manager' = manager
      /\ incoming' = incoming
      /\ settings' = settings \/ settings' = [settings EXCEPT ![f] = incoming[f]]
  BY DEF SetIfChanged, SetValue, zmqVars
<1>2. PICK S : /\ Moves(f, S) /\ S \subseteq {"connect"}
               /\ settings' = settings \/ "connect" \in S
  BY XmrMoves
<1>3. f \in Configures /\ f \notin ZmqSteps \cup WsStops \cup {"wsRun", "connect"}
  BY DEF Configures, Fields, ZmqSteps, ZmqStops, WsStops
<1>4. UiInv'
  <2>1. "zmqJoin" \notin S /\ S \cap Ends = {}
    BY <1>2 DEF Ends
  <2> QED BY <1>1, <1>2, <1>3, <2>1, MovesUi
<1>5. ZmqInv'
  <2>1. S \cap ZmqSteps = {}
    BY <1>2 DEF ZmqSteps, ZmqStops
  <2> QED BY <1>1, <1>2, <1>3, <2>1, ZmqElsewhere
<1>6. SettingsInv'
  BY <1>1 DEF SettingsInv, SettingsType, Fields
<1>7. Asked' /\ RunsWanted'
  BY <1>1, <1>2, <1>3, MovesConfig
<1>8. /\ Pending({"zmqRun"})' <=> Pending({"zmqRun"})
      /\ Pending({"wsRun"})' <=> Pending({"wsRun"})
      /\ Pending(ZmqStops)' <=> Pending(ZmqStops)
      /\ Pending(WsStops)' <=> Pending(WsStops)
  BY <1>2, <1>3, PendingKept DEF ZmqStops, WsStops, ZmqSteps
<1>9. ZmqSide' /\ WsSide'
  BY <1>1, <1>8, ZmqSideKept, WsSideKept DEF ConfigInv, zmqVars, Ending
<1> QED BY <1>4, <1>5, <1>6, <1>7, <1>9 DEF ConfigInv

(* The steps of Zmq::Subscriber do not change that of the web socket.      *)
LEMMA ZmqStepsConfig ==
  ASSUME UiInv, ZmqInv, ManagerInv, ConfigInv, phase # "crashed",
         ZmqStop \/ ZmqJoin \/ ZmqTerminate \/ ZmqRun \/ ZmqReplace
  PROVE  ConfigInv'
<1>1. /\ phase' = phase /\ settings' = settings /\ manager' = manager /\ ws' = ws
  BY DEF ZmqStop, ZmqJoin, ZmqTerminate, ZmqRun, ZmqReplace
<1>2. PICK h \in ZmqSteps, S \in SUBSET {"zmqJoin", "zmqTerminate", "zmqReplace"} :
        Moves(h, S)
  <2>1. /\ "zmqStop" \in ZmqSteps /\ "zmqJoin" \in ZmqSteps /\ "zmqTerminate" \in ZmqSteps
        /\ "zmqRun" \in ZmqSteps /\ "zmqReplace" \in ZmqSteps
    BY DEF ZmqSteps, ZmqStops
  <2> QED BY <2>1, XmrMoves, ZmqTerminateStep
<1>3. h \notin WsStops /\ h \notin {"wsRun", "connect"}
  BY DEF ZmqSteps, ZmqStops, WsStops
<1>4. S \cap {"zmqRun", "wsRun", "connect"} = {} /\ S \cap WsStops = {}
  BY DEF WsStops
<1>5. Asked' /\ RunsWanted'
  BY <1>1, <1>2, <1>3, <1>4, MovesConfig
<1>6. WsSide'
  <2>1. /\ Pending({"wsRun"})' <=> Pending({"wsRun"})
        /\ Pending(WsStops)' <=> Pending(WsStops)
    BY <1>2, <1>3, <1>4, PendingKept
  <2> QED BY <1>1, <2>1, WsSideKept DEF ConfigInv, Ending
<1>7. ZmqSide'
  <2>1. CASE ZmqStop
    <3>1. CASE Running(zmq.context) /\ Moves("zmqStop", {"zmqJoin", "zmqTerminate"})
      <4>1. Pending(ZmqStops)'
        BY <3>1, MovesPending DEF ZmqStops
      <4> QED BY <4>1 DEF ZmqSide
    <3>2. CASE ~Running(zmq.context) /\ contexts[zmq.context] = "terminated"
      <4>1. /\ thread' = thread /\ contexts' = contexts
            /\ overtaken' = (overtaken \/ LiveThreads # {})
        BY <2>1, <3>2 DEF ZmqStop
      <4>2. LiveThreads = {} => \A c \in Threads : contexts[c] = "terminated"
        BY <3>2 DEF ZmqInv, ThreadsInv, LiveThreads, Disposing
      <4>3. ~overtaken' => NoZmq'
        BY <4>1, <4>2 DEF NoZmq, LiveThreads
      <4> QED BY <4>3 DEF ZmqSide
    <3> QED BY <2>1, <3>1, <3>2, ZmqStopStep
  <2>2. CASE ZmqJoin
    <3>1. Moves("zmqJoin", {}) /\ "zmqTerminate" \in Later
      BY <2>2, ZmqJoinStep
    <3>2. Pending(ZmqStops)'
      BY <3>1, MovesPending DEF ZmqStops
    <3> QED BY <3>2 DEF ZmqSide
  <2>3. CASE ZmqTerminate
    <3>1. /\ ZmqInv' /\ LiveThreads = {} /\ contexts'[zmq.context] = "terminated"
          /\ thread' = thread /\ zmq' = zmq
      BY <2>3, ZmqTerminateStep DEF ZmqTerminate
    <3>2. LiveThreads' = {}
      BY <3>1 DEF LiveThreads
    <3>3. \A c \in Threads : contexts'[c] = "terminated"
      BY <3>1, <3>2 DEF ZmqInv, ThreadsInv, LiveThreads, Disposing
    <3> QED BY <3>2, <3>3 DEF ZmqSide, NoZmq
  <2>4. CASE ZmqRun
    <3>1. /\ Moves("zmqRun", {"zmqReplace"})
          /\ zmq'.worker \notin LiveThreads /\ LiveThreads' = LiveThreads \cup {zmq'.worker}
          /\ thread'[zmq'.worker].host = manager.host
          /\ thread'[zmq'.worker].pc = "starting"
          /\ overtaken' = overtaken /\ contexts' = contexts
      BY <2>4, ZmqRunStep DEF ManagerInv, ZmqRun
    <3>2. Later \subseteq Fields
      BY <3>1, LaterSteps DEF Configures
    <3>3. Pending({"zmqRun"}) /\ ~Pending({"zmqRun"})' /\ ~Pending(ZmqStops)
      BY <3>1, <3>2, MovesPending DEF Fields, ZmqStops
    <3>4. ZmqWanted'
      BY <1>1, <3>3 DEF ConfigInv, RunsWanted, ZmqWanted, Ending, UsesWs
    <3>5. overtaken \/ NoZmq
      BY <3>3 DEF ConfigInv, ZmqSide
    <3>6. NoZmq => ZmqOn'
      BY <1>1, <3>1 DEF NoZmq, ZmqOn, Starting, Disposing
    <3> QED BY <3>1, <3>3, <3>4, <3>5, <3>6 DEF ZmqSide
  <2>5. CASE ZmqReplace
    <3>1. /\ Moves("zmqReplace", {}) /\ zmq'.worker = zmq.worker /\ zmq'.context = zmq.context
          /\ thread' = thread /\ contexts' = contexts /\ overtaken' = overtaken
      BY <2>5, ZmqReplaceStep DEF ZmqReplace
    <3>2. /\ Pending(ZmqStops)' <=> Pending(ZmqStops)
          /\ Pending({"zmqRun"})' <=> Pending({"zmqRun"})
      BY <3>1, PendingKept DEF ZmqStops
    <3> QED BY <1>1, <3>1, <3>2, ZmqSideKept DEF ConfigInv, Ending
  <2> QED BY <2>1, <2>2, <2>3, <2>4, <2>5
<1> QED BY <1>5, <1>6, <1>7 DEF ConfigInv

(* Ws::Subscriber on the UI thread.                                        *)
LEMMA WsUiSteps ==
  ASSUME UiInv, ZmqInv, ManagerInv, WsInv, ConfigInv, phase # "crashed",
         WsStop \/ WsJoin \/ WsRun
  PROVE  UiInv' /\ ZmqInv' /\ WsInv' /\ ConfigInv'
<1>1. /\ phase' = phase /\ settings' = settings /\ manager' = manager /\ UNCHANGED zmqVars
  BY DEF WsStop, WsJoin, WsRun, WsUiStep, zmqVars
<1>2. PICK h \in WsStops \cup {"wsRun"}, S \in SUBSET {"wsJoin"} : Moves(h, S)
  BY XmrMoves DEF WsStops
<1>3. /\ h \notin ZmqSteps /\ h # "connect" /\ S \cap ZmqSteps = {}
      /\ "zmqJoin" \notin S /\ S \cap Configures = {} /\ S \cap Ends = {}
      /\ S \cap {"zmqRun", "wsRun"} = {}
  BY DEF WsStops, ZmqSteps, ZmqStops, Configures, Ends, Fields
<1>4. UiInv' /\ ZmqInv'
  BY <1>1, <1>2, <1>3, MovesUi, ZmqElsewhere
<1>5. Asked' /\ RunsWanted'
  BY <1>1, <1>2, <1>3, MovesConfig
<1>6. ZmqSide'
  <2>1. /\ Pending(ZmqStops)' <=> Pending(ZmqStops)
        /\ Pending({"zmqRun"})' <=> Pending({"zmqRun"})
    BY <1>2, <1>3, PendingKept DEF ZmqSteps
  <2> QED BY <1>1, <2>1, ZmqSideKept DEF ConfigInv, zmqVars, Ending
<1>7. (WsWanted' <=> WsWanted)
  BY <1>1 DEF WsWanted, Ending, UsesWs
<1>8. CASE WsStop
  <2>1. /\ Moves("wsStop", {"wsJoin"})
        /\ ws' = [ws EXCEPT !.running = FALSE, !.fd = FALSE, !.shut = @ \/ ws.fd]
    BY <1>8, XmrMoves DEF WsStop
  <2>2. WsInv'
    <3>1. (ws.shut \/ ws.fd) \in BOOLEAN
      BY Zenon
    <3> QED BY <2>1, <3>1 DEF WsInv, WsType
  <2>3. /\ Pending(WsStops) /\ Pending(WsStops)'
        /\ Pending({"wsRun"})' <=> Pending({"wsRun"})
    BY <2>1, MovesPending DEF WsStops
  <2>4. WsSide'
    BY <1>7, <2>3 DEF ConfigInv, WsSide
  <2> QED BY <1>4, <1>5, <1>6, <2>2, <2>4 DEF ConfigInv
<1>9. CASE WsJoin
  <2>1. /\ Moves("wsJoin", {}) /\ ws' = ws /\ ws.pc = "ended"
    BY <1>9, XmrMoves DEF WsJoin
  <2>2. /\ Pending(WsStops)
        /\ Pending({"wsRun"})' <=> Pending({"wsRun"})
    BY <2>1, MovesPending DEF WsStops
  <2>3. WsSide'
    BY <1>7, <2>1, <2>2 DEF ConfigInv, WsSide
  <2>4. WsInv'
    BY <2>1 DEF WsInv
  <2> QED BY <1>4, <1>5, <1>6, <2>3, <2>4 DEF ConfigInv
<1>10. CASE WsRun
  <2>1. /\ Moves("wsRun", {})
        /\ ws' = [NoWs EXCEPT !.pc = "looping", !.running = TRUE,
                              !.uri = manager.endpoint[2], !.key = manager.key]
    BY <1>10, XmrMoves DEF WsRun
  <2>2. Later \subseteq Fields
    BY <2>1, LaterSteps DEF Configures
  <2>3. /\ Pending({"wsRun"}) /\ ~Pending({"wsRun"})' /\ ~Pending(WsStops)'
    BY <2>1, <2>2, MovesPending DEF Fields, WsStops
  <2>4. WsWanted
    BY <2>3 DEF ConfigInv, RunsWanted
  <2>5. manager.endpoint[2] \in Uris /\ manager.key \in Keys
    BY <2>4 DEF WsWanted, ManagerInv, Usable
  <2>6. /\ ws' = [pc |-> "looping", running |-> TRUE, fd |-> FALSE, shut |-> FALSE,
                  uri |-> manager.endpoint[2], key |-> manager.key]
    BY <2>1 DEF NoWs
  <2>7. WsInv'
    BY <2>5, <2>6 DEF WsInv, WsType, WsStates
  <2>8. WsOn'
    BY <1>1, <2>6 DEF WsOn
  <2>9. WsSide'
    BY <1>7, <2>3, <2>4, <2>8 DEF WsSide
  <2> QED BY <1>4, <1>5, <1>6, <2>7, <2>9 DEF ConfigInv
<1> QED BY <1>8, <1>9, <1>10

(* The settings ask for the same, and the same calls are pending, while    *)
(* another thread does a step.                                             *)
LEMMA AskedKept ==
  ASSUME ConfigInv, phase # "crashed", settings' = settings, manager' = manager,
         Ending' <=> Ending, \A ops : Pending(ops)' <=> Pending(ops)
  PROVE  Asked' /\ RunsWanted'
<1>1. Configured' <=> Configured
  BY DEF Configured, IsSameConfig, Usable, UsesWs, Requested
<1>2. (ZmqWanted' <=> ZmqWanted) /\ (WsWanted' <=> WsWanted)
  BY DEF ZmqWanted, WsWanted, UsesWs
<1> QED BY <1>1, <1>2 DEF ConfigInv, Asked, RunsWanted

(* The thread of Zmq::Subscriber remains the one that is asked for.        *)
LEMMA ZmqThreadStep ==
  ASSUME UiInv, ZmqInv, ConfigInv, phase # "crashed", NEW t \in Threads, ZmqThread(t)
  PROVE  UiInv' /\ ZmqInv' /\ ConfigInv'
<1>1. /\ phase' = phase /\ ui' = ui /\ settings' = settings /\ manager' = manager
      /\ ws' = ws /\ overtaken' = overtaken
  BY DEF ZmqThread, MakeContext, DisposeContext, OpenSocket, LeaveQueue, ThreadStep
<1>2. \A ops : Pending(ops)' <=> Pending(ops)
  BY <1>1, Zenon DEF Pending
<1>3. UiInv'
  BY <1>1, UiKept
<1>4. Asked' /\ RunsWanted'
  BY <1>1, <1>2, AskedKept DEF Ending
<1>5. WsSide'
  BY <1>1, <1>2, WsSideKept DEF ConfigInv, Ending
<1>6. ZmqSide /\ (ZmqWanted' <=> ZmqWanted) /\ t \in Threads
  BY <1>1 DEF ConfigInv, ZmqWanted, Ending, UsesWs
<1>7. CASE MakeContext(t)
  <2>1. /\ ZmqInv' /\ LiveThreads' = LiveThreads /\ zmq'.worker = zmq.worker
        /\ zmq'.context = t /\ thread'[t].host = thread[t].host
        /\ thread'[t].pc = IF contexts[zmq.context] = "terminated"
                           THEN "connecting" ELSE "disposing"
        /\ \A c \in Threads : c \notin {t, zmq.context} => contexts'[c] = contexts[c]
        /\ \A u \in Threads : u # t => thread'[u] = thread[u]
    BY <1>7, MakeContextStep
  <2>2. Starting(t) /\ t \in LiveThreads /\ zmq.context \in Threads \cup {None}
    BY <1>7 DEF MakeContext, Starting, LiveThreads, ZmqInv, ZmqTypes
  <2>3. ZmqOn => ZmqOn'
    <3> SUFFICES ASSUME ZmqOn PROVE ZmqOn'
      OBVIOUS
    <3>1. /\ t = zmq.worker /\ LiveThreads = {t} /\ thread[t].host = manager.host
          /\ \A c \in Threads : contexts[c] = "terminated"
      BY <2>2 DEF ZmqOn
    <3>2. contexts[zmq.context] = "terminated"
      BY <2>2, <3>1 DEF ZmqInv, ZmqTypes
    <3>3. thread'[t].pc = "connecting"
      BY <2>1, <3>2
    <3>4. \A c \in Threads : c # t => contexts'[c] = "terminated"
      <4>1. contexts'[zmq.context] = "terminated" \/ zmq.context = t
        BY <1>7, <2>2, <3>2 DEF MakeContext, ZmqInv, ZmqTypes
      <4> QED BY <2>1, <3>1, <4>1
    <3> QED BY <1>1, <2>1, <3>1, <3>3, <3>4 DEF ZmqOn, Starting, Disposing
  <2>4. ~NoZmq
    BY <2>2 DEF NoZmq
  <2>5. ZmqSide'
    BY <1>1, <1>2, <1>6, <2>3, <2>4 DEF ZmqSide
  <2> QED BY <1>3, <1>4, <1>5, <2>1, <2>5 DEF ConfigInv
<1>8. CASE DisposeContext(t)
  <2>1. ZmqInv' /\ Disposing(t)
    BY <1>8, DisposeContextStep
  <2>2. ~NoZmq /\ ~ZmqOn
    BY <2>1 DEF NoZmq, ZmqOn, LiveThreads, Disposing
  <2>3. ZmqSide'
    BY <1>1, <1>2, <1>6, <2>2 DEF ZmqSide
  <2> QED BY <1>3, <1>4, <1>5, <2>1, <2>3 DEF ConfigInv
<1>9. CASE OpenSocket(t) \/ LeaveQueue(t)
  <2>1. /\ ZmqInv' /\ zmq' = zmq /\ contexts' = contexts
        /\ LiveThreads' \subseteq LiveThreads
        /\ thread'[t].pc \in {"receiving", "ended"}
        /\ thread'[t].pc # "ended" => thread'[t].host = thread[t].host
        /\ \A u \in Threads : u # t => thread'[u] = thread[u]
    BY <1>9, OtherThreadSteps
  <2>2. NoZmq => NoZmq'
    BY <2>1 DEF NoZmq
  <2>3. ZmqOn => ZmqOn'
    BY <1>1, <2>1 DEF ZmqOn, LiveThreads, Starting, Disposing
  <2>4. ZmqSide'
    BY <1>1, <1>2, <1>6, <2>2, <2>3 DEF ZmqSide
  <2> QED BY <1>3, <1>4, <1>5, <2>1, <2>4 DEF ConfigInv
<1> QED BY <1>7, <1>8, <1>9 DEF ZmqThread

(* The thread of Ws::Subscriber goes on with what it was given until it is *)
(* told to stop.                                                           *)
LEMMA WsThreadStep ==
  ASSUME UiInv, ZmqInv, WsInv, ConfigInv, phase # "crashed", WsThread \/ WsPeerCloses
  PROVE  UiInv' /\ ZmqInv' /\ WsInv' /\ ConfigInv'
<1>1. /\ phase' = phase /\ ui' = ui /\ settings' = settings /\ manager' = manager
      /\ UNCHANGED zmqVars
  BY DEF WsThread, WsLoop, WsConnect, WsGreet, WsReadFails, WsPeerCloses, WsClose,
         WsForget, WsSleep, WsStep, zmqVars
<1>2. \A ops : Pending(ops)' <=> Pending(ops)
  BY <1>1, Zenon DEF Pending
<1>3. UiInv' /\ ZmqInv' /\ Asked' /\ RunsWanted'
  BY <1>1, <1>2, UiKept, ZmqStays, AskedKept DEF Ending
<1>4. ZmqSide'
  BY <1>1, <1>2, ZmqSideKept DEF ConfigInv, zmqVars, Ending
<1>5. /\ WsInv'
      /\ ws.pc # "ended"
      /\ ws.running => ws'.running /\ ws'.uri = ws.uri /\ ws'.key = ws.key
  <2>1. ws.pc \in {"looping", "connecting", "greeting", "reading", "closing", "failed",
                   "sleeping"}
    BY DEF WsThread, WsLoop, WsConnect, WsGreet, WsReadFails, WsPeerCloses, WsClose,
           WsForget, WsSleep
  <2>2. CASE ws' = NoWs /\ ~ws.running
    <3>1. "" \in Keys
      BY DEF Keys
    <3> QED BY <2>1, <2>2, <3>1 DEF WsInv, WsType, NoWs, WsStates
  <2>3. CASE \E pc \in WsStates \ {"ended"} : ws' = [ws EXCEPT !.pc = pc]
    BY <2>1, <2>3 DEF WsInv, WsType
  <2>4. CASE ws' = [ws EXCEPT !.pc = "greeting", !.fd = TRUE]
    BY <2>1, <2>4 DEF WsInv, WsType, WsStates
  <2>5. CASE ws' = [ws EXCEPT !.pc = "sleeping", !.fd = FALSE, !.shut = FALSE]
    BY <2>1, <2>5 DEF WsInv, WsType, WsStates
  <2> QED BY <2>2, <2>3, <2>4, <2>5
          DEF WsThread, WsLoop, WsConnect, WsGreet, WsReadFails, WsPeerCloses, WsClose,
              WsForget, WsSleep, WsMoves, WsStates
<1>6. WsSide'
  <2>1. WsSide /\ (WsWanted' <=> WsWanted)
    BY <1>1 DEF ConfigInv, WsWanted, Ending, UsesWs
  <2>2. WsOn => WsOn'
    BY <1>1, <1>5 DEF WsOn
  <2> QED BY <1>2, <1>5, <2>1, <2>2 DEF WsSide
<1> QED BY <1>3, <1>4, <1>5, <1>6 DEF ConfigInv

-----------------------------------------------------------------------------
(* The other steps: the settings, the manager and the subscribers stay as  *)
(* they are.                                                               *)
stayVars == <<settings, manager, zmq, thread, contexts, ws, overtaken>>

(* What that leaves alone, one by one.                                     *)
LEMMA StayParts ==
  ASSUME UNCHANGED stayVars
  PROVE  /\ UNCHANGED zmqVars /\ settings' = settings /\ manager' = manager /\ ws' = ws
         /\ zmq' = zmq /\ thread' = thread /\ contexts' = contexts /\ overtaken' = overtaken
BY DEF stayVars, zmqVars

(* Steps of other threads, the crash of the program among them.            *)
LEMMA OthersStep ==
  ASSUME UiInv, ZmqInv, ConfigInv, phase # "crashed", UNCHANGED stayVars, ui' = ui,
         phase' \in {phase, "crashed"}
  PROVE  UiInv' /\ ZmqInv' /\ ConfigInv'
<1>1. \A ops : Pending(ops)' <=> Pending(ops)
  BY Zenon DEF Pending
<1>2. UiInv' /\ ZmqInv'
  BY UiKept, ZmqStays, StayParts
<1>3. CASE phase' = "crashed"
  BY <1>2, <1>3 DEF ConfigInv
<1>4. CASE phase' = phase
  <2>1. Asked' /\ RunsWanted'
    BY <1>1, <1>4, AskedKept, StayParts DEF Ending
  <2>2. ZmqSide' /\ WsSide'
    BY <1>1, <1>4, ZmqSideKept, WsSideKept, StayParts DEF ConfigInv, Ending
  <2> QED BY <1>2, <2>1, <2>2 DEF ConfigInv
<1> QED BY <1>3, <1>4

(* Steps of a call about something else.                                   *)
LEMMA ElsewhereStep ==
  ASSUME UiInv, ZmqInv, ConfigInv, phase # "crashed", UNCHANGED stayVars, phase' = phase,
         NEW h \in {"clientStop", "cancelActive", "screenShot"}, NEW S,
         S \subseteq {"cancelActive"}, S # {} => h = "clientStop", Moves(h, S)
  PROVE  UiInv' /\ ZmqInv' /\ ConfigInv'
<1>1. /\ h \notin ZmqSteps /\ h \notin WsStops /\ h \notin {"connect", "wsRun"}
      /\ S \cap ZmqSteps = {} /\ S \cap WsStops = {} /\ S \cap {"connect", "wsRun", "zmqRun"} = {}
      /\ S \cap Configures = {} /\ "zmqJoin" \notin S /\ "clientStop" \in Ends
  BY DEF ZmqSteps, ZmqStops, WsStops, Configures, Fields, Ends
<1>2. UiInv'
  BY <1>1, MovesUi
<1>3. ZmqInv'
  BY <1>1, ZmqElsewhere, StayParts
<1>4. Asked' /\ RunsWanted'
  BY <1>1, MovesConfig, StayParts
<1>5. /\ Pending({"zmqRun"})' <=> Pending({"zmqRun"})
      /\ Pending({"wsRun"})' <=> Pending({"wsRun"})
      /\ Pending(ZmqStops)' <=> Pending(ZmqStops)
      /\ Pending(WsStops)' <=> Pending(WsStops)
  BY <1>1, PendingKept DEF ZmqSteps
<1>6. ZmqSide' /\ WsSide'
  BY <1>5, ZmqSideKept, WsSideKept, StayParts DEF ConfigInv, Ending
<1> QED BY <1>2, <1>3, <1>4, <1>6 DEF ConfigInv

(* A call that begins while the UI thread is in none: the screenshot, the  *)
(* changes of the settings, or the end of the program.                     *)
LEMMA BeginsStep ==
  ASSUME UiInv, ZmqInv, ConfigInv, phase \notin {"crashed", "ended", "ending"},
         UNCHANGED stayVars, ui = <<>>,
         \/ /\ ui' \in {<<>>, <<"screenShot">>, <<"host", "type", "address", "key">>}
            /\ phase' \in {phase, "running"}
         \/ /\ ui' = <<"zmqStop", "wsStop", "clientStop", "collectorJoin">>
            /\ phase' = "ending"
  PROVE  UiInv' /\ ZmqInv' /\ ConfigInv'
<1>1. \A ops : ~Pending(ops)
  BY NothingPending, Zenon
<1>2. \A ops : Pending(ops)' <=> Elements(ui') \cap ops # {}
  BY Zenon DEF Pending
<1>3. /\ phase \in Phases /\ "running" \in Phases /\ "ending" \in Phases
  BY DEF UiInv, Phases
<1>4. Configured /\ ZmqSide /\ WsSide
  BY <1>1 DEF ConfigInv, Asked
<1>5. Configured'
  BY <1>4, StayParts DEF Configured, IsSameConfig, Usable, UsesWs, Requested
<1>6. CASE /\ ui' \in {<<>>, <<"screenShot">>, <<"host", "type", "address", "key">>}
           /\ phase' \in {phase, "running"}
  <2>1. /\ ui' \in Seq(UiSteps) /\ Ordered(ui')
        /\ Elements(ui') \subseteq Fields \cup {"screenShot"}
    BY <1>6, Calls
  <2>2. /\ (Fields \cup {"screenShot"}) \cap ZmqSteps = {}
        /\ (Fields \cup {"screenShot"}) \cap WsStops = {}
        /\ "wsRun" \notin Fields \cup {"screenShot"}
        /\ (Fields \cup {"screenShot"}) \cap Ends = {}
        /\ "zmqJoin" \notin Fields \cup {"screenShot"}
        /\ ZmqStops \subseteq ZmqSteps /\ "zmqRun" \in ZmqSteps
    BY DEF Fields, ZmqSteps, ZmqStops, WsStops, Ends
  <2>3. phase' \in Phases /\ phase' \notin {"ending", "ended", "crashed"}
    BY <1>3, <1>6
  <2>4. UiInv'
    BY <2>1, <2>2, <2>3, UiBegins
  <2>5. ZmqInv'
    BY <2>1, <2>2, ZmqBegins, StayParts
  <2>6. /\ ~Pending(ZmqStops)' /\ ~Pending(WsStops)'
        /\ ~Pending({"zmqRun"})' /\ ~Pending({"wsRun"})'
    BY <1>2, <2>1, <2>2
  <2>7. ~Ending /\ ~Ending'
    BY <2>3 DEF Ending
  <2>8. ZmqSide' /\ WsSide'
    BY <1>1, <1>4, <2>6, <2>7, ZmqSideKept, WsSideKept, StayParts
  <2> QED BY <1>5, <2>4, <2>5, <2>6, <2>8 DEF ConfigInv, Asked, RunsWanted
<1>7. CASE /\ ui' = <<"zmqStop", "wsStop", "clientStop", "collectorJoin">>
           /\ phase' = "ending"
  <2> DEFINE U == {"zmqStop", "wsStop", "clientStop", "collectorJoin"}
  <2>1. /\ ui' \in Seq(UiSteps) /\ Ordered(ui') /\ Elements(ui') = U
    BY <1>7, Calls
  <2>2. /\ U \cap ZmqSteps \subseteq {"zmqStop"} /\ U \cap Configures = {}
        /\ "zmqJoin" \notin U /\ U \cap ZmqStops # {} /\ U \cap WsStops # {}
        /\ "zmqRun" \notin U /\ "wsRun" \notin U
    BY DEF Fields, ZmqSteps, ZmqStops, WsStops, Configures
  <2> HIDE DEF U
  <2>3. UiInv'
    BY <1>3, <1>7, <2>1, <2>2, UiBegins
  <2>4. ZmqInv'
    BY <2>1, <2>2, ZmqBegins, StayParts
  <2>5. /\ Pending(ZmqStops)' /\ Pending(WsStops)'
        /\ ~Pending({"zmqRun"})' /\ ~Pending({"wsRun"})'
    BY <1>2, <2>1, <2>2
  <2>6. Ending'
    BY <1>7 DEF Ending
  <2>7. ZmqSide' /\ WsSide'
    BY <2>5, <2>6 DEF ZmqSide, WsSide, WsWanted
  <2> QED BY <1>5, <2>3, <2>4, <2>5, <2>7 DEF ConfigInv, Asked, RunsWanted
<1> QED BY <1>6, <1>7

(* The end of the program, after the last step of shutdown.                *)
LEMMA CollectorJoinStep ==
  ASSUME UiInv, ZmqInv, ConfigInv, phase # "crashed", CollectorJoin
  PROVE  UiInv' /\ ZmqInv' /\ ConfigInv'
<1>1. /\ UNCHANGED stayVars /\ phase' = "ended" /\ ui' = <<>>
      /\ ui # <<>> /\ Head(ui) = "collectorJoin"
  BY DEF CollectorJoin, Step, xmrVars, stayVars
<1> DEFINE r == Tail(ui)
<1>2. /\ Elements(ui) = {"collectorJoin"} \cup Elements(r)
      /\ \A b \in Elements(r) : Follows("collectorJoin", b)
  BY <1>1, TailOrdered, TailElements DEF UiInv
<1> HIDE DEF r
<1>3. Elements(ui) = {"collectorJoin"}
  BY <1>2 DEF Follows
<1>4. phase = "ending"
  <2>1. Pending(Ends)
    BY <1>3 DEF Pending, Ends
  <2> QED BY <2>1 DEF UiInv
<1>5. /\ <<>> \in Seq(UiSteps) /\ Ordered(<<>>) /\ Elements(<<>>) = {}
  BY Calls
<1>6. UiInv'
  <2>1. "ended" \in Phases
    BY DEF Phases
  <2> QED BY <1>1, <1>5, <2>1, UiBegins
<1>7. /\ \A ops : Pending(ops)' <=> Elements(ui') \cap ops # {}
      /\ \A ops : Pending(ops) <=> Elements(ui) \cap ops # {}
  BY Zenon DEF Pending
<1>8. /\ "collectorJoin" \notin ZmqSteps /\ "collectorJoin" \notin WsStops
      /\ ZmqStops \subseteq ZmqSteps
  BY DEF ZmqSteps, ZmqStops, WsStops
<1>9. /\ \A ops : ~Pending(ops)'
      /\ \A ops : "collectorJoin" \notin ops => ~Pending(ops)
  BY <1>1, <1>3, <1>5, <1>7
<1>10. ZmqInv'
  BY <1>8, <1>9, ZmqKept, StayParts, <1>1 DEF ZmqSteps
<1>11. Configured'
  <2>1. Configured
    BY <1>4, <1>9 DEF ConfigInv, Asked
  <2> QED BY <1>1, <2>1, StayParts DEF Configured, IsSameConfig, Usable, UsesWs, Requested
<1>12. Ending /\ Ending'
  BY <1>1, <1>4 DEF Ending
<1>13. ZmqSide' /\ WsSide'
  <2>1. /\ Pending({"zmqRun"})' <=> Pending({"zmqRun"})
        /\ Pending({"wsRun"})' <=> Pending({"wsRun"})
        /\ Pending(ZmqStops)' <=> Pending(ZmqStops)
        /\ Pending(WsStops)' <=> Pending(WsStops)
    BY <1>8, <1>9
  <2> QED BY <1>1, <1>4, <1>12, <2>1, ZmqSideKept, WsSideKept, StayParts DEF ConfigInv
<1> QED BY <1>6, <1>9, <1>10, <1>11, <1>13 DEF ConfigInv, Asked, RunsWanted

-----------------------------------------------------------------------------
(* What is handed over to the UI thread, and the threads that hand it      *)
(* over.                                                                   *)

SessionType == [stage : {"posted", "busy", "setting", "done"}, result : Results,
                outcome : Results, tested : BOOLEAN, late : BOOLEAN]

OtherInv ==
  /\ QueueInv /\ HttpTypeOK
  /\ stimuli \in 0..MaxStimuli
  /\ connection \in [Clients -> SessionStates]
  /\ collector \in {"idle", "starting", "waiting"}

(* The settings of the CMS, as they come and once their type has been      *)
(* normalized, have the fields they are to have.                           *)
LEMMA SettingsAreTyped ==
  ASSUME NEW s \in Settings
  PROVE  /\ s \in SettingsType
         /\ [s EXCEPT !.type = NormalizeType(@)] \in SettingsType
<1>1. s \in [host : STRING, type : STRING, address : STRING, key : STRING]
  BY XmrAssumption
<1>2. /\ s.host \in Field("host") /\ s.type \in Field("type")
      /\ s.address \in Field("address") /\ s.key \in Field("key")
  BY DEF Field
<1>3. NormalizeType(s.type) \in Field("type")
  BY <1>2 DEF Field, NormalizeType
<1> QED BY <1>1, <1>2, <1>3 DEF SettingsType

(* A task that is handed over.                                             *)
LEMMA PushedTask ==
  ASSUME QueueInv, NEW task \in Tasks, Sent(task), PushToUiThread(task)
  PROVE  QueueInv'
<1> DEFINE T == {a \in Tasks : Sent(a)}
<1>1. queue \in Seq(T) /\ task \in T
  BY DEF QueueInv
<1>2. queue' = queue \/ queue' = Append(queue, task)
  BY DEF PushToUiThread
<1> HIDE DEF T
<1>3. queue' \in Seq(T)
  BY <1>1, <1>2, AppendProperties
<1> QED BY <1>3 DEF QueueInv, T, Sent, Tasks, Slots, SettingsType, Field

(* The tasks that messages of XMR and requests of pages hand over.         *)
LEMMA TaskTypes ==
  /\ \A slot \in Slots, download \in BOOLEAN : slot # "settingsUpdated" =>
       LET task == [Task(slot) EXCEPT !.download = download]
       IN task \in Tasks /\ Sent(task)
  /\ \A slot \in Slots : slot # "settingsUpdated" => Task(slot) \in Tasks /\ Sent(Task(slot))
  /\ \A sent \in SettingsType :
       LET task == [Task("settingsUpdated") EXCEPT !.settings = sent]
       IN task \in Tasks /\ Sent(task)
<1>1. "settingsUpdated" \in Slots
  BY Zenon DEF Slots
<1> HIDE DEF Slots, SettingsType
<1> QED BY <1>1 DEF Task, Tasks, Sent

(* The slots they are for.                                                 *)
LEMMA PushedSlots ==
  /\ \A a \in DOMAIN SlotOf : SlotOf[a] \in Slots /\ SlotOf[a] # "settingsUpdated"
  /\ \A r \in Requests : \A slot \in HandedOver(r) :
       slot \in Slots /\ slot # "settingsUpdated"
<1>1. \A a \in DOMAIN SlotOf : SlotOf[a] # "settingsUpdated"
  BY DEF SlotOf
<1>2. \A a \in DOMAIN SlotOf : SlotOf[a] \in Slots
  BY Zenon DEF Slots
<1>3. \A r \in HttpRequests : \A slot \in HandedOver(r) : slot \in Slots
  BY Zenon DEF Slots
<1>4. \A r : \A slot \in HandedOver(r) : slot # "settingsUpdated"
  BY DEF HandedOver
<1> QED BY <1>1, <1>2, <1>3, <1>4, AppAssumption

(* A request that is posted.                                               *)
LEMMA PostTypes ==
  ASSUME HttpTypeOK, NEW s \in Requesters, Post(s)
  PROVE  session' \in [Requesters -> SessionType]
<1>1. session \in [Requesters -> SessionType] /\ stopped \in BOOLEAN
  BY DEF HttpTypeOK, SessionType
<1>2. session[s].stage \in {"posted", "busy", "setting", "done"}
  BY <1>1 DEF SessionType
<1> PICK stage : stage = IF stopped THEN session[s].stage ELSE "posted"
  OBVIOUS
<1> PICK result : result = IF stopped THEN "error" ELSE "none"
  OBVIOUS
<1>3. session' = [session EXCEPT ![s] =
                    [NoSession EXCEPT !.stage = stage, !.result = result]]
  BY DEF Post
<1>4. stage \in {"posted", "busy", "setting", "done"} /\ result \in Results
  BY <1>2 DEF Results
<1>5. [NoSession EXCEPT !.stage = stage, !.result = result] \in SessionType
  BY <1>4 DEF NoSession, SessionType, Results
<1> QED BY <1>1, <1>3, <1>5

(* The steps of the HTTP client.                                           *)
LEMMA HttpSteps ==
  ASSUME HttpTypeOK, HttpUi \/ \E s \in Requesters : HttpThread(s)
  PROVE  HttpTypeOK'
<1>1. /\ session \in [Requesters -> SessionType] /\ stopped \in BOOLEAN
      /\ cancelling \subseteq Requesters
  BY DEF HttpTypeOK, SessionType
<1> SUFFICES /\ session' \in [Requesters -> SessionType] /\ stopped' \in BOOLEAN
             /\ cancelling' \subseteq Requesters
  BY DEF HttpTypeOK, SessionType
<1>2. CASE ClientStop
  BY <1>1, <1>2 DEF ClientStop
<1>3. CASE CancelActive
  <2>1. CASE cancelling = {}
    BY <1>1, <1>3, <2>1 DEF CancelActive
  <2>2. CASE cancelling # {}
    <3>1. PICK s \in cancelling :
            \/ session' = [session EXCEPT ![s].tested = TRUE] /\ cancelling' = cancelling
            \/ cancelling' = cancelling \ {s} /\ session' = session
      BY <1>3, <2>2 DEF CancelActive
    <3>2. stopped' = stopped
      BY <1>3 DEF CancelActive
    <3> QED BY <1>1, <3>1, <3>2 DEF SessionType
  <2> QED BY <2>1, <2>2
<1>4. ASSUME NEW s \in Requesters, CancelResult(s)
      PROVE  /\ session' \in [Requesters -> SessionType] /\ stopped' \in BOOLEAN
             /\ cancelling' \subseteq Requesters
  <2>1. stopped' = stopped
    BY <1>4 DEF CancelResult
  <2>2. CASE session[s].result = "none"
    <3> PICK stage \in {"setting", "done"} :
          stage = IF session[s].stage = "setting" THEN session[s].stage ELSE "done"
      <4>1. CASE session[s].stage = "setting"
        BY <4>1
      <4>2. CASE session[s].stage # "setting"
        BY <4>2
      <4> QED BY <4>1, <4>2
    <3>1. /\ session' = [session EXCEPT ![s].result = "error", ![s].tested = FALSE,
                                       ![s].stage = stage]
          /\ cancelling' = cancelling \ {s}
      <4>1. /\ session' = [session EXCEPT ![s].result = "error", ![s].tested = FALSE,
                                         ![s].stage = IF @ = "setting" THEN @ ELSE "done"]
            /\ cancelling' = cancelling \ {s}
        BY <1>4, <2>2 DEF CancelResult
      <4> QED BY <1>1, <4>1 DEF SessionType
    <3>2. "error" \in Results
      BY DEF Results
    <3>3. [session[s] EXCEPT !.result = "error", !.tested = FALSE, !.stage = stage] \in SessionType
      BY <1>1, <3>2 DEF SessionType
    <3>4. session' = [session EXCEPT ![s] =
                        [session[s] EXCEPT !.result = "error", !.tested = FALSE, !.stage = stage]]
      BY <1>1, <3>1 DEF SessionType
    <3> QED BY <1>1, <2>1, <3>1, <3>3, <3>4
  <2>3. CASE session[s].result # "none"
    BY <1>1, <1>4, <2>1, <2>3 DEF CancelResult
  <2> QED BY <2>2, <2>3
<1>5. ASSUME NEW s \in Requesters, HttpThread(s)
      PROVE  /\ session' \in [Requesters -> SessionType] /\ stopped' \in BOOLEAN
             /\ cancelling' \subseteq Requesters
  <2>1. stopped' = stopped /\ cancelling' = cancelling
    BY <1>5 DEF HttpThread, StartSession, SessionFinished, SetResult, HttpStep
  <2>2. CASE StartSession(s)
    BY <1>1, <2>1, <2>2 DEF StartSession, SessionType
  <2>3. CASE SessionFinished(s)
    <3>1. PICK outcome \in {"error", "answer"} :
            session' = [session EXCEPT ![s].stage = IF session[s].result = "none"
                                                    THEN "setting" ELSE "done",
                                       ![s].outcome = outcome]
      BY <2>3 DEF SessionFinished
    <3>2. outcome \in Results
      BY DEF Results
    <3> PICK stage \in {"setting", "done"} :
          stage = IF session[s].result = "none" THEN "setting" ELSE "done"
      OBVIOUS
    <3>3. session' = [session EXCEPT ![s].stage = stage, ![s].outcome = outcome]
      BY <3>1
    <3>4. [session[s] EXCEPT !.stage = stage, !.outcome = outcome] \in SessionType
      BY <1>1, <3>2 DEF SessionType
    <3>5. session' = [session EXCEPT ![s] =
                        [session[s] EXCEPT !.stage = stage, !.outcome = outcome]]
      BY <1>1, <3>3 DEF SessionType
    <3> QED BY <1>1, <2>1, <3>4, <3>5
  <2>4. CASE SetResult(s)
    <3>1. session[s].outcome \in Results
      BY <1>1 DEF SessionType
    <3>2. \/ session' = session
          \/ session' = [session EXCEPT ![s].result = session[s].outcome, ![s].stage = "done"]
      BY <2>4 DEF SetResult
    <3> QED BY <1>1, <2>1, <3>1, <3>2 DEF SessionType
  <2> QED BY <1>5, <2>2, <2>3, <2>4 DEF HttpThread
<1> QED BY <1>2, <1>3, <1>4, <1>5 DEF HttpUi

-----------------------------------------------------------------------------
(* The invariant of the program, step by step.                             *)
XmrInv == UiInv /\ SettingsInv /\ ManagerInv /\ WsInv /\ ZmqInv /\ ConfigInv

AppInv == XmrInv /\ OtherInv

(* What settings, manager and the web socket are, where they do not change.*)
LEMMA StayTyped ==
  ASSUME SettingsInv, ManagerInv, WsInv, UNCHANGED stayVars
  PROVE  ManagerInv' /\ WsInv' /\ (incoming' \in SettingsType => SettingsInv')
<1>1. settings' = settings /\ manager' = manager /\ ws' = ws
  BY StayParts
<1> QED BY <1>1 DEF SettingsInv, ManagerInv, WsInv, Usable, UsesWs

(* The start of the program.                                               *)
LEMMA InitInv == AppInit => AppInv
<1> SUFFICES ASSUME AppInit PROVE AppInv
  OBVIOUS
<1>1. /\ phase = "starting" /\ ui = <<"connect">> /\ queue = <<>>
      /\ settings = FirstSettings /\ incoming = FirstSettings
      /\ manager = [host |-> "", type |-> "", address |-> "", key |-> "", endpoint |-> Cleared]
      /\ zmq = [worker |-> None, context |-> None, old |-> None]
      /\ thread = [t \in Threads |-> NoThread]
      /\ contexts = [c \in Threads \cup {None} |-> "terminated"]
      /\ ws = NoWs /\ overtaken = FALSE
      /\ stopped = FALSE /\ session = [s \in Requesters |-> NoSession] /\ cancelling = {}
      /\ connection = [c \in Clients |-> "none"]
      /\ collector = "idle" /\ stimuli = 0
  BY DEF AppInit
<1>2. /\ Elements(ui) = {"connect"} /\ ui \in Seq(UiSteps) /\ Ordered(ui)
  <2> DEFINE op == "connect"
             s  == <<op>>
  <2>1. op \in UiSteps
    BY DEF UiSteps
  <2> HIDE DEF op
  <2>2. s \in Seq(UiSteps) /\ Elements(s) = {op} /\ Ordered(s)
    BY <2>1, ShortElements DEF Ordered
  <2> HIDE DEF s
  <2>3. ui = s
    BY <1>1 DEF s, op
  <2> QED BY <2>2, <2>3 DEF op
<1>3. \A ops : Pending(ops) <=> "connect" \in ops
  BY <1>2 DEF Pending
<1>4. UiInv
  <2>1. ~Pending({"zmqJoin"}) /\ ~Pending(Ends) /\ phase \in Phases
    BY <1>1, <1>3 DEF Ends, Phases
  <2> QED BY <1>1, <1>2, <2>1 DEF UiInv
<1>5. SettingsInv
  BY <1>1, AppAssumption, SettingsAreTyped DEF SettingsInv
<1>6. ManagerInv
  BY <1>1 DEF ManagerInv, Hosts, Keys
<1>7. WsInv
  BY <1>1 DEF WsInv, WsType, NoWs, WsStates, Keys
<1>8. NoThread \in ThreadType /\ NoThread.pc = "ended"
      /\ NoThread.socket = None /\ NoThread.old = None
  <2>1. NoThread \in ThreadType
    BY DEF NoThread, ThreadType, ThreadStates, Hosts
  <2> QED BY <2>1 DEF NoThread
<1>9. /\ \A t \in Threads : /\ thread[t].pc = "ended"
                            /\ thread[t].socket = None /\ thread[t].old = None
      /\ zmq.worker = None /\ zmq.context = None /\ zmq.old = None
      /\ \A c \in Threads \cup {None} : contexts[c] = "terminated"
  BY <1>1, <1>8
<1>10. ZmqTypes
  BY <1>1, <1>8 DEF ZmqTypes, ContextStates
<1>11. LiveThreads = {} /\ NoZmq
  BY <1>9 DEF LiveThreads, NoZmq
<1>12. ThreadsInv
  BY <1>9, <1>11 DEF ThreadsInv, Starting, Disposing
<1>13. CallsInv
  BY <1>3, <1>9 DEF CallsInv
<1>14. ConfigInv
  <2>1. Asked /\ RunsWanted
    BY <1>3 DEF Asked, RunsWanted
  <2>2. ZmqSide
    BY <1>11 DEF ZmqSide
  <2>3. WsSide
    BY <1>1 DEF WsSide, WsWanted, NoWs
  <2> QED BY <2>1, <2>2, <2>3 DEF ConfigInv
<1>15. QueueInv
  <2> DEFINE T == {a \in Tasks : Sent(a)}
  <2> HIDE DEF T
  <2>1. queue \in Seq(T)
    BY <1>1, EmptySeq
  <2> QED BY <2>1 DEF QueueInv, T
<1>16. HttpTypeOK
  BY <1>1 DEF HttpTypeOK, NoSession, Results
<1>17. OtherInv
  <2>1. 0 \in 0..MaxStimuli
    BY AppAssumption
  <2>2. connection \in [Clients -> SessionStates]
    BY <1>1 DEF SessionStates
  <2> QED BY <1>1, <1>15, <1>16, <2>1, <2>2 DEF OtherInv
<1> QED BY <1>4, <1>5, <1>6, <1>7, <1>10, <1>12, <1>13, <1>14, <1>17
        DEF AppInv, XmrInv, ZmqInv

(* XmrManager and its subscribers on the UI thread.                        *)
LEMMA XmrUiStep ==
  ASSUME XmrInv, phase # "crashed", XmrUi
  PROVE  XmrInv'
<1>1. CASE Connect
  <2>1. settings' = settings /\ incoming' = incoming /\ ws' = ws
    BY <1>1 DEF Connect
  <2>2. SettingsInv' /\ WsInv'
    BY <2>1 DEF XmrInv, SettingsInv, WsInv
  <2> QED BY <1>1, <2>2, ConnectStep DEF XmrInv
<1>2. ASSUME NEW f \in Fields, SetIfChanged(f)
      PROVE  XmrInv'
  <2>1. manager' = manager /\ ws' = ws
    BY <1>2 DEF SetIfChanged
  <2>2. ManagerInv' /\ WsInv'
    BY <2>1 DEF XmrInv, ManagerInv, Usable, UsesWs, WsInv
  <2> QED BY <1>2, <2>2, SetIfChangedStep DEF XmrInv
<1>3. CASE ZmqStop \/ ZmqJoin \/ ZmqTerminate \/ ZmqRun \/ ZmqReplace
  <2>1. manager' = manager /\ ws' = ws /\ settings' = settings /\ incoming' = incoming
    BY <1>3 DEF ZmqStop, ZmqJoin, ZmqTerminate, ZmqRun, ZmqReplace
  <2>2. ManagerInv' /\ WsInv' /\ SettingsInv'
    BY <2>1 DEF XmrInv, ManagerInv, Usable, UsesWs, WsInv, SettingsInv
  <2>3. UiInv' /\ ZmqInv'
    BY <1>3, ZmqStopStep, ZmqJoinStep, ZmqTerminateStep, ZmqRunStep, ZmqReplaceStep
       DEF XmrInv, ManagerInv
  <2>4. ConfigInv'
    BY <1>3, ZmqStepsConfig DEF XmrInv
  <2> QED BY <2>2, <2>3, <2>4 DEF XmrInv
<1>4. CASE WsStop \/ WsJoin \/ WsRun
  <2>1. manager' = manager /\ settings' = settings /\ incoming' = incoming
    BY <1>4 DEF WsStop, WsJoin, WsRun, WsUiStep
  <2>2. ManagerInv' /\ SettingsInv'
    BY <2>1 DEF XmrInv, ManagerInv, Usable, UsesWs, SettingsInv
  <2> QED BY <1>4, <2>2, WsUiSteps DEF XmrInv
<1> QED BY <1>1, <1>2, <1>3, <1>4 DEF XmrUi

(* The threads of XMR.                                                     *)
LEMMA XmrThreadStep ==
  ASSUME XmrInv, phase # "crashed",
         (\E t \in Threads : ZmqThread(t)) \/ WsThread \/ WsPeerCloses
  PROVE  XmrInv'
<1>1. manager' = manager /\ settings' = settings /\ incoming' = incoming
  BY DEF ZmqThread, MakeContext, DisposeContext, OpenSocket, LeaveQueue, ThreadStep,
         WsThread, WsLoop, WsConnect, WsGreet, WsReadFails, WsPeerCloses, WsClose,
         WsForget, WsSleep, WsStep
<1>2. ManagerInv' /\ SettingsInv'
  BY <1>1 DEF XmrInv, ManagerInv, Usable, UsesWs, SettingsInv
<1>3. ASSUME NEW t \in Threads, ZmqThread(t)
      PROVE  XmrInv'
  <2>1. ws' = ws
    BY <1>3 DEF ZmqThread, MakeContext, DisposeContext, OpenSocket, LeaveQueue, ThreadStep
  <2>2. WsInv'
    BY <2>1 DEF XmrInv, WsInv
  <2> QED BY <1>2, <1>3, <2>2, ZmqThreadStep DEF XmrInv
<1>4. CASE WsThread \/ WsPeerCloses
  BY <1>2, <1>4, WsThreadStep DEF XmrInv
<1> QED BY <1>3, <1>4

(* The steps that leave XMR alone, by what they do to the UI thread.       *)
LEMMA OutsideXmr ==
  ASSUME XmrInv, phase # "crashed", UNCHANGED xmrVars, ui' = ui,
         phase' \in {phase, "crashed"}
  PROVE  XmrInv'
<1>1. UNCHANGED stayVars /\ incoming' = incoming
  BY DEF xmrVars, stayVars
<1>2. UiInv' /\ ZmqInv' /\ ConfigInv'
  BY <1>1, OthersStep DEF XmrInv
<1>3. incoming' \in SettingsType
  BY <1>1 DEF XmrInv, SettingsInv, SettingsType, Field
<1> QED BY <1>1, <1>2, <1>3, StayTyped DEF XmrInv

(* The end of the HTTP client, on the UI thread.                           *)
LEMMA HttpUiStep ==
  ASSUME XmrInv, phase # "crashed", HttpUi, UNCHANGED xmrVars
  PROVE  XmrInv'
<1>1. UNCHANGED stayVars /\ incoming' = incoming
  BY DEF xmrVars, stayVars
<1>2. incoming' \in SettingsType
  BY <1>1 DEF XmrInv, SettingsInv, SettingsType, Field
<1>3. CASE ClientStop
  <2>1. phase' = phase /\ Moves("clientStop", {"cancelActive"})
    BY <1>3, OtherMoves DEF ClientStop, XmrInv
  <2> QED BY <1>1, <1>2, <2>1, ElsewhereStep, StayTyped DEF XmrInv
<1>4. CASE CancelActive
  <2>1. phase' = phase /\ (ui' = ui \/ Moves("cancelActive", {}))
    BY <1>4, OtherMoves DEF CancelActive, XmrInv
  <2>2. CASE ui' = ui
    BY <2>1, <2>2, OutsideXmr
  <2>3. CASE Moves("cancelActive", {})
    BY <1>1, <1>2, <2>1, <2>3, ElsewhereStep, StayTyped DEF XmrInv
  <2> QED BY <2>1, <2>2, <2>3
<1>5. ASSUME NEW s \in Requesters, CancelResult(s)
      PROVE  XmrInv'
  <2>1. ui' = ui /\ phase' \in {phase, "crashed"}
    BY <1>5 DEF CancelResult
  <2> QED BY <2>1, OutsideXmr
<1> QED BY <1>3, <1>4, <1>5 DEF HttpUi

(* A slot, and what it is called with.                                     *)
LEMMA SlotStep ==
  ASSUME XmrInv, OtherInv, phase # "crashed", Slot
  PROVE  XmrInv' /\ OtherInv'
<1> DEFINE T == {a \in Tasks : Sent(a)}
           h == Head(queue)
<1>1. /\ phase = "running" /\ ui = <<>> /\ queue # <<>> /\ queue' = Tail(queue)
      /\ phase' = phase /\ UNCHANGED stayVars
      /\ UNCHANGED <<httpVars, connection, stimuli>>
      /\ collector' \in {collector, "starting"}
      /\ h.slot = "settingsUpdated" => /\ incoming' = h.settings
                                       /\ ui' = <<"host", "type", "address", "key">>
      /\ h.slot # "settingsUpdated" => /\ incoming' = incoming
                                       /\ ui' \in {<<>>, <<"screenShot">>}
  BY DEF Slot, CollectNow, stayVars
<1>2. queue \in Seq(T)
  BY DEF OtherInv, QueueInv
<1> HIDE DEF T
<1>3. h \in T /\ Tail(queue) \in Seq(T)
  BY <1>1, <1>2, EmptySeq, HeadTailProperties
<1>4. h \in Tasks /\ Sent(h)
  BY <1>3 DEF T
<1> HIDE DEF h
<1>5. incoming' \in SettingsType
  <2>1. CASE h.slot = "settingsUpdated"
    BY <1>1, <1>4, <2>1 DEF Sent
  <2>2. CASE h.slot # "settingsUpdated"
    BY <1>1, <2>2 DEF XmrInv, SettingsInv
  <2> QED BY <2>1, <2>2
<1>6. UiInv' /\ ZmqInv' /\ ConfigInv'
  BY <1>1, BeginsStep DEF XmrInv
<1>7. QueueInv'
  BY <1>1, <1>3 DEF QueueInv, T, Sent, Tasks, Slots, SettingsType, Field
<1>8. HttpTypeOK' /\ OtherInv'
  <2>1. HttpTypeOK'
    BY <1>1 DEF OtherInv, HttpTypeOK, httpVars
  <2> QED BY <1>1, <1>7, <2>1 DEF OtherInv
<1> QED BY <1>1, <1>5, <1>6, <1>8, StayTyped DEF XmrInv

(* The other steps of the UI thread, and the end of the program.           *)
LEMMA OtherUiStep ==
  ASSUME XmrInv, OtherInv, ~Over,
         Started \/ TakeScreenShot \/ CollectorJoin \/ Shutdown \/ TimerFires
  PROVE  XmrInv' /\ OtherInv'
<1>1. /\ UNCHANGED stayVars /\ incoming' = incoming /\ queue' = queue
      /\ connection' = connection
  BY DEF Started, TakeScreenShot, CollectorJoin, Shutdown, TimerFires, xmrVars, stayVars,
         appVars
<1>2. phase # "crashed"
  BY DEF Over
<1>3. ManagerInv' /\ WsInv' /\ SettingsInv' /\ QueueInv'
  <2>1. incoming' \in SettingsType
    BY <1>1 DEF XmrInv, SettingsInv, SettingsType, Field
  <2>2. QueueInv'
    BY <1>1 DEF OtherInv, QueueInv, Sent, Tasks, Slots, SettingsType, Field
  <2> QED BY <1>1, <2>1, <2>2, StayTyped DEF XmrInv
<1>4. UiInv' /\ ZmqInv' /\ ConfigInv'
  <2>1. CASE Started
    BY <1>1, <1>2, <2>1, BeginsStep DEF Started, XmrInv
  <2>2. CASE TakeScreenShot
    <3>1. phase' = phase /\ Moves("screenShot", {})
      BY <2>2, OtherMoves DEF TakeScreenShot, XmrInv
    <3> QED BY <1>1, <1>2, <3>1, ElsewhereStep DEF XmrInv
  <2>3. CASE CollectorJoin
    BY <1>2, <2>3, CollectorJoinStep DEF XmrInv
  <2>4. CASE Shutdown
    BY <1>1, <1>2, <2>4, BeginsStep DEF Shutdown, XmrInv
  <2>5. CASE TimerFires
    BY <1>1, <1>2, <2>5, BeginsStep DEF TimerFires, XmrInv
  <2> QED BY <2>1, <2>2, <2>3, <2>4, <2>5
<1>5. HttpTypeOK'
  <2>1. CASE UNCHANGED httpVars
    BY <2>1 DEF OtherInv, HttpTypeOK, httpVars
  <2>2. CASE TakeScreenShot
    <3>1. /\ stopped' = stopped /\ cancelling' = cancelling
          /\ Post("screenShot") \/ session' = session
      BY <2>2 DEF TakeScreenShot
    <3>2. Post("screenShot") => session' \in [Requesters -> SessionType]
      BY AppAssumption, PostTypes DEF OtherInv
    <3> QED BY <3>1, <3>2 DEF OtherInv, HttpTypeOK, SessionType
  <2> QED BY <2>1, <2>2 DEF Started, CollectorJoin, Shutdown, TimerFires, httpVars
<1>6. stimuli' \in 0..MaxStimuli /\ collector' \in {"idle", "starting", "waiting"}
  <2>1. stimuli \in 0..MaxStimuli /\ collector \in {"idle", "starting", "waiting"}
    BY DEF OtherInv
  <2>2. CASE TimerFires
    BY <2>1, <2>2, AppAssumption DEF TimerFires, Stimulus, CollectNow
  <2>3. CASE Started \/ TakeScreenShot \/ CollectorJoin \/ Shutdown
    BY <2>1, <2>3 DEF Started, TakeScreenShot, CollectorJoin, Shutdown, appVars
  <2> QED BY <2>2, <2>3
<1> QED BY <1>1, <1>3, <1>4, <1>5, <1>6 DEF XmrInv, OtherInv

(* The thread of the collection.                                           *)
LEMMA CollectorStep ==
  ASSUME XmrInv, OtherInv, ~Over, CollectorThread
  PROVE  XmrInv' /\ OtherInv'
<1>1. phase # "crashed" /\ "collector" \in Requesters
  BY AppAssumption DEF Over
<1>2. CASE RegisterDisplay
  <2>1. /\ phase' = phase /\ ui' = ui /\ queue' = queue /\ UNCHANGED xmrVars
        /\ stopped' = stopped /\ cancelling' = cancelling
        /\ connection' = connection /\ stimuli' = stimuli /\ collector' = "waiting"
        /\ Post("collector")
    BY <1>2 DEF RegisterDisplay, HttpStep
  <2>2. XmrInv'
    BY <1>1, <2>1, OutsideXmr
  <2>3. session' \in [Requesters -> SessionType]
    BY <1>1, <2>1, PostTypes DEF OtherInv
  <2>4. HttpTypeOK'
    BY <2>1, <2>3 DEF OtherInv, HttpTypeOK, SessionType
  <2>5. QueueInv'
    BY <2>1 DEF OtherInv, QueueInv, Sent, Tasks, Slots, SettingsType, Field
  <2> QED BY <2>1, <2>2, <2>4, <2>5 DEF OtherInv
<1>3. CASE OnDisplayRegistered
  <2>1. /\ phase' = phase /\ ui' = ui /\ UNCHANGED xmrVars
        /\ stopped' = stopped /\ cancelling' = cancelling
        /\ connection' = connection /\ stimuli' = stimuli /\ collector' = "idle"
        /\ session' = [session EXCEPT !["collector"] = IF @.stage = "done" THEN NoSession ELSE @]
    BY <1>3 DEF OnDisplayRegistered
  <2>2. XmrInv'
    BY <1>1, <2>1, OutsideXmr
  <2>3. HttpTypeOK'
    <3>1. session \in [Requesters -> SessionType] /\ NoSession \in SessionType
      BY DEF OtherInv, HttpTypeOK, SessionType, NoSession, Results
    <3>2. session' = session \/ session' = [session EXCEPT !["collector"] = NoSession]
      <4>1. CASE session["collector"].stage = "done"
        BY <1>1, <2>1, <3>1, <4>1
      <4>2. CASE session["collector"].stage # "done"
        BY <1>1, <2>1, <3>1, <4>2
      <4> QED BY <4>1, <4>2
    <3>3. session' \in [Requesters -> SessionType]
      BY <1>1, <3>1, <3>2
    <3> QED BY <2>1, <3>3 DEF OtherInv, HttpTypeOK, SessionType
  <2>4. QueueInv'
    <3>1. CASE queue' = queue
      BY <3>1 DEF OtherInv, QueueInv, Sent, Tasks, Slots, SettingsType, Field
    <3>2. ASSUME NEW answer \in Answers, NEW sent \in ParseBody(answer),
                 PushToUiThread([Task("settingsUpdated") EXCEPT !.settings = sent])
          PROVE  QueueInv'
      <4>1. answer.settings \in Settings
        BY DEF Answers
      <4>2. sent = [answer.settings EXCEPT !.type = NormalizeType(@)]
        BY DEF ParseBody
      <4>3. sent \in SettingsType
        BY <4>1, <4>2, SettingsAreTyped
      <4> QED BY <3>2, <4>3, TaskTypes, PushedTask DEF OtherInv
    <3> QED BY <1>3, <3>1, <3>2 DEF OnDisplayRegistered
  <2> QED BY <2>1, <2>2, <2>3, <2>4 DEF OtherInv
<1> QED BY <1>2, <1>3 DEF CollectorThread

(* The threads of the HTTP client, and its end.                            *)
LEMMA HttpClientStep ==
  ASSUME XmrInv, OtherInv, ~Over, UNCHANGED xmrVars, UNCHANGED appVars,
         HttpUi \/ \E s \in Requesters : HttpThread(s)
  PROVE  XmrInv' /\ OtherInv'
<1>1. phase # "crashed"
  BY DEF Over
<1>2. XmrInv'
  <2>1. CASE HttpUi
    BY <1>1, <2>1, HttpUiStep
  <2>2. ASSUME NEW s \in Requesters, HttpThread(s)
        PROVE  XmrInv'
    <3>1. ui' = ui /\ phase' \in {phase, "crashed"}
      BY <2>2 DEF HttpThread, StartSession, SessionFinished, SetResult, HttpStep
    <3> QED BY <1>1, <3>1, OutsideXmr
  <2> QED BY <2>1, <2>2
<1>3. queue' = queue /\ connection' = connection /\ collector' = collector
      /\ stimuli' = stimuli
  BY DEF HttpUi, ClientStop, CancelActive, CancelResult, HttpThread, StartSession,
         SessionFinished, SetResult, HttpStep, appVars
<1>4. HttpTypeOK'
  BY HttpSteps DEF OtherInv
<1>5. QueueInv'
  BY <1>3 DEF OtherInv, QueueInv, Sent, Tasks, Slots, SettingsType, Field
<1> QED BY <1>2, <1>3, <1>4, <1>5 DEF OtherInv

(* Messages of XMR, and the server that pages call.                        *)
LEMMA OutsideStep ==
  ASSUME XmrInv, OtherInv, ~Over,
         \/ \E m \in Messages : Message(m)
         \/ \E c \in Clients : Accept(c) \/ HangUp(c) \/ Answer(c)
         \/ \E c \in Clients, r \in Requests : Request(c, r)
  PROVE  XmrInv' /\ OtherInv'
<1>1. phase # "crashed"
  BY DEF Over
<1>2. /\ phase' = phase /\ ui' = ui /\ UNCHANGED xmrVars /\ UNCHANGED httpVars
      /\ collector' = collector
  BY DEF Message, MessageReceived, Accept, OnAccept, HangUp, Close, Answer, OnWrite,
         Request, OnRead, ServerStep
<1>3. XmrInv'
  BY <1>1, <1>2, OutsideXmr
<1>4. HttpTypeOK'
  BY <1>2 DEF OtherInv, HttpTypeOK, httpVars
<1>5. stimuli \in 0..MaxStimuli /\ connection \in [Clients -> SessionStates] /\ QueueInv
  BY DEF OtherInv
<1>6. queue' = queue => QueueInv'
  BY DEF OtherInv, QueueInv, Sent, Tasks, Slots, SettingsType, Field
<1>7. ASSUME NEW m \in Messages, Message(m)
      PROVE  OtherInv'
  <2>1. /\ Stimulus /\ connection' = connection
        /\ \/ /\ m.action \in DOMAIN SlotOf
              /\ PushToUiThread([Task(SlotOf[m.action]) EXCEPT !.download = m.downloadRequired])
           \/ queue' = queue
    BY <1>7 DEF Message, MessageReceived
  <2>2. m.downloadRequired \in BOOLEAN
    BY AppAssumption
  <2>3. QueueInv'
    BY <1>5, <1>6, <2>1, <2>2, PushedSlots, TaskTypes, PushedTask
  <2>4. stimuli' \in 0..MaxStimuli
    BY <1>5, <2>1, AppAssumption DEF Stimulus
  <2> QED BY <1>2, <1>4, <1>5, <2>1, <2>3, <2>4 DEF OtherInv
<1>8. ASSUME NEW c \in Clients, Accept(c) \/ HangUp(c) \/ Answer(c)
      PROVE  OtherInv'
  <2>1. /\ queue' = queue /\ stimuli' = stimuli
        /\ \E state \in SessionStates : connection' = [connection EXCEPT ![c] = state]
    BY <1>8 DEF Accept, OnAccept, HangUp, Close, Answer, OnWrite, SessionStates
  <2> QED BY <1>2, <1>4, <1>5, <1>6, <2>1 DEF OtherInv
<1>9. ASSUME NEW c \in Clients, NEW r \in Requests, Request(c, r)
      PROVE  OtherInv'
  <2>1. /\ Stimulus /\ connection' = [connection EXCEPT ![c] = "writing"]
        /\ \/ queue' = queue
           \/ \E slot \in HandedOver(r) : PushToUiThread(Task(slot))
    BY <1>9 DEF Request, OnRead
  <2>2. QueueInv'
    BY <1>5, <1>6, <2>1, PushedSlots, TaskTypes, PushedTask
  <2>3. stimuli' \in 0..MaxStimuli
    BY <1>5, <2>1, AppAssumption DEF Stimulus
  <2>4. connection' \in [Clients -> SessionStates]
    BY <1>5, <2>1 DEF SessionStates
  <2> QED BY <1>2, <1>4, <2>2, <2>3, <2>4 DEF OtherInv
<1> QED BY <1>3, <1>7, <1>8, <1>9

(* Every step of the program.                                              *)
LEMMA NextInv == AppInv /\ [AppNext]_vars => AppInv'
<1> SUFFICES ASSUME AppInv, [AppNext]_vars PROVE AppInv'
  OBVIOUS
<1> USE DEF AppInv
<1>1. CASE UNCHANGED vars
  <2>1. /\ phase' = phase /\ ui' = ui /\ UNCHANGED stayVars /\ incoming' = incoming
        /\ queue' = queue /\ UNCHANGED httpVars /\ UNCHANGED appVars
    BY <1>1 DEF vars, xmrVars, stayVars
  <2>2. UiInv' /\ ZmqInv'
    BY <2>1, UiKept, ZmqStays, StayParts DEF XmrInv
  <2>3. ConfigInv'
    <3>1. CASE phase = "crashed"
      BY <2>1, <3>1 DEF ConfigInv
    <3>2. CASE phase # "crashed"
      BY <2>1, <3>2, OthersStep DEF XmrInv
    <3> QED BY <3>1, <3>2
  <2>4. ManagerInv' /\ WsInv' /\ SettingsInv'
    <3>1. incoming' \in SettingsType
      BY <2>1 DEF XmrInv, SettingsInv, SettingsType, Field
    <3> QED BY <2>1, <3>1, StayTyped DEF XmrInv
  <2>5. OtherInv'
    <3>1. HttpTypeOK'
      BY <2>1 DEF OtherInv, HttpTypeOK, httpVars
    <3>2. QueueInv'
      BY <2>1 DEF OtherInv, QueueInv, Sent, Tasks, Slots, SettingsType, Field
    <3> QED BY <2>1, <3>1, <3>2 DEF OtherInv, appVars
  <2> QED BY <2>2, <2>3, <2>4, <2>5 DEF XmrInv
<1>2. CASE ~Over /\ (System \/ Environment)
  <2>1. phase # "crashed"
    BY <1>2 DEF Over
  <2>2. ASSUME UNCHANGED httpVars, UNCHANGED appVars, queue' = queue
        PROVE  OtherInv'
    <3>1. HttpTypeOK'
      BY <2>2 DEF OtherInv, HttpTypeOK, httpVars
    <3>2. QueueInv'
      BY <2>2 DEF OtherInv, QueueInv, Sent, Tasks, Slots, SettingsType, Field
    <3> QED BY <2>2, <3>1, <3>2 DEF OtherInv, appVars
  <2>3. CASE XmrUi /\ UNCHANGED <<httpVars, appVars>>
    <3>1. queue' = queue
      BY <2>3 DEF XmrUi, Connect, SetIfChanged, ZmqStop, ZmqJoin, ZmqTerminate, ZmqRun,
                  ZmqReplace, WsStop, WsJoin, WsRun, WsUiStep
    <3> QED BY <2>1, <2>2, <2>3, <3>1, XmrUiStep
  <2>4. CASE \/ XmrWsThread
             \/ \E t \in Threads : XmrZmqThread(t)
    <3>1. queue' = queue /\ UNCHANGED httpVars /\ UNCHANGED appVars
      BY <2>4 DEF XmrWsThread, XmrZmqThread, ZmqThread, MakeContext, DisposeContext,
                  OpenSocket, LeaveQueue, ThreadStep, WsThread, WsLoop, WsConnect, WsGreet,
                  WsReadFails, WsClose, WsForget, WsSleep, WsStep
    <3>2. (\E t \in Threads : ZmqThread(t)) \/ WsThread
      BY <2>4 DEF XmrWsThread, XmrZmqThread
    <3> QED BY <2>1, <2>2, <3>1, <3>2, XmrThreadStep
  <2>5. CASE PeerCloses
    <3>1. /\ WsPeerCloses /\ queue' = queue /\ UNCHANGED httpVars
          /\ collector' = collector /\ connection' = connection /\ Stimulus
      BY <2>5 DEF PeerCloses, WsPeerCloses, WsStep
    <3>2. HttpTypeOK'
      BY <3>1 DEF OtherInv, HttpTypeOK, httpVars
    <3>3. QueueInv'
      BY <3>1 DEF OtherInv, QueueInv, Sent, Tasks, Slots, SettingsType, Field
    <3>4. stimuli' \in 0..MaxStimuli
      BY <3>1, AppAssumption DEF OtherInv, Stimulus
    <3> QED BY <2>1, <3>1, <3>2, <3>3, <3>4, XmrThreadStep DEF OtherInv
  <2>6. CASE \/ HttpUi /\ UNCHANGED <<xmrVars, appVars>>
             \/ \E s \in Requesters : IoThread(s)
    <3>1. /\ UNCHANGED xmrVars /\ UNCHANGED appVars
          /\ HttpUi \/ \E s \in Requesters : HttpThread(s)
      BY <2>6 DEF IoThread
    <3> QED BY <1>2, <3>1, HttpClientStep
  <2>7. CASE Slot
    BY <2>1, <2>7, SlotStep
  <2>8. CASE Started \/ TakeScreenShot \/ CollectorJoin \/ Shutdown \/ TimerFires
    BY <1>2, <2>8, OtherUiStep
  <2>9. CASE CollectorThread
    BY <1>2, <2>9, CollectorStep
  <2>10. CASE \/ \E m \in Messages : Message(m)
              \/ \E c \in Clients : Accept(c) \/ HangUp(c) \/ Answer(c)
              \/ \E c \in Clients, r \in Requests : Request(c, r)
    BY <1>2, <2>10, OutsideStep
  <2> QED BY <1>2, <2>3, <2>4, <2>5, <2>6, <2>7, <2>8, <2>9, <2>10
          DEF System, Environment, UiThread
<1> QED BY <1>1, <1>2 DEF AppNext

(* The invariant of the program.                                           *)
LEMMA InvHolds == AppSpec => []AppInv
BY InitInv, NextInv, PTL DEF AppSpec

-----------------------------------------------------------------------------
(* XiboApp's variables keep their types through every change of settings,  *)
(* whatever the settings and messages are: a thread of ZMQ always finds a  *)
(* number that no context or socket still refers to, and the thread of the *)
(* web socket is told to run only while there is one.                      *)
THEOREM AppTypesHold == AppSpec => []AppTypeOK
<1>1. AppInv => AppTypeOK
  <2> SUFFICES ASSUME AppInv PROVE AppTypeOK
    OBVIOUS
  <2>1. phase \in Phases /\ \A i \in 1..Len(ui) : ui[i] \in UiSteps
    BY DEF AppInv, XmrInv, UiInv
  <2>2. \A i \in 1..Len(queue) : queue[i] \in Tasks
    <3> DEFINE T == {a \in Tasks : Sent(a)}
    <3>1. queue \in Seq(T)
      BY DEF AppInv, OtherInv, QueueInv
    <3>2. \A a \in T : a \in Tasks
      OBVIOUS
    <3> HIDE DEF T
    <3> QED BY <3>1, <3>2
  <2>3. XmrTypeOK
    <3>1. /\ SettingsInv /\ ZmqTypes /\ WsInv
          /\ \A t \in Threads : thread[t].pc = "receiving" => thread[t].socket # None
      BY DEF AppInv, XmrInv, ZmqInv, ThreadsInv
    <3>2. \A t \in Threads : /\ thread[t].pc \in ThreadStates
                             /\ thread[t].socket \in Threads \cup {None}
                             /\ thread[t].old \in Threads \cup {None}
      BY <3>1 DEF ZmqTypes, ThreadType
    <3>3. ws.pc \in WsStates /\ (ws.running => ws.pc # "ended")
      BY <3>1 DEF WsInv, WsType
    <3> QED BY <3>1, <3>2, <3>3 DEF XmrTypeOK, SettingsInv, ZmqTypes
  <2> QED BY <2>1, <2>2, <2>3 DEF AppTypeOK, AppInv, OtherInv
<1> QED BY <1>1, InvHolds, PTL

(* XmrManager::connect and the stops of its subscribers: between two slots,*)
(* and when the program has ended, the one subscriber that runs is the one *)
(* the settings ask for, and no thread, socket or context of an earlier    *)
(* one is left; unless a stop overtook the thread of ZMQ.                  *)
THEOREM SubscriptionFollowsSettings == AppSpec => []SubscribedAsConfigured
<1>1. AppInv => SubscribedAsConfigured
  <2> SUFFICES ASSUME AppInv, ~overtaken, ui = <<>>, phase \in {"running", "ended"}
               PROVE  LET on(isWs) == /\ phase = "running" /\ Usable(Requested)
                                      /\ UsesWs(Requested) = isWs
                      IN /\ \A t \in LiveThreads :
                              on(FALSE) /\ t = zmq.worker /\ thread[t].host = settings.host
                         /\ \A c \in Threads : contexts[c] # "terminated" =>
                              c = zmq.context /\ on(FALSE)
                         /\ IF on(TRUE)
                            THEN ws.running /\ ws.uri = Requested.endpoint[2]
                                 /\ ws.key = Requested.key
                            ELSE ws.pc = "ended"
    BY DEF SubscribedAsConfigured
  <2>1. \A ops : ~Pending(ops)
    BY NothingPending, Zenon
  <2>2. Configured /\ ZmqSide /\ WsSide
    BY <2>1 DEF AppInv, XmrInv, ConfigInv, Asked
  <2>3. Requested.host = settings.host /\ Requested.endpoint # Cleared
    BY RequestedIs DEF AppInv, XmrInv
  <2>4. Ending <=> phase = "ended"
    BY DEF Ending
  <2>5. UsesWs(Requested) \in BOOLEAN
    BY DEF UsesWs
  <2>6. ZmqWanted => /\ phase = "running" /\ Usable(Requested) /\ ~UsesWs(Requested)
                     /\ manager.host = settings.host
    BY <2>2, <2>3, <2>4 DEF ZmqWanted, Configured, IsSameConfig, UsesWs
  <2>7. WsWanted <=> phase = "running" /\ Usable(Requested) /\ UsesWs(Requested)
    BY <2>2, <2>3, <2>4 DEF WsWanted, Configured, IsSameConfig, UsesWs
  <2>8. WsWanted => manager.endpoint = Requested.endpoint /\ manager.key = Requested.key
    BY <2>2, <2>7 DEF WsWanted, Configured, IsSameConfig, UsesWs
  <2>9. NoZmq \/ (ZmqWanted /\ ZmqOn)
    BY <2>1, <2>2 DEF ZmqSide
  <2>10. /\ \A t \in LiveThreads :
              ZmqWanted /\ t = zmq.worker /\ thread[t].host = manager.host
         /\ \A c \in Threads : contexts[c] # "terminated" => c = zmq.context /\ ZmqWanted
    BY <2>9 DEF NoZmq, ZmqOn
  <2>11. IF WsWanted THEN WsOn ELSE ws.pc = "ended"
    BY <2>1, <2>2 DEF WsSide
  <2> QED BY <2>5, <2>6, <2>7, <2>8, <2>10, <2>11 DEF WsOn
<1> QED BY <1>1, InvHolds, PTL
=============================================================================
