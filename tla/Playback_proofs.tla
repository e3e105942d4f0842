--------------------------- MODULE Playback_proofs ---------------------------
(***************************************************************************)
(* What the parser makes of a file has content; one medium of each region  *)
(* plays, stopped media are silent, no region stands still, a layout that  *)
(* has expired is over, and main layouts that start within one another     *)
(* come to an end.                                                         *)
(***************************************************************************)
EXTENDS Playback, Selection_proofs, FiniteSetTheorems

-----------------------------------------------------------------------------
(* Greatest and least elements                                             *)

LEMMA MaxOfTwo ==
  ASSUME NEW a \in Int, NEW b \in Int
  PROVE  Max({a, b}) \in {a, b}
<1>1. \E x \in {a, b} : \A y \in {a, b} : x >= y
  <2>1. CASE a >= b
    BY <2>1
  <2>2. CASE ~(a >= b)
    BY <2>2
  <2> QED BY <2>1, <2>2
<1> QED BY <1>1 DEF Max

LEMMA MinOfTwo ==
  ASSUME NEW a \in Int, NEW b \in Int
  PROVE  Min({a, b}) = IF a <= b THEN a ELSE b
<1>1. \E x \in {a, b} : \A y \in {a, b} : x <= y
  <2>1. CASE a <= b
    BY <2>1
  <2>2. CASE ~(a <= b)
    BY <2>2
  <2> QED BY <2>1, <2>2
<1> DEFINE m == Min({a, b})
<1>2. m \in {a, b} /\ \A y \in {a, b} : m <= y
  BY <1>1 DEF Min
<1> QED BY <1>2

LEMMA MinOfMany ==
  ASSUME NEW T, T \subseteq Nat, T # {}
  PROVE  Min(T) \in T
<1>1. \E x \in T : \A y \in T : x <= y
  BY NatMin
<1> QED BY <1>1 DEF Min

(* Older keeps an age in its range, and the order of two ages.             *)
LEMMA OlderAges ==
  ASSUME NEW n \in NotPlayed..MaxAge
  PROVE  /\ Older(n) \in NotPlayed..MaxAge
         /\ n \in Nat => Older(n) \in 0..MaxAge
         /\ \A a \in 0..MaxAge : n <= a => Older(n) <= Older(a)
<1>1. MaxAge \in Nat
  BY PlaybackAssumption
<1>2. \A k \in NotPlayed..MaxAge :
        Older(k) = IF k = NotPlayed THEN k ELSE IF k + 1 <= MaxAge THEN k + 1 ELSE MaxAge
  <2> TAKE k \in NotPlayed..MaxAge
  <2>1. k + 1 \in Int /\ MaxAge \in Int
    BY <1>1 DEF NotPlayed
  <2>2. Min({k + 1, MaxAge}) = IF k + 1 <= MaxAge THEN k + 1 ELSE MaxAge
    BY <2>1, MinOfTwo
  <2> QED BY <2>2 DEF Older
<1> QED BY <1>1, <1>2 DEF NotPlayed

-----------------------------------------------------------------------------
(* What the parser makes of a file                                         *)

LEMMA MediaFromType ==
  ASSUME NEW node \in MediaNode
  PROVE  MediaFrom(node) \in Medium
<1>1. DurationFrom(node) \in Durations
  BY DEF DurationFrom, MediaNode
<1>2. GlobalStats \in BOOLEAN
  BY PlaybackAssumption
<1> DEFINE player == ParserOf(node.type, node.render) \in {"player", "audio"}
<1>3. /\ player \in BOOLEAN
      /\ (player /\ node.looped) \in BOOLEAN
      /\ (GlobalStats /\ node.enableStat) \in BOOLEAN
      /\ (node.audio # <<>>) \in BOOLEAN
      /\ node.id \in MediaIds
  BY DEF MediaNode
<1> HIDE DEF player
<1>4. MediaFrom(node) =
        [id |-> node.id, player |-> player, duration |-> DurationFrom(node),
         looped |-> player /\ node.looped, stat |-> GlobalStats /\ node.enableStat,
         audio |-> node.audio # <<>>]
  BY DEF MediaFrom, player
<1> QED BY <1>1, <1>3, <1>4 DEF Medium

(* What can be played of a region that parses.                             *)
LEMMA RegionFromType ==
  ASSUME NEW region \in RegionNode, RegionParses(region)
  PROVE  /\ RegionFrom(region) \in Region
         /\ Len(RegionFrom(region).media) # 0
<1> DEFINE nodes == ParsedNodes(region)
           S == {node \in Elements(region.media) :
                   /\ ParserOf(node.type, node.render) # "none"
                   /\ MediaParses(node)}
<1>1. region.media \in Seq(MediaNode) /\ region.loop \in BOOLEAN
  BY DEF RegionNode
<1>2. nodes = Keep(region.media, S)
  BY DEF ParsedNodes
<1>3. nodes \in Seq(MediaNode)
  <2> HIDE DEF S
  <2>1. Keep(region.media, S) \in Seq(MediaNode)
    BY <1>1, KeepType
  <2> QED BY <1>2, <2>1
<1>4. Len(nodes) \in Nat /\ Len(nodes) # 0
  <2>1. nodes # <<>>
    BY DEF RegionParses
  <2> HIDE DEF nodes
  <2> QED BY <1>3, <2>1
<1>5. \A i \in 1..Len(nodes) : MediaFrom(nodes[i]) \in Medium
  <2> HIDE DEF nodes
  <2> TAKE i \in 1..Len(nodes)
  <2>1. nodes[i] \in MediaNode
    BY <1>3
  <2> QED BY <2>1, MediaFromType
<1> DEFINE media == [i \in 1..Len(nodes) |-> MediaFrom(nodes[i])]
<1>6. media \in Seq(Medium) /\ Len(media) = Len(nodes)
  <2> HIDE DEF nodes
  <2> QED BY <1>4, <1>5
<1>7. RegionFrom(region) = [loop |-> region.loop, media |-> media]
  BY DEF RegionFrom, RegionMedia
<1> HIDE DEF media, nodes
<1> QED BY <1>1, <1>4, <1>6, <1>7 DEF Region

HasContent(l) ==
  /\ Len(l.regions) # 0
  /\ \A r \in 1..Len(l.regions) : Len(l.regions[r].media) # 0

(* A layout that parses has regions, and each has media.                   *)
LEMMA LayoutFromType ==
  ASSUME NEW document \in Document, LayoutParses(document)
  PROVE  LayoutFrom(document) \in Layout /\ HasContent(LayoutFrom(document))
<1> DEFINE regions == ParsedRegions(document)
           S == {region \in Elements(document.regions) : RegionParses(region)}
<1>1. document.regions \in Seq(RegionNode) /\ document.enableStat \in BOOLEAN
  BY DEF Document
<1>2. regions = Keep(document.regions, S)
  BY DEF ParsedRegions
<1>3. regions \in Seq(RegionNode) /\ Elements(regions) \subseteq S
  <2> HIDE DEF S
  <2>1. /\ Keep(document.regions, S) \in Seq(RegionNode)
        /\ Elements(Keep(document.regions, S)) \subseteq Elements(document.regions) \cap S
    BY <1>1, KeepType
  <2> QED BY <1>2, <2>1
<1>4. regions # <<>>
  BY DEF LayoutParses, OutcomeOf
<1> HIDE DEF regions
<1>5. Len(regions) \in Nat /\ Len(regions) # 0
  BY <1>3, <1>4
<1>6. \A i \in 1..Len(regions) : /\ RegionFrom(regions[i]) \in Region
                                 /\ Len(RegionFrom(regions[i]).media) # 0
  <2> TAKE i \in 1..Len(regions)
  <2>1. regions[i] \in RegionNode /\ regions[i] \in Elements(regions)
    BY <1>3 DEF Elements
  <2>2. RegionParses(regions[i])
    BY <1>3, <2>1
  <2> QED BY <2>1, <2>2, RegionFromType
<1> DEFINE parsed == [i \in 1..Len(regions) |-> RegionFrom(regions[i])]
<1>7. /\ parsed \in Seq(Region) /\ Len(parsed) = Len(regions)
      /\ \A i \in 1..Len(parsed) : Len(parsed[i].media) # 0
  BY <1>5, <1>6
<1>8. LayoutFrom(document) =
        [stat |-> GlobalStats /\ document.enableStat, regions |-> parsed]
  BY DEF LayoutFrom, regions
<1>9. (GlobalStats /\ document.enableStat) \in BOOLEAN
  OBVIOUS
<1> HIDE DEF parsed
<1> QED BY <1>5, <1>7, <1>8, <1>9 DEF Layout, HasContent

-----------------------------------------------------------------------------
(* The states of the media of a layout                                     *)

Shaped(p, l) ==
  /\ p \in Seq(Seq(MediumState))
  /\ Len(p) = Len(l.regions)
  /\ \A r \in 1..Len(l.regions) : Len(p[r]) = Len(l.regions[r].media)

LEMMA LayoutLengths ==
  ASSUME NEW l \in Layout
  PROVE  /\ Len(l.regions) \in Nat
         /\ \A r \in 1..Len(l.regions) :
              /\ l.regions[r].media \in Seq(Medium)
              /\ Len(l.regions[r].media) \in Nat
              /\ \A i \in 1..Len(l.regions[r].media) : l.regions[r].media[i] \in Medium
<1>1. l.regions \in Seq(Region)
  BY DEF Layout
<1>2. \A r \in 1..Len(l.regions) : l.regions[r] \in Region
  BY <1>1
<1> QED BY <1>1, <1>2 DEF Region

LEMMA ShapedMedia ==
  ASSUME NEW l \in Layout, NEW p, Shaped(p, l),
         NEW r \in 1..Len(l.regions), NEW i \in 1..Len(l.regions[r].media)
  PROVE  p[r] \in Seq(MediumState) /\ p[r][i] \in MediumState
<1>1. p[r] \in Seq(MediumState) /\ Len(p[r]) = Len(l.regions[r].media)
  BY DEF Shaped
<1> QED BY <1>1

(* Every medium gets a state.                                              *)
LEMMA ShapeOf ==
  ASSUME NEW l \in Layout, NEW p,
         p = [r \in 1..Len(l.regions) |-> p[r]],
         \A r \in 1..Len(l.regions) :
           /\ p[r] = [i \in 1..Len(l.regions[r].media) |-> p[r][i]]
           /\ \A i \in 1..Len(l.regions[r].media) : p[r][i] \in MediumState
  PROVE  Shaped(p, l)
<1>1. \A r \in 1..Len(l.regions) :
        p[r] \in Seq(MediumState) /\ Len(p[r]) = Len(l.regions[r].media)
  <2> TAKE r \in 1..Len(l.regions)
  <2> DEFINE n == Len(l.regions[r].media)
  <2>1. n \in Nat
    BY LayoutLengths
  <2>2. p[r] = [i \in 1..n |-> p[r][i]] /\ \A i \in 1..n : p[r][i] \in MediumState
    OBVIOUS
  <2> HIDE DEF n
  <2>3. p[r] \in [1..n -> MediumState]
    BY <2>2
  <2>4. p[r] \in Seq(MediumState) /\ Len(p[r]) = n
    BY <2>1, <2>3
  <2> QED BY <2>4 DEF n
<1> DEFINE n == Len(l.regions)
<1>2. n \in Nat
  BY LayoutLengths
<1>3. p = [r \in 1..n |-> p[r]] /\ \A r \in 1..n : p[r] \in Seq(MediumState)
  BY <1>1
<1>4. p \in Seq(Seq(MediumState)) /\ Len(p) = n
  <2> HIDE DEF n
  <2> QED BY <1>2, <1>3
<1> QED BY <1>1, <1>4 DEF Shaped

(* One medium gets another state.                                          *)
With(p, r, i, m) == [p EXCEPT ![r][i] = m]

Replaced(p, q, l, r, i, m) ==
  /\ Shaped(q, l)
  /\ q[r][i] = m
  /\ \A s \in 1..Len(l.regions) : \A j \in 1..Len(l.regions[s].media) :
       s # r \/ j # i => q[s][j] = p[s][j]

LEMMA SetMedium ==
  ASSUME NEW l \in Layout, NEW p, Shaped(p, l),
         NEW r \in 1..Len(l.regions), NEW i \in 1..Len(l.regions[r].media),
         NEW m \in MediumState
  PROVE  Replaced(p, With(p, r, i, m), l, r, i, m)
<1> DEFINE q == With(p, r, i, m)
<1>1. /\ p \in Seq(Seq(MediumState)) /\ Len(p) = Len(l.regions)
      /\ p[r] \in Seq(MediumState) /\ Len(p[r]) = Len(l.regions[r].media)
  BY DEF Shaped
<1> DEFINE row == [p[r] EXCEPT ![i] = m]
<1>2. /\ row \in Seq(MediumState) /\ Len(row) = Len(p[r])
      /\ row[i] = m
      /\ \A j \in 1..Len(p[r]) : j # i => row[j] = p[r][j]
  BY <1>1, ExceptSeq
<1>3. q = [p EXCEPT ![r] = row]
  BY DEF With
<1> HIDE DEF q
<1> HIDE DEF row
<1>4. /\ q \in Seq(Seq(MediumState)) /\ Len(q) = Len(p)
      /\ q[r] = row
      /\ \A s \in 1..Len(p) : s # r => q[s] = p[s]
  <2> DEFINE S == Seq(MediumState)
  <2>1. p \in Seq(S) /\ row \in S /\ r \in 1..Len(p)
    BY <1>1, <1>2
  <2> HIDE DEF S
  <2>2. /\ [p EXCEPT ![r] = row] \in Seq(S)
        /\ Len([p EXCEPT ![r] = row]) = Len(p)
        /\ \A s \in 1..Len(p) : [p EXCEPT ![r] = row][s] = IF s = r THEN row ELSE p[s]
    BY <2>1, ExceptSeq
  <2> QED BY <1>3, <2>1, <2>2 DEF S
<1>5. \A s \in 1..Len(l.regions) : Len(q[s]) = Len(l.regions[s].media)
  BY <1>1, <1>2, <1>4 DEF Shaped
<1>6. Shaped(q, l)
  BY <1>1, <1>4, <1>5 DEF Shaped
<1>7. \A s \in 1..Len(l.regions) : \A j \in 1..Len(l.regions[s].media) :
        s # r \/ j # i => q[s][j] = p[s][j]
  BY <1>1, <1>2, <1>4 DEF Shaped
<1>8. Replaced(p, q, l, r, i, m)
  BY <1>2, <1>4, <1>6, <1>7 DEF Replaced
<1> QED BY <1>8 DEF q

-----------------------------------------------------------------------------
(* The operations of a medium                                              *)

Silent(m) == m.timer = NoTimer /\ ~m.running /\ ~m.audio

(* Of a medium o in a layout that started a ago: stopped it is silent, it  *)
(* has not played for longer than the layout, and a player that has a      *)
(* duration runs only while its timer does.                                *)
MediumInv(o, m, a) ==
  /\ m \in MediumState
  /\ m.started <= MaxAge
  /\ m.playing => m.started <= a
  /\ ~m.playing => Silent(m)
  /\ m.running /\ o.duration # 0 => m.timer # NoTimer

(* Something will end the medium, if it ends at all.                       *)
Moving(o, m) == EndsByItself(o) /\ m.watched => m.timer # NoTimer \/ m.running

LEMMA NewMediumIsStopped ==
  ASSUME NEW o \in Medium, NEW a \in 0..MaxAge
  PROVE  MediumInv(o, NewMedium, a) /\ ~NewMedium.playing
<1>1. MaxAge \in Nat
  BY PlaybackAssumption
<1> QED BY <1>1 DEF MediumInv, NewMedium, MediumState, NoTimer, Silent

LEMMA StopStops ==
  ASSUME NEW o \in Medium, NEW a \in 0..MaxAge, NEW m, MediumInv(o, m, a)
  PROVE  MediumInv(o, Stop(m), a) /\ ~Stop(m).playing
<1>1. m \in MediumState
  BY DEF MediumInv
<1>2. CASE m.playing
  <2>1. Stop(m) = [playing |-> FALSE, timer |-> NoTimer, started |-> m.started,
                   running |-> FALSE, watched |-> m.watched, audio |-> FALSE,
                   audioWatched |-> m.audioWatched]
    BY <1>1, <1>2 DEF Stop, MediumState
  <2> QED BY <1>1, <2>1 DEF MediumInv, MediumState, NoTimer, Silent
<1>3. CASE ~m.playing
  BY <1>3 DEF Stop
<1> QED BY <1>2, <1>3

LEMMA StartStarts ==
  ASSUME NEW o \in Medium, NEW a \in 0..MaxAge, NEW m, MediumInv(o, m, a)
  PROVE  /\ MediumInv(o, Start(o, m), a)
         /\ Start(o, m).playing
         /\ ~m.playing => Moving(o, Start(o, m))
         /\ m.playing => Start(o, m) = m
<1>1. o.duration \in Nat /\ o.player \in BOOLEAN /\ o.audio \in BOOLEAN /\ MaxAge \in Nat
  BY PlaybackAssumption DEF Medium
<1>2. CASE m.playing
  BY <1>2 DEF MediumInv, Start
<1>3. CASE ~m.playing
  <2> DEFINE s == Start(o, m)
  <2>1. s = [m EXCEPT !.playing = TRUE,
                      !.timer   = IF o.duration > 0 THEN o.duration ELSE NoTimer,
                      !.started = 0,
                      !.running = o.player,
                      !.audio   = o.audio]
    BY <1>3 DEF Start
  <2>2. m \in MediumState
    BY DEF MediumInv
  <2> HIDE DEF s
  <2>3. /\ s \in MediumState
        /\ s.playing = TRUE /\ s.started = 0 /\ s.running = o.player
        /\ s.timer = IF o.duration > 0 THEN o.duration ELSE NoTimer
    <3>1. s = [playing |-> TRUE,
               timer |-> IF o.duration > 0 THEN o.duration ELSE NoTimer,
               started |-> 0, running |-> o.player, watched |-> m.watched,
               audio |-> o.audio, audioWatched |-> m.audioWatched]
      BY <2>1, <2>2 DEF MediumState
    <3> QED BY <1>1, <2>2, <3>1 DEF MediumState, NoTimer
  <2>4. MediumInv(o, s, a)
    BY <1>1, <2>3 DEF MediumInv, NoTimer
  <2>5. Moving(o, s)
    BY <1>1, <2>3 DEF Moving, EndsByItself, NoTimer
  <2> QED BY <1>3, <2>3, <2>4, <2>5 DEF s
<1> QED BY <1>2, <1>3

(* The timer of a medium has fired, or a request has ended it.             *)
LEMMA FinishedPlays ==
  ASSUME NEW o \in Medium, NEW a \in 0..MaxAge, NEW m, MediumInv(o, m, a), m.playing
  PROVE  /\ MediumInv(o, FinishPlayer([m EXCEPT !.timer = NoTimer]), a)
         /\ FinishPlayer([m EXCEPT !.timer = NoTimer]).playing
<1>1. m \in MediumState
  BY DEF MediumInv
<1> DEFINE t == NoTimer
           off == FALSE
           n == [[m EXCEPT !.timer = t] EXCEPT !.running = off]
<1>2. t = NoTimer /\ t \in Int /\ ~off /\ off \in BOOLEAN
  BY DEF NoTimer
<1>3. FinishPlayer([m EXCEPT !.timer = NoTimer]) = n
  BY DEF FinishPlayer
<1> HIDE DEF t, off
<1>4. /\ n \in MediumState /\ n.playing = m.playing /\ n.started = m.started
      /\ n.timer = t /\ n.running = off
  BY <1>1, <1>2 DEF MediumState
<1> HIDE DEF n
<1>5. MediumInv(o, n, a) /\ n.playing
  BY <1>2, <1>4 DEF MediumInv
<1> QED BY <1>3, <1>5

Ticked(m) == [m EXCEPT !.timer = Less(@), !.started = Older(@)]

LEMMA TickedMedium ==
  ASSUME NEW o \in Medium, NEW a \in 0..MaxAge, NEW m, MediumInv(o, m, a)
  PROVE  /\ MediumInv(o, Ticked(m), Older(a))
         /\ Ticked(m).playing = m.playing
         /\ Moving(o, m) => Moving(o, Ticked(m))
<1> DEFINE t == Ticked(m)
<1>1. m \in MediumState /\ m.started \in 0..MaxAge /\ MaxAge \in Nat
  BY PlaybackAssumption DEF MediumInv, MediumState
<1>2. /\ Older(m.started) \in 0..MaxAge
      /\ m.started <= a => Older(m.started) <= Older(a)
  <2>1. m.started \in NotPlayed..MaxAge /\ m.started \in Nat
    BY <1>1 DEF NotPlayed
  <2> QED BY <2>1, OlderAges
<1>3. /\ Less(m.timer) \in Int
      /\ Less(m.timer) = NoTimer <=> m.timer = NoTimer
  BY <1>1 DEF Less, NoTimer, MediumState
<1>4. /\ t \in MediumState
      /\ t.playing = m.playing /\ t.running = m.running /\ t.audio = m.audio
      /\ t.watched = m.watched
      /\ t.timer = Less(m.timer) /\ t.started = Older(m.started)
  <2> DEFINE timer == Less(m.timer)
             started == Older(m.started)
  <2>1. timer \in Int /\ started \in Nat
    BY <1>2, <1>3
  <2>2. t = [m EXCEPT !.timer = timer, !.started = started]
    BY DEF Ticked
  <2> HIDE DEF t, timer, started
  <2>3. /\ t \in MediumState
        /\ t.playing = m.playing /\ t.running = m.running /\ t.audio = m.audio
        /\ t.watched = m.watched
        /\ t.timer = timer /\ t.started = started
    BY <1>1, <2>1, <2>2 DEF MediumState
  <2> QED BY <2>3 DEF timer, started
<1> HIDE DEF t
<1>5. MediumInv(o, t, Older(a))
  BY <1>1, <1>2, <1>3, <1>4 DEF MediumInv, Silent
<1>6. Moving(o, m) => Moving(o, t)
  BY <1>3, <1>4 DEF Moving
<1> QED BY <1>4, <1>5, <1>6 DEF t

-----------------------------------------------------------------------------
(* The invariant                                                           *)

Quiet == \A r \in Regions : \A i \in Media(r) : ~play[r][i].playing

LayoutInv ==
  /\ \A r \in Regions : Len(layout.regions[r].media) # 0
  /\ layoutId = NoLayoutId => layout = NoLayout
  /\ layoutId # NoLayoutId => Len(layout.regions) # 0
  /\ Shaped(play, layout)
  /\ Len(current) = Len(layout.regions)
  /\ \A r \in Regions : current[r] \in Media(r)

MediaInv ==
  /\ \A r \in Regions : \A i \in Media(r) :
       MediumInv(Options(r, i), play[r][i], age)
  /\ \A id \in MediaIds : mediaIntervals[id] <= age

(* What may be pending behind the call that is being made: nothing that    *)
(* starts or ends the layout, and media only from the first on.            *)
RegionCalls == {"placeMedia", "finished", "checkExpired", "regionExpired"}

NestedCalls ==
  {c \in Calls : /\ c.op \notin {"finished", "startLayout", "expired", "restart"}
                 /\ c.op \in RegionCalls => c.region \in Regions
                 /\ c.op = "placeMedia" => c.media = 1}

CallsInv ==
  todo # <<>> =>
    /\ Elements(Rest) \subseteq NestedCalls
    /\ Head(todo).op \in RegionCalls => Head(todo).region \in Regions
    /\ Calling("finished") => Rest = <<>>
    /\ Calling("placeMedia") =>
         /\ Head(todo).media \in Media(Head(todo).region)
         /\ Head(todo).media # 1 =>
              \A c \in Elements(Rest) : c.op # "placeMedia"

(* A layout starts with nothing playing, and ends so with all its regions. *)
HeadInv ==
  /\ Calling("startLayout") =>
       Quiet /\ \A id \in MediaIds : mediaIntervals[id] = NotPlayed
  /\ Calling("expired") => Quiet /\ expiredRegions = Regions
  /\ Calling("restart") => expiredRegions = Regions

CurrentInv ==
  \A r \in Regions : \A i \in Media(r) : play[r][i].playing => i = current[r]

(* A medium that plays where one is to be placed is the one to be placed.  *)
Placing(c) ==
  c.op = "placeMedia" =>
    \A i \in Media(c.region) :
      play[c.region][i].playing => i = Candidate(c.region, c.media)

PlacingInv == \A c \in Elements(todo) : Placing(c)

(* What is pending of a region.                                            *)
Pending(op, r) == \E c \in Elements(todo) : c.op = op /\ c.region = r

Ending(r) ==
  \/ Pending("finished", r)
  \/ Pending("regionExpired", r)
  \/ Pending("checkExpired", r) /\ Len(layout.regions[r].media) = 1

Steady(r) ==
  \A i \in Media(r) : play[r][i].playing => Moving(Options(r, i), play[r][i])

Occupied(r) ==
  \/ Calling("startLayout")
  \/ Pending("placeMedia", r)
  \/ play[r][current[r]].playing

MovingInv ==
  \A r \in Regions \ expiredRegions : Ending(r) \/ (Steady(r) /\ Occupied(r))

ScreenTypeOK ==
  /\ slot \in {"main", "overlay"}
  /\ layoutId \in LayoutIds \cup {NoLayoutId}
  /\ layout \in Layout
  /\ play \in Seq(Seq(MediumState))
  /\ current \in Seq(Nat \ {0})
  /\ expiredRegions \subseteq Regions
  /\ age \in 0..MaxAge
  /\ mediaIntervals \in [MediaIds -> NotPlayed..MaxAge]
  /\ unsafeMedia \in [MediaIds -> Nat]
  /\ unsafeWidget \in [MediaIds -> Nat]
  /\ unsafeLayout \in [LayoutIds -> Nat]
  /\ todo \in Seq(Calls)
  /\ depth \in Nat
  /\ requests \in 0..MaxRequests

PlaybackInv ==
  /\ ScreenTypeOK
  /\ LayoutInv
  /\ MediaInv
  /\ CallsInv
  /\ HeadInv
  /\ CurrentInv
  /\ PlacingInv
  /\ MovingInv

-----------------------------------------------------------------------------
(* Calls that are pending                                                  *)

LEMMA HeadAndRest ==
  ASSUME NEW U, NEW s \in Seq(U), s # <<>>
  PROVE  /\ Head(s) \in U /\ Tail(s) \in Seq(U)
         /\ Elements(s) = {Head(s)} \cup Elements(Tail(s))
<1>1. Len(s) \in Nat /\ Len(s) # 0 /\ DOMAIN s = 1..Len(s)
  OBVIOUS
<1>2. /\ Head(s) = s[1] /\ Tail(s) \in Seq(U) /\ Len(Tail(s)) = Len(s) - 1
      /\ DOMAIN Tail(s) = 1..(Len(s) - 1)
      /\ \A i \in 1..(Len(s) - 1) : Tail(s)[i] = s[i + 1]
  BY <1>1, HeadTailProperties
<1>3. ASSUME NEW i \in DOMAIN s PROVE s[i] \in {Head(s)} \cup Elements(Tail(s))
  <2>1. CASE i = 1
    BY <1>2, <2>1
  <2>2. CASE i # 1
    <3>1. i - 1 \in 1..(Len(s) - 1) /\ Tail(s)[i - 1] = s[i]
      BY <1>1, <1>2, <2>2
    <3> QED BY <1>2, <3>1 DEF Elements
  <2> QED BY <2>1, <2>2
<1>4. ASSUME NEW i \in DOMAIN Tail(s) PROVE Tail(s)[i] \in Elements(s)
  <2>1. i + 1 \in DOMAIN s /\ Tail(s)[i] = s[i + 1]
    BY <1>1, <1>2
  <2> QED BY <2>1 DEF Elements
<1>5. Head(s) \in Elements(s)
  <2>1. 1 \in DOMAIN s
    BY <1>1
  <2> QED BY <1>2, <2>1 DEF Elements
<1>6. Elements(s) \subseteq {Head(s)} \cup Elements(Tail(s))
  BY <1>3 DEF Elements
<1>7. Elements(Tail(s)) \subseteq Elements(s)
  BY <1>4 DEF Elements
<1>8. Head(s) \in U
  BY <1>1, <1>2
<1> QED BY <1>2, <1>5, <1>6, <1>7, <1>8

LEMMA ElementsOfOne ==
  ASSUME NEW U, NEW e \in U
  PROVE  /\ <<e>> \in Seq(U) /\ <<e>> # <<>> /\ Head(<<e>>) = e
         /\ Tail(<<e>>) = <<>> /\ Elements(<<e>>) = {e}
<1>1. /\ <<e>> \in Seq(U) /\ Len(<<e>>) = 1 /\ DOMAIN <<e>> = {1}
      /\ <<e>>[1] = e
  OBVIOUS
<1>2. Elements(<<e>>) = {e}
  BY <1>1 DEF Elements
<1> QED BY <1>1, <1>2

Two(s, U, a, b) ==
  /\ s \in Seq(U) /\ s # <<>> /\ Head(s) = a /\ Tail(s) = <<b>>
  /\ Elements(s) = {a, b}

LEMMA ElementsOfTwo ==
  ASSUME NEW U, NEW a \in U, NEW b \in U
  PROVE  Two(<<a>> \o <<b>>, U, a, b)
<1> DEFINE s == <<a>>
           t == <<b>>
           u == s \o t
<1>1. s \in Seq(U) /\ Len(s) = 1 /\ s[1] = a /\ Elements(s) = {a}
  BY ElementsOfOne
<1>2. t \in Seq(U) /\ Len(t) = 1 /\ t[1] = b /\ Elements(t) = {b}
  BY ElementsOfOne
<1>3. t = <<b>>
  OBVIOUS
<1> HIDE DEF s, t
<1>4. /\ u \in Seq(U) /\ Len(u) = 2 /\ u[1] = a /\ u[2] = b
  BY <1>1, <1>2, ConcatProperties
<1>5. Elements(u) = {a, b}
  BY <1>1, <1>2, ConcatElements
<1> HIDE DEF u
<1>6. u # <<>> /\ Head(u) = a
  <2>1. u # <<>>
    BY <1>4, EmptySeq
  <2> QED BY <1>4, <2>1, HeadTailProperties
<1>7. Tail(u) = t
  <2> DEFINE v == Tail(u)
  <2>1. /\ v \in Seq(U) /\ Len(v) = Len(u) - 1
        /\ \A i \in 1..Len(v) : v[i] = u[i + 1]
    BY <1>4, <1>6, HeadTailProperties
  <2> HIDE DEF v
  <2>2. Len(v) = 1 /\ v[1] = b
    BY <1>4, <2>1
  <2>3. v = t
    BY <1>2, <2>1, <2>2, SeqEqual
  <2> QED BY <2>3 DEF v
<1>8. Two(u, U, a, b)
  BY <1>3, <1>4, <1>5, <1>6, <1>7 DEF Two
<1> QED BY <1>8 DEF u, s, t

LEMMA ElementsOfNone == Elements(<<>>) = {}
BY DEF Elements

(* The calls that one call makes come before the rest.                     *)
LEMMA CallsPushed ==
  ASSUME todo \in Seq(Calls), todo # <<>>, NEW s \in Seq(Calls), todo' = s \o Rest
  PROVE  /\ todo' \in Seq(Calls)
         /\ Elements(todo') = Elements(s) \cup Elements(Rest)
         /\ s = <<>> => todo' = Rest
         /\ s # <<>> => /\ todo' # <<>>
                        /\ Head(todo') = Head(s)
                        /\ Elements(Tail(todo')) = Elements(Tail(s)) \cup Elements(Rest)
<1>1. Rest \in Seq(Calls)
  BY HeadTailProperties DEF Rest
<1>2. todo' \in Seq(Calls) /\ Elements(todo') = Elements(s) \cup Elements(Rest)
  BY <1>1, ConcatElements, ConcatProperties
<1>3. s = <<>> => todo' = Rest
  BY <1>1, ConcatEmptySeq
<1>4. ASSUME s # <<>>
      PROVE  /\ todo' # <<>> /\ Head(todo') = Head(s)
             /\ Elements(Tail(todo')) = Elements(Tail(s)) \cup Elements(Rest)
  <2>1. /\ Len(s) \in Nat /\ Len(s) # 0 /\ Len(Rest) \in Nat
        /\ Len(todo') = Len(s) + Len(Rest)
        /\ \A i \in 1..Len(todo') :
             todo'[i] = IF i <= Len(s) THEN s[i] ELSE Rest[i - Len(s)]
    BY <1>1, <1>4, ConcatProperties
  <2>2. todo' # <<>> /\ todo'[1] = s[1]
    BY <1>2, <2>1
  <2>3. Head(todo') = todo'[1] /\ Head(s) = s[1]
    BY <1>2, <1>4, <2>2
  <2>4. Tail(todo') = Tail(s) \o Rest
    <3> DEFINE t == Tail(s)
               u == Tail(todo')
    <3>1. /\ t \in Seq(Calls) /\ Len(t) = Len(s) - 1
          /\ \A i \in 1..Len(t) : t[i] = s[i + 1]
      BY <1>4, HeadTailProperties
    <3>2. /\ u \in Seq(Calls) /\ Len(u) = Len(todo') - 1
          /\ \A i \in 1..Len(u) : u[i] = todo'[i + 1]
      BY <1>2, <2>2, HeadTailProperties
    <3> HIDE DEF t, u
    <3> DEFINE w == t \o Rest
    <3>3. /\ w \in Seq(Calls) /\ Len(w) = Len(t) + Len(Rest)
          /\ \A i \in 1..(Len(t) + Len(Rest)) :
               w[i] = IF i <= Len(t) THEN t[i] ELSE Rest[i - Len(t)]
      BY <1>1, <3>1, ConcatProperties
    <3> HIDE DEF w
    <3>4. Len(u) = Len(w)
      BY <2>1, <3>1, <3>2, <3>3
    <3>5. ASSUME NEW i \in 1..Len(u) PROVE u[i] = w[i]
      <4>1. /\ i \in Int /\ i + 1 \in 1..Len(todo') /\ i \in 1..(Len(t) + Len(Rest))
            /\ u[i] = todo'[i + 1]
        BY <2>1, <3>1, <3>2
      <4>2. CASE i <= Len(t)
        <5>1. i + 1 <= Len(s) /\ i \in 1..Len(t)
          BY <2>1, <3>1, <4>1, <4>2
        <5> QED BY <2>1, <3>1, <3>3, <4>1, <4>2, <5>1
      <4>3. CASE ~(i <= Len(t))
        <5>1. ~(i + 1 <= Len(s)) /\ i + 1 - Len(s) = i - Len(t)
          BY <2>1, <3>1, <4>1, <4>3
        <5> QED BY <2>1, <3>3, <4>1, <4>3, <5>1
      <4> QED BY <4>2, <4>3
    <3>6. u = w
      BY <3>2, <3>3, <3>4, <3>5, SeqEqual
    <3> QED BY <3>6 DEF u, w, t
  <2>5. Tail(s) \in Seq(Calls)
    BY <1>4, HeadTailProperties
  <2>6. Elements(Tail(todo')) = Elements(Tail(s)) \cup Elements(Rest)
    BY <1>1, <2>4, <2>5, ConcatElements
  <2> QED BY <2>2, <2>3, <2>6
<1> QED BY <1>2, <1>3, <1>4

(* A call that is pending is of a region that is there.                    *)
LEMMA CallsOfRegions ==
  ASSUME todo \in Seq(Calls), CallsInv, NEW c \in Elements(todo), c.op \in RegionCalls
  PROVE  c.region \in Regions
<1>1. todo # <<>>
  BY DEF Elements
<1>2. Elements(todo) = {Head(todo)} \cup Elements(Rest)
  BY <1>1, HeadAndRest DEF Rest
<1>3. CASE c = Head(todo)
  BY <1>1, <1>3 DEF CallsInv
<1>4. CASE c \in Elements(Rest)
  BY <1>1, <1>4 DEF CallsInv, NestedCalls
<1> QED BY <1>2, <1>3, <1>4

LEMMA FirstMedium ==
  ASSUME layout \in Layout, LayoutInv, NEW r \in Regions
  PROVE  1 \in Media(r)
<1>1. Len(layout.regions[r].media) \in Nat
  BY LayoutLengths DEF Regions
<1>2. Len(layout.regions[r].media) # 0
  BY DEF LayoutInv
<1> QED BY <1>1, <1>2 DEF Media

LEMMA CallsInvPushed ==
  ASSUME layout \in Layout, LayoutInv, UNCHANGED layout,
         todo \in Seq(Calls), todo # <<>>, CallsInv,
         NEW s \in Seq(Calls), todo' = s \o Rest,
         s # <<>> =>
           /\ Elements(Tail(s)) \subseteq NestedCalls
           /\ Head(s).op \in RegionCalls => Head(s).region \in Regions
           /\ Head(s).op # "finished"
           /\ Head(s).op = "placeMedia" => Head(s).media = 1
  PROVE  CallsInv'
<1>1. /\ todo' \in Seq(Calls)
      /\ s = <<>> => todo' = Rest
      /\ s # <<>> => /\ todo' # <<>>
                     /\ Head(todo') = Head(s)
                     /\ Elements(Tail(todo')) = Elements(Tail(s)) \cup Elements(Rest)
  BY CallsPushed
<1>2. Elements(Rest) \subseteq NestedCalls
  BY DEF CallsInv
<1>3. NestedCalls' = NestedCalls /\ Regions' = Regions /\ \A r : Media(r)' = Media(r)
  BY DEF NestedCalls, Regions, Media
<1>4. ASSUME todo' # <<>>
      PROVE  /\ Elements(Tail(todo')) \subseteq NestedCalls
             /\ Head(todo').op \in RegionCalls => Head(todo').region \in Regions
             /\ Head(todo').op # "finished"
             /\ Head(todo').op = "placeMedia" => Head(todo').media = 1
  <2>1. CASE s = <<>>
    <3>1. todo' = Rest
      BY <1>1, <2>1
    <3>2. Elements(todo') = {Head(todo')} \cup Elements(Tail(todo'))
      BY <1>1, <1>4, HeadAndRest
    <3>3. Head(todo') \in NestedCalls /\ Elements(Tail(todo')) \subseteq NestedCalls
      BY <1>2, <3>1, <3>2
    <3> QED BY <3>3 DEF NestedCalls
  <2>2. CASE s # <<>>
    BY <1>1, <1>2, <2>2
  <2> QED BY <2>1, <2>2
<1>5. ASSUME todo' # <<>>, Head(todo').op = "placeMedia"
      PROVE  1 \in Media(Head(todo').region)
  <2>1. Head(todo').region \in Regions
    BY <1>4, <1>5 DEF RegionCalls
  <2> QED BY <2>1, FirstMedium
<1> QED BY <1>3, <1>4, <1>5 DEF CallsInv, Calling, Rest

(* An event makes one call, or none.                                       *)
LEMMA CallsInvOne ==
  ASSUME NEW c \in Calls, todo' = <<c>>,
         c.op \in RegionCalls => c.region \in Regions',
         c.op = "placeMedia" => c.media \in Media(c.region)'
  PROVE  /\ CallsInv' /\ todo' \in Seq(Calls)
         /\ Elements(todo') = {c} /\ todo' # <<>> /\ Head(todo') = c
<1>1. /\ todo' \in Seq(Calls) /\ todo' # <<>> /\ Head(todo') = c
      /\ Tail(todo') = <<>> /\ Elements(todo') = {c}
  BY ElementsOfOne
<1>2. Elements(Tail(todo')) = {}
  BY <1>1, ElementsOfNone
<1> QED BY <1>1, <1>2 DEF CallsInv, Calling, Rest

LEMMA CallsInvNone ==
  ASSUME todo' = <<>>
  PROVE  /\ CallsInv' /\ todo' \in Seq(Calls) /\ Elements(todo') = {}
         /\ HeadInv' /\ PlacingInv'
BY ElementsOfNone DEF CallsInv, HeadInv, PlacingInv, Calling

LEMMA SameCandidate ==
  ASSUME UNCHANGED <<layout, unsafeMedia, unsafeWidget>>, NEW r, NEW i
  PROVE  Candidate(r, i)' = Candidate(r, i) /\ SafeMedia(r)' = SafeMedia(r)
<1>1. SafeMedia(r)' = SafeMedia(r)
  BY DEF SafeMedia, Unsafe, Media, Options
<1> QED BY <1>1 DEF Candidate

LEMMA CandidateIsMedium ==
  ASSUME NEW r, NEW i, SafeMedia(r) # {}
  PROVE  Candidate(r, i) \in Media(r)
<1> DEFINE after == {j \in SafeMedia(r) : j >= i}
<1>1. SafeMedia(r) \subseteq Media(r) /\ SafeMedia(r) \subseteq Nat
  BY DEF SafeMedia, Media
<1>2. CASE after # {}
  <2>1. after \subseteq Nat
    BY <1>1
  <2>2. Min(after) \in after
    <3> HIDE DEF after
    <3> QED BY <1>2, <2>1, MinOfMany
  <2> QED BY <1>1, <1>2, <2>2 DEF Candidate
<1>3. CASE after = {}
  <2>1. Min(SafeMedia(r)) \in SafeMedia(r)
    BY <1>1, MinOfMany
  <2> QED BY <1>1, <1>3, <2>1 DEF Candidate
<1> QED BY <1>2, <1>3

(* No medium begins to play, and none is to be placed that was not before. *)
LEMMA PlacingKept ==
  ASSUME UNCHANGED <<layout, unsafeMedia, unsafeWidget>>,
         todo \in Seq(Calls), CallsInv, PlacingInv,
         \A r \in Regions : \A i \in Media(r) :
           play'[r][i].playing => play[r][i].playing,
         \A c \in Elements(todo') : c.op = "placeMedia" => c \in Elements(todo)
  PROVE  PlacingInv'
<1> SUFFICES ASSUME NEW c \in Elements(todo'), c.op = "placeMedia",
                    NEW i \in Media(c.region)', play'[c.region][i].playing
             PROVE  i = Candidate(c.region, c.media)'
  BY DEF PlacingInv, Placing
<1>1. c \in Elements(todo) /\ Media(c.region)' = Media(c.region)
  BY DEF Media
<1>2. c.region \in Regions
  BY <1>1, CallsOfRegions DEF RegionCalls
<1>3. play[c.region][i].playing
  BY <1>1, <1>2
<1>4. i = Candidate(c.region, c.media)
  BY <1>1, <1>3 DEF PlacingInv, Placing
<1> QED BY <1>4, SameCandidate

(* Media are as they were, and what was pending of a region that has not   *)
(* expired still is.                                                       *)
LEMMA MovingKept ==
  ASSUME UNCHANGED <<layout, play, current>>,
         expiredRegions \subseteq expiredRegions',
         MovingInv, ~Calling("startLayout"),
         \A r \in Regions \ expiredRegions' :
           \/ Ending(r)'
           \/ \A op \in RegionCalls :
                /\ Pending(op, r)
                /\ op = "checkExpired" => Len(layout.regions[r].media) = 1
                => Pending(op, r)'
  PROVE  MovingInv'
<1> SUFFICES ASSUME NEW r \in Regions \ expiredRegions', ~Ending(r)'
             PROVE  (Steady(r) /\ Occupied(r))'
  BY DEF MovingInv, Regions
<1>1. r \in Regions \ expiredRegions
  OBVIOUS
<1>2. \A op \in RegionCalls :
        /\ Pending(op, r)
        /\ op = "checkExpired" => Len(layout.regions[r].media) = 1
        => Pending(op, r)'
  OBVIOUS
<1>3. ~Ending(r)
  BY <1>2 DEF Ending, RegionCalls
<1>4. Steady(r) /\ Occupied(r)
  BY <1>1, <1>3 DEF MovingInv
<1>5. Steady(r)'
  BY <1>4 DEF Steady, Media, Options
<1>6. Occupied(r)'
  <2>1. Pending("placeMedia", r) => Pending("placeMedia", r)'
    BY <1>2 DEF RegionCalls
  <2> QED BY <1>4, <2>1 DEF Occupied
<1> QED BY <1>5, <1>6

LEMMA CallFacts ==
  ASSUME todo \in Seq(Calls), todo # <<>>
  PROVE  /\ Head(todo) \in Calls /\ Rest \in Seq(Calls)
         /\ Elements(todo) = {Head(todo)} \cup Elements(Rest)
BY HeadAndRest DEF Rest

LEMMA CallType ==
  ASSUME NEW op \in Operations, NEW r \in Nat, NEW i \in Nat
  PROVE  /\ Call(op, r, i) \in Calls
         /\ Call(op, r, i).op = op /\ Call(op, r, i).region = r
         /\ Call(op, r, i).media = i
BY DEF Call, Calls

LEMMA StillPending ==
  ASSUME todo \in Seq(Calls), todo # <<>>, Elements(Rest) \subseteq Elements(todo'),
         NEW op, NEW r, Pending(op, r),
         ~(Head(todo).op = op /\ Head(todo).region = r)
  PROVE  Pending(op, r)'
BY CallFacts DEF Pending

(* Behind a call no layout starts or ends.                                 *)
LEMMA HeadInvPopped ==
  ASSUME todo \in Seq(Calls), todo # <<>>, CallsInv, todo' = Rest
  PROVE  HeadInv'
<1>1. ASSUME todo' # <<>> PROVE Head(todo') \in NestedCalls
  <2>1. Rest \in Seq(Calls) /\ Elements(Rest) \subseteq NestedCalls
    BY CallFacts DEF CallsInv
  <2>2. Head(Rest) \in Elements(Rest)
    BY <1>1, <2>1, HeadAndRest
  <2> QED BY <2>1, <2>2
<1> QED BY <1>1 DEF HeadInv, Calling, NestedCalls

LEMMA FlagLayoutType ==
  ASSUME unsafeLayout \in [LayoutIds -> Nat], NEW ttl \in Nat, NEW id,
         NEW flagged, flagged = [unsafeLayout EXCEPT ![id] = Max({@, ttl})]
  PROVE  flagged \in [LayoutIds -> Nat]
<1>1. CASE id \in LayoutIds
  <2>1. Max({unsafeLayout[id], ttl}) \in Nat
    BY <1>1, MaxOfTwo
  <2> QED BY <1>1, <2>1
<1>2. CASE id \notin LayoutIds
  <2>1. flagged = unsafeLayout
    BY <1>2
  <2> QED BY <2>1
<1> QED BY <1>1, <1>2

LEMMA Ttls ==
  /\ UnsafeRegionTtl \in Nat /\ UnsafeMediaTtl \in Nat
  /\ MaxAge \in Nat /\ MaxTimer \in Nat /\ MaxRequests \in Nat
BY PlaybackAssumption

-----------------------------------------------------------------------------
(* The calls                                                               *)

LEMMA PlaceMediaUnsafe ==
  ASSUME PlaybackInv, Calling("placeMedia"), NEW r, r = Head(todo).region,
         FlagLayout(UnsafeRegionTtl),
         todo' = <<Call("regionExpired", r, 0)>> \o Rest,
         UNCHANGED <<slot, layoutVars, unsafeMedia, unsafeWidget, depth, requests>>
  PROVE  PlaybackInv'
<1> USE DEF PlaybackInv
<1> DEFINE call == Call("regionExpired", r, 0)
           s == <<call>>
<1>1. todo \in Seq(Calls) /\ todo # <<>> /\ layout \in Layout
  BY DEF Calling, ScreenTypeOK
<1>2. r \in Regions /\ r \in Nat
  <2>1. r \in Regions
    BY <1>1 DEF CallsInv, Calling, RegionCalls
  <2> QED BY <2>1 DEF Regions
<1>3. call \in Calls /\ call.op = "regionExpired" /\ call.region = r
  BY <1>2, CallType DEF Operations
<1> HIDE DEF call
<1>4. /\ s \in Seq(Calls) /\ s # <<>> /\ Head(s) = call /\ Tail(s) = <<>>
      /\ Elements(s) = {call}
  BY <1>3, ElementsOfOne
<1>5. todo' = s \o Rest
  BY DEF call
<1> HIDE DEF s
<1>6. /\ todo' \in Seq(Calls) /\ todo' # <<>> /\ Head(todo') = call
      /\ Elements(todo') = {call} \cup Elements(Rest)
  BY <1>1, <1>4, <1>5, CallsPushed
<1>7. ScreenTypeOK'
  <2>1. unsafeLayout' \in [LayoutIds -> Nat]
    BY Ttls, FlagLayoutType DEF FlagLayout, ScreenTypeOK
  <2> QED BY <1>6, <2>1 DEF ScreenTypeOK, layoutVars, Regions
<1>8. LayoutInv' /\ MediaInv' /\ CurrentInv'
  BY DEF LayoutInv, MediaInv, CurrentInv, layoutVars, Regions, Media, Options
<1>9. CallsInv'
  <2>1. Elements(Tail(s)) \subseteq NestedCalls
    BY <1>4, ElementsOfNone
  <2> QED BY <1>1, <1>2, <1>3, <1>4, <1>5, <2>1, CallsInvPushed DEF layoutVars
<1>10. HeadInv'
  BY <1>3, <1>6 DEF HeadInv, Calling
<1>11. PlacingInv'
  <2>1. \A c \in Elements(todo') : c.op = "placeMedia" => c \in Elements(todo)
    BY <1>1, <1>3, <1>6, CallFacts
  <2> QED BY <1>1, <2>1, PlacingKept DEF layoutVars
<1>12. MovingInv'
  <2>1. Elements(Rest) \subseteq Elements(todo') /\ call \in Elements(todo')
    BY <1>6
  <2>2. Ending(r)'
    BY <1>3, <2>1 DEF Ending, Pending
  <2>3. ASSUME NEW q \in Regions, q # r, NEW op, Pending(op, q)
        PROVE  Pending(op, q)'
    BY <1>1, <2>1, <2>3, StillPending
  <2>4. ~Calling("startLayout")
    BY DEF Calling
  <2> QED BY <2>2, <2>3, <2>4, MovingKept DEF layoutVars, Regions
<1> QED BY <1>7, <1>8, <1>9, <1>10, <1>11, <1>12

LEMMA MediumOf ==
  ASSUME PlaybackInv, NEW r \in Regions, NEW i \in Media(r)
  PROVE  /\ Options(r, i) \in Medium
         /\ play[r][i] \in MediumState
         /\ MediumInv(Options(r, i), play[r][i], age)
         /\ age \in 0..MaxAge
<1>1. layout \in Layout /\ Shaped(play, layout) /\ age \in 0..MaxAge
  BY DEF PlaybackInv, ScreenTypeOK, LayoutInv
<1>2. Options(r, i) \in Medium
  BY <1>1, LayoutLengths DEF Options, Regions, Media
<1>3. play[r][i] \in MediumState
  BY <1>1, ShapedMedia DEF Regions, Media
<1> QED BY <1>1, <1>2, <1>3 DEF PlaybackInv, MediaInv

(* One medium gets another state.                                          *)
MediumSet(r, i, m) ==
  /\ Shaped(play, layout)'
  /\ play' \in Seq(Seq(MediumState))
  /\ play'[r][i] = m
  /\ \A q \in Regions : \A j \in Media(q) :
       q # r \/ j # i => play'[q][j] = play[q][j]
  /\ \A q \in Regions : \A j \in Media(q) :
       MediumInv(Options(q, j), play[q][j], age)'

LEMMA MediumChanges ==
  ASSUME PlaybackInv, NEW r \in Regions, NEW i \in Media(r), NEW m,
         MediumInv(Options(r, i), m, age),
         play' = With(play, r, i, m),
         UNCHANGED <<layout, age>>
  PROVE  MediumSet(r, i, m)
<1>1. layout \in Layout /\ Shaped(play, layout)
  BY DEF PlaybackInv, ScreenTypeOK, LayoutInv
<1>2. m \in MediumState
  BY DEF MediumInv
<1>3. /\ Shaped(play', layout)
      /\ play'[r][i] = m
      /\ \A q \in 1..Len(layout.regions) : \A j \in 1..Len(layout.regions[q].media) :
           q # r \/ j # i => play'[q][j] = play[q][j]
  <2>1. r \in 1..Len(layout.regions) /\ i \in 1..Len(layout.regions[r].media)
    BY DEF Regions, Media
  <2>2. Replaced(play, With(play, r, i, m), layout, r, i, m)
    BY <1>1, <1>2, <2>1, SetMedium
  <2>3. Replaced(play, play', layout, r, i, m)
    BY <2>2
  <2> QED BY <2>3 DEF Replaced
<1>4. Shaped(play, layout)' /\ play' \in Seq(Seq(MediumState))
  BY <1>3 DEF Shaped
<1>5. \A q \in Regions : \A j \in Media(q) :
        q # r \/ j # i => play'[q][j] = play[q][j]
  BY <1>3 DEF Regions, Media
<1>6. ASSUME NEW q \in Regions, NEW j \in Media(q)
      PROVE  MediumInv(Options(q, j), play[q][j], age)'
  <2>1. Options(q, j)' = Options(q, j)
    BY DEF Options
  <2>2. MediumInv(Options(q, j), play'[q][j], age)
    <3>1. CASE q = r /\ j = i
      BY <1>3, <3>1
    <3>2. CASE q # r \/ j # i
      BY <1>5, <3>2, MediumOf
    <3> QED BY <3>1, <3>2
  <2> QED BY <2>1, <2>2 DEF MediumInv
<1> QED BY <1>3, <1>4, <1>5, <1>6 DEF MediumSet

LEMMA PlaceMediaSafe ==
  ASSUME PlaybackInv, Calling("placeMedia"),
         NEW r \in Regions, Head(todo).region = r, SafeMedia(r) # {},
         NEW i \in Media(r), Candidate(r, Head(todo).media) = i,
         current' = [current EXCEPT ![r] = i],
         play' = [play EXCEPT ![r][i] = Start(Options(r, i), @)],
         todo' = Rest,
         UNCHANGED <<slot, layoutId, layout, expiredRegions, age, mediaIntervals,
                     unsafeVars, depth, requests>>
  PROVE  PlaybackInv'
<1> DEFINE m == Start(Options(r, i), play[r][i])
<1>0. /\ ScreenTypeOK /\ LayoutInv /\ MediaInv /\ CallsInv /\ HeadInv
      /\ CurrentInv /\ PlacingInv /\ MovingInv
  BY DEF PlaybackInv
<1>1. todo \in Seq(Calls) /\ todo # <<>> /\ layout \in Layout
  BY <1>0 DEF Calling, ScreenTypeOK
<1>2. r \in Regions /\ i \in Media(r)
  OBVIOUS
<1>3. /\ MediumInv(Options(r, i), play[r][i], age)
      /\ MediumInv(Options(r, i), m, age)
      /\ m.playing
      /\ ~play[r][i].playing => Moving(Options(r, i), m)
      /\ play[r][i].playing => m = play[r][i]
  BY <1>2, MediumOf, StartStarts
<1>4. play' = With(play, r, i, m)
  BY DEF With
<1> HIDE DEF m
<1>5. /\ Shaped(play, layout)'
      /\ play' \in Seq(Seq(MediumState))
      /\ play'[r][i] = m
      /\ \A q \in Regions : \A j \in Media(q) :
           q # r \/ j # i => play'[q][j] = play[q][j]
      /\ \A q \in Regions : \A j \in Media(q) :
           MediumInv(Options(q, j), play[q][j], age)'
  <2>1. UNCHANGED <<layout, age>>
    OBVIOUS
  <2>2. MediumSet(r, i, m)
    BY <1>2, <1>3, <1>4, <2>1, MediumChanges
  <2> QED BY <2>2 DEF MediumSet
<1>6. /\ current \in Seq(Nat \ {0}) /\ Len(current) = Len(layout.regions)
      /\ r \in 1..Len(current) /\ i \in Nat \ {0}
  BY <1>0, <1>2 DEF ScreenTypeOK, LayoutInv, Regions, Media
<1>7. /\ current' \in Seq(Nat \ {0}) /\ Len(current') = Len(current)
      /\ current'[r] = i
      /\ \A q \in Regions : q # r => current'[q] = current[q]
  BY <1>6 DEF Regions
<1>8. todo' \in Seq(Calls) /\ Elements(todo) = {Head(todo)} \cup Elements(todo')
  BY <1>1, CallFacts
<1>9. ScreenTypeOK'
  BY <1>0, <1>5, <1>7, <1>8 DEF ScreenTypeOK, unsafeVars, Regions
<1>10. /\ Regions' = Regions
       /\ \A q : Media(q)' = Media(q)
       /\ \A q, j : Options(q, j)' = Options(q, j)
  BY DEF Regions, Media, Options
<1>11. LayoutInv'
  <2>1. \A q \in Regions : current'[q] \in Media(q)
    BY <1>0, <1>2, <1>7 DEF LayoutInv
  <2> QED BY <1>0, <1>5, <1>7, <1>10, <2>1 DEF LayoutInv
<1>12. MediaInv'
  BY <1>0, <1>5, <1>10 DEF MediaInv
<1>13. CallsInv'
  <2>1. <<>> \in Seq(Calls) /\ todo' = <<>> \o Rest
    BY <1>1, <1>8, ConcatEmptySeq
  <2> QED BY <1>0, <1>1, <2>1, CallsInvPushed
<1>14. HeadInv'
  BY <1>0, <1>1, HeadInvPopped
<1>15. \A j \in Media(r) : play[r][j].playing => j = i
  <2>1. Placing(Head(todo))
    BY <1>0, <1>8 DEF PlacingInv
  <2> QED BY <2>1 DEF Placing, Calling
<1>16. CurrentInv'
  <2>1. ASSUME NEW q \in Regions, NEW j \in Media(q), play'[q][j].playing
        PROVE  j = current'[q]
    <3>1. CASE q = r
      BY <1>2, <1>5, <1>7, <1>15, <2>1, <3>1
    <3>2. CASE q # r
      BY <1>0, <1>5, <1>7, <2>1, <3>2 DEF CurrentInv
    <3> QED BY <3>1, <3>2
  <2> QED BY <1>10, <2>1 DEF CurrentInv
<1>17. PlacingInv'
  <2> SUFFICES ASSUME NEW c \in Elements(todo'), c.op = "placeMedia",
                      NEW j \in Media(c.region), play'[c.region][j].playing
               PROVE  j = Candidate(c.region, c.media)
    <3>1. \A q, k : Candidate(q, k)' = Candidate(q, k)
      BY SameCandidate DEF unsafeVars
    <3> QED BY <1>10, <3>1 DEF PlacingInv, Placing
  <2>1. c \in NestedCalls /\ c \in Elements(todo)
    BY <1>0, <1>1, <1>8 DEF CallsInv
  <2>2. c.region \in Regions /\ c.media = 1
    BY <2>1 DEF NestedCalls, RegionCalls
  <2>3. CASE c.region = r
    <3>1. j = i
      BY <1>2, <1>5, <1>15, <2>2, <2>3
    <3>2. Head(todo).media = 1
      BY <1>0, <1>1 DEF CallsInv, Calling
    <3> QED BY <2>2, <2>3, <3>1, <3>2
  <2>4. CASE c.region # r
    <3>1. play[c.region][j].playing
      BY <1>5, <2>2, <2>4
    <3> QED BY <1>0, <2>1, <3>1 DEF PlacingInv, Placing
  <2> QED BY <2>3, <2>4
<1>18. MovingInv'
  <2> SUFFICES ASSUME NEW q \in Regions \ expiredRegions, ~Ending(q)'
               PROVE  (Steady(q) /\ Occupied(q))'
    BY <1>10 DEF MovingInv
  <2>1. Head(todo).op = "placeMedia" /\ Elements(Rest) \subseteq Elements(todo')
    BY DEF Calling
  <2>2. ~Ending(q)
    BY <1>1, <2>1, StillPending DEF Ending
  <2>3. Steady(q) /\ Occupied(q)
    BY <1>0, <2>2 DEF MovingInv
  <2>4. CASE q = r
    <3>1. Steady(q)'
      <4>1. ASSUME NEW j \in Media(r), play'[r][j].playing
            PROVE  Moving(Options(r, j), play'[r][j])
        <5>1. j = i
          BY <1>2, <1>5, <1>15, <4>1
        <5>2. Moving(Options(r, i), m)
          BY <1>2, <1>3, <2>3, <2>4 DEF Steady
        <5> QED BY <1>5, <5>1, <5>2
      <4> QED BY <1>10, <2>4, <4>1 DEF Steady, Moving
    <3>2. Occupied(q)'
      BY <1>3, <1>5, <1>7, <2>4 DEF Occupied
    <3> QED BY <3>1, <3>2
  <2>5. CASE q # r
    <3>1. Steady(q)'
      BY <1>5, <1>10, <2>3, <2>5 DEF Steady, Moving
    <3>2. Pending("placeMedia", q) => Pending("placeMedia", q)'
      BY <1>1, <2>1, <2>5, StillPending
    <3>3. play[q][current[q]].playing => play'[q][current'[q]].playing
      BY <1>0, <1>5, <1>7, <2>5 DEF LayoutInv
    <3> QED BY <2>1, <2>3, <3>1, <3>2, <3>3 DEF Occupied, Calling
  <2> QED BY <2>4, <2>5
<1> QED BY <1>9, <1>11, <1>12, <1>13, <1>14, <1>16, <1>17, <1>18 DEF PlaybackInv

-----------------------------------------------------------------------------
(* Media that stop                                                         *)

AllStopped ==
  /\ Shaped(play, layout)'
  /\ \A q \in Regions : \A j \in Media(q) :
       MediumInv(Options(q, j), play[q][j], age)'
  /\ Quiet'

LEMMA StopAll ==
  ASSUME PlaybackInv, play' = StopRegions, UNCHANGED <<layout, age>>
  PROVE  AllStopped
<1>1. layout \in Layout /\ Shaped(play, layout)
  BY DEF PlaybackInv, ScreenTypeOK, LayoutInv
<1>2. ASSUME NEW q \in Regions, NEW j \in Media(q)
      PROVE  /\ play'[q][j] = Stop(play[q][j])
             /\ MediumInv(Options(q, j), play'[q][j], age)
             /\ ~play'[q][j].playing
  <2>1. play'[q][j] = Stop(play[q][j])
    BY DEF StopRegions
  <2> QED BY <2>1, MediumOf, StopStops
<1>3. play' = [r \in 1..Len(layout.regions) |-> play'[r]]
  BY DEF StopRegions, Regions
<1>4. \A r \in 1..Len(layout.regions) :
        /\ play'[r] = [i \in 1..Len(layout.regions[r].media) |-> play'[r][i]]
        /\ \A i \in 1..Len(layout.regions[r].media) : play'[r][i] \in MediumState
  <2> TAKE r \in 1..Len(layout.regions)
  <2>1. play'[r] = [i \in Media(r) |-> Stop(play[r][i])]
    BY DEF StopRegions, Regions
  <2>2. \A i \in 1..Len(layout.regions[r].media) : play'[r][i] \in MediumState
    BY <1>2 DEF Regions, Media, MediumInv
  <2> QED BY <2>1, <2>2 DEF Media
<1>5. Shaped(play', layout)
  <2> DEFINE p == play'
  <2>1. /\ p = [r \in 1..Len(layout.regions) |-> p[r]]
        /\ \A r \in 1..Len(layout.regions) :
             /\ p[r] = [i \in 1..Len(layout.regions[r].media) |-> p[r][i]]
             /\ \A i \in 1..Len(layout.regions[r].media) : p[r][i] \in MediumState
    BY <1>3, <1>4
  <2> HIDE DEF p
  <2>2. Shaped(p, layout)
    BY <1>1, <2>1, ShapeOf
  <2> QED BY <2>2 DEF p
<1>6. Shaped(play, layout)'
  BY <1>5 DEF Shaped
<1>7. ASSUME NEW q \in Regions, NEW j \in Media(q)
      PROVE  MediumInv(Options(q, j), play[q][j], age)'
  BY <1>2, <1>7 DEF MediumInv, Options
<1>8. Quiet'
  BY <1>2 DEF Quiet, Regions, Media
<1> QED BY <1>6, <1>7, <1>8 DEF AllStopped

(* What is recorded of media that stop lies within the layout.             *)
IntervalsInv(intervals, a) ==
  /\ intervals \in [MediaIds -> NotPlayed..MaxAge]
  /\ \A id \in MediaIds : intervals[id] <= a

LEMMA MediaIntervalsInv ==
  ASSUME PlaybackInv, NEW stopped, stopped \subseteq AllMedia
  PROVE  IntervalsInv(MediaIntervals(stopped), age)
<1>1. /\ mediaIntervals \in [MediaIds -> NotPlayed..MaxAge]
      /\ \A id \in MediaIds : mediaIntervals[id] <= age
      /\ MaxAge \in Nat
  BY Ttls DEF PlaybackInv, ScreenTypeOK, MediaInv
<1>2. ASSUME NEW id \in MediaIds, NEW p \in StoppedMedia(stopped, id)
      PROVE  play[p[1]][p[2]].started \in 0..MaxAge /\ play[p[1]][p[2]].started <= age
  <2>1. p \in AllMedia /\ play[p[1]][p[2]].playing
    BY DEF StoppedMedia
  <2>2. p[1] \in Regions /\ p[2] \in Media(p[1])
    BY <2>1 DEF AllMedia
  <2> QED BY <1>1, <2>1, <2>2, MediumOf DEF MediumInv, MediumState
<1>3. ASSUME NEW id \in MediaIds
      PROVE  /\ MediaIntervals(stopped)[id] \in NotPlayed..MaxAge
             /\ MediaIntervals(stopped)[id] <= age
  <2>1. CASE mediaIntervals[id] # NotPlayed \/ StoppedMedia(stopped, id) = {}
    BY <1>1, <2>1 DEF MediaIntervals
  <2>2. CASE ~(mediaIntervals[id] # NotPlayed \/ StoppedMedia(stopped, id) = {})
    <3> DEFINE p == CHOOSE p \in StoppedMedia(stopped, id) : TRUE
    <3>1. p \in StoppedMedia(stopped, id)
      BY <2>2
    <3>2. MediaIntervals(stopped)[id] = play[p[1]][p[2]].started
      BY <2>2 DEF MediaIntervals
    <3> HIDE DEF p
    <3> QED BY <1>1, <1>2, <3>1, <3>2 DEF NotPlayed
  <2> QED BY <2>1, <2>2
<1>4. MediaIntervals(stopped)
        = [id \in MediaIds |-> MediaIntervals(stopped)[id]]
  BY DEF MediaIntervals
<1> QED BY <1>3, <1>4 DEF IntervalsInv

LEMMA InvParts ==
  ASSUME PlaybackInv
  PROVE  /\ ScreenTypeOK /\ LayoutInv /\ MediaInv /\ CallsInv /\ HeadInv
         /\ CurrentInv /\ PlacingInv /\ MovingInv
         /\ layout \in Layout /\ Shaped(play, layout) /\ todo \in Seq(Calls)
         /\ \A r \in Regions : r \in Nat /\ current[r] \in Media(r)
BY DEF PlaybackInv, ScreenTypeOK, LayoutInv, Regions

(* The regions and media are those of the layout, which stays.             *)
LEMMA SameLayout ==
  ASSUME UNCHANGED layout
  PROVE  /\ Regions' = Regions
         /\ \A r : Media(r)' = Media(r)
         /\ \A r, i : Options(r, i)' = Options(r, i)
BY DEF Regions, Media, Options

LEMMA NextIsMedium ==
  ASSUME PlaybackInv, NEW r \in Regions
  PROVE  /\ NextIndex(r, current[r]) \in Media(r)
         /\ NextIndex(r, current[r]) \in Nat
<1>1. Len(layout.regions[r].media) \in Nat
  BY InvParts, LayoutLengths DEF Regions
<1>2. current[r] \in 1..Len(layout.regions[r].media)
  BY InvParts DEF Media
<1> QED BY <1>1, <1>2 DEF NextIndex, Media

(* One medium is stopped, and nothing else of its region plays.            *)
LEMMA CurrentStops ==
  ASSUME PlaybackInv, NEW r \in Regions,
         play' = [play EXCEPT ![r][current[r]] = Stop(@)],
         UNCHANGED <<layout, age, current>>
  PROVE  /\ Shaped(play, layout)'
         /\ \A q \in Regions : \A j \in Media(q) :
              /\ MediumInv(Options(q, j), play[q][j], age)'
              /\ q # r => play'[q][j] = play[q][j]
         /\ \A j \in Media(r) : ~play'[r][j].playing
         /\ CurrentInv'
<1> DEFINE i == current[r]
           m == Stop(play[r][i])
<1>1. i \in Media(r)
  BY InvParts
<1>2. play' = With(play, r, i, m)
  BY DEF With
<1>3. MediumInv(Options(r, i), m, age) /\ ~m.playing
  BY <1>1, MediumOf, StopStops
<1>4. UNCHANGED <<layout, age>>
  OBVIOUS
<1> HIDE DEF m, i
<1>5. MediumSet(r, i, m)
  BY <1>1, <1>2, <1>3, <1>4, MediumChanges
<1>6. \A j \in Media(r) : ~play'[r][j].playing
  <2> TAKE j \in Media(r)
  <2>1. CASE j = i
    BY <1>3, <1>5, <2>1 DEF MediumSet
  <2>2. CASE j # i
    <3>1. play'[r][j] = play[r][j]
      BY <1>5, <2>2 DEF MediumSet
    <3> QED BY <2>2, <3>1, InvParts DEF CurrentInv, i
  <2> QED BY <2>1, <2>2
<1>7. \A q \in Regions : \A j \in Media(q) :
        /\ MediumInv(Options(q, j), play[q][j], age)'
        /\ q # r => play'[q][j] = play[q][j]
  BY <1>5 DEF MediumSet
<1>8. CurrentInv'
  <2>1. ASSUME NEW q \in Regions, NEW j \in Media(q), play'[q][j].playing
        PROVE  j = current[q]
    <3>1. q # r
      BY <1>6, <2>1
    <3> QED BY <1>7, <2>1, <3>1, InvParts DEF CurrentInv
  <2> QED BY <2>1, SameLayout DEF CurrentInv
<1>9. Shaped(play, layout)'
  BY <1>5 DEF MediumSet
<1> QED BY <1>6, <1>7, <1>8, <1>9

LEMMA MediaFinishedReplaced ==
  ASSUME PlaybackInv, Calling("finished"), NEW r \in Regions, Head(todo).region = r,
         NEW n \in Media(r), n \in Nat,
         play' = [play EXCEPT ![r][current[r]] = Stop(@)],
         mediaIntervals' = MediaIntervals({<<r, current[r]>>}),
         todo' = <<Call("placeMedia", r, n)>> \o <<Call("checkExpired", r, 0)>> \o Rest,
         UNCHANGED <<slot, layoutId, layout, current, expiredRegions, age,
                     unsafeVars, depth, requests>>
  PROVE  PlaybackInv'
<1> DEFINE place == Call("placeMedia", r, n)
           check == Call("checkExpired", r, 0)
<1>0. /\ ScreenTypeOK /\ LayoutInv /\ MediaInv /\ CallsInv /\ HeadInv
      /\ CurrentInv /\ PlacingInv /\ MovingInv
      /\ layout \in Layout /\ todo \in Seq(Calls) /\ r \in Nat
  BY InvParts
<1>1. /\ place \in Calls /\ place.op = "placeMedia" /\ place.region = r /\ place.media = n
      /\ check \in Calls /\ check.op = "checkExpired" /\ check.region = r
  <2>1. "placeMedia" \in Operations /\ "checkExpired" \in Operations /\ 0 \in Nat /\ n \in Nat
    BY DEF Operations
  <2> QED BY <1>0, <2>1, CallType
<1>2. Rest = <<>>
  BY <1>0 DEF CallsInv, Calling
<1>3. todo' = <<place>> \o <<check>> \o <<>>
  BY <1>2
<1> HIDE DEF place, check
<1>4. /\ todo' \in Seq(Calls) /\ todo' # <<>> /\ Head(todo') = place
      /\ Tail(todo') = <<check>> /\ Elements(todo') = {place, check}
  <2> DEFINE s == <<place>> \o <<check>>
  <2>1. Two(s, Calls, place, check)
    BY <1>1, ElementsOfTwo
  <2>2. todo' = s \o <<>>
    BY <1>3
  <2> HIDE DEF s
  <2>3. todo' = s
    BY <2>1, <2>2, ConcatEmptySeq DEF Two
  <2> QED BY <2>1, <2>3 DEF Two
<1>5. Elements(Tail(todo')) = {check}
  BY <1>1, <1>4, ElementsOfOne
<1>6. /\ Shaped(play, layout)'
      /\ \A q \in Regions : \A j \in Media(q) :
           /\ MediumInv(Options(q, j), play[q][j], age)'
           /\ q # r => play'[q][j] = play[q][j]
      /\ \A j \in Media(r) : ~play'[r][j].playing
      /\ CurrentInv'
  BY CurrentStops
<1>7. IntervalsInv(mediaIntervals', age)
  <2>1. {<<r, current[r]>>} \subseteq AllMedia
    BY InvParts DEF AllMedia
  <2> QED BY <2>1, MediaIntervalsInv
<1>8. ScreenTypeOK'
  BY <1>0, <1>4, <1>6, <1>7 DEF ScreenTypeOK, Shaped, IntervalsInv, unsafeVars, Regions
<1>9. LayoutInv'
  BY <1>0, <1>6 DEF LayoutInv, Regions, Media
<1>10. MediaInv'
  BY <1>6, <1>7, SameLayout DEF MediaInv, IntervalsInv
<1>11. CallsInv'
  <2>1. check \in NestedCalls'
    BY <1>1, SameLayout DEF NestedCalls
  <2>2. r \in Regions' /\ n \in Media(r)'
    BY SameLayout
  <2> QED BY <1>1, <1>4, <1>5, <2>1, <2>2 DEF CallsInv, Calling, Rest
<1>12. HeadInv'
  BY <1>1, <1>4 DEF HeadInv, Calling
<1>13. PlacingInv'
  BY <1>1, <1>4, <1>6, SameLayout DEF PlacingInv, Placing
<1>14. MovingInv'
  <2> SUFFICES ASSUME NEW q \in Regions \ expiredRegions
               PROVE  Ending(q)' \/ (Steady(q) /\ Occupied(q))'
    BY SameLayout DEF MovingInv
  <2>1. CASE q = r
    <3>1. Pending("placeMedia", r)'
      BY <1>1, <1>4 DEF Pending
    <3>2. Steady(r)'
      BY <1>6, SameLayout DEF Steady
    <3> QED BY <2>1, <3>1, <3>2 DEF Occupied
  <2>2. CASE q # r
    <3>1. Elements(todo) = {Head(todo)}
      BY <1>0, <1>2, CallFacts, ElementsOfNone DEF Calling
    <3>2. ~Ending(q) /\ ~Calling("startLayout") /\ ~Pending("placeMedia", q)
      BY <2>2, <3>1 DEF Ending, Pending, Calling
    <3>3. Steady(q) /\ play[q][current[q]].playing
      BY <1>0, <3>2 DEF MovingInv, Occupied
    <3>4. Steady(q)'
      BY <1>6, <2>2, <3>3, SameLayout DEF Steady, Moving
    <3>5. play'[q][current'[q]].playing
      BY <1>6, <2>2, <3>3, InvParts
    <3> QED BY <3>4, <3>5 DEF Occupied
  <2> QED BY <2>1, <2>2
<1> QED BY <1>6, <1>8, <1>9, <1>10, <1>11, <1>12, <1>13, <1>14 DEF PlaybackInv

(* One call is pushed in the place of the one that is being made.          *)
Pushed(c) ==
  /\ todo' \in Seq(Calls) /\ todo' # <<>> /\ Head(todo') = c
  /\ Elements(todo') = {c} \cup Elements(Rest)
  /\ Elements(Tail(todo')) = Elements(Rest)

LEMMA OneCallPushed ==
  ASSUME PlaybackInv, todo # <<>>, NEW c \in Calls, todo' = <<c>> \o Rest
  PROVE  Pushed(c)
<1>1. todo \in Seq(Calls)
  BY InvParts
<1> DEFINE s == <<c>>
<1>2. s \in Seq(Calls) /\ s # <<>> /\ Head(s) = c /\ Tail(s) = <<>> /\ Elements(s) = {c}
  BY ElementsOfOne
<1>3. todo' = s \o Rest
  OBVIOUS
<1> HIDE DEF s
<1>4. /\ todo' \in Seq(Calls) /\ todo' # <<>> /\ Head(todo') = c
      /\ Elements(todo') = {c} \cup Elements(Rest)
      /\ Elements(Tail(todo')) = {} \cup Elements(Rest)
  BY <1>1, <1>2, <1>3, CallsPushed, ElementsOfNone
<1> QED BY <1>4 DEF Pushed

LEMMA CallsInvPushedOne ==
  ASSUME PlaybackInv, todo # <<>>, UNCHANGED layout, NEW c, Pushed(c),
         c.op \in RegionCalls => c.region \in Regions,
         c.op \notin {"finished", "placeMedia"}
  PROVE  CallsInv'
<1>1. Elements(Rest) \subseteq NestedCalls
  BY InvParts DEF CallsInv
<1>2. NestedCalls' = NestedCalls /\ Regions' = Regions
  BY SameLayout DEF NestedCalls
<1> QED BY <1>1, <1>2 DEF CallsInv, Calling, Rest, Pushed

(* A call goes on to another one, and media are as they were.              *)
LEMMA CallGoesOn ==
  ASSUME PlaybackInv, todo # <<>>, NEW c \in Calls, todo' = <<c>> \o Rest,
         c.op \notin {"finished", "placeMedia", "startLayout"},
         c.op \in RegionCalls => c.region \in Regions,
         c.op = "expired" => Quiet /\ expiredRegions = Regions,
         c.op = "restart" => expiredRegions = Regions,
         UNCHANGED <<slot, layoutVars, unsafeVars, requests>>, depth' \in Nat,
         ~Calling("startLayout"),
         \A r \in Regions \ expiredRegions :
           \/ Ending(r)'
           \/ \A op \in RegionCalls :
                /\ Pending(op, r)
                /\ op = "checkExpired" => Len(layout.regions[r].media) = 1
                => Pending(op, r)'
  PROVE  PlaybackInv'
<1>0. /\ ScreenTypeOK /\ LayoutInv /\ MediaInv /\ CallsInv /\ HeadInv
      /\ CurrentInv /\ PlacingInv /\ MovingInv
      /\ layout \in Layout /\ todo \in Seq(Calls)
  BY InvParts
<1>1. Pushed(c)
  BY OneCallPushed
<1>2. ScreenTypeOK'
  BY <1>0, <1>1 DEF ScreenTypeOK, layoutVars, unsafeVars, Regions, Pushed
<1>3. LayoutInv' /\ MediaInv' /\ CurrentInv'
  BY <1>0 DEF LayoutInv, MediaInv, CurrentInv, layoutVars, Regions, Media, Options
<1>4. CallsInv'
  BY <1>1, CallsInvPushedOne DEF layoutVars
<1>5. HeadInv'
  BY <1>1 DEF HeadInv, Calling, Pushed, Quiet, Regions, Media, layoutVars
<1>6. PlacingInv'
  <2>1. \A d \in Elements(todo') : d.op = "placeMedia" => d \in Elements(todo)
    BY <1>0, <1>1, CallFacts DEF Pushed
  <2> QED BY <1>0, <2>1, PlacingKept DEF layoutVars, unsafeVars
<1>7. MovingInv'
  BY <1>0, MovingKept DEF layoutVars
<1> QED BY <1>2, <1>3, <1>4, <1>5, <1>6, <1>7 DEF PlaybackInv

(* A call has been made, and media are as they were.                       *)
LEMMA CallPopped ==
  ASSUME PlaybackInv, todo # <<>>, todo' = Rest, ~Calling("startLayout"),
         expiredRegions \subseteq expiredRegions', expiredRegions' \subseteq Regions,
         UNCHANGED <<slot, layoutId, layout, play, current, age, mediaIntervals,
                     unsafeVars, depth, requests>>,
         \A r \in Regions \ expiredRegions' : \A op \in RegionCalls :
           /\ Pending(op, r)
           /\ op = "checkExpired" => Len(layout.regions[r].media) = 1
           => Pending(op, r)'
  PROVE  PlaybackInv'
<1>0. /\ ScreenTypeOK /\ LayoutInv /\ MediaInv /\ CallsInv /\ HeadInv
      /\ CurrentInv /\ PlacingInv /\ MovingInv
      /\ layout \in Layout /\ todo \in Seq(Calls)
  BY InvParts
<1>1. <<>> \in Seq(Calls) /\ todo' \in Seq(Calls) /\ todo' = <<>> \o Rest
  BY <1>0, CallFacts, ConcatEmptySeq, EmptySeq
<1>2. ScreenTypeOK'
  BY <1>0, <1>1 DEF ScreenTypeOK, unsafeVars, Regions
<1>3. LayoutInv' /\ MediaInv' /\ CurrentInv'
  BY <1>0 DEF LayoutInv, MediaInv, CurrentInv, Regions, Media, Options
<1>4. CallsInv'
  BY <1>0, <1>1, CallsInvPushed
<1>5. HeadInv'
  BY <1>0, HeadInvPopped
<1>6. PlacingInv'
  <2>1. \A d \in Elements(todo') : d \in Elements(todo)
    BY <1>0, CallFacts
  <2> QED BY <1>0, <2>1, PlacingKept DEF unsafeVars
<1>7. MovingInv'
  BY <1>0, MovingKept
<1> QED BY <1>2, <1>3, <1>4, <1>5, <1>6, <1>7 DEF PlaybackInv

LEMMA MediaFinishedStays ==
  ASSUME PlaybackInv, Calling("finished"), NEW r \in Regions, Head(todo).region = r,
         ~ShouldBeMediaReplaced(r),
         todo' = <<Call("checkExpired", r, 0)>> \o Rest,
         UNCHANGED <<slot, layoutVars, unsafeVars, depth, requests>>
  PROVE  PlaybackInv'
<1> DEFINE c == Call("checkExpired", r, 0)
<1>1. c \in Calls /\ c.op = "checkExpired" /\ c.region = r
  <2>1. "checkExpired" \in Operations /\ 0 \in Nat
    BY DEF Operations
  <2> QED BY <2>1, InvParts, CallType
<1>2. todo # <<>> /\ ~Calling("startLayout") /\ depth' \in Nat
  BY InvParts DEF Calling, ScreenTypeOK
<1>3. todo' = <<c>> \o Rest
  OBVIOUS
<1> HIDE DEF c
<1>4. Pushed(c)
  BY <1>1, <1>2, <1>3, OneCallPushed
<1>5. Len(layout.regions[r].media) = 1
  <2> DEFINE n == Len(layout.regions[r].media)
  <2>1. n \in Nat /\ n # 0
    BY InvParts, LayoutLengths DEF Regions, LayoutInv
  <2>2. ~(n > 1)
    BY Zenon DEF ShouldBeMediaReplaced
  <2> HIDE DEF n
  <2>3. n = 1
    BY <2>1, <2>2
  <2> QED BY <2>3 DEF n
<1>6. Ending(r)'
  BY <1>1, <1>4, <1>5 DEF Ending, Pending, Pushed, layoutVars
<1>7. ASSUME NEW q \in Regions \ expiredRegions, q # r, NEW op, Pending(op, q)
      PROVE  Pending(op, q)'
  <2>1. Elements(Rest) \subseteq Elements(todo')
    BY <1>4 DEF Pushed
  <2> QED BY <1>2, <1>7, <2>1, InvParts, StillPending
<1> QED BY <1>1, <1>2, <1>3, <1>6, <1>7, CallGoesOn

LEMMA CheckExpiredSafe ==
  ASSUME PlaybackInv, CheckExpired
  PROVE  PlaybackInv'
<1>0. /\ ScreenTypeOK /\ LayoutInv /\ MediaInv /\ CallsInv /\ HeadInv
      /\ CurrentInv /\ PlacingInv /\ MovingInv
      /\ layout \in Layout /\ todo \in Seq(Calls)
  BY InvParts
<1> PICK r \in Regions : Head(todo).region = r
  BY <1>0 DEF CheckExpired, Calling, CallsInv, RegionCalls
<1>1. /\ todo # <<>> /\ Head(todo).op = "checkExpired" /\ ~Calling("startLayout")
      /\ depth' \in Nat
  BY <1>0 DEF CheckExpired, Calling, ScreenTypeOK
<1>2. UNCHANGED <<slot, layoutVars, unsafeVars, depth, requests>>
  BY DEF CheckExpired
<1>3. CASE current[r] = 1
  <2> DEFINE c == Call("regionExpired", r, 0)
  <2>1. c \in Calls /\ c.op = "regionExpired" /\ c.region = r
    <3>1. "regionExpired" \in Operations /\ 0 \in Nat
      BY DEF Operations
    <3> QED BY <1>1, <3>1, InvParts, CallType
  <2>2. todo' = <<c>> \o Rest
    BY <1>3 DEF CheckExpired
  <2> HIDE DEF c
  <2>3. Pushed(c)
    BY <1>1, <2>1, <2>2, OneCallPushed
  <2>4. Ending(r)'
    BY <2>1, <2>3 DEF Ending, Pending, Pushed
  <2>5. ASSUME NEW q \in Regions \ expiredRegions, q # r, NEW op, Pending(op, q)
        PROVE  Pending(op, q)'
    <3>1. Elements(Rest) \subseteq Elements(todo')
      BY <2>3 DEF Pushed
    <3> QED BY <1>0, <1>1, <2>5, <3>1, StillPending
  <2> QED BY <1>1, <1>2, <2>1, <2>2, <2>4, <2>5, CallGoesOn
<1>4. CASE current[r] # 1
  <2>1. todo' = Rest
    <3>1. todo' = <<>> \o Rest
      BY <1>4 DEF CheckExpired
    <3> QED BY <1>0, <1>1, <3>1, CallFacts, ConcatEmptySeq
  <2>2. Len(layout.regions[r].media) # 1
    <3> DEFINE n == Len(layout.regions[r].media)
               i == current[r]
    <3>1. i \in 1..n
      BY InvParts DEF Media
    <3>2. i # 1
      BY <1>4
    <3> HIDE DEF n, i
    <3>3. n # 1
      BY <3>1, <3>2
    <3> QED BY <3>3 DEF n
  <2>3. ASSUME NEW q \in Regions, NEW op, Pending(op, q),
               op = "checkExpired" => Len(layout.regions[q].media) = 1
        PROVE  Pending(op, q)'
    <3>1. ~(Head(todo).op = op /\ Head(todo).region = q)
      BY <1>1, <2>2, <2>3
    <3>2. Elements(Rest) \subseteq Elements(todo')
      BY <2>1
    <3> QED BY <1>0, <1>1, <2>3, <3>1, <3>2, StillPending
  <2>4. expiredRegions \subseteq expiredRegions' /\ expiredRegions' \subseteq Regions
    BY <1>0, <1>2 DEF ScreenTypeOK, layoutVars
  <2> QED BY <1>1, <1>2, <2>1, <2>3, <2>4, CallPopped DEF layoutVars
<1> QED BY <1>3, <1>4

LEMMA PlaceCalls ==
  ASSUME PlaybackInv, NEW s, s = [r \in Regions |-> Call("placeMedia", r, 1)]
  PROVE  /\ s \in Seq(Calls)
         /\ \A c \in Elements(s) : /\ c \in Calls /\ c.op = "placeMedia"
                                   /\ c.region \in Regions /\ c.media = 1
         /\ \A r \in Regions : Call("placeMedia", r, 1) \in Elements(s)
         /\ s # <<>> => Head(s) \in Elements(s) /\ Elements(Tail(s)) \subseteq Elements(s)
<1>1. ASSUME NEW r \in Regions
      PROVE  /\ Call("placeMedia", r, 1) \in Calls
             /\ Call("placeMedia", r, 1).op = "placeMedia"
             /\ Call("placeMedia", r, 1).region = r
             /\ Call("placeMedia", r, 1).media = 1
  <2>1. "placeMedia" \in Operations /\ 1 \in Nat
    BY DEF Operations
  <2> QED BY <2>1, InvParts, CallType
<1> DEFINE n == Len(layout.regions)
<1>2. n \in Nat /\ Regions = 1..n
  BY InvParts, LayoutLengths DEF Regions
<1>3. s \in [1..n -> Calls] /\ DOMAIN s = Regions
  BY <1>1, <1>2
<1>4. s \in Seq(Calls)
  <2> HIDE DEF n
  <2> QED BY <1>2, <1>3
<1>5. \A c \in Elements(s) : \E r \in Regions : c = Call("placeMedia", r, 1)
  BY <1>3 DEF Elements
<1>6. \A r \in Regions : Call("placeMedia", r, 1) \in Elements(s)
  BY <1>3 DEF Elements
<1>7. s # <<>> => Head(s) \in Elements(s) /\ Elements(Tail(s)) \subseteq Elements(s)
  BY <1>4, HeadAndRest
<1>8. \A c \in Elements(s) : /\ c \in Calls /\ c.op = "placeMedia"
                             /\ c.region \in Regions /\ c.media = 1
  <2> TAKE c \in Elements(s)
  <2>1. PICK r \in Regions : c = Call("placeMedia", r, 1)
    BY <1>5
  <2> QED BY <1>1, <2>1
<1> QED BY <1>4, <1>6, <1>7, <1>8

LEMMA StartLayoutSafe ==
  ASSUME PlaybackInv, StartLayout
  PROVE  PlaybackInv'
<1>0. /\ ScreenTypeOK /\ LayoutInv /\ MediaInv /\ CallsInv /\ HeadInv
      /\ CurrentInv /\ PlacingInv /\ MovingInv
      /\ layout \in Layout /\ todo \in Seq(Calls)
  BY InvParts
<1>1. /\ todo # <<>> /\ Quiet /\ \A id \in MediaIds : mediaIntervals[id] = NotPlayed
      /\ Elements(Rest) \subseteq NestedCalls
  BY <1>0 DEF StartLayout, Calling, HeadInv, CallsInv
<1> DEFINE s == [r \in Regions |-> Call("placeMedia", r, 1)]
<1>2. todo' = s \o Rest
  BY DEF StartLayout
<1>3. /\ s \in Seq(Calls)
      /\ \A c \in Elements(s) : /\ c \in Calls /\ c.op = "placeMedia"
                                /\ c.region \in Regions /\ c.media = 1
      /\ \A r \in Regions : Call("placeMedia", r, 1) \in Elements(s)
      /\ s # <<>> => Head(s) \in Elements(s) /\ Elements(Tail(s)) \subseteq Elements(s)
  BY PlaceCalls
<1> HIDE DEF s
<1>4. UNCHANGED <<slot, layoutId, layout, play, current, expiredRegions,
                  mediaIntervals, unsafeVars, depth, requests>> /\ age' = 0
  BY DEF StartLayout
<1>5. /\ todo' \in Seq(Calls)
      /\ Elements(todo') = Elements(s) \cup Elements(Rest)
      /\ s # <<>> => todo' # <<>> /\ Head(todo') = Head(s)
      /\ s = <<>> => todo' = Rest
  BY <1>0, <1>1, <1>2, <1>3, CallsPushed
<1>6. ScreenTypeOK'
  BY <1>0, <1>4, <1>5, Ttls DEF ScreenTypeOK, unsafeVars, Regions
<1>7. LayoutInv' /\ CurrentInv'
  BY <1>0, <1>4 DEF LayoutInv, CurrentInv, Regions, Media
<1>8. MediaInv'
  <2>1. \A id \in MediaIds : mediaIntervals'[id] <= age'
    BY <1>1, <1>4 DEF NotPlayed
  <2>2. ASSUME NEW q \in Regions, NEW j \in Media(q)
        PROVE  MediumInv(Options(q, j), play[q][j], age)'
    <3>1. MediumInv(Options(q, j), play[q][j], age) /\ ~play[q][j].playing
      BY <1>0, <1>1 DEF MediaInv, Quiet
    <3>2. MediumInv(Options(q, j), play[q][j], age')
      BY <3>1 DEF MediumInv
    <3> QED BY <1>4, <3>2, SameLayout
  <2> QED BY <1>4, <2>1, <2>2, SameLayout DEF MediaInv
<1>9. CallsInv'
  <2>1. ASSUME s # <<>>
        PROVE  /\ Elements(Tail(s)) \subseteq NestedCalls
               /\ Head(s).op \in RegionCalls => Head(s).region \in Regions
               /\ Head(s).op # "finished"
               /\ Head(s).op = "placeMedia" => Head(s).media = 1
    <3>1. Elements(s) \subseteq NestedCalls
      BY <1>3 DEF NestedCalls
    <3> QED BY <1>3, <2>1, <3>1
  <2> QED BY <1>0, <1>1, <1>2, <1>3, <1>4, <2>1, CallsInvPushed
<1>10. HeadInv'
  <2>1. CASE s = <<>>
    BY <1>0, <1>1, <1>5, <2>1, HeadInvPopped
  <2>2. CASE s # <<>>
    BY <1>3, <1>5, <2>2 DEF HeadInv, Calling
  <2> QED BY <2>1, <2>2
<1>11. PlacingInv'
  <2>1. \A q \in Regions : \A j \in Media(q) : ~play'[q][j].playing
    BY <1>1, <1>4 DEF Quiet
  <2>2. ASSUME NEW c \in Elements(todo'), c.op = "placeMedia"
        PROVE  c.region \in Regions
    BY <1>1, <1>3, <1>5, <2>2 DEF NestedCalls, RegionCalls
  <2> QED BY <1>4, <2>1, <2>2, SameLayout DEF PlacingInv, Placing
<1>12. MovingInv'
  <2>1. ASSUME NEW q \in Regions
        PROVE  Steady(q)' /\ Occupied(q)'
    <3>1. Call("placeMedia", q, 1) \in Elements(todo')
      BY <1>3, <1>5
    <3>2. Call("placeMedia", q, 1).op = "placeMedia" /\ Call("placeMedia", q, 1).region = q
      BY DEF Call
    <3>3. Pending("placeMedia", q)'
      BY <3>1, <3>2 DEF Pending
    <3>4. Steady(q)'
      BY <1>1, <1>4, SameLayout DEF Steady, Quiet
    <3> QED BY <3>3, <3>4 DEF Occupied
  <2> QED BY <1>4, <2>1, SameLayout DEF MovingInv
<1> QED BY <1>6, <1>7, <1>8, <1>9, <1>10, <1>11, <1>12 DEF PlaybackInv

LEMMA RegionExpiredSafe ==
  ASSUME PlaybackInv, RegionExpired
  PROVE  PlaybackInv'
<1>0. /\ ScreenTypeOK /\ LayoutInv /\ MediaInv /\ CallsInv /\ HeadInv
      /\ CurrentInv /\ PlacingInv /\ MovingInv
      /\ layout \in Layout /\ todo \in Seq(Calls)
  BY InvParts
<1> PICK r \in Regions : Head(todo).region = r
  BY <1>0 DEF RegionExpired, Calling, CallsInv, RegionCalls
<1>1. /\ todo # <<>> /\ Head(todo).op = "regionExpired" /\ ~Calling("startLayout")
      /\ expiredRegions' = expiredRegions \cup {r}
      /\ UNCHANGED <<slot, layoutId, layout, current, age, unsafeVars, depth, requests>>
  BY DEF RegionExpired, Calling
<1>2. expiredRegions \subseteq expiredRegions' /\ expiredRegions' \subseteq Regions
  BY <1>0, <1>1 DEF ScreenTypeOK
<1>3. CASE expiredRegions' # Regions
  <2>1. todo' = Rest /\ UNCHANGED <<play, mediaIntervals>>
    BY <1>3 DEF RegionExpired
  <2>2. ASSUME NEW q \in Regions \ expiredRegions', NEW op, Pending(op, q)
        PROVE  Pending(op, q)'
    <3>1. q # r /\ Elements(Rest) \subseteq Elements(todo')
      BY <1>1, <2>1
    <3> QED BY <1>0, <1>1, <2>2, <3>1, StillPending
  <2> QED BY <1>1, <1>2, <2>1, <2>2, CallPopped
<1>4. CASE expiredRegions' = Regions
  <2> DEFINE c == Call("expired", 0, 0)
  <2>1. c \in Calls /\ c.op = "expired"
    <3>1. "expired" \in Operations /\ 0 \in Nat
      BY DEF Operations
    <3> QED BY <3>1, CallType
  <2>2. /\ todo' = <<c>> \o Rest /\ play' = StopRegions
        /\ mediaIntervals' = MediaIntervals(AllMedia)
    BY <1>4 DEF RegionExpired
  <2> HIDE DEF c
  <2>3. Pushed(c)
    BY <1>1, <2>1, <2>2, OneCallPushed
  <2>4. AllStopped
    BY <1>1, <2>2, StopAll
  <2>5. IntervalsInv(mediaIntervals', age)
    BY <2>2, MediaIntervalsInv
  <2>6. ScreenTypeOK'
    BY <1>0, <1>1, <1>2, <2>3, <2>4, <2>5
       DEF ScreenTypeOK, Shaped, AllStopped, IntervalsInv, unsafeVars, Regions, Pushed
  <2>7. LayoutInv'
    BY <1>0, <1>1, <2>4 DEF LayoutInv, AllStopped, Regions, Media
  <2>8. MediaInv'
    BY <1>1, <2>4, <2>5, SameLayout DEF MediaInv, IntervalsInv, AllStopped
  <2>9. CallsInv'
    BY <1>1, <2>1, <2>3, CallsInvPushedOne DEF RegionCalls
  <2>10. Quiet' /\ expiredRegions' = Regions'
    BY <1>1, <1>4, <2>4, SameLayout DEF AllStopped
  <2>11. HeadInv'
    BY <2>1, <2>3, <2>10 DEF HeadInv, Calling, Pushed
  <2>12. CurrentInv'
    BY <2>10 DEF CurrentInv, Quiet
  <2>13. PlacingInv'
    <3>1. \A d \in Elements(todo') : d.op = "placeMedia" => d \in Elements(todo)
      BY <1>0, <1>1, <2>1, <2>3, CallFacts DEF Pushed
    <3>2. \A q \in Regions : \A j \in Media(q) : ~play'[q][j].playing
      BY <1>1, <2>10, SameLayout DEF Quiet
    <3> QED BY <1>0, <1>1, <3>1, <3>2, PlacingKept DEF unsafeVars
  <2>14. MovingInv'
    BY <2>10 DEF MovingInv
  <2> QED BY <2>6, <2>7, <2>8, <2>9, <2>11, <2>12, <2>13, <2>14 DEF PlaybackInv
<1> QED BY <1>3, <1>4

LEMMA LayoutExpiredSafe ==
  ASSUME PlaybackInv, LayoutExpired
  PROVE  PlaybackInv'
<1>0. HeadInv /\ CallsInv /\ todo \in Seq(Calls) /\ depth \in Nat
  BY InvParts DEF ScreenTypeOK
<1>1. /\ todo # <<>> /\ expiredRegions = Regions /\ ~Calling("startLayout")
      /\ UNCHANGED <<slot, layoutVars, unsafeVars, requests>> /\ depth' \in Nat
  BY <1>0 DEF LayoutExpired, HeadInv, Calling
<1>2. ASSUME NEW op \in {"fetchMainLayout", "restart"}, todo' = <<Call(op, 0, 0)>> \o Rest
      PROVE  PlaybackInv'
  <2> DEFINE c == Call(op, 0, 0)
  <2>1. c \in Calls /\ c.op = op
    <3>1. op \in Operations /\ 0 \in Nat
      BY DEF Operations
    <3> QED BY <3>1, CallType
  <2>2. todo' = <<c>> \o Rest
    BY <1>2
  <2> HIDE DEF c
  <2>3. c.op \notin {"finished", "placeMedia", "startLayout", "expired"} \cup RegionCalls
    BY <2>1 DEF RegionCalls
  <2> QED BY <1>1, <2>1, <2>2, <2>3, CallGoesOn
<1> QED BY <1>2 DEF LayoutExpired

LEMMA RestartSafe ==
  ASSUME PlaybackInv, Restart
  PROVE  PlaybackInv'
<1>0. /\ ScreenTypeOK /\ LayoutInv /\ MediaInv /\ CallsInv /\ HeadInv
      /\ CurrentInv /\ PlacingInv /\ MovingInv
      /\ layout \in Layout /\ todo \in Seq(Calls)
  BY InvParts
<1>1. /\ todo # <<>> /\ Head(todo).op = "restart"
      /\ expiredRegions' = {} /\ play' = StopRegions
      /\ mediaIntervals' = [id \in MediaIds |-> NotPlayed]
      /\ UNCHANGED <<slot, layoutId, layout, current, age, unsafeVars, depth, requests>>
  BY DEF Restart, Calling
<1> DEFINE c == Call("startLayout", 0, 0)
<1>2. c \in Calls /\ c.op = "startLayout"
  <2>1. "startLayout" \in Operations /\ 0 \in Nat
    BY DEF Operations
  <2> QED BY <2>1, CallType
<1>3. todo' = <<c>> \o Rest
  BY DEF Restart
<1> HIDE DEF c
<1>4. Pushed(c)
  BY <1>1, <1>2, <1>3, OneCallPushed
<1>5. AllStopped
  BY <1>1, StopAll
<1>6. /\ mediaIntervals' \in [MediaIds -> NotPlayed..MaxAge]
      /\ \A id \in MediaIds : mediaIntervals'[id] <= age /\ mediaIntervals'[id] = NotPlayed
  BY <1>0, <1>1, Ttls DEF ScreenTypeOK, NotPlayed
<1>7. ScreenTypeOK'
  BY <1>0, <1>1, <1>4, <1>5, <1>6
     DEF ScreenTypeOK, Shaped, AllStopped, unsafeVars, Regions, Pushed
<1>8. LayoutInv'
  BY <1>0, <1>1, <1>5 DEF LayoutInv, AllStopped, Regions, Media
<1>9. MediaInv'
  BY <1>1, <1>5, <1>6, SameLayout DEF MediaInv, AllStopped
<1>10. CallsInv'
  BY <1>1, <1>2, <1>4, CallsInvPushedOne DEF RegionCalls
<1>11. HeadInv' /\ Quiet'
  BY <1>2, <1>4, <1>5, <1>6 DEF HeadInv, Calling, Pushed, AllStopped
<1>12. CurrentInv'
  BY <1>11 DEF CurrentInv, Quiet
<1>13. PlacingInv'
  <2>1. \A d \in Elements(todo') : d.op = "placeMedia" => d \in Elements(todo)
    BY <1>0, <1>1, <1>2, <1>4, CallFacts DEF Pushed
  <2>2. \A q \in Regions : \A j \in Media(q) : ~play'[q][j].playing
    BY <1>1, <1>11, SameLayout DEF Quiet
  <2> QED BY <1>0, <1>1, <2>1, <2>2, PlacingKept DEF unsafeVars
<1>14. MovingInv'
  <2>1. Calling("startLayout")'
    BY <1>2, <1>4 DEF Calling, Pushed
  <2>2. \A q \in Regions' : Steady(q)'
    BY <1>11 DEF Steady, Quiet
  <2> QED BY <2>1, <2>2 DEF MovingInv, Occupied
<1> QED BY <1>7, <1>8, <1>9, <1>10, <1>11, <1>12, <1>13, <1>14 DEF PlaybackInv

(* A layout that is loaded, or none.                                       *)
LoadOf(id, l) ==
  \/ id = NoLayoutId /\ l = NoLayout /\ todo' = <<>>
  \/ id \in LayoutIds /\ HasContent(l) /\ todo' = <<Call("startLayout", 0, 0)>>

LEMMA LoadSafe ==
  ASSUME NEW id, NEW l \in Layout, Load(id, l), LoadOf(id, l),
         slot' \in {"main", "overlay"},
         unsafeMedia' \in [MediaIds -> Nat], unsafeWidget' \in [MediaIds -> Nat],
         unsafeLayout' \in [LayoutIds -> Nat],
         depth' \in Nat, requests' \in 0..MaxRequests
  PROVE  PlaybackInv'
<1>1. /\ layoutId' = id /\ layout' = l /\ expiredRegions' = {} /\ age' = 0
      /\ mediaIntervals' = [id2 \in MediaIds |-> NotPlayed]
      /\ play' = [r \in 1..Len(l.regions) |->
                    [i \in 1..Len(l.regions[r].media) |-> NewMedium]]
      /\ current' = [r \in 1..Len(l.regions) |-> 1]
  BY DEF Load
<1>2. NoLayout = [regions |-> <<>>, stat |-> FALSE] /\ Len(NoLayout.regions) = 0
  BY DEF NoLayout
<1>3. /\ \A r \in 1..Len(l.regions) : Len(l.regions[r].media) # 0
      /\ id = NoLayoutId => l = NoLayout
      /\ id # NoLayoutId => Len(l.regions) # 0
  BY <1>2, PlaybackAssumption DEF LoadOf, HasContent
<1>4. 0 \in 0..MaxAge /\ NewMedium \in MediumState /\ ~NewMedium.playing
  BY Ttls DEF NewMedium, MediumState, NoTimer
<1>5. Shaped(play', l)
  <2> DEFINE p == play'
  <2>1. /\ p = [r \in 1..Len(l.regions) |-> p[r]]
        /\ \A r \in 1..Len(l.regions) :
             /\ p[r] = [i \in 1..Len(l.regions[r].media) |-> p[r][i]]
             /\ \A i \in 1..Len(l.regions[r].media) : p[r][i] \in MediumState
    BY <1>1, <1>4
  <2> HIDE DEF p
  <2>2. Shaped(p, l)
    BY <2>1, ShapeOf
  <2> QED BY <2>2 DEF p
<1>6. /\ Regions' = 1..Len(l.regions)
      /\ \A r : Media(r)' = 1..Len(l.regions[r].media)
      /\ \A r, i : Options(r, i)' = l.regions[r].media[i]
  BY <1>1 DEF Regions, Media, Options
<1>7. current' \in Seq(Nat \ {0}) /\ Len(current') = Len(l.regions)
  <2> DEFINE n == Len(l.regions)
  <2>1. n \in Nat /\ current' = [r \in 1..n |-> 1]
    BY <1>1, LayoutLengths
  <2> HIDE DEF n
  <2>2. current' \in Seq(Nat \ {0}) /\ Len(current') = n
    BY <2>1
  <2> QED BY <2>2 DEF n
<1>8. \A r \in 1..Len(l.regions) : current'[r] \in 1..Len(l.regions[r].media)
  <2> TAKE r \in 1..Len(l.regions)
  <2> DEFINE n == Len(l.regions[r].media)
  <2>1. n \in Nat /\ n # 0 /\ current'[r] = 1
    BY <1>1, <1>3, LayoutLengths
  <2> HIDE DEF n
  <2>2. current'[r] \in 1..n
    BY <2>1
  <2> QED BY <2>2 DEF n
<1>9. LayoutInv'
  BY <1>1, <1>3, <1>5, <1>6, <1>7, <1>8 DEF LayoutInv, Shaped
<1>10. Quiet'
  BY <1>1, <1>4, <1>6 DEF Quiet
<1>11. mediaIntervals' \in [MediaIds -> NotPlayed..MaxAge]
       /\ \A i \in MediaIds : mediaIntervals'[i] = NotPlayed /\ mediaIntervals'[i] <= age'
  BY <1>1, Ttls DEF NotPlayed
<1>12. MediaInv'
  <2>1. ASSUME NEW q \in Regions', NEW j \in Media(q)'
        PROVE  MediumInv(Options(q, j), play[q][j], age)'
    <3>1. Options(q, j)' \in Medium /\ play'[q][j] = NewMedium /\ age' \in 0..MaxAge
      BY <1>1, <1>4, <1>6, LayoutLengths
    <3> QED BY <3>1, NewMediumIsStopped
  <2> QED BY <1>11, <2>1 DEF MediaInv
<1>13. /\ CallsInv' /\ todo' \in Seq(Calls)
       /\ todo' = <<>> \/ (todo' # <<>> /\ Head(todo').op = "startLayout")
       /\ \A c \in Elements(todo') : c.op = "startLayout"
  <2>1. CASE todo' = <<>>
    BY <2>1, CallsInvNone
  <2>2. CASE todo' = <<Call("startLayout", 0, 0)>>
    <3> DEFINE c == Call("startLayout", 0, 0)
    <3>1. c \in Calls /\ c.op = "startLayout"
      <4>1. "startLayout" \in Operations /\ 0 \in Nat
        BY DEF Operations
      <4> QED BY <4>1, CallType
    <3>2. todo' = <<c>>
      BY <2>2
    <3> HIDE DEF c
    <3> QED BY <3>1, <3>2, CallsInvOne DEF RegionCalls
  <2> QED BY <2>1, <2>2 DEF LoadOf
<1>14. ScreenTypeOK'
  BY <1>1, <1>3, <1>4, <1>5, <1>6, <1>7, <1>11, <1>13 DEF ScreenTypeOK, Shaped, LoadOf
<1>15. HeadInv' /\ PlacingInv' /\ CurrentInv'
  BY <1>10, <1>11, <1>13 DEF HeadInv, PlacingInv, Placing, CurrentInv, Calling, Quiet
<1>16. MovingInv'
  <2>1. CASE id = NoLayoutId
    BY <1>2, <1>3, <1>6, <2>1 DEF MovingInv
  <2>2. CASE id # NoLayoutId
    <3>1. Calling("startLayout")'
      <4>1. todo' # <<>>
        BY <1>13, <2>2, ElementsOfOne DEF LoadOf
      <4> QED BY <1>13, <4>1 DEF Calling
    <3>2. \A q \in Regions' : Steady(q)'
      BY <1>10 DEF Steady, Quiet
    <3> QED BY <3>1, <3>2 DEF MovingInv, Occupied
  <2> QED BY <2>1, <2>2
<1> QED BY <1>9, <1>12, <1>13, <1>14, <1>15, <1>16 DEF PlaybackInv

LEMMA CreateLayoutSafe ==
  ASSUME PlaybackInv, NEW id \in LayoutIds, CreateLayout(id),
         slot' \in {"main", "overlay"},
         UNCHANGED <<unsafeMedia, unsafeWidget>>,
         depth' \in Nat, requests' \in 0..MaxRequests
  PROVE  PlaybackInv'
<1>1. DocumentOf[id] \in Document
  BY PlaybackAssumption
<1>2. /\ unsafeMedia' \in [MediaIds -> Nat] /\ unsafeWidget' \in [MediaIds -> Nat]
      /\ unsafeLayout \in [LayoutIds -> Nat]
  BY InvParts DEF ScreenTypeOK
<1>3. unsafeLayout' \in [LayoutIds -> Nat]
  <2>1. CASE id \in FlaggedByParser
    <3>1. unsafeLayout' = [unsafeLayout EXCEPT ![id] = Max({@, UnsafeRegionTtl})]
      BY <2>1 DEF CreateLayout
    <3> QED BY <1>2, <3>1, Ttls, FlagLayoutType
  <2>2. CASE id \notin FlaggedByParser
    BY <1>2, <2>2 DEF CreateLayout
  <2> QED BY <2>1, <2>2
<1>4. CASE id \in Loadable
  <2> DEFINE l == LayoutOf[id]
  <2>1. l \in Layout /\ HasContent(l)
    <3>1. l = LayoutFrom(DocumentOf[id]) /\ LayoutParses(DocumentOf[id])
      BY <1>4 DEF LayoutOf, Loadable
    <3> QED BY <1>1, <3>1, LayoutFromType
  <2>2. Load(id, l) /\ todo' = <<Call("startLayout", 0, 0)>>
    BY <1>4 DEF CreateLayout
  <2> HIDE DEF l
  <2>3. LoadOf(id, l)
    BY <2>1, <2>2 DEF LoadOf
  <2> QED BY <1>2, <1>3, <2>1, <2>2, <2>3, LoadSafe
<1>5. CASE id \notin Loadable
  <2>1. NoLayout \in Layout
    BY DEF NoLayout, Layout
  <2>2. Load(NoLayoutId, NoLayout) /\ LoadOf(NoLayoutId, NoLayout)
    BY <1>5 DEF CreateLayout, LoadOf
  <2> QED BY <1>2, <1>3, <2>1, <2>2, LoadSafe
<1> QED BY <1>4, <1>5

-----------------------------------------------------------------------------
(* The queue                                                               *)

QueueInv == queue \in Seq(LayoutIds)

LEMMA RotatedIndex ==
  ASSUME NEW S, NEW q \in Seq(S), q # <<>>
  PROVE  /\ Rotated(q) \in Seq(S) /\ Len(Rotated(q)) = Len(q)
         /\ Len(q) \in Nat /\ Len(q) # 0
         /\ \A i \in 1..Len(q) : Rotated(q)[i] = IF i < Len(q) THEN q[i + 1] ELSE q[1]
<1> DEFINE t == Tail(q)
           h == <<Head(q)>>
<1>1. /\ Head(q) \in S /\ Head(q) = q[1] /\ t \in Seq(S) /\ Len(t) = Len(q) - 1
      /\ \A i \in 1..Len(t) : t[i] = q[i + 1]
  BY HeadTailProperties
<1>2. Len(q) \in Nat /\ Len(q) # 0
  BY EmptySeq, HeadTailProperties
<1>3. h \in Seq(S) /\ Len(h) = 1 /\ h[1] = q[1]
  BY <1>1
<1> HIDE DEF t, h
<1>4. /\ t \o h \in Seq(S) /\ Len(t \o h) = Len(t) + Len(h)
      /\ \A i \in 1..Len(t) + Len(h) :
           (t \o h)[i] = IF i <= Len(t) THEN t[i] ELSE h[i - Len(t)]
  BY <1>1, <1>3, ConcatProperties
<1>5. ASSUME NEW i \in 1..Len(q)
      PROVE  (t \o h)[i] = IF i < Len(q) THEN q[i + 1] ELSE q[1]
  <2>1. CASE i < Len(q)
    BY <1>1, <1>2, <1>3, <1>4, <2>1
  <2>2. CASE i = Len(q)
    <3>1. i - Len(t) = 1 /\ ~(i <= Len(t)) /\ i \in 1..Len(t) + Len(h)
      BY <1>1, <1>2, <1>3, <2>2
    <3>2. (t \o h)[i] = h[i - Len(t)]
      BY <1>4, <3>1
    <3> QED BY <1>3, <2>2, <3>1, <3>2
  <2>3. i < Len(q) \/ i = Len(q)
    BY <1>2
  <2> QED BY Zenon, <2>1, <2>2, <2>3
<1>6. Rotated(q) = t \o h
  BY DEF Rotated, t, h
<1> QED BY <1>1, <1>2, <1>3, <1>4, <1>5, <1>6

(* What the scheduler may make of its queue.                               *)
LEMMA QueueTypes ==
  ASSUME QueueInv
  PROVE  /\ \A unsafe : Reloaded(unsafe) \subseteq Seq(LayoutIds)
         /\ CurrentQueues \subseteq Seq(LayoutIds)
         /\ Rotations(queue) \subseteq Seq(LayoutIds)
<1>1. \A unsafe : Reloaded(unsafe) \subseteq Seq(LayoutIds)
  BY PlaybackAssumption DEF Reloaded
<1>2. CurrentQueues \subseteq Seq(LayoutIds)
  BY <1>1 DEF CurrentQueues, QueueInv
<1>3. ASSUME NEW i \in 1..Len(queue)
      PROVE  SubSeq(queue, i, Len(queue)) \o SubSeq(queue, 1, i - 1) \in Seq(LayoutIds)
  <2>1. Len(queue) \in Nat /\ \A j \in 1..Len(queue) : queue[j] \in LayoutIds
    BY LenProperties, ElementOfSeq DEF QueueInv
  <2> DEFINE n == Len(queue)
             a == SubSeq(queue, i, n)
             b == SubSeq(queue, 1, i - 1)
  <2>2. \A j \in i..n : queue[j] \in LayoutIds
    BY <2>1
  <2>3. \A j \in 1..(i - 1) : queue[j] \in LayoutIds
    BY <2>1
  <2>4. i \in Int /\ n \in Int /\ i - 1 \in Int /\ 1 \in Int
    BY <2>1
  <2>5. a \in Seq(LayoutIds)
    BY <2>2, <2>4, SubSeqProperties
  <2>6. b \in Seq(LayoutIds)
    BY <2>3, <2>4, SubSeqProperties
  <2> HIDE DEF a, b
  <2>7. a \o b \in Seq(LayoutIds)
    BY <2>5, <2>6, ConcatProperties
  <2> QED BY <2>7 DEF a, b
<1> QED BY <1>1, <1>2, <1>3 DEF Rotations

(* What a fetch takes from the queue.                                      *)
LEMMA FetchCases ==
  ASSUME QueueInv, FetchMainLayout
  PROVE  \E q \in CurrentQueues :
           /\ q \in Seq(LayoutIds)
           /\ \/ /\ q = <<>> /\ queue' = q /\ todo' = Rest
                 /\ UNCHANGED <<layoutVars, unsafeLayout, depth>>
              \/ \E id \in LayoutIds : unsafeLayout[id] = 0 /\ Fetch(id, q)
              \/ /\ q # <<>> /\ Head(q) \in LayoutIds
                 /\ Fetch(Head(q), Rotated(q)) /\ Rotated(q) \in Seq(LayoutIds)
<1>1. PICK q \in CurrentQueues :
        \/ /\ q = <<>> /\ queue' = q /\ todo' = Rest
           /\ UNCHANGED <<layoutVars, unsafeLayout, depth>>
        \/ \E id \in LayoutIds : unsafeLayout[id] = 0 /\ Fetch(id, q)
        \/ q # <<>> /\ Fetch(Head(q), Rotated(q))
  BY Zenon DEF FetchMainLayout
<1>2. q \in Seq(LayoutIds)
  BY QueueTypes
<1>3. q # <<>> => Head(q) \in LayoutIds /\ Rotated(q) \in Seq(LayoutIds)
  BY <1>2, HeadTailProperties, RotatedIndex
<1> QED BY <1>1, <1>2, <1>3

LEMMA QueueNext == QueueInv /\ [Next]_vars => QueueInv'
<1> SUFFICES ASSUME QueueInv, [Next]_vars PROVE QueueInv'
  OBVIOUS
<1>1. CASE FetchMainLayout
  <2>1. ASSUME NEW id, NEW q \in Seq(LayoutIds), Fetch(id, q) PROVE QueueInv'
    <3>1. queue' = q \/ \E unsafe : queue' \in Reloaded(unsafe)
      BY Zenon, <2>1 DEF Fetch
    <3> QED BY <3>1, QueueTypes DEF QueueInv
  <2> QED BY <1>1, <2>1, FetchCases, EmptySeq DEF QueueInv
<1>2. CASE Crash
  BY <1>2, EmptySeq DEF Crash, QueueInv
<1>3. CASE ScheduleChanges
  <2>1. queue' = queue \/ queue' \in Rotations(queue) \/ queue' \in Reloaded(unsafeLayout)
    BY <1>3 DEF ScheduleChanges
  <2> QED BY <2>1, QueueTypes DEF QueueInv
<1>4. CASE UNCHANGED queue
  BY <1>4 DEF QueueInv
<1>5. PendingCall => FetchMainLayout \/ Crash \/ UNCHANGED queue
  BY Zenon DEF PendingCall, PlaceMedia, MediaFinished, CheckExpired, StartLayout,
         RegionExpired, LayoutExpired, Restart
<1>6. Disturbance => ScheduleChanges \/ UNCHANGED queue
  BY Zenon DEF Disturbance, StreamFails, AudioFails,
         NavigateToWidget, ExpireDuration, ExtendDuration, SetDuration, Fault, Request
<1>7. UNCHANGED vars => UNCHANGED queue
  BY DEF vars
<1> QED BY Zenon, <1>1, <1>2, <1>3, <1>4, <1>5, <1>6, <1>7
        DEF Next, TimeOut, StreamEnd, TimerFires, EndOfStream, AudioEnds, Tick

LEMMA QueueAlways == Spec => []QueueInv
<1>1. Init => QueueInv
  BY EmptySeq DEF Init, QueueInv
<1> QED BY <1>1, QueueNext, PTL DEF Spec

-----------------------------------------------------------------------------
LEMMA FetchMainLayoutSafe ==
  ASSUME PlaybackInv, QueueInv, FetchMainLayout
  PROVE  PlaybackInv'
<1>0. /\ ScreenTypeOK /\ todo \in Seq(Calls)
  BY InvParts
<1>1. /\ todo # <<>> /\ Head(todo).op = "fetchMainLayout" /\ ~Calling("startLayout")
      /\ UNCHANGED <<slot, unsafeMedia, unsafeWidget, requests>>
      /\ slot' \in {"main", "overlay"} /\ requests' \in 0..MaxRequests
  BY <1>0 DEF FetchMainLayout, Calling, ScreenTypeOK
<1>2. CASE todo' = Rest /\ UNCHANGED <<layoutVars, unsafeLayout, depth>>
  <2>1. ASSUME NEW op \in RegionCalls, NEW q, Pending(op, q)
        PROVE  Pending(op, q)'
    <3>1. op # "fetchMainLayout" /\ Elements(Rest) \subseteq Elements(todo')
      BY <1>2 DEF RegionCalls
    <3> QED BY <1>0, <1>1, <2>1, <3>1, StillPending
  <2>2. expiredRegions \subseteq expiredRegions' /\ expiredRegions' \subseteq Regions
    BY <1>0, <1>2 DEF ScreenTypeOK, layoutVars
  <2> QED BY <1>1, <1>2, <2>1, <2>2, CallPopped DEF layoutVars, unsafeVars
<1>3. ASSUME NEW id \in LayoutIds, NEW q, Fetch(id, q) PROVE PlaybackInv'
  <2>1. CreateLayout(id) /\ depth' \in Nat
    BY <1>0, <1>3 DEF Fetch, ScreenTypeOK
  <2> QED BY <1>1, <2>1, CreateLayoutSafe
<1> QED BY <1>2, <1>3, FetchCases

LEMMA CrashSafe ==
  ASSUME PlaybackInv, Crash
  PROVE  PlaybackInv'
<1>1. NoLayout \in Layout
  BY DEF NoLayout, Layout
<1>2. Load(NoLayoutId, NoLayout) /\ LoadOf(NoLayoutId, NoLayout)
  BY DEF Crash, LoadOf
<1>3. /\ unsafeMedia' \in [MediaIds -> Nat] /\ unsafeWidget' \in [MediaIds -> Nat]
      /\ unsafeLayout' \in [LayoutIds -> Nat] /\ depth' \in Nat
  BY DEF Crash
<1>4. slot' \in {"main", "overlay"} /\ requests' \in 0..MaxRequests
  BY InvParts DEF Crash, ScreenTypeOK
<1> QED BY <1>1, <1>2, <1>3, <1>4, LoadSafe

LEMMA RequestsLeft ==
  ASSUME PlaybackInv, requests' = requests - 1, requests > 0
  PROVE  requests' \in 0..MaxRequests
<1>1. requests \in 0..MaxRequests /\ MaxRequests \in Nat
  BY InvParts, Ttls DEF ScreenTypeOK
<1> QED BY <1>1

LEMMA ScheduleChangesSafe ==
  ASSUME PlaybackInv, ScheduleChanges
  PROVE  PlaybackInv'
<1>0. /\ ScreenTypeOK /\ LayoutInv /\ MediaInv /\ CallsInv /\ HeadInv
      /\ CurrentInv /\ PlacingInv /\ MovingInv
      /\ layout \in Layout /\ todo = <<>>
  BY InvParts DEF ScheduleChanges, Idle
<1>1. requests' \in 0..MaxRequests
  <2>1. CASE UNCHANGED requests
    BY <1>0, <2>1 DEF ScreenTypeOK
  <2>2. CASE requests > 0 /\ requests' = requests - 1
    BY <2>2, RequestsLeft
  <2> QED BY <2>1, <2>2 DEF ScheduleChanges
<1>2. depth' \in Nat /\ UNCHANGED <<slot, unsafeMedia, unsafeWidget>>
      /\ slot' \in {"main", "overlay"}
  BY <1>0 DEF ScheduleChanges, ScreenTypeOK
<1>3. ASSUME NEW id \in LayoutIds, CreateLayout(id) PROVE PlaybackInv'
  BY <1>1, <1>2, <1>3, CreateLayoutSafe
<1>5. CASE todo' = <<>> /\ UNCHANGED <<layoutVars, unsafeLayout>>
  <2>1. /\ Elements(todo') = {} /\ todo' \in Seq(Calls) /\ ~Calling("startLayout")
        /\ \A op : ~Calling(op)'
    BY <1>5, ElementsOfNone, EmptySeq, <1>0 DEF Calling
  <2>2. ScreenTypeOK'
    BY <1>0, <1>1, <1>2, <1>5, <2>1 DEF ScreenTypeOK, layoutVars, Regions
  <2>3. LayoutInv' /\ MediaInv' /\ CurrentInv'
    BY <1>0, <1>5 DEF LayoutInv, MediaInv, CurrentInv, layoutVars, Regions, Media, Options
  <2>4. CallsInv' /\ HeadInv' /\ PlacingInv'
    BY <1>5, <2>1 DEF CallsInv, HeadInv, PlacingInv, Placing, Calling
  <2>5. MovingInv'
    <3>1. \A op, q : ~Pending(op, q)
      BY <1>0, ElementsOfNone DEF Pending
    <3> QED BY <1>0, <1>5, <2>1, <3>1, MovingKept DEF layoutVars
  <2> QED BY <2>2, <2>3, <2>4, <2>5 DEF PlaybackInv
<1>4. CASE todo' = <<Call("fetchMainLayout", 0, 0)>> /\ UNCHANGED <<layoutVars, unsafeLayout>>
  <2> DEFINE c == Call("fetchMainLayout", 0, 0)
  <2>1. c \in Calls /\ c.op = "fetchMainLayout"
    <3>1. "fetchMainLayout" \in Operations /\ 0 \in Nat
      BY DEF Operations
    <3> QED BY <3>1, CallType
  <2>2. todo' = <<c>>
    BY <1>4
  <2> HIDE DEF c
  <2>3. /\ CallsInv' /\ todo' \in Seq(Calls)
        /\ Elements(todo') = {c} /\ todo' # <<>> /\ Head(todo') = c
    BY <2>1, <2>2, CallsInvOne DEF RegionCalls
  <2>4. ScreenTypeOK'
    BY <1>0, <1>1, <1>2, <1>4, <2>3 DEF ScreenTypeOK, layoutVars, Regions
  <2>5. LayoutInv' /\ MediaInv' /\ CurrentInv'
    BY <1>0, <1>4 DEF LayoutInv, MediaInv, CurrentInv, layoutVars, Regions, Media, Options
  <2>6. HeadInv' /\ PlacingInv'
    BY <2>1, <2>3 DEF HeadInv, PlacingInv, Placing, Calling
  <2>7. MovingInv'
    <3>1. Elements(todo) = {} /\ ~Calling("startLayout")
      BY <1>0, ElementsOfNone DEF Calling
    <3>2. \A op, q : ~Pending(op, q)
      BY <3>1 DEF Pending
    <3> QED BY <1>0, <1>4, <3>1, <3>2, MovingKept DEF layoutVars
  <2> QED BY <2>3, <2>4, <2>5, <2>6, <2>7 DEF PlaybackInv
<1> QED BY <1>3, <1>4, <1>5 DEF ScheduleChanges

-----------------------------------------------------------------------------
(* What happens at rest                                                    *)

LEMMA AtRest ==
  ASSUME PlaybackInv, Idle
  PROVE  \A q \in Regions \ expiredRegions :
           /\ play[q][current[q]].playing
           /\ Moving(Options(q, current[q]), play[q][current[q]])
<1>1. MovingInv /\ \A q \in Regions : current[q] \in Media(q)
  BY InvParts
<1>2. todo = <<>> /\ Elements(todo) = {}
  BY ElementsOfNone DEF Idle
<1>3. \A q : ~Ending(q) /\ ~Calling("startLayout") /\ ~Pending("placeMedia", q)
  BY <1>2 DEF Ending, Pending, Calling
<1> QED BY <1>1, <1>3 DEF MovingInv, Steady, Occupied

(* What an event leaves behind: the media, and a call of one region.       *)
EventTypes ==
  /\ UNCHANGED <<slot, layoutId, layout, current, expiredRegions>>
  /\ age' \in 0..MaxAge
  /\ IntervalsInv(mediaIntervals', age')
  /\ unsafeMedia' \in [MediaIds -> Nat]
  /\ unsafeWidget' \in [MediaIds -> Nat]
  /\ unsafeLayout' \in [LayoutIds -> Nat]
  /\ depth' \in Nat
  /\ requests' \in 0..MaxRequests

EventMedia ==
  /\ Shaped(play, layout)'
  /\ \A q \in Regions : \A j \in Media(q) :
       /\ MediumInv(Options(q, j), play[q][j], age)'
       /\ play'[q][j].playing => play[q][j].playing

EventCall(c) ==
  /\ c \in Calls
  /\ c.op \in {"finished", "placeMedia", "fetchMainLayout"}
  /\ c.op # "fetchMainLayout" => c.region \in Regions
  /\ c.op = "placeMedia" =>
       /\ c.media \in Media(c.region)
       /\ \A j \in Media(c.region) : ~play'[c.region][j].playing

CallOf(q) ==
  \E c \in Elements(todo') : c.op \in {"finished", "placeMedia"} /\ c.region = q

LEMMA EventSafe ==
  ASSUME PlaybackInv, Idle, EventTypes, EventMedia,
         todo' = <<>> \/ \E c : EventCall(c) /\ todo' = <<c>>,
         \A q \in Regions \ expiredRegions :
           \/ CallOf(q)
           \/ /\ play'[q][current[q]].playing
              /\ Moving(Options(q, current[q]), play'[q][current[q]])
  PROVE  PlaybackInv'
<1>0. /\ ScreenTypeOK /\ LayoutInv /\ CurrentInv /\ layout \in Layout
      /\ \A q \in Regions : current[q] \in Media(q)
      /\ UNCHANGED <<slot, layoutId, layout, current, expiredRegions>>
  BY InvParts DEF EventTypes
<1>1. /\ Regions' = Regions
      /\ \A q : Media(q)' = Media(q)
      /\ \A q, j : Options(q, j)' = Options(q, j)
  BY <1>0, SameLayout
<1>2. /\ CallsInv' /\ todo' \in Seq(Calls)
      /\ \A c \in Elements(todo') : EventCall(c)
      /\ todo' # <<>> => Head(todo') \in Elements(todo')
  <2>1. CASE todo' = <<>>
    BY <2>1, CallsInvNone
  <2>2. ASSUME NEW c, EventCall(c), todo' = <<c>> PROVE <1>2
    <3>1. /\ c \in Calls
          /\ c.op \in RegionCalls => c.region \in Regions'
          /\ c.op = "placeMedia" => c.media \in Media(c.region)'
      BY <1>1, <2>2 DEF EventCall, RegionCalls
    <3> QED BY <2>2, <3>1, CallsInvOne
  <2> QED BY <2>1, <2>2
<1>3. ScreenTypeOK'
  BY <1>0, <1>1, <1>2 DEF ScreenTypeOK, EventTypes, EventMedia, IntervalsInv, Shaped
<1>4. LayoutInv'
  BY <1>0, <1>1 DEF LayoutInv, EventMedia
<1>5. MediaInv'
  BY <1>1 DEF MediaInv, EventMedia, EventTypes, IntervalsInv
<1>6. HeadInv'
  BY <1>2 DEF HeadInv, Calling, EventCall
<1>7. CurrentInv'
  BY <1>0, <1>1 DEF CurrentInv, EventMedia
<1>8. PlacingInv'
  BY <1>1, <1>2 DEF PlacingInv, Placing, EventCall
<1>9. MovingInv'
  <2> SUFFICES ASSUME NEW q \in Regions \ expiredRegions
               PROVE  Ending(q)' \/ (Steady(q) /\ Occupied(q))'
    BY <1>0, <1>1 DEF MovingInv
  <2>1. CASE CallOf(q)
    <3>1. PICK c \in Elements(todo') : c.op \in {"finished", "placeMedia"} /\ c.region = q
      BY <2>1 DEF CallOf
    <3>2. CASE c.op = "finished"
      BY <3>1, <3>2 DEF Ending, Pending
    <3>3. CASE c.op = "placeMedia"
      <4>1. Occupied(q)'
        BY <3>1, <3>3 DEF Occupied, Pending
      <4>2. Steady(q)'
        BY <1>1, <1>2, <3>1, <3>3 DEF Steady, EventCall
      <4> QED BY <4>1, <4>2
    <3> QED BY <3>1, <3>2, <3>3
  <2>2. CASE /\ play'[q][current[q]].playing
             /\ Moving(Options(q, current[q]), play'[q][current[q]])
    <3>1. Occupied(q)'
      BY <1>0, <2>2 DEF Occupied
    <3>2. Steady(q)'
      <4>1. ASSUME NEW j \in Media(q), play'[q][j].playing
            PROVE  Moving(Options(q, j), play'[q][j])
        <5>1. j = current[q]
          BY <1>0, <1>1, <1>7, <4>1 DEF CurrentInv
        <5> QED BY <2>2, <5>1
      <4> QED BY <1>1, <4>1 DEF Steady, Moving
    <3> QED BY <3>1, <3>2
  <2> QED BY <2>1, <2>2
<1> QED BY <1>2, <1>3, <1>4, <1>5, <1>6, <1>7, <1>8, <1>9 DEF PlaybackInv

LEMMA FinishedCall ==
  ASSUME PlaybackInv, NEW r \in Regions, todo' = Finished(r)
  PROVE  /\ \E c : EventCall(c) /\ todo' = <<c>>
         /\ CallOf(r)
<1> DEFINE c == Call("finished", r, 0)
<1>1. c \in Calls /\ c.op = "finished" /\ c.region = r
  <2>1. "finished" \in Operations /\ 0 \in Nat
    BY DEF Operations
  <2> QED BY <2>1, InvParts, CallType
<1>2. todo' = <<c>>
  BY DEF Finished
<1> HIDE DEF c
<1>3. EventCall(c)
  BY <1>1 DEF EventCall
<1>4. c \in Elements(todo')
  BY <1>1, <1>2, ElementsOfOne
<1> QED BY <1>1, <1>2, <1>3, <1>4 DEF CallOf

(* An event of one medium, after which its region goes on, or ends it.     *)
LEMMA MediumEvent ==
  ASSUME PlaybackInv, Idle, NEW r \in Regions, NEW i \in Media(r), NEW m,
         MediumInv(Options(r, i), m, age),
         m.playing => play[r][i].playing,
         play' = With(play, r, i, m),
         EventTypes, UNCHANGED age,
         \/ todo' = Finished(r)
         \/ /\ todo' = <<>>
            /\ m.playing = play[r][i].playing
            /\ Moving(Options(r, i), play[r][i]) => Moving(Options(r, i), m)
  PROVE  PlaybackInv'
<1>1. UNCHANGED <<layout, age>> /\ \A q \in Regions : current[q] \in Media(q)
  BY InvParts DEF EventTypes
<1>2. MediumSet(r, i, m)
  BY <1>1, MediumChanges
<1>3. EventMedia
  <2>1. ASSUME NEW q \in Regions, NEW j \in Media(q), play'[q][j].playing
        PROVE  play[q][j].playing
    <3>1. CASE q = r /\ j = i
      BY <1>2, <2>1, <3>1 DEF MediumSet
    <3>2. CASE q # r \/ j # i
      BY <1>2, <2>1, <3>2 DEF MediumSet
    <3> QED BY <3>1, <3>2
  <2> QED BY <1>2, <2>1 DEF EventMedia, MediumSet
<1>4. ASSUME NEW q \in Regions \ expiredRegions
      PROVE  \/ CallOf(q)
             \/ /\ play'[q][current[q]].playing
                /\ Moving(Options(q, current[q]), play'[q][current[q]])
  <2>1. /\ play[q][current[q]].playing /\ current[q] \in Media(q)
        /\ Moving(Options(q, current[q]), play[q][current[q]])
    BY <1>1, AtRest
  <2>2. CASE q # r \/ current[q] # i
    <3>1. play'[q][current[q]] = play[q][current[q]]
      BY <1>2, <2>1, <2>2 DEF MediumSet
    <3> QED BY <2>1, <3>1
  <2>3. CASE q = r /\ current[q] = i
    <3>1. play'[q][current[q]] = m
      BY <1>2, <2>3 DEF MediumSet
    <3>2. CASE todo' = Finished(r)
      BY <2>3, <3>2, FinishedCall
    <3>3. CASE /\ m.playing = play[r][i].playing
               /\ Moving(Options(r, i), play[r][i]) => Moving(Options(r, i), m)
      BY <2>1, <2>3, <3>1, <3>3
    <3> QED BY <3>2, <3>3
  <2> QED BY <2>2, <2>3
<1>5. todo' = <<>> \/ \E c : EventCall(c) /\ todo' = <<c>>
  BY FinishedCall
<1> QED BY <1>3, <1>4, <1>5, EventSafe

(* The players of a medium that plays go on, or not.                       *)
WithPlayers(m, running, watched, audio, audioWatched) ==
  [m EXCEPT !.running = running, !.watched = watched, !.audio = audio,
            !.audioWatched = audioWatched]

PlayersChanged(o, a, m, n) ==
  MediumInv(o, n, a) /\ n.playing /\ n.timer = m.timer

LEMMA PlayersChange ==
  ASSUME NEW o \in Medium, NEW a \in 0..MaxAge, NEW m, MediumInv(o, m, a), m.playing,
         NEW running \in BOOLEAN, running => m.running,
         NEW watched \in BOOLEAN, NEW audio \in BOOLEAN, NEW audioWatched \in BOOLEAN
  PROVE  PlayersChanged(o, a, m, WithPlayers(m, running, watched, audio, audioWatched))
<1> DEFINE n == WithPlayers(m, running, watched, audio, audioWatched)
<1>1. m \in MediumState
  BY DEF MediumInv
<1>2. n = [playing |-> m.playing, timer |-> m.timer, started |-> m.started,
           running |-> running, watched |-> watched, audio |-> audio,
           audioWatched |-> audioWatched]
  <2>1. n = [m EXCEPT !.running = running, !.watched = watched, !.audio = audio,
                      !.audioWatched = audioWatched]
    BY DEF WithPlayers
  <2> HIDE DEF n
  <2> QED BY <1>1, <2>1 DEF MediumState
<1> HIDE DEF n
<1>3. /\ n \in MediumState /\ n.playing = m.playing /\ n.timer = m.timer
      /\ n.started = m.started /\ n.running = running /\ n.watched = watched
  BY <1>1, <1>2 DEF MediumState
<1>4. m.running /\ o.duration # 0 => m.timer # NoTimer
  BY DEF MediumInv
<1>5. m.started <= MaxAge /\ m.started <= a
  BY DEF MediumInv
<1>6. MediumInv(o, n, a)
  <2>1. n.started <= MaxAge /\ n.started <= a
    BY <1>3, <1>5
  <2>2. n.running /\ o.duration # 0 => n.timer # NoTimer
    BY <1>3, <1>4
  <2> QED BY <1>3, <2>1, <2>2 DEF MediumInv
<1> QED BY <1>3, <1>6 DEF n, PlayersChanged

LEMMA TimerSet ==
  ASSUME NEW o \in Medium, NEW a \in 0..MaxAge, NEW m, MediumInv(o, m, a), m.playing,
         NEW seconds \in Int, seconds > 0,
         NEW n, n = [m EXCEPT !.timer = seconds]
  PROVE  MediumInv(o, n, a) /\ n.playing /\ Moving(o, n)
<1>1. m \in MediumState
  BY DEF MediumInv
<1>2. /\ n \in MediumState /\ n.playing = m.playing /\ n.timer = seconds
      /\ n.started = m.started /\ n.timer # NoTimer
  <2>1. seconds # NoTimer
    BY DEF NoTimer
  <2>2. n = [playing |-> m.playing, timer |-> seconds, started |-> m.started,
             running |-> m.running, watched |-> m.watched, audio |-> m.audio,
             audioWatched |-> m.audioWatched]
    BY <1>1 DEF MediumState
  <2> QED BY <1>1, <2>1, <2>2 DEF MediumState
<1>3. m.started <= MaxAge /\ m.started <= a
  BY DEF MediumInv
<1>4. n.started <= MaxAge /\ n.started <= a
  BY <1>2, <1>3
<1> QED BY <1>2, <1>4 DEF MediumInv, Moving

LEMMA UsualTypes ==
  ASSUME PlaybackInv,
         UNCHANGED <<slot, layoutId, layout, current, expiredRegions, age, mediaIntervals>>,
         unsafeMedia' \in [MediaIds -> Nat], unsafeWidget' \in [MediaIds -> Nat],
         unsafeLayout' \in [LayoutIds -> Nat], depth' \in Nat,
         requests' \in 0..MaxRequests
  PROVE  EventTypes
<1>1. /\ age \in 0..MaxAge /\ mediaIntervals \in [MediaIds -> NotPlayed..MaxAge]
      /\ \A id \in MediaIds : mediaIntervals[id] <= age
  BY InvParts DEF ScreenTypeOK, MediaInv
<1>2. IntervalsInv(mediaIntervals', age')
  BY <1>1 DEF IntervalsInv
<1> QED BY <1>1, <1>2 DEF EventTypes

LEMMA UnsafeTypes ==
  ASSUME PlaybackInv
  PROVE  /\ unsafeMedia \in [MediaIds -> Nat] /\ unsafeWidget \in [MediaIds -> Nat]
         /\ unsafeLayout \in [LayoutIds -> Nat] /\ depth \in Nat
         /\ requests \in 0..MaxRequests /\ age \in 0..MaxAge
BY InvParts DEF ScreenTypeOK

(* What plays is marked: a timer or a player that is not off.              *)
LEMMA NotSilent ==
  ASSUME NEW o, NEW a, NEW m, MediumInv(o, m, a),
         m.timer # NoTimer \/ m.running \/ m.audio
  PROVE  m.playing
BY DEF MediumInv, Silent

LEMMA TimerFiresSafe ==
  ASSUME PlaybackInv, NEW r \in Regions, NEW i \in Media(r), TimerFires(r, i)
  PROVE  PlaybackInv'
<1> DEFINE m == FinishPlayer([play[r][i] EXCEPT !.timer = NoTimer])
<1>1. /\ Options(r, i) \in Medium /\ age \in 0..MaxAge
      /\ MediumInv(Options(r, i), play[r][i], age)
  BY MediumOf
<1>2. play[r][i].playing
  <2>1. play[r][i].timer # NoTimer
    BY DEF TimerFires, NoTimer
  <2> QED BY <1>1, <2>1, NotSilent
<1>3. MediumInv(Options(r, i), m, age)
  BY <1>1, <1>2, FinishedPlays
<1>4. play' = With(play, r, i, m) /\ todo' = Finished(r) /\ Idle
  BY DEF TimerFires, With, Event
<1>5. EventTypes /\ UNCHANGED age
  BY UsualTypes, UnsafeTypes DEF TimerFires, Event, unsafeVars
<1> HIDE DEF m
<1> QED BY <1>2, <1>3, <1>4, <1>5, MediumEvent

LEMMA PlaybackFinishedSafe ==
  ASSUME PlaybackInv, Idle, NEW r \in Regions, NEW i \in Media(r),
         NEW failed \in BOOLEAN, PlaybackFinished(r, i, failed),
         play[r][i].running, EventTypes, UNCHANGED age
  PROVE  PlaybackInv'
<1> DEFINE o == Options(r, i)
           stays == ~failed /\ unsafeMedia[o.id] = 0 /\ o.duration # 0
           running == stays /\ o.looped
           watched == play[r][i].watched /\ ~failed
           audio == play[r][i].audio
           audioWatched == play[r][i].audioWatched
           m == WithPlayers(play[r][i], running, watched, audio, audioWatched)
<1>0. running => play[r][i].running
  OBVIOUS
<1>1. /\ o \in Medium /\ age \in 0..MaxAge
      /\ MediumInv(o, play[r][i], age) /\ play[r][i] \in MediumState
  BY MediumOf
<1>2. play[r][i].playing
  BY <1>1, NotSilent
<1>3. /\ running \in BOOLEAN /\ watched \in BOOLEAN
      /\ audio \in BOOLEAN /\ audioWatched \in BOOLEAN
  BY <1>1 DEF Medium, MediumState
<1>4. play' = With(play, r, i, m)
  <2> DEFINE n == Streamed(play[r][i], running, failed)
  <2>1. n = m
    BY <1>1, <1>3 DEF MediumState, WithPlayers, Streamed
  <2>2. play' = With(play, r, i, n)
    BY DEF PlaybackFinished, With
  <2> HIDE DEF m, n
  <2> QED BY <2>1, <2>2
<1>5. /\ MediumInv(o, m, age) /\ m.playing /\ m.timer = play[r][i].timer
  <2> HIDE DEF running, watched, audio, audioWatched, o
  <2>1. PlayersChanged(o, age, play[r][i], m)
    BY <1>0, <1>1, <1>2, <1>3, PlayersChange
  <2> HIDE DEF m
  <2> QED BY <2>1 DEF PlayersChanged
<1>6. CASE stays
  <2>1. todo' = <<>>
    BY <1>6 DEF PlaybackFinished, Event
  <2>2. m.timer # NoTimer
    BY <1>1, <1>5, <1>6 DEF MediumInv
  <2>3. Moving(o, m)
    BY <2>2 DEF Moving
  <2> HIDE DEF m
  <2> QED BY <1>2, <1>4, <1>5, <2>1, <2>3, MediumEvent
<1>7. CASE ~stays
  <2>1. todo' = Finished(r)
    BY <1>7 DEF PlaybackFinished, Event
  <2> HIDE DEF m
  <2> QED BY <1>2, <1>4, <1>5, <2>1, MediumEvent
<1> QED BY <1>6, <1>7

LEMMA EndOfStreamSafe ==
  ASSUME PlaybackInv, NEW r \in Regions, NEW i \in Media(r), EndOfStream(r, i)
  PROVE  PlaybackInv'
<1>1. EventTypes
  BY UsualTypes, UnsafeTypes DEF EndOfStream, PlaybackFinished, Event, unsafeVars
<1>2. /\ Idle /\ play[r][i].running /\ UNCHANGED age
      /\ FALSE \in BOOLEAN /\ PlaybackFinished(r, i, FALSE)
  BY DEF EndOfStream
<1> QED BY <1>1, <1>2, PlaybackFinishedSafe

LEMMA StreamFailsSafe ==
  ASSUME PlaybackInv, NEW r \in Regions, NEW i \in Media(r), StreamFails(r, i)
  PROVE  PlaybackInv'
<1>1. unsafeLayout' \in [LayoutIds -> Nat]
  BY UnsafeTypes, Ttls, FlagLayoutType DEF StreamFails, FlagLayout
<1>2. unsafeMedia' \in [MediaIds -> Nat]
  BY UnsafeTypes, Ttls DEF StreamFails
<1>3. requests' \in 0..MaxRequests
  BY RequestsLeft DEF StreamFails
<1>4. EventTypes
  BY <1>1, <1>2, <1>3, UsualTypes, UnsafeTypes DEF StreamFails, PlaybackFinished, Event
<1>5. /\ Idle /\ play[r][i].running /\ UNCHANGED age
      /\ TRUE \in BOOLEAN /\ PlaybackFinished(r, i, TRUE)
  BY DEF StreamFails
<1> QED BY <1>4, <1>5, PlaybackFinishedSafe

(* The attached audio has ended, or failed.                                *)
LEMMA AudioStops ==
  ASSUME PlaybackInv, Idle, NEW r \in Regions, NEW i \in Media(r),
         play[r][i].audio, todo' = <<>>, EventTypes, UNCHANGED age,
         NEW off, off = FALSE, NEW audioWatched \in BOOLEAN,
         NEW m, m = [play[r][i] EXCEPT !.audio = off, !.audioWatched = audioWatched],
         play' = With(play, r, i, m)
  PROVE  PlaybackInv'
<1>1. /\ Options(r, i) \in Medium /\ age \in 0..MaxAge
      /\ MediumInv(Options(r, i), play[r][i], age) /\ play[r][i] \in MediumState
      /\ off \in BOOLEAN
  BY MediumOf
<1>2. play[r][i].playing
  BY <1>1, NotSilent
<1> DEFINE o == Options(r, i)
           p == play[r][i]
           running == p.running
           watched == p.watched
           n == WithPlayers(p, running, watched, off, audioWatched)
<1>3. running \in BOOLEAN /\ watched \in BOOLEAN
  BY <1>1 DEF MediumState
<1>4. /\ m.playing = p.playing /\ m.timer = p.timer /\ m.running = running
      /\ m.watched = watched /\ m = n
  BY <1>1, <1>3 DEF MediumState, WithPlayers
<1>5. MediumInv(o, m, age) /\ m.playing
  <2>1. o \in Medium /\ MediumInv(o, p, age) /\ p.playing /\ (running => p.running)
    BY <1>1, <1>2
  <2> HIDE DEF p, o, running, watched
  <2>2. PlayersChanged(o, age, p, n)
    BY <1>1, <1>3, <2>1, PlayersChange
  <2> HIDE DEF n
  <2> QED BY <1>4, <2>2 DEF PlayersChanged
<1>6. Moving(o, p) => Moving(o, m)
  BY <1>4 DEF Moving
<1> QED BY <1>2, <1>5, <1>6, MediumEvent

LEMMA AudioEndsSafe ==
  ASSUME PlaybackInv, NEW r \in Regions, NEW i \in Media(r), AudioEnds(r, i)
  PROVE  PlaybackInv'
<1>1. EventTypes
  BY UsualTypes, UnsafeTypes DEF AudioEnds, Event, unsafeVars
<1>2. Idle /\ play[r][i].audio /\ todo' = <<>> /\ UNCHANGED age
  BY DEF AudioEnds, Event
<1> DEFINE off == FALSE
           w == play[r][i].audioWatched
           n == [play[r][i] EXCEPT !.audio = off]
           m == [play[r][i] EXCEPT !.audio = off, !.audioWatched = w]
<1>3. play' = With(play, r, i, n)
  BY DEF AudioEnds, With
<1>4. off = FALSE
  OBVIOUS
<1> HIDE DEF off
<1>5. play[r][i] \in MediumState /\ w \in BOOLEAN /\ off \in BOOLEAN
  BY <1>4, MediumOf DEF MediumState
<1>6. n = m
  BY <1>5 DEF MediumState
<1> HIDE DEF n
<1>7. play' = With(play, r, i, m)
  BY <1>3, <1>6
<1> HIDE DEF w
<1> QED BY <1>1, <1>2, <1>4, <1>5, <1>7, AudioStops

LEMMA AudioFailsSafe ==
  ASSUME PlaybackInv, NEW r \in Regions, NEW i \in Media(r), AudioFails(r, i)
  PROVE  PlaybackInv'
<1>1. unsafeLayout' \in [LayoutIds -> Nat] /\ requests' \in 0..MaxRequests
  BY UnsafeTypes, Ttls, FlagLayoutType, RequestsLeft DEF AudioFails, FlagLayout
<1>2. EventTypes
  BY <1>1, UsualTypes, UnsafeTypes DEF AudioFails, Event
<1>3. Idle /\ play[r][i].audio /\ todo' = <<>> /\ UNCHANGED age
  BY DEF AudioFails, Event
<1> DEFINE off == FALSE
           m == [play[r][i] EXCEPT !.audio = off, !.audioWatched = off]
<1>4. play' = With(play, r, i, m)
  BY DEF AudioFails, With
<1>5. off = FALSE /\ off \in BOOLEAN
  OBVIOUS
<1> HIDE DEF off
<1> QED BY <1>2, <1>3, <1>4, <1>5, AudioStops

LEMMA RestartTimerSafe ==
  ASSUME PlaybackInv, Idle, NEW r \in Regions, NEW seconds \in Int,
         play[r][current[r]].playing, RestartTimer(r, seconds),
         EventTypes, UNCHANGED age
  PROVE  PlaybackInv'
<1> DEFINE i == current[r]
           p == play[r][i]
<1>1. i \in Media(r)
  BY InvParts
<1>2. /\ Options(r, i) \in Medium /\ age \in 0..MaxAge
      /\ MediumInv(Options(r, i), p, age) /\ p.playing
  BY <1>1, MediumOf
<1>3. CASE /\ play' = [play EXCEPT ![r][i] = FinishPlayer([@ EXCEPT !.timer = NoTimer])]
           /\ Event(Finished(r))
  <2> DEFINE m == FinishPlayer([p EXCEPT !.timer = NoTimer])
  <2>1. MediumInv(Options(r, i), m, age)
    BY <1>2, FinishedPlays
  <2>2. play' = With(play, r, i, m) /\ todo' = Finished(r)
    BY <1>3 DEF With, Event
  <2> HIDE DEF m, i
  <2> QED BY <1>1, <1>2, <2>1, <2>2, MediumEvent
<1>4. CASE /\ seconds > 0
           /\ play' = [play EXCEPT ![r][i] = [@ EXCEPT !.timer = seconds]]
           /\ Event(<<>>)
  <2> DEFINE m == [p EXCEPT !.timer = seconds]
  <2>1. MediumInv(Options(r, i), m, age) /\ m.playing /\ Moving(Options(r, i), m)
    BY <1>2, <1>4, TimerSet
  <2>2. play' = With(play, r, i, m) /\ todo' = <<>>
    BY <1>4 DEF With, Event
  <2>3. m.playing = p.playing
    BY <1>2 DEF MediumInv, MediumState
  <2> HIDE DEF m, i
  <2> QED BY <1>1, <1>2, <2>1, <2>2, <2>3, MediumEvent
<1> QED BY <1>3, <1>4 DEF RestartTimer

LEMMA RequestTypes ==
  ASSUME PlaybackInv, Request, UNCHANGED <<current, mediaIntervals, unsafeMedia, unsafeLayout>>,
         unsafeWidget' \in [MediaIds -> Nat], depth' = 0
  PROVE  EventTypes /\ UNCHANGED age
<1>1. requests' \in 0..MaxRequests
  BY RequestsLeft DEF Request
<1> QED BY <1>1, UsualTypes, UnsafeTypes DEF Request

LEMMA ExtendDurationSafe ==
  ASSUME PlaybackInv, NEW r \in Regions, NEW seconds \in Seconds,
         ExtendDuration(r, seconds)
  PROVE  PlaybackInv'
<1> DEFINE left == Max({0, play[r][current[r]].timer}) + seconds
<1>1. play[r][current[r]].timer \in Int
  BY InvParts, MediumOf DEF MediumState
<1>2. left \in Int
  <2>1. Max({0, play[r][current[r]].timer}) \in Int
    BY <1>1, MaxOfTwo
  <2> QED BY <2>1, PlaybackAssumption
<1>3. /\ Idle /\ play[r][current[r]].playing /\ RestartTimer(r, left)
      /\ Request /\ UNCHANGED <<current, mediaIntervals, unsafeVars>>
  BY DEF ExtendDuration, Request
<1> HIDE DEF left
<1>4. EventTypes /\ UNCHANGED age
  BY <1>3, RequestTypes, UnsafeTypes DEF RestartTimer, Event, unsafeVars
<1> QED BY <1>2, <1>3, <1>4, RestartTimerSafe

LEMMA SetDurationSafe ==
  ASSUME PlaybackInv, NEW r \in Regions, NEW seconds \in Seconds, SetDuration(r, seconds)
  PROVE  PlaybackInv'
<1>1. seconds \in Int
  BY PlaybackAssumption
<1>2. /\ Idle /\ play[r][current[r]].playing /\ RestartTimer(r, seconds)
      /\ Request /\ UNCHANGED <<current, mediaIntervals, unsafeVars>>
  BY DEF SetDuration, Request
<1>3. EventTypes /\ UNCHANGED age
  BY <1>2, RequestTypes, UnsafeTypes DEF RestartTimer, Event, unsafeVars
<1> QED BY <1>1, <1>2, <1>3, RestartTimerSafe

(* Nothing of the media changes.                                           *)
LEMMA SameMedia ==
  ASSUME PlaybackInv, Idle, UNCHANGED <<play, layout, age, current>>
  PROVE  /\ EventMedia
         /\ \A q \in Regions \ expiredRegions :
              /\ play'[q][current[q]].playing
              /\ Moving(Options(q, current[q]), play'[q][current[q]])
<1>1. EventMedia
  <2>1. MediaInv /\ Shaped(play, layout)
    BY InvParts
  <2> QED BY <2>1, SameLayout DEF EventMedia, MediaInv, Shaped
<1> QED BY <1>1, AtRest

LEMMA FaultSafe ==
  ASSUME PlaybackInv, NEW id \in MediaIds, NEW ttl \in FaultTtls, Fault(id, ttl)
  PROVE  PlaybackInv'
<1>1. unsafeWidget' \in [MediaIds -> Nat]
  BY UnsafeTypes, PlaybackAssumption DEF Fault
<1>2. EventTypes
  BY <1>1, RequestTypes DEF Fault, Event
<1>3. Idle /\ todo' = <<>> /\ UNCHANGED <<play, layout, age, current>>
  BY DEF Fault, Request, Event
<1> QED BY <1>2, <1>3, SameMedia, EventSafe

LEMMA ExpireDurationSafe ==
  ASSUME PlaybackInv, ExpireDuration
  PROVE  PlaybackInv'
<1>1. depth' = 0 /\ Request /\ UNCHANGED <<play, current, mediaIntervals, unsafeVars>>
  BY DEF ExpireDuration, Event
<1>2. EventTypes
  BY <1>1, RequestTypes, UnsafeTypes DEF unsafeVars
<1>3. Idle /\ UNCHANGED <<play, layout, age, current>>
  BY <1>1 DEF Request
<1>4. \E c : EventCall(c) /\ todo' = <<c>>
  <2>1. ASSUME NEW r \in Regions, Event(Finished(r))
        PROVE  \E c : EventCall(c) /\ todo' = <<c>>
    BY <2>1, FinishedCall DEF Event
  <2>2. ASSUME Event(<<Call("fetchMainLayout", 0, 0)>>)
        PROVE  \E c : EventCall(c) /\ todo' = <<c>>
    <3> DEFINE c == Call("fetchMainLayout", 0, 0)
    <3>1. c \in Calls /\ c.op = "fetchMainLayout"
      <4>1. "fetchMainLayout" \in Operations /\ 0 \in Nat
        BY DEF Operations
      <4> QED BY <4>1, CallType
    <3>2. todo' = <<c>>
      BY <2>2 DEF Event
    <3> HIDE DEF c
    <3>3. EventCall(c)
      BY <3>1 DEF EventCall
    <3> QED BY <3>2, <3>3
  <2> QED BY <2>1, <2>2 DEF ExpireDuration
<1> QED BY <1>2, <1>3, <1>4, SameMedia, EventSafe

LEMMA NavigateToWidgetSafe ==
  ASSUME PlaybackInv, NEW r \in Regions, NEW id \in MediaIds, NavigateToWidget(r, id)
  PROVE  PlaybackInv'
<1> DEFINE i == Min(Shows(r, id))
           c == current[r]
<1>1. i \in Media(r) /\ i \in Nat
  <2>1. Shows(r, id) \subseteq Media(r) /\ Media(r) \subseteq Nat /\ Shows(r, id) # {}
    BY DEF Shows, NavigateToWidget, Media
  <2>2. i \in Shows(r, id)
    BY <2>1, MinOfMany
  <2> HIDE DEF i
  <2> QED BY <2>1, <2>2
<1>2. Request /\ Idle /\ UNCHANGED <<current, unsafeVars, layout, age>>
  BY DEF NavigateToWidget, Request
<1>3. CASE Event(<<>>) /\ UNCHANGED <<play, mediaIntervals>>
  <2>1. EventTypes
    BY <1>2, <1>3, RequestTypes, UnsafeTypes DEF Event, unsafeVars
  <2>2. todo' = <<>> /\ UNCHANGED <<play, layout, age, current>>
    BY <1>2, <1>3 DEF Event
  <2> QED BY <1>2, <2>1, <2>2, SameMedia, EventSafe
<1>4. CASE /\ play' = [play EXCEPT ![r][c] = Stop(@)]
           /\ mediaIntervals' = MediaIntervals({<<r, c>>})
           /\ Event(<<Call("placeMedia", r, i)>>)
  <2>1. /\ Shaped(play, layout)'
        /\ \A q \in Regions : \A j \in Media(q) :
             /\ MediumInv(Options(q, j), play[q][j], age)'
             /\ q # r => play'[q][j] = play[q][j]
        /\ \A j \in Media(r) : ~play'[r][j].playing
    BY <1>2, <1>4, CurrentStops
  <2>2. EventMedia
    BY <2>1 DEF EventMedia
  <2>3. EventTypes
    <3>1. {<<r, c>>} \subseteq AllMedia
      BY InvParts DEF AllMedia
    <3>2. IntervalsInv(mediaIntervals', age)
      BY <1>4, <3>1, MediaIntervalsInv
    <3>3. requests' \in 0..MaxRequests
      BY <1>2, RequestsLeft DEF Request
    <3> QED BY <1>2, <1>4, <3>2, <3>3, UnsafeTypes
            DEF EventTypes, Request, Event, IntervalsInv, unsafeVars
  <2> DEFINE call == Call("placeMedia", r, i)
  <2>4. /\ call \in Calls /\ call.op = "placeMedia" /\ call.region = r /\ call.media = i
    <3>1. "placeMedia" \in Operations /\ r \in Nat
      BY InvParts DEF Operations
    <3> HIDE DEF i
    <3> QED BY <1>1, <3>1, CallType
  <2>5. todo' = <<call>>
    BY <1>4 DEF Event
  <2> HIDE DEF call, i
  <2>6. EventCall(call) /\ call \in Elements(todo')
    <3>1. Elements(todo') = {call}
      BY <2>4, <2>5, ElementsOfOne
    <3> QED BY <1>1, <2>1, <2>4, <3>1 DEF EventCall
  <2>7. CallOf(r)
    BY <2>4, <2>6 DEF CallOf
  <2>8. ASSUME NEW q \in Regions \ expiredRegions, q # r
        PROVE  /\ play'[q][current[q]].playing
               /\ Moving(Options(q, current[q]), play'[q][current[q]])
    <3>1. current[q] \in Media(q)
      BY InvParts
    <3> QED BY <1>2, <2>1, <2>8, <3>1, AtRest
  <2> QED BY <1>2, <2>2, <2>3, <2>5, <2>6, <2>7, <2>8, EventSafe
<1> QED BY <1>3, <1>4 DEF NavigateToWidget

LEMMA TickSafe ==
  ASSUME PlaybackInv, Tick
  PROVE  PlaybackInv'
<1>0. /\ age \in 0..MaxAge /\ mediaIntervals \in [MediaIds -> NotPlayed..MaxAge]
      /\ \A id \in MediaIds : mediaIntervals[id] <= age
      /\ layout \in Layout
  BY InvParts DEF ScreenTypeOK, MediaInv
<1>1. /\ UNCHANGED <<slot, layoutId, layout, current, expiredRegions, todo, requests>>
      /\ depth' = 0 /\ Idle /\ todo' = <<>> /\ age' = Older(age)
  BY DEF Tick, Idle
<1>2. age' \in 0..MaxAge
  <2>1. age \in NotPlayed..MaxAge /\ age \in Nat
    BY <1>0 DEF NotPlayed
  <2> QED BY <1>1, <2>1, OlderAges
<1>3. IntervalsInv(mediaIntervals', age')
  <2>1. mediaIntervals' = [id \in MediaIds |-> Older(mediaIntervals[id])]
    BY DEF Tick
  <2>2. ASSUME NEW id \in MediaIds
        PROVE  /\ Older(mediaIntervals[id]) \in NotPlayed..MaxAge
               /\ Older(mediaIntervals[id]) <= Older(age)
    BY <1>0, OlderAges
  <2> QED BY <1>1, <2>1, <2>2 DEF IntervalsInv
<1>4. EventTypes
  <2>1. \A n \in Nat : Less(n) \in Nat
    BY DEF Less
  <2>2. /\ unsafeMedia' \in [MediaIds -> Nat] /\ unsafeWidget' \in [MediaIds -> Nat]
        /\ unsafeLayout' \in [LayoutIds -> Nat]
    BY <2>1, UnsafeTypes DEF Tick
  <2> QED BY <1>1, <1>2, <1>3, <2>2, UnsafeTypes DEF EventTypes
<1>5. ASSUME NEW q \in Regions, NEW j \in Media(q)
      PROVE  /\ MediumInv(Options(q, j), play'[q][j], age')
             /\ play'[q][j].playing = play[q][j].playing
             /\ Moving(Options(q, j), play[q][j]) => Moving(Options(q, j), play'[q][j])
  <2>1. play'[q][j] = Ticked(play[q][j])
    BY DEF Tick, Ticked
  <2>2. Options(q, j) \in Medium /\ MediumInv(Options(q, j), play[q][j], age)
    BY MediumOf
  <2> QED BY <1>0, <1>1, <2>1, <2>2, TickedMedium
<1>6. Shaped(play', layout)
  <2> DEFINE p == play'
  <2>1. p = [r \in 1..Len(layout.regions) |-> p[r]]
    BY DEF Tick, Regions
  <2>2. ASSUME NEW r \in 1..Len(layout.regions)
        PROVE  /\ p[r] = [i \in 1..Len(layout.regions[r].media) |-> p[r][i]]
               /\ \A i \in 1..Len(layout.regions[r].media) : p[r][i] \in MediumState
    <3>1. p[r] = [i \in Media(r) |->
                    [play[r][i] EXCEPT !.timer = Less(@), !.started = Older(@)]]
      BY DEF Tick, Regions
    <3>2. \A i \in 1..Len(layout.regions[r].media) : p[r][i] \in MediumState
      BY <1>5 DEF Regions, Media, MediumInv
    <3> QED BY <3>1, <3>2 DEF Media
  <2> HIDE DEF p
  <2>3. Shaped(p, layout)
    BY <1>0, <2>1, <2>2, ShapeOf
  <2> QED BY <2>3 DEF p
<1>7. EventMedia
  <2>1. Shaped(play, layout)'
    BY <1>1, <1>6 DEF Shaped
  <2>2. ASSUME NEW q \in Regions, NEW j \in Media(q)
        PROVE  MediumInv(Options(q, j), play[q][j], age)'
    <3>1. MediumInv(Options(q, j), play'[q][j], age')
      BY <1>5
    <3>2. Options(q, j)' = Options(q, j)
      BY <1>1, SameLayout
    <3> QED BY <3>1, <3>2 DEF MediumInv
  <2> QED BY <1>5, <2>1, <2>2 DEF EventMedia
<1>8. ASSUME NEW q \in Regions \ expiredRegions
      PROVE  /\ play'[q][current[q]].playing
             /\ Moving(Options(q, current[q]), play'[q][current[q]])
  BY <1>1, <1>5, AtRest, InvParts
<1> QED BY <1>1, <1>4, <1>7, <1>8, EventSafe

-----------------------------------------------------------------------------
(* The theorems                                                            *)

LEMMA InitSafe == Init => PlaybackInv
<1> SUFFICES ASSUME Init PROVE PlaybackInv
  OBVIOUS
<1>1. /\ layout = NoLayout /\ NoLayout \in Layout /\ Len(NoLayout.regions) = 0
      /\ Regions = {}
  BY DEF Init, NoLayout, Layout, Regions
<1>2. todo = <<>> /\ play = <<>> /\ current = <<>> /\ layoutId = NoLayoutId
      /\ expiredRegions = {} /\ age = 0
      /\ mediaIntervals = [id \in MediaIds |-> NotPlayed]
  BY DEF Init
<1>3. Shaped(play, layout)
  BY <1>1, <1>2 DEF Shaped
<1>4. ScreenTypeOK
  <2>1. /\ <<>> \in Seq(Calls) /\ <<>> \in Seq(Seq(MediumState)) /\ <<>> \in Seq(Nat \ {0})
        /\ Len(<<>>) = 0
    BY EmptySeq
  <2>2. /\ mediaIntervals \in [MediaIds -> NotPlayed..MaxAge] /\ age \in 0..MaxAge
        /\ requests \in 0..MaxRequests
    BY <1>2, Ttls DEF Init, NotPlayed
  <2> QED BY <1>1, <1>2, <2>1, <2>2 DEF Init, ScreenTypeOK
<1>5. LayoutInv
  BY <1>1, <1>2, <1>3 DEF LayoutInv
<1>6. MediaInv
  BY <1>1, <1>2 DEF MediaInv, NotPlayed
<1>7. Elements(todo) = {}
  BY <1>2, ElementsOfNone
<1>8. CallsInv /\ HeadInv /\ PlacingInv /\ CurrentInv /\ MovingInv
  BY <1>1, <1>2, <1>7 DEF CallsInv, HeadInv, PlacingInv, CurrentInv, MovingInv, Calling
<1> QED BY <1>4, <1>5, <1>6, <1>8 DEF PlaybackInv

LEMMA PlaceMediaKeeps ==
  ASSUME PlaybackInv, PlaceMedia
  PROVE  PlaybackInv'
<1>1. Calling("placeMedia") /\ todo # <<>>
  BY DEF PlaceMedia, Calling
<1> PICK r \in Regions : Head(todo).region = r
  BY <1>1, InvParts DEF CallsInv, Calling, RegionCalls
<1>2. CASE SafeMedia(r) = {}
  BY <1>1, <1>2, PlaceMediaUnsafe DEF PlaceMedia, layoutVars
<1>3. CASE SafeMedia(r) # {}
  <2> DEFINE i == Candidate(r, Head(todo).media)
  <2>1. i \in Media(r)
    BY <1>3, CandidateIsMedium
  <2>2. /\ current' = [current EXCEPT ![r] = i]
        /\ play' = [play EXCEPT ![r][i] = Start(Options(r, i), @)]
        /\ todo' = Rest
        /\ UNCHANGED <<slot, layoutId, layout, expiredRegions, age, mediaIntervals,
                       unsafeVars, depth, requests>>
    BY <1>3 DEF PlaceMedia, unsafeVars
  <2> QED BY <1>1, <1>3, <2>1, <2>2, PlaceMediaSafe
<1> QED BY <1>2, <1>3

LEMMA MediaFinishedKeeps ==
  ASSUME PlaybackInv, MediaFinished
  PROVE  PlaybackInv'
<1>1. Calling("finished") /\ todo # <<>>
  BY DEF MediaFinished, Calling
<1> PICK r \in Regions : Head(todo).region = r
  BY <1>1, InvParts DEF CallsInv, Calling, RegionCalls
<1>2. CASE ShouldBeMediaReplaced(r)
  <2> DEFINE n == NextIndex(r, current[r])
  <2>1. n \in Media(r) /\ n \in Nat
    BY NextIsMedium
  <2>2. /\ play' = [play EXCEPT ![r][current[r]] = Stop(@)]
        /\ mediaIntervals' = MediaIntervals({<<r, current[r]>>})
        /\ todo' = <<Call("placeMedia", r, n)>> \o <<Call("checkExpired", r, 0)>> \o Rest
        /\ UNCHANGED <<slot, layoutId, layout, current, expiredRegions, age,
                       unsafeVars, depth, requests>>
    BY <1>2 DEF MediaFinished
  <2> QED BY <1>1, <2>1, <2>2, MediaFinishedReplaced
<1>3. CASE ~ShouldBeMediaReplaced(r)
  <2>1. /\ todo' = <<Call("checkExpired", r, 0)>> \o Rest
        /\ UNCHANGED <<slot, layoutVars, unsafeVars, depth, requests>>
    BY <1>3 DEF MediaFinished, layoutVars
  <2> QED BY <1>1, <1>3, <2>1, MediaFinishedStays
<1> QED BY <1>2, <1>3

LEMMA StutterSafe ==
  ASSUME PlaybackInv, UNCHANGED vars
  PROVE  PlaybackInv'
<1> USE DEF vars, layoutVars, unsafeVars
<1>1. /\ Regions' = Regions
      /\ \A q : Media(q)' = Media(q)
      /\ \A q, i : Options(q, i)' = Options(q, i)
  BY SameLayout
<1>2. \A q, i : Candidate(q, i)' = Candidate(q, i)
  BY SameCandidate
<1>3. ScreenTypeOK' /\ LayoutInv' /\ MediaInv' /\ CurrentInv'
  BY InvParts DEF ScreenTypeOK, LayoutInv, MediaInv, CurrentInv, Regions, Media,
                  Options, Shaped
<1>4. CallsInv' /\ HeadInv'
  BY <1>1, InvParts DEF CallsInv, HeadInv, Calling, Rest, NestedCalls, Quiet
<1>5. PlacingInv'
  BY <1>1, <1>2, InvParts DEF PlacingInv, Placing
<1>6. MovingInv'
  BY <1>1, InvParts DEF MovingInv, Ending, Steady, Occupied, Pending, Calling
<1> QED BY <1>3, <1>4, <1>5, <1>6 DEF PlaybackInv

LEMMA CallSafe ==
  ASSUME PlaybackInv, QueueInv, PendingCall
  PROVE  PlaybackInv'
BY PlaceMediaKeeps, MediaFinishedKeeps, CheckExpiredSafe, StartLayoutSafe,
   RegionExpiredSafe, LayoutExpiredSafe, RestartSafe, FetchMainLayoutSafe, CrashSafe
   DEF PendingCall

LEMMA DisturbanceSafe ==
  ASSUME PlaybackInv, Disturbance
  PROVE  PlaybackInv'
<1>1. ASSUME NEW p \in AllMedia, StreamFails(p[1], p[2]) \/ AudioFails(p[1], p[2])
      PROVE  PlaybackInv'
  <2>1. p[1] \in Regions /\ p[2] \in Media(p[1])
    BY DEF AllMedia
  <2> QED BY <1>1, <2>1, StreamFailsSafe, AudioFailsSafe
<1>2. ASSUME ScheduleChanges PROVE PlaybackInv'
  BY <1>2, ScheduleChangesSafe
<1>3. ASSUME NEW r \in Regions, NEW id \in MediaIds, NavigateToWidget(r, id)
      PROVE  PlaybackInv'
  BY <1>3, NavigateToWidgetSafe
<1>4. ASSUME ExpireDuration PROVE PlaybackInv'
  BY <1>4, ExpireDurationSafe
<1>5. ASSUME NEW r \in Regions, NEW seconds \in Seconds,
             ExtendDuration(r, seconds) \/ SetDuration(r, seconds)
      PROVE  PlaybackInv'
  BY <1>5, ExtendDurationSafe, SetDurationSafe
<1>6. ASSUME NEW id \in MediaIds, NEW ttl \in FaultTtls, Fault(id, ttl)
      PROVE  PlaybackInv'
  BY <1>6, FaultSafe
<1> QED BY <1>1, <1>2, <1>3, <1>4, <1>5, <1>6 DEF Disturbance

LEMMA NextSafe == PlaybackInv /\ QueueInv /\ [Next]_vars => PlaybackInv'
<1> SUFFICES ASSUME PlaybackInv, QueueInv, [Next]_vars PROVE PlaybackInv'
  OBVIOUS
<1>1. CASE PendingCall
  BY <1>1, CallSafe
<1>2. ASSUME NEW r \in Regions, TimeOut(r) \/ StreamEnd(r) PROVE PlaybackInv'
  BY <1>2, TimerFiresSafe, EndOfStreamSafe DEF TimeOut, StreamEnd
<1>3. ASSUME NEW p \in AllMedia, AudioEnds(p[1], p[2]) PROVE PlaybackInv'
  <2>1. p[1] \in Regions /\ p[2] \in Media(p[1])
    BY DEF AllMedia
  <2> QED BY <1>3, <2>1, AudioEndsSafe
<1>4. CASE Tick
  BY <1>4, TickSafe
<1>5. CASE Disturbance
  BY <1>5, DisturbanceSafe
<1>6. CASE UNCHANGED vars
  BY <1>6, StutterSafe
<1> QED BY <1>1, <1>2, <1>3, <1>4, <1>5, <1>6 DEF Next

(* The invariant: what is pending always brings a region that has nothing  *)
(* to wait for something to wait for, and never a second medium.           *)
THEOREM PlaybackInvariant == Spec => []PlaybackInv
BY InitSafe, NextSafe, QueueAlways, PTL DEF Spec

(* Every variable keeps its type.                                          *)
THEOREM PlaybackTypeCorrect == Spec => []PlaybackTypeOK
<1>1. PlaybackInv /\ QueueInv => PlaybackTypeOK
  BY DEF PlaybackInv, ScreenTypeOK, QueueInv, PlaybackTypeOK
<1> QED BY <1>1, PlaybackInvariant, QueueAlways, PTL

(* At rest a region plays the medium that is its current one, or none.     *)
THEOREM OneMediumAtATime == Spec => []OneMediumPerRegion
<1>1. PlaybackInv => OneMediumPerRegion
  BY DEF PlaybackInv, CurrentInv, OneMediumPerRegion
<1> QED BY <1>1, PlaybackInvariant, PTL

(* Of a medium that has been stopped nothing runs on.                      *)
THEOREM StoppedMediaAreSilent == Spec => []StoppedIsSilent
<1>1. PlaybackInv => StoppedIsSilent
  BY DEF PlaybackInv, MediaInv, MediumInv, Silent, StoppedIsSilent
<1> QED BY <1>1, PlaybackInvariant, PTL

(* At rest a region has expired, or it plays what will end by itself.      *)
THEOREM RegionsKeepMoving == Spec => []RegionKeepsMoving
<1>1. PlaybackInv => RegionKeepsMoving
  BY AtRest DEF RegionKeepsMoving, Moving
<1> QED BY <1>1, PlaybackInvariant, PTL

(* A layout expires with all its regions, and with nothing of it playing.  *)
THEOREM ExpiredLayoutsAreOver == Spec => []ExpiredLayoutIsOver
<1>1. PlaybackInv => ExpiredLayoutIsOver
  BY DEF PlaybackInv, HeadInv, MediaInv, Quiet, ExpiredLayoutIsOver
<1> QED BY <1>1, PlaybackInvariant, PTL

(* What is loaded has regions, and each of them has media.                 *)
THEOREM LoadedLayoutsHaveContent == Spec => []LoadedHasContent
<1>1. PlaybackInv => LoadedHasContent
  <2> SUFFICES ASSUME PlaybackInv, layoutId # NoLayoutId
               PROVE  Regions # {} /\ \A r \in Regions : Media(r) # {}
    BY DEF LoadedHasContent
  <2>1. Regions # {}
    <3> DEFINE n == Len(layout.regions)
    <3>1. n \in Nat /\ n # 0
      BY InvParts, LayoutLengths DEF LayoutInv
    <3> HIDE DEF n
    <3>2. 1 \in 1..n
      BY <3>1
    <3> QED BY <3>2 DEF n, Regions
  <2>2. \A r \in Regions : Media(r) # {}
    BY InvParts
  <2> QED BY <2>1, <2>2
<1> QED BY <1>1, PlaybackInvariant, PTL

-----------------------------------------------------------------------------
(* Main layouts that start within one another.  Each of them is loaded     *)
(* while it is not flagged, as an override, or as the next of the queue;   *)
(* and a layout that expires while it starts has been flagged for a region *)
(* of which nothing can be played, and is behind the others of the queue.  *)
FiniteLayouts == IsFiniteSet(LayoutIds) /\ UnsafeRegionTtl # 0

(* The layouts that are no override again: each of them ends one layout    *)
(* that expires while it starts.                                           *)
Flagged == {id \in LayoutIds : unsafeLayout[id] > 0}

Others == Flagged \ {layoutId}

(* An event leaves at most a check of a region behind a call, the start of *)
(* a layout leaves media to place.                                         *)
CheckBehind == \E c \in Calls : c.op = "checkExpired" /\ Rest = <<c>>

OnlyMediaBehind == \A c \in Elements(Rest) : c.op = "placeMedia"

BehindInv ==
  todo # <<>> =>
    /\ CheckBehind \/ OnlyMediaBehind
    /\ Head(todo).op \in {"finished", "checkExpired", "startLayout"} => Rest = <<>>
    /\ Head(todo).op \in {"expired", "fetchMainLayout"} =>
         Rest = <<>> \/ CheckBehind
    /\ ~Calling("restart")

(* While a layout starts, a region whose first medium is still to be       *)
(* placed has not expired, and no other call is of it.                     *)
FreshRegions ==
  /\ Calling("startLayout") => expiredRegions = {}
  /\ \A j \in 2..Len(todo) :
       todo[j].op = "placeMedia" =>
         /\ todo[j].region \notin expiredRegions
         /\ \A i \in 1..(j - 1) : todo[i].region # todo[j].region

(* The queue gives nothing but layouts that expire while they start.       *)
Hopeless == queue # <<>> /\ \A i \in 1..Len(queue) : Unplayable(queue[i])

(* How many of them the queue may have given last.                         *)
Spent ==
  {k \in 0..Len(queue) :
     \A i \in 1..Len(queue) : i > Len(queue) - k => Unplayable(queue[i])}

(* A layout that has something to play does not expire while it starts.    *)
Lively == \E r \in Regions \ expiredRegions : SafeMedia(r) # {}

(* How many layouts have expired within the event, by the call that is     *)
(* being made: all but one of them were flagged or of the queue.           *)
Within(n) == Hopeless \/ \E k \in Spent : depth <= n + k

Starting == Lively \/ Within(Cardinality(Others) + 1)

DepthInv ==
  /\ Hopeless \/ depth <= Cardinality(LayoutIds) + Len(queue) + 1
  /\ Calling("finished") => depth = 0
  /\ Calling("placeMedia") => IF CheckBehind THEN depth = 0 ELSE Starting
  /\ Calling("startLayout") => Starting
  /\ Calling("checkExpired") => depth <= Cardinality(Flagged)
  /\ Calling("regionExpired") =>
       IF CheckBehind THEN depth + 1 <= Cardinality(Flagged)
       ELSE \/ Lively /\ SafeMedia(Head(todo).region) = {}
            \/ Within(Cardinality(Flagged))
  /\ Calling("expired") =>
       IF CheckBehind THEN depth + 1 <= Cardinality(Flagged)
       ELSE Within(Cardinality(Flagged))
  /\ Calling("fetchMainLayout") =>
       IF CheckBehind THEN depth <= Cardinality(Flagged)
       ELSE Within(Cardinality(Flagged) + 1)

Resting == BehindInv /\ FreshRegions /\ DepthInv

RestInv == slot = "main" => Resting

(* None of the queue, or the last of it, may have been given.              *)
LEMMA QueueCounts ==
  ASSUME QueueInv
  PROVE  Len(queue) \in Nat /\ 0 \in Spent /\ Spent \subseteq 0..Len(queue)
<1>1. Len(queue) \in Nat
  BY LenProperties DEF QueueInv
<1> QED BY <1>1 DEF Spent

LEMMA QueueCountsNext ==
  ASSUME QueueInv'
  PROVE  Len(queue') \in Nat /\ 0 \in Spent' /\ Spent' \subseteq 0..Len(queue')
<1>1. Len(queue') \in Nat
  BY LenProperties DEF QueueInv
<1> QED BY <1>1 DEF Spent

(* Within an event no medium becomes unsafe.                               *)
LEMMA SameUnplayable ==
  ASSUME UNCHANGED <<unsafeMedia, unsafeWidget>>, NEW id
  PROVE  Unplayable(id)' = Unplayable(id)
BY DEF Unplayable, Unsafe

LEMMA SameQueue ==
  ASSUME UNCHANGED <<queue, unsafeMedia, unsafeWidget>>
  PROVE  Hopeless' = Hopeless /\ Spent' = Spent
BY SameUnplayable DEF Hopeless, Spent

LEMMA SameLively ==
  ASSUME UNCHANGED <<layout, expiredRegions, unsafeMedia, unsafeWidget>>
  PROVE  Lively' = Lively
<1>1. Regions' = Regions /\ \A r : SafeMedia(r)' = SafeMedia(r)
  BY SameLayout, SameCandidate
<1> QED BY <1>1 DEF Lively

(* As many layouts as were flagged have expired.                           *)
LEMMA WithinFlagged ==
  ASSUME QueueInv', NEW n \in Nat, depth' \in Nat, depth' <= n
  PROVE  \E k \in Spent' : depth' <= n + k
<1>1. 0 \in Spent' /\ depth' <= n + 0
  BY QueueCountsNext
<1> QED BY <1>1

LEMMA MaxIsBound ==
  ASSUME NEW a \in Nat, NEW b \in Nat
  PROVE  Max({a, b}) \in Nat /\ Max({a, b}) >= a /\ Max({a, b}) >= b
<1>1. \E x \in {a, b} : \A y \in {a, b} : x >= y
  <2>1. CASE a >= b
    BY <2>1
  <2>2. CASE ~(a >= b)
    BY <2>2
  <2> QED BY <2>1, <2>2
<1>2. Max({a, b}) \in {a, b} /\ \A y \in {a, b} : Max({a, b}) >= y
  BY <1>1 DEF Max
<1> QED BY <1>2

(* One layout more than the others is flagged, or none.                    *)
Counted ==
  /\ Cardinality(Flagged) \in Nat /\ Cardinality(Others) \in Nat
  /\ Cardinality(LayoutIds) \in Nat
  /\ Cardinality(Flagged) <= Cardinality(LayoutIds)
  /\ Cardinality(Flagged) <= Cardinality(Others) + 1
  /\ layoutId \in Flagged => Cardinality(Flagged) = Cardinality(Others) + 1
  /\ Flagged # {} => Cardinality(Flagged) >= 1

LEMMA OneMore ==
  ASSUME IsFiniteSet(LayoutIds), NEW S \in SUBSET LayoutIds, NEW x
  PROVE  /\ Cardinality(S) \in Nat /\ Cardinality(S \ {x}) \in Nat
         /\ Cardinality(LayoutIds) \in Nat
         /\ Cardinality(S) <= Cardinality(LayoutIds)
         /\ Cardinality(S) <= Cardinality(S \ {x}) + 1
         /\ x \in S => Cardinality(S) = Cardinality(S \ {x}) + 1
         /\ S # {} => Cardinality(S) >= 1
<1>1. /\ IsFiniteSet(S) /\ Cardinality(S) <= Cardinality(LayoutIds)
      /\ Cardinality(LayoutIds) \in Nat
  BY FS_Subset, FS_CardinalityType
<1>2. /\ IsFiniteSet(S \ {x})
      /\ Cardinality(S \ {x}) = IF x \in S THEN Cardinality(S) - 1 ELSE Cardinality(S)
  BY <1>1, FS_RemoveElement
<1>3. Cardinality(S) \in Nat /\ Cardinality(S \ {x}) \in Nat
  BY <1>1, <1>2, FS_CardinalityType
<1>4. S # {} => Cardinality(S) # 0
  BY <1>1, FS_EmptySet
<1> QED BY <1>1, <1>2, <1>3, <1>4

LEMMA FlaggedCounts ==
  ASSUME IsFiniteSet(LayoutIds)
  PROVE  Counted /\ Counted'
<1>1. Flagged \in SUBSET LayoutIds /\ Flagged' \in SUBSET LayoutIds
  BY DEF Flagged
<1>2. Counted
  BY <1>1, OneMore DEF Counted, Others
<1>3. Counted'
  BY <1>1, OneMore DEF Counted, Others
<1> QED BY <1>2, <1>3

(* A call of a region is one of a layout that is there.                    *)
LEMMA RegionsOfLayout ==
  ASSUME PlaybackInv, Regions # {}
  PROVE  layoutId \in LayoutIds
<1>1. layoutId # NoLayoutId
  <2> SUFFICES ASSUME layoutId = NoLayoutId PROVE FALSE
    OBVIOUS
  <2>1. layout = NoLayout
    BY InvParts DEF LayoutInv
  <2>2. Len(layout.regions) = 0
    BY <2>1 DEF NoLayout
  <2> QED BY <2>2 DEF Regions
<1> QED BY <1>1, InvParts DEF ScreenTypeOK

(* The call that is made leaves no other, itself replaced by another or    *)
(* not.                                                                    *)
LEMMA OneIsLeft ==
  ASSUME NEW c \in Calls, todo' = <<c>>, c.op # "restart",
         c.op = "startLayout" => expiredRegions' = {}
  PROVE  /\ todo' # <<>> /\ Head(todo') = c /\ Rest' = <<>>
         /\ ~CheckBehind' /\ BehindInv' /\ FreshRegions'
<1>1. todo' # <<>> /\ Head(todo') = c /\ Rest' = <<>> /\ Len(todo') = 1
  <2>1. Len(<<c>>) = 1
    OBVIOUS
  <2> QED BY <2>1, ElementsOfOne DEF Rest
<1>2. Elements(Rest') = {}
  BY <1>1, ElementsOfNone
<1>3. ~CheckBehind'
  BY <1>1 DEF CheckBehind
<1>4. BehindInv'
  BY <1>1, <1>2 DEF BehindInv, OnlyMediaBehind, Calling
<1>5. FreshRegions'
  BY <1>1 DEF FreshRegions, Calling
<1> QED BY <1>1, <1>3, <1>4, <1>5

LEMMA NoneIsLeft ==
  ASSUME todo' = <<>>
  PROVE  BehindInv' /\ FreshRegions' /\ \A op : ~Calling(op)'
<1>1. Len(todo') = 0
  OBVIOUS
<1> QED BY <1>1 DEF BehindInv, FreshRegions, Calling

(* A call takes the place of the one that makes it.                        *)
LEMMA CallReplaced ==
  ASSUME todo \in Seq(Calls), todo # <<>>, NEW c \in Calls, todo' = <<c>> \o Rest
  PROVE  /\ todo' # <<>> /\ Head(todo') = c /\ Rest' = Rest
         /\ CheckBehind' = CheckBehind /\ OnlyMediaBehind' = OnlyMediaBehind
         /\ Len(todo') = Len(todo) /\ Len(todo) \in Nat /\ Len(todo) # 0
         /\ todo'[1] = c /\ todo[1] = Head(todo)
         /\ \A i \in 2..Len(todo) : todo'[i] = todo[i]
<1>1. Rest \in Seq(Calls)
  BY CallFacts
<1>2. InFront(Prefixed(c, Rest), Calls, c, Rest)
  BY <1>1, PushedIndex
<1>3. /\ Len(todo) \in Nat /\ Len(todo) # 0 /\ todo[1] = Head(todo)
      /\ Len(Rest) = Len(todo) - 1 /\ \A i \in 1..Len(Rest) : Rest[i] = todo[i + 1]
  BY HeadTailProperties, EmptySeq DEF Rest
<1>4. /\ todo' \in Seq(Calls) /\ Len(todo') = Len(Rest) + 1 /\ todo'[1] = c
      /\ \A i \in 1..Len(Rest) : todo'[i + 1] = Rest[i]
  BY <1>2 DEF InFront, Prefixed
<1>5. todo' # <<>>
  BY <1>3, <1>4
<1>6. Head(todo') = c
  BY <1>4, <1>5, HeadTailProperties
<1>7. Rest' = Rest
  <2> DEFINE t == Tail(todo')
  <2>1. /\ t \in Seq(Calls) /\ Len(t) = Len(todo') - 1
        /\ \A i \in 1..Len(t) : t[i] = todo'[i + 1]
    BY <1>4, <1>5, HeadTailProperties
  <2> HIDE DEF t
  <2>2. Len(t) = Len(Rest) /\ \A i \in 1..Len(Rest) : t[i] = Rest[i]
    BY <1>3, <1>4, <2>1
  <2>3. t = Rest
    BY <1>1, <2>1, <2>2, SeqEqual
  <2> QED BY <2>3 DEF t, Rest
<1>8. ASSUME NEW i \in 2..Len(todo) PROVE todo'[i] = todo[i]
  <2>1. i - 1 \in 1..Len(Rest) /\ (i - 1) + 1 = i
    BY <1>3
  <2> QED BY <1>3, <1>4, <2>1
<1>9. CheckBehind' = CheckBehind /\ OnlyMediaBehind' = OnlyMediaBehind
  BY <1>7 DEF CheckBehind, OnlyMediaBehind
<1> QED BY <1>3, <1>4, <1>5, <1>6, <1>7, <1>8, <1>9

(* Of the same region, it leaves the others fresh.                         *)
LEMMA FreshReplaced ==
  ASSUME todo \in Seq(Calls), todo # <<>>, NEW c \in Calls, todo' = <<c>> \o Rest,
         FreshRegions, UNCHANGED expiredRegions, c.op # "startLayout",
         c.region = Head(todo).region
  PROVE  FreshRegions'
<1>1. /\ todo' # <<>> /\ Head(todo') = c
      /\ Len(todo') = Len(todo) /\ Len(todo) \in Nat /\ Len(todo) # 0
      /\ todo'[1] = c /\ todo[1] = Head(todo)
      /\ \A i \in 2..Len(todo) : todo'[i] = todo[i]
  BY CallReplaced
<1>2. ASSUME NEW j \in 2..Len(todo'), todo'[j].op = "placeMedia"
      PROVE  /\ todo'[j].region \notin expiredRegions'
             /\ \A i \in 1..(j - 1) : todo'[i].region # todo'[j].region
  <2>1. /\ j \in 2..Len(todo) /\ todo'[j] = todo[j]
        /\ todo[j].region \notin expiredRegions
        /\ \A i \in 1..(j - 1) : todo[i].region # todo[j].region
    BY <1>1, <1>2 DEF FreshRegions
  <2>2. ASSUME NEW i \in 1..(j - 1) PROVE todo'[i].region = todo[i].region
    <3>1. CASE i = 1
      BY <1>1, <3>1
    <3>2. CASE i # 1
      <4>1. i \in 2..Len(todo)
        BY <1>1, <2>1, <3>2
      <4> QED BY <1>1, <4>1
    <3> QED BY <3>1, <3>2
  <2> QED BY <2>1, <2>2
<1> QED BY <1>1, <1>2 DEF FreshRegions, Calling

(* A call that is over leaves the others fresh, although its region may    *)
(* have expired.                                                           *)
LEMMA FreshPopped ==
  ASSUME todo \in Seq(Calls), todo # <<>>, todo' = Rest, FreshRegions,
         expiredRegions' \subseteq expiredRegions \cup {Head(todo).region},
         ~Calling("startLayout")'
  PROVE  FreshRegions'
<1>1. /\ Len(todo) \in Nat /\ Len(todo) # 0 /\ todo[1] = Head(todo)
      /\ Len(todo') = Len(todo) - 1 /\ \A i \in 1..Len(todo') : todo'[i] = todo[i + 1]
  BY HeadTailProperties, EmptySeq DEF Rest
<1>2. ASSUME NEW j \in 2..Len(todo'), todo'[j].op = "placeMedia"
      PROVE  /\ todo'[j].region \notin expiredRegions'
             /\ \A i \in 1..(j - 1) : todo'[i].region # todo'[j].region
  <2>1. /\ j + 1 \in 2..Len(todo) /\ j \in 1..Len(todo') /\ (j + 1) - 1 = j
        /\ 1 \in 1..j
    BY <1>1
  <2>2. todo'[j] = todo[j + 1]
    BY <1>1, <2>1
  <2>3. /\ todo[j + 1].region \notin expiredRegions
        /\ \A i \in 1..j : todo[i].region # todo[j + 1].region
    BY <1>2, <2>1, <2>2 DEF FreshRegions
  <2>4. todo'[j].region \notin expiredRegions'
    BY <1>1, <2>1, <2>2, <2>3
  <2>5. ASSUME NEW i \in 1..(j - 1) PROVE todo'[i].region # todo'[j].region
    <3>1. i \in 1..Len(todo') /\ i + 1 \in 1..j
      BY <1>1
    <3> QED BY <1>1, <2>2, <2>3, <3>1
  <2> QED BY <2>4, <2>5
<1> QED BY <1>2 DEF FreshRegions

(* A region whose call is pending behind others has not expired.           *)
LEMMA FreshBehind ==
  ASSUME todo \in Seq(Calls), todo # <<>>, FreshRegions, NEW c \in Elements(Rest),
         c.op = "placeMedia"
  PROVE  c.region \notin expiredRegions /\ c.region # Head(todo).region
<1>1. /\ Len(todo) \in Nat /\ Len(todo) # 0 /\ todo[1] = Head(todo)
      /\ Rest \in Seq(Calls)
      /\ Len(Rest) = Len(todo) - 1 /\ \A i \in 1..Len(Rest) : Rest[i] = todo[i + 1]
  BY HeadTailProperties, EmptySeq DEF Rest
<1>2. PICK i \in 1..Len(Rest) : c = Rest[i]
  <2>1. DOMAIN Rest = 1..Len(Rest)
    BY <1>1
  <2> QED BY <2>1 DEF Elements
<1>3. i + 1 \in 2..Len(todo) /\ todo[i + 1] = c /\ 1 \in 1..((i + 1) - 1)
  BY <1>1, <1>2
<1> QED BY <1>1, <1>3 DEF FreshRegions

(* What is behind a call that is over.                                     *)
LEMMA BehindPopped ==
  ASSUME todo \in Seq(Calls), todo # <<>>, todo' = Rest, Rest # <<>>,
         CheckBehind \/ OnlyMediaBehind
  PROVE  \/ /\ CheckBehind /\ Head(todo').op = "checkExpired"
            /\ Rest' = <<>> /\ ~CheckBehind'
         \/ /\ ~CheckBehind /\ Head(todo').op = "placeMedia"
            /\ OnlyMediaBehind' /\ ~CheckBehind'
<1>1. CASE CheckBehind
  <2>1. PICK c \in Calls : c.op = "checkExpired" /\ Rest = <<c>>
    BY <1>1 DEF CheckBehind
  <2>2. Head(todo') = c /\ Tail(todo') = <<>>
    BY <2>1, ElementsOfOne
  <2>3. Rest' = <<>>
    BY <2>2 DEF Rest
  <2>4. ~CheckBehind'
    BY <2>3 DEF CheckBehind
  <2> QED BY <1>1, <2>1, <2>2, <2>3, <2>4
<1>2. CASE ~CheckBehind
  <2>1. OnlyMediaBehind /\ Rest \in Seq(Calls)
    BY <1>2, CallFacts
  <2>2. /\ Elements(Rest) = {Head(Rest)} \cup Elements(Tail(Rest))
        /\ Rest' = Tail(Rest) /\ Head(todo') = Head(Rest)
    BY <2>1, HeadAndRest DEF Rest
  <2>3. Head(todo').op = "placeMedia" /\ OnlyMediaBehind'
    BY <2>1, <2>2 DEF OnlyMediaBehind
  <2>4. ~CheckBehind'
    <3> SUFFICES ASSUME NEW c \in Calls, c.op = "checkExpired", Rest' = <<c>>
                 PROVE  FALSE
      BY DEF CheckBehind
    <3>1. c \in Elements(Rest')
      BY ElementsOfOne
    <3> QED BY <2>3, <3>1 DEF OnlyMediaBehind
  <2> QED BY <1>2, <2>3, <2>4
<1> QED BY <1>1, <1>2

(* An event makes one call, or none.                                       *)
LEMMA EventRests ==
  ASSUME IsFiniteSet(LayoutIds), QueueInv', depth' = 0,
         \/ todo' = <<>>
         \/ \E c \in Calls : /\ c.op \in {"finished", "placeMedia", "fetchMainLayout"}
                             /\ todo' = <<c>>
  PROVE  Resting'
<1>1. Counted' /\ Len(queue') \in Nat
  BY FlaggedCounts, QueueCountsNext
<1>2. CASE todo' = <<>>
  <2>1. BehindInv' /\ FreshRegions' /\ \A op : ~Calling(op)'
    BY <1>2, NoneIsLeft
  <2> QED BY <1>1, <2>1 DEF Resting, DepthInv, Counted
<1>3. ASSUME NEW c \in Calls, c.op \in {"finished", "placeMedia", "fetchMainLayout"},
             todo' = <<c>>
      PROVE  Resting'
  <2>1. /\ todo' # <<>> /\ Head(todo') = c
        /\ ~CheckBehind' /\ BehindInv' /\ FreshRegions'
    BY <1>3, OneIsLeft
  <2>2. \A op : Calling(op)' <=> c.op = op
    BY <2>1 DEF Calling
  <2>3. Starting' /\ Within(Cardinality(Flagged) + 1)'
    <3>1. Cardinality(Others') + 1 \in Nat /\ Cardinality(Flagged') + 1 \in Nat
      BY <1>1 DEF Counted
    <3>2. \A n \in Nat : \E k \in Spent' : depth' <= n + k
      BY WithinFlagged
    <3> QED BY <3>1, <3>2 DEF Starting, Within
  <2> QED BY <1>1, <1>3, <2>1, <2>2, <2>3 DEF Resting, DepthInv, Counted
<1> QED BY <1>2, <1>3

(* A handler that goes on with what is behind it.                          *)
LEMMA PoppedRests ==
  ASSUME IsFiniteSet(LayoutIds), PlaybackInv, QueueInv', Resting,
         todo # <<>>, todo' = Rest,
         expiredRegions' \subseteq expiredRegions \cup {Head(todo).region},
         UNCHANGED <<layoutId, unsafeLayout, depth>>,
         Hopeless' \/ depth <= Cardinality(LayoutIds) + Len(queue') + 1,
         CheckBehind => depth <= Cardinality(Flagged),
         ~CheckBehind /\ Rest # <<>> => Starting'
  PROVE  Resting'
<1>1. Counted /\ Counted' /\ Flagged' = Flagged
  BY FlaggedCounts DEF Flagged
<1>2. depth \in Nat /\ depth' = depth /\ todo \in Seq(Calls)
  BY InvParts DEF ScreenTypeOK
<1>3. CASE todo' = <<>>
  <2>1. BehindInv' /\ FreshRegions' /\ \A op : ~Calling(op)'
    BY <1>3, NoneIsLeft
  <2> QED BY <1>2, <2>1 DEF Resting, DepthInv
<1>4. CASE todo' # <<>>
  <2>1. CheckBehind \/ OnlyMediaBehind
    BY <1>4 DEF Resting, BehindInv
  <2>2. \/ /\ CheckBehind /\ Head(todo').op = "checkExpired"
           /\ Rest' = <<>> /\ ~CheckBehind'
        \/ /\ ~CheckBehind /\ Head(todo').op = "placeMedia"
           /\ OnlyMediaBehind' /\ ~CheckBehind'
    BY <1>2, <1>4, <2>1, BehindPopped
  <2>3. \A op : Calling(op)' <=> Head(todo').op = op
    BY <1>4 DEF Calling
  <2>4. FreshRegions'
    <3>1. ~Calling("startLayout")'
      BY <2>2, <2>3
    <3> QED BY <1>2, <3>1, FreshPopped DEF Resting
  <2>5. BehindInv'
    <3>1. Rest' = <<>> => OnlyMediaBehind'
      BY ElementsOfNone DEF OnlyMediaBehind
    <3> QED BY <2>2, <2>3, <3>1 DEF BehindInv
  <2>6. DepthInv'
    <3>1. CASE CheckBehind
      <4>1. \A op : Calling(op)' <=> op = "checkExpired"
        BY <2>2, <2>3, <3>1
      <4> QED BY <1>1, <1>2, <3>1, <4>1 DEF DepthInv
    <3>2. CASE ~CheckBehind
      <4>1. /\ \A op : Calling(op)' <=> op = "placeMedia"
            /\ ~CheckBehind'
        BY <2>2, <2>3, <3>2
      <4> QED BY <1>2, <1>4, <3>2, <4>1 DEF DepthInv
    <3> QED BY <3>1, <3>2
  <2> QED BY <2>4, <2>5, <2>6 DEF Resting
<1> QED BY <1>3, <1>4

(* What the call at the head of the stack says of those behind it.         *)
LEMMA HeadOp ==
  ASSUME PlaybackInv, NEW op, Calling(op)
  PROVE  /\ todo # <<>> /\ todo \in Seq(Calls) /\ Head(todo).op = op
         /\ Head(todo) \in Calls /\ Rest \in Seq(Calls) /\ depth \in Nat
         /\ \A o : Calling(o) <=> op = o
<1>1. todo # <<>> /\ todo \in Seq(Calls) /\ Head(todo).op = op /\ depth \in Nat
  BY InvParts DEF Calling, ScreenTypeOK
<1> QED BY <1>1, CallFacts DEF Calling

(* The region of a call is there.                                          *)
LEMMA HeadRegion ==
  ASSUME PlaybackInv, todo # <<>>, Head(todo).op \in RegionCalls
  PROVE  Head(todo).region \in Regions /\ Head(todo).region \in Nat /\ layoutId \in LayoutIds
<1>1. Head(todo).region \in Regions
  BY InvParts DEF CallsInv
<1> QED BY <1>1, InvParts, RegionsOfLayout

(* A layout of which a region has nothing to play is flagged.              *)
LEMMA PlaceMediaRests ==
  ASSUME FiniteLayouts, PlaybackInv, QueueInv', Resting, PlaceMedia
  PROVE  Resting'
<1>1. /\ todo # <<>> /\ todo \in Seq(Calls) /\ Head(todo).op = "placeMedia"
      /\ Rest \in Seq(Calls) /\ depth \in Nat
      /\ \A o : Calling(o) <=> "placeMedia" = o
  BY HeadOp DEF PlaceMedia
<1>2. Head(todo).region \in Regions /\ Head(todo).region \in Nat /\ layoutId \in LayoutIds
  BY <1>1, HeadRegion DEF RegionCalls
<1>3. /\ UNCHANGED <<slot, queue, layoutId, layout, expiredRegions, depth>>
      /\ UNCHANGED <<unsafeMedia, unsafeWidget>>
  BY DEF PlaceMedia
<1>4. /\ Hopeless \/ depth <= Cardinality(LayoutIds) + Len(queue) + 1
      /\ IF CheckBehind THEN depth = 0 ELSE Starting
  BY <1>1 DEF Resting, DepthInv
<1>5. Counted /\ Counted'
  BY FlaggedCounts DEF FiniteLayouts
<1>6. Hopeless' = Hopeless /\ Spent' = Spent /\ Lively' = Lively
  BY <1>3, SameQueue, SameLively
<1>7. CASE todo' = Rest /\ UNCHANGED unsafeLayout
  <2>1. Others' = Others
    BY <1>3, <1>7 DEF Others, Flagged
  <2>2. ~CheckBehind => Starting'
    BY <1>3, <1>4, <1>6, <2>1 DEF Starting, Within
  <2>3. CheckBehind => depth <= Cardinality(Flagged)
    BY <1>4, <1>5 DEF Counted
  <2>4. expiredRegions' \subseteq expiredRegions \cup {Head(todo).region}
    BY <1>3
  <2>5. Hopeless' \/ depth <= Cardinality(LayoutIds) + Len(queue') + 1
    BY <1>3, <1>4, <1>6
  <2> QED BY <1>1, <1>3, <1>7, <2>2, <2>3, <2>4, <2>5, PoppedRests DEF FiniteLayouts
<1>8. ASSUME SafeMedia(Head(todo).region) = {}, FlagLayout(UnsafeRegionTtl),
             todo' = <<Call("regionExpired", Head(todo).region, 0)>> \o Rest
      PROVE  Resting'
  <2> DEFINE c == Call("regionExpired", Head(todo).region, 0)
  <2>1. c \in Calls /\ c.op = "regionExpired" /\ c.region = Head(todo).region
    <3>1. "regionExpired" \in Operations /\ 0 \in Nat
      BY DEF Operations
    <3> QED BY <1>2, <3>1, CallType
  <2>2. todo' = <<c>> \o Rest
    BY <1>8
  <2> HIDE DEF c
  <2>3. /\ todo' # <<>> /\ Head(todo') = c
        /\ CheckBehind' = CheckBehind /\ OnlyMediaBehind' = OnlyMediaBehind
    BY <1>1, <2>1, <2>2, CallReplaced
  <2>4. \A o : Calling(o)' <=> "regionExpired" = o
    BY <2>1, <2>3 DEF Calling
  <2>5. FreshRegions'
    BY <1>1, <1>3, <2>1, <2>2, FreshReplaced DEF Resting
  <2>6. BehindInv'
    BY <1>1, <2>1, <2>3, <2>4 DEF Resting, BehindInv
  <2>7. Flagged' = Flagged \cup {layoutId} /\ Others' = Others
    <3>1. unsafeLayout \in [LayoutIds -> Nat] /\ UnsafeRegionTtl \in Nat \ {0}
      BY InvParts, Ttls DEF ScreenTypeOK, FiniteLayouts
    <3> DEFINE m == Max({unsafeLayout[layoutId], UnsafeRegionTtl})
    <3>2. m \in Nat /\ m > 0
      <4>1. unsafeLayout[layoutId] \in Nat /\ UnsafeRegionTtl \in Nat
        BY <1>2, <3>1
      <4>2. m \in Nat /\ m >= UnsafeRegionTtl
        BY <4>1, MaxIsBound
      <4> HIDE DEF m
      <4> QED BY <3>1, <4>2
    <3>3. unsafeLayout' = [unsafeLayout EXCEPT ![layoutId] = m]
      BY <1>8 DEF FlagLayout
    <3> HIDE DEF m
    <3>4. unsafeLayout'[layoutId] > 0
          /\ \A id \in LayoutIds : id # layoutId => unsafeLayout'[id] = unsafeLayout[id]
      BY <1>2, <3>1, <3>2, <3>3
    <3>5. Flagged' = Flagged \cup {layoutId}
      BY <1>2, <3>4 DEF Flagged
    <3> QED BY <1>3, <3>5 DEF Others
  <2>8. Cardinality(Flagged)' = Cardinality(Others) + 1 /\ Cardinality(Others) \in Nat
    BY <1>3, <1>5, <2>7 DEF Counted
  <2>9. DepthInv'
    <3>1. Hopeless' \/ depth' <= Cardinality(LayoutIds) + Len(queue') + 1
      BY <1>3, <1>4, <1>6
    <3>2. CheckBehind' => depth' + 1 <= Cardinality(Flagged')
      BY <1>3, <1>4, <2>3, <2>8
    <3>3. ~CheckBehind' =>
             \/ Lively' /\ SafeMedia(Head(todo).region)' = {}
             \/ Within(Cardinality(Flagged))'
      <4>1. CASE Lively
        <5>1. /\ \A q : SafeMedia(q)' = SafeMedia(q)
              /\ Head(todo').region = Head(todo).region
          BY <1>3, <2>1, <2>3, SameCandidate
        <5>2. SafeMedia(Head(todo).region)' = {}
          BY <1>8, <5>1
        <5> QED BY <1>6, <4>1, <5>2
      <4>2. CASE Within(Cardinality(Others) + 1)
        BY <1>3, <1>6, <2>8, <4>2 DEF Within
      <4> QED BY <1>4, <2>3, <4>1, <4>2 DEF Starting
    <3> QED BY <2>4, <3>1, <3>2, <3>3 DEF DepthInv
  <2> QED BY <2>5, <2>6, <2>9 DEF Resting
<1> QED BY <1>7, <1>8 DEF PlaceMedia

(* With no call behind, or a check only, there is nothing to be fresh.     *)
LEMMA FreshAlone ==
  ASSUME todo' \in Seq(Calls), todo' # <<>>, ~Calling("startLayout")',
         Rest' = <<>> \/ CheckBehind'
  PROVE  FreshRegions'
<1>1. /\ Len(todo') \in Nat /\ Rest' \in Seq(Calls) /\ Len(Rest') = Len(todo') - 1
      /\ \A i \in 1..Len(Rest') : Rest'[i] = todo'[i + 1]
  BY HeadTailProperties, EmptySeq DEF Rest
<1>2. ASSUME NEW j \in 2..Len(todo') PROVE todo'[j].op # "placeMedia"
  <2>1. j - 1 \in 1..Len(Rest') /\ (j - 1) + 1 = j
    BY <1>1
  <2>2. todo'[j] = Rest'[j - 1]
    BY <1>1, <2>1
  <2>3. Rest' # <<>>
    BY <1>1, <2>1
  <2>4. PICK c \in Calls : c.op = "checkExpired" /\ Rest' = <<c>>
    BY <2>3 DEF CheckBehind
  <2>5. Len(Rest') = 1 /\ Rest'[1] = c
    BY <2>4
  <2>6. j - 1 = 1
    BY <2>1, <2>5
  <2> QED BY <2>2, <2>4, <2>5, <2>6
<1> QED BY <1>2 DEF FreshRegions

LEMMA MediaFinishedRests ==
  ASSUME FiniteLayouts, PlaybackInv, PlaybackInv', QueueInv', Resting, MediaFinished
  PROVE  Resting'
<1>1. /\ todo # <<>> /\ todo \in Seq(Calls) /\ Head(todo).op = "finished"
      /\ depth \in Nat /\ \A o : Calling(o) <=> "finished" = o
  BY HeadOp DEF MediaFinished
<1>2. Head(todo).region \in Regions /\ Head(todo).region \in Nat
  BY <1>1, HeadRegion DEF RegionCalls
<1>3. Rest = <<>> /\ depth = 0 /\ depth' = 0
  BY <1>1 DEF Resting, BehindInv, DepthInv, MediaFinished
<1> DEFINE r == Head(todo).region
           n == NextIndex(r, current[r])
           check == Call("checkExpired", r, 0)
           place == Call("placeMedia", r, n)
<1>4. n \in Nat
  BY <1>2, NextIsMedium
<1>5. /\ check \in Calls /\ check.op = "checkExpired"
      /\ place \in Calls /\ place.op = "placeMedia"
  <2>1. {"checkExpired", "placeMedia"} \subseteq Operations /\ 0 \in Nat
    BY DEF Operations
  <2> HIDE DEF n
  <2> QED BY <1>2, <1>4, <2>1, CallType
<1>6. \/ todo' = <<place>> \o <<check>> \o <<>>
      \/ todo' = <<check>> \o <<>>
  BY <1>3 DEF MediaFinished
<1> HIDE DEF check, place
<1>7. Counted' /\ Len(queue') \in Nat
  BY FlaggedCounts, QueueCountsNext DEF FiniteLayouts
<1>8. CASE todo' = <<check>> \o <<>>
  <2>1. todo' = <<check>>
    <3>1. <<check>> \in Seq(Calls)
      BY <1>5
    <3> QED BY <1>8, <3>1, ConcatEmptySeq
  <2>2. /\ todo' # <<>> /\ Head(todo') = check
        /\ ~CheckBehind' /\ BehindInv' /\ FreshRegions'
    BY <1>5, <2>1, OneIsLeft
  <2>3. \A o : Calling(o)' <=> "checkExpired" = o
    BY <1>5, <2>2 DEF Calling
  <2> QED BY <1>3, <1>7, <2>2, <2>3 DEF Resting, DepthInv, Counted
<1>9. CASE todo' = <<place>> \o <<check>> \o <<>>
  <2>1. Two(<<place>> \o <<check>>, Calls, place, check)
    BY <1>5, ElementsOfTwo
  <2>2. todo' = <<place>> \o <<check>>
    BY <1>9, <2>1, ConcatEmptySeq DEF Two
  <2>3. todo' # <<>> /\ Head(todo') = place /\ Rest' = <<check>> /\ todo' \in Seq(Calls)
    BY <2>1, <2>2 DEF Two, Rest
  <2>4. CheckBehind'
    BY <1>5, <2>3 DEF CheckBehind
  <2>5. \A o : Calling(o)' <=> "placeMedia" = o
    BY <1>5, <2>3 DEF Calling
  <2>6. FreshRegions'
    BY <2>3, <2>4, <2>5, FreshAlone
  <2>7. BehindInv'
    BY <1>5, <2>3, <2>4, <2>5 DEF BehindInv
  <2> QED BY <1>3, <1>7, <2>4, <2>5, <2>6, <2>7 DEF Resting, DepthInv, Counted
<1> QED BY <1>6, <1>8, <1>9

LEMMA CheckExpiredRests ==
  ASSUME FiniteLayouts, PlaybackInv, PlaybackInv', QueueInv', Resting, CheckExpired
  PROVE  Resting'
<1>1. /\ todo # <<>> /\ todo \in Seq(Calls) /\ Head(todo).op = "checkExpired"
      /\ depth \in Nat /\ \A o : Calling(o) <=> "checkExpired" = o
  BY HeadOp DEF CheckExpired
<1>2. Head(todo).region \in Regions /\ Head(todo).region \in Nat
  BY <1>1, HeadRegion DEF RegionCalls
<1>3. /\ Rest = <<>> /\ depth <= Cardinality(Flagged)
      /\ UNCHANGED <<layoutId, unsafeLayout, depth>>
  BY <1>1 DEF Resting, BehindInv, DepthInv, CheckExpired, layoutVars, unsafeVars
<1>4. Counted /\ Counted' /\ Flagged' = Flagged /\ Len(queue') \in Nat
  BY <1>3, FlaggedCounts, QueueCountsNext DEF FiniteLayouts, Flagged
<1> DEFINE c == Call("regionExpired", Head(todo).region, 0)
<1>5. c \in Calls /\ c.op = "regionExpired"
  <2>1. "regionExpired" \in Operations /\ 0 \in Nat
    BY DEF Operations
  <2> QED BY <1>2, <2>1, CallType
<1>6. todo' = <<c>> \o <<>> \/ todo' = <<>> \o <<>>
  BY <1>3 DEF CheckExpired
<1> HIDE DEF c
<1>7. CASE todo' = <<c>> \o <<>>
  <2>1. todo' = <<c>>
    <3>1. <<c>> \in Seq(Calls)
      BY <1>5
    <3> QED BY <1>7, <3>1, ConcatEmptySeq
  <2>2. /\ todo' # <<>> /\ Head(todo') = c
        /\ ~CheckBehind' /\ BehindInv' /\ FreshRegions'
    BY <1>5, <2>1, OneIsLeft
  <2>3. \A o : Calling(o)' <=> "regionExpired" = o
    BY <1>5, <2>2 DEF Calling
  <2>4. Within(Cardinality(Flagged))'
    <3>1. Cardinality(Flagged') \in Nat /\ depth' \in Nat /\ depth' <= Cardinality(Flagged')
      BY <1>1, <1>3, <1>4 DEF Counted
    <3> QED BY <3>1, WithinFlagged DEF Within
  <2> QED BY <1>1, <1>3, <1>4, <2>2, <2>3, <2>4 DEF Resting, DepthInv, Counted
<1>8. CASE todo' = <<>> \o <<>>
  <2>1. todo' = <<>>
    BY <1>8
  <2>2. BehindInv' /\ FreshRegions' /\ \A op : ~Calling(op)'
    BY <2>1, NoneIsLeft
  <2> QED BY <1>1, <1>3, <1>4, <2>2 DEF Resting, DepthInv, Counted
<1> QED BY <1>6, <1>7, <1>8

(* Each region of a layout that starts is to be placed once.               *)
LEMMA StartLayoutRests ==
  ASSUME FiniteLayouts, PlaybackInv, PlaybackInv', Resting, StartLayout
  PROVE  Resting'
<1>1. /\ todo # <<>> /\ todo \in Seq(Calls) /\ Head(todo).op = "startLayout"
      /\ depth \in Nat /\ \A o : Calling(o) <=> "startLayout" = o
  BY HeadOp DEF StartLayout
<1>2. /\ Rest = <<>> /\ Starting /\ expiredRegions = {}
      /\ Hopeless \/ depth <= Cardinality(LayoutIds) + Len(queue) + 1
      /\ UNCHANGED <<queue, layoutId, layout, unsafeMedia, unsafeWidget, unsafeLayout>>
      /\ UNCHANGED <<depth, expiredRegions>>
  BY <1>1 DEF Resting, BehindInv, DepthInv, FreshRegions, StartLayout, unsafeVars
<1>3. /\ Starting'
      /\ Hopeless' \/ depth' <= Cardinality(LayoutIds) + Len(queue') + 1
  <2>1. Others' = Others
    BY <1>2 DEF Flagged, Others
  <2>2. Hopeless' = Hopeless /\ Spent' = Spent /\ Lively' = Lively
    BY <1>2, SameQueue, SameLively
  <2> QED BY <1>2, <2>1, <2>2 DEF Starting, Within
<1> DEFINE s == [r \in Regions |-> Call("placeMedia", r, 1)]
           n == Len(layout.regions)
<1>4. s \in Seq(Calls) /\ \A c \in Elements(s) : c.op = "placeMedia"
  BY PlaceCalls
<1>5. n \in Nat /\ Regions = 1..n
  BY InvParts, LayoutLengths DEF Regions
<1>6. Len(s) = n
  <2>1. DOMAIN s = 1..n /\ DOMAIN s = 1..Len(s) /\ Len(s) \in Nat
    <3> HIDE DEF n
    <3> QED BY <1>4, <1>5
  <2> HIDE DEF n, s
  <2> QED BY <1>5, <2>1
<1>7. \A r \in 1..n : s[r].region = r
  BY <1>5 DEF Call
<1>8. todo' = s
  <2>1. todo' = s \o Rest
    BY DEF StartLayout
  <2> HIDE DEF s
  <2> QED BY <1>2, <1>4, <2>1, ConcatEmptySeq
<1> HIDE DEF s, n
<1>9. FreshRegions' \/ Calling("startLayout")'
  <2>1. ASSUME NEW j \in 2..Len(todo'), NEW i \in 1..(j - 1)
        PROVE  todo'[i].region # todo'[j].region
    <3>1. i \in 1..n /\ j \in 1..n /\ i # j
      BY <1>5, <1>6, <1>8
    <3> QED BY <1>7, <1>8, <3>1
  <2> QED BY <1>2, <2>1 DEF FreshRegions
<1>10. CASE s = <<>>
  <2>1. BehindInv' /\ FreshRegions' /\ \A op : ~Calling(op)'
    BY <1>8, <1>10, NoneIsLeft
  <2> QED BY <1>3, <2>1 DEF Resting, DepthInv
<1>11. CASE s # <<>>
  <2>1. Elements(s) = {Head(s)} \cup Elements(Tail(s))
    BY <1>4, <1>11, HeadAndRest
  <2>2. Head(todo').op = "placeMedia" /\ OnlyMediaBehind' /\ todo' # <<>>
    BY <1>4, <1>8, <1>11, <2>1 DEF OnlyMediaBehind, Rest
  <2>3. \A o : Calling(o)' <=> "placeMedia" = o
    BY <2>2 DEF Calling
  <2>4. ~CheckBehind'
    <3> SUFFICES ASSUME NEW c \in Calls, c.op = "checkExpired", Rest' = <<c>>
                 PROVE  FALSE
      BY DEF CheckBehind
    <3>1. c \in Elements(Rest')
      BY ElementsOfOne
    <3> QED BY <2>2, <3>1 DEF OnlyMediaBehind
  <2>5. BehindInv' /\ FreshRegions'
    BY <1>9, <2>2, <2>3 DEF BehindInv
  <2> QED BY <1>3, <2>3, <2>4, <2>5 DEF Resting, DepthInv
<1> QED BY <1>10, <1>11

(* The last region that expires leaves none to be placed.                  *)
LEMMA RegionExpiredRests ==
  ASSUME FiniteLayouts, PlaybackInv, PlaybackInv', QueueInv', Resting, RegionExpired
  PROVE  Resting'
<1>1. /\ todo # <<>> /\ todo \in Seq(Calls) /\ Head(todo).op = "regionExpired"
      /\ depth \in Nat /\ \A o : Calling(o) <=> "regionExpired" = o
  BY HeadOp DEF RegionExpired
<1> DEFINE r == Head(todo).region
<1>2. /\ Hopeless \/ depth <= Cardinality(LayoutIds) + Len(queue) + 1
      /\ CheckBehind => depth + 1 <= Cardinality(Flagged)
      /\ ~CheckBehind => \/ Lively /\ SafeMedia(r) = {}
                         \/ Within(Cardinality(Flagged))
      /\ CheckBehind \/ OnlyMediaBehind
      /\ expiredRegions' = expiredRegions \cup {r}
      /\ UNCHANGED <<queue, layoutId, layout, unsafeMedia, unsafeWidget, unsafeLayout, depth>>
  BY <1>1 DEF Resting, BehindInv, DepthInv, RegionExpired, unsafeVars
<1>3. /\ Counted /\ Counted' /\ Flagged' = Flagged /\ Others' = Others
      /\ Hopeless' = Hopeless /\ Spent' = Spent
  BY <1>2, FlaggedCounts, SameQueue DEF FiniteLayouts, Flagged, Others
<1>4. ASSUME Lively, SafeMedia(r) = {}
      PROVE  Lively' /\ expiredRegions' # Regions
  <2>1. PICK q \in Regions \ expiredRegions : SafeMedia(q) # {}
    BY <1>4 DEF Lively
  <2>2. q \in Regions \ expiredRegions'
    BY <1>2, <1>4, <2>1
  <2>3. Regions' = Regions /\ SafeMedia(q)' = SafeMedia(q)
    BY <1>2, SameLayout, SameCandidate
  <2> QED BY <2>1, <2>2, <2>3 DEF Lively
<1>5. Hopeless' \/ depth' <= Cardinality(LayoutIds) + Len(queue') + 1
  BY <1>2, <1>3
<1>6. Within(Cardinality(Flagged)) => Within(Cardinality(Flagged))' /\ Within(Cardinality(Others) + 1)'
  <2> SUFFICES ASSUME Within(Cardinality(Flagged)), ~Hopeless
               PROVE  /\ Within(Cardinality(Flagged))'
                      /\ Within(Cardinality(Others) + 1)'
    BY <1>3 DEF Within
  <2>1. PICK k \in Spent : depth <= Cardinality(Flagged) + k
    BY DEF Within
  <2>2. k \in Nat
    BY <2>1, LenProperties DEF Spent
  <2>3. depth' <= Cardinality(Flagged') + k /\ depth' <= Cardinality(Others') + 1 + k
    BY <1>1, <1>2, <1>3, <2>1, <2>2 DEF Counted
  <2> QED BY <1>3, <2>1, <2>3 DEF Within
<1>7. CASE todo' = Rest
  <2>1. CheckBehind => depth <= Cardinality(Flagged)
    BY <1>1, <1>2, <1>3 DEF Counted
  <2>2. ~CheckBehind => Starting'
    BY <1>2, <1>4, <1>6 DEF Starting
  <2>3. Hopeless' \/ depth <= Cardinality(LayoutIds) + Len(queue') + 1
    BY <1>2, <1>5
  <2> QED BY <1>1, <1>2, <1>7, <2>1, <2>2, <2>3, PoppedRests DEF FiniteLayouts
<1>8. CASE expiredRegions' = Regions /\ todo' = <<Call("expired", 0, 0)>> \o Rest
  <2> DEFINE c == Call("expired", 0, 0)
  <2>1. c \in Calls /\ c.op = "expired"
    <3>1. "expired" \in Operations /\ 0 \in Nat
      BY DEF Operations
    <3> QED BY <3>1, CallType
  <2>2. todo' = <<c>> \o Rest
    BY <1>8
  <2> HIDE DEF c
  <2>3. /\ todo' # <<>> /\ Head(todo') = c /\ Rest' = Rest
        /\ CheckBehind' = CheckBehind
    BY <1>1, <2>1, <2>2, CallReplaced
  <2>4. \A o : Calling(o)' <=> "expired" = o
    BY <2>1, <2>3 DEF Calling
  <2>5. Rest = <<>> \/ CheckBehind
    <3> SUFFICES ASSUME Rest # <<>>, OnlyMediaBehind PROVE FALSE
      BY <1>2
    <3>1. Head(Rest) \in Elements(Rest)
      BY <1>1, CallFacts, HeadAndRest
    <3>2. Head(Rest).op = "placeMedia"
      BY <3>1 DEF OnlyMediaBehind
    <3>3. Head(Rest).region \in Regions
      BY <1>1, <3>1, <3>2, InvParts DEF CallsInv, NestedCalls, RegionCalls
    <3>4. Head(Rest).region \notin expiredRegions'
      BY <1>1, <1>2, <3>1, <3>2, FreshBehind DEF Resting
    <3> QED BY <1>8, <3>3, <3>4
  <2>6. FreshRegions'
    <3>1. todo' \in Seq(Calls)
      BY InvParts DEF PlaybackInv, ScreenTypeOK
    <3> QED BY <2>3, <2>4, <2>5, <3>1, FreshAlone
  <2>7. BehindInv'
    <3>1. Rest' = <<>> => OnlyMediaBehind'
      BY ElementsOfNone DEF OnlyMediaBehind
    <3> QED BY <2>1, <2>3, <2>4, <2>5, <3>1 DEF BehindInv
  <2>8. DepthInv'
    <3>1. CheckBehind' => depth' + 1 <= Cardinality(Flagged')
      BY <1>2, <1>3, <2>3
    <3>2. ~CheckBehind' => Within(Cardinality(Flagged))'
      BY <1>2, <1>8, <1>4, <1>6, <2>3
    <3> QED BY <1>5, <2>4, <3>1, <3>2 DEF DepthInv
  <2> QED BY <2>6, <2>7, <2>8 DEF Resting
<1> QED BY <1>7, <1>8 DEF RegionExpired

(* One layout more has expired, and one at least has been flagged for each *)
(* but one.                                                                *)
LEMMA LayoutExpiredRests ==
  ASSUME FiniteLayouts, PlaybackInv, PlaybackInv', QueueInv, Resting, slot = "main", LayoutExpired
  PROVE  Resting'
<1>1. /\ todo # <<>> /\ todo \in Seq(Calls) /\ Head(todo).op = "expired"
      /\ depth \in Nat /\ \A o : Calling(o) <=> "expired" = o
  BY HeadOp DEF LayoutExpired
<1>2. /\ CheckBehind => depth + 1 <= Cardinality(Flagged)
      /\ ~CheckBehind => Within(Cardinality(Flagged))
      /\ Rest = <<>> \/ CheckBehind
      /\ depth' = depth + 1
      /\ UNCHANGED <<queue, layoutId, unsafeMedia, unsafeWidget, unsafeLayout>>
  BY <1>1 DEF Resting, BehindInv, DepthInv, LayoutExpired, layoutVars, unsafeVars
<1>3. /\ Counted /\ Flagged' = Flagged
      /\ Hopeless' = Hopeless /\ Spent' = Spent
  BY <1>2, FlaggedCounts, SameQueue DEF FiniteLayouts, Flagged
<1> DEFINE c == Call("fetchMainLayout", 0, 0)
<1>4. c \in Calls /\ c.op = "fetchMainLayout"
  <2>1. "fetchMainLayout" \in Operations /\ 0 \in Nat
    BY DEF Operations
  <2> QED BY <2>1, CallType
<1>5. todo' = <<c>> \o Rest
  BY DEF LayoutExpired
<1> HIDE DEF c
<1>6. /\ todo' # <<>> /\ Head(todo') = c /\ Rest' = Rest
      /\ CheckBehind' = CheckBehind
  BY <1>1, <1>4, <1>5, CallReplaced
<1>7. \A o : Calling(o)' <=> "fetchMainLayout" = o
  BY <1>4, <1>6 DEF Calling
<1>8. FreshRegions'
  <2>1. todo' \in Seq(Calls)
    BY InvParts DEF PlaybackInv, ScreenTypeOK
  <2> QED BY <1>2, <1>6, <1>7, <2>1, FreshAlone
<1>9. BehindInv'
  <2>1. Rest' = <<>> => OnlyMediaBehind'
    BY ElementsOfNone DEF OnlyMediaBehind
  <2> QED BY <1>2, <1>4, <1>6, <1>7, <2>1 DEF BehindInv
<1>10. DepthInv'
  <2>1. Len(queue) \in Nat /\ Spent \subseteq 0..Len(queue)
    BY QueueCounts
  <2>2. CASE CheckBehind
    <3>1. /\ depth' <= Cardinality(Flagged')
          /\ depth' <= Cardinality(LayoutIds) + Len(queue') + 1
      BY <1>1, <1>2, <1>3, <2>1, <2>2 DEF Counted
    <3> QED BY <1>6, <1>7, <2>2, <3>1 DEF DepthInv
  <2>3. CASE ~CheckBehind /\ Hopeless
    BY <1>3, <1>6, <1>7, <2>3 DEF DepthInv, Within
  <2>4. CASE ~CheckBehind /\ ~Hopeless
    <3>1. PICK k \in Spent : depth <= Cardinality(Flagged) + k
      BY <1>2, <2>4 DEF Within
    <3>2. /\ depth' <= Cardinality(Flagged') + 1 + k
          /\ depth' <= Cardinality(LayoutIds) + Len(queue') + 1
      BY <1>1, <1>2, <1>3, <2>1, <3>1 DEF Counted
    <3>3. Within(Cardinality(Flagged) + 1)'
      BY <1>3, <3>1, <3>2 DEF Within
    <3> QED BY <1>6, <1>7, <2>4, <3>2, <3>3 DEF DepthInv
  <2> QED BY <2>2, <2>3, <2>4
<1> QED BY <1>8, <1>9, <1>10 DEF Resting

(* Those that were flagged are others than what is loaded, but for one at  *)
(* most, and none is it when that was not flagged.                         *)
LEMMA FlaggedAreOthers ==
  ASSUME IsFiniteSet(LayoutIds), PlaybackInv, NEW id \in LayoutIds, CreateLayout(id),
         id \in Loadable
  PROVE  /\ Cardinality(Flagged) <= Cardinality(Others') + 1
         /\ unsafeLayout[id] = 0 => Cardinality(Flagged) <= Cardinality(Others')
<1>1. unsafeLayout \in [LayoutIds -> Nat] /\ layoutId' = id
  BY InvParts DEF ScreenTypeOK, CreateLayout, Load
<1>2. ASSUME NEW k \in Flagged \ {id} PROVE k \in Others'
  <2>1. k \in LayoutIds /\ unsafeLayout[k] > 0 /\ k # id
    BY <1>2 DEF Flagged
  <2>2. unsafeLayout'[k] = unsafeLayout[k]
    <3>1. CASE id \in FlaggedByParser
      <4> DEFINE m == Max({unsafeLayout[id], UnsafeRegionTtl})
      <4>1. unsafeLayout' = [unsafeLayout EXCEPT ![id] = m]
        BY <3>1 DEF CreateLayout
      <4> HIDE DEF m
      <4> QED BY <1>1, <2>1, <4>1
    <3>2. CASE id \notin FlaggedByParser
      BY <3>2 DEF CreateLayout
    <3> QED BY <3>1, <3>2
  <2> QED BY <1>1, <2>1, <2>2 DEF Flagged, Others
<1>3. IsFiniteSet(Others') /\ Cardinality(Others') \in Nat
  <2>1. Others' \in SUBSET LayoutIds
    BY DEF Flagged, Others
  <2> QED BY <2>1, FS_Subset, FS_CardinalityType
<1>4. /\ Cardinality(Flagged) \in Nat /\ Cardinality(Flagged \ {id}) \in Nat
      /\ Cardinality(Flagged) <= Cardinality(Flagged \ {id}) + 1
  <2>1. Flagged \in SUBSET LayoutIds
    BY DEF Flagged
  <2> QED BY <2>1, OneMore
<1>5. Cardinality(Flagged \ {id}) <= Cardinality(Others')
  BY <1>2, <1>3, FS_Subset
<1>6. unsafeLayout[id] = 0 => Cardinality(Flagged \ {id}) = Cardinality(Flagged)
  <2> SUFFICES ASSUME unsafeLayout[id] = 0 PROVE Flagged \ {id} = Flagged
    BY Zenon
  <2> QED BY DEF Flagged
<1> QED BY <1>3, <1>4, <1>5, <1>6

(* A layout that has something to play, of which no region has expired.    *)
LEMMA PlayableIsLively ==
  ASSUME PlaybackInv, NEW id, id \in Loadable, Load(id, LayoutOf[id]),
         UNCHANGED <<unsafeMedia, unsafeWidget>>, ~Unplayable(id)
  PROVE  Lively'
<1> DEFINE l == LayoutOf[id]
<1>0. PICK r \in 1..Len(l.regions) :
        \E i \in 1..Len(l.regions[r].media) : ~Unsafe(l.regions[r].media[i].id)
  BY DEF Unplayable
<1>1. PICK i \in 1..Len(l.regions[r].media) : ~Unsafe(l.regions[r].media[i].id)
  BY <1>0
<1>2. layout' = l /\ expiredRegions' = {}
  BY DEF Load
<1> HIDE DEF l
<1>3. r \in Regions' \ expiredRegions'
  BY <1>1, <1>2 DEF Regions
<1>4. i \in SafeMedia(r)'
  BY <1>1, <1>2 DEF SafeMedia, Media, Options, Unsafe
<1> QED BY <1>3, <1>4 DEF Lively

(* The next of the queue is the last of it then.                           *)
LEMMA RotatedSpent ==
  ASSUME QueueInv, queue # <<>>, queue' = Rotated(queue),
         UNCHANGED <<unsafeMedia, unsafeWidget>>
  PROVE  /\ Len(queue') = Len(queue)
         /\ Hopeless => Hopeless'
         /\ ~Hopeless /\ Unplayable(Head(queue)) => \A k \in Spent : k + 1 \in Spent'
<1>1. /\ Rotated(queue) \in Seq(LayoutIds) /\ Len(queue') = Len(queue)
      /\ Len(queue) \in Nat /\ Len(queue) # 0 /\ Head(queue) = queue[1]
      /\ \A i \in 1..Len(queue) : queue'[i] = IF i < Len(queue) THEN queue[i + 1] ELSE queue[1]
  BY RotatedIndex, HeadTailProperties DEF QueueInv
<1>2. \A id : Unplayable(id)' = Unplayable(id)
  BY SameUnplayable
<1>3. ASSUME Hopeless PROVE Hopeless'
  <2>1. ASSUME NEW i \in 1..Len(queue) PROVE Unplayable(queue'[i])
    <3>1. \/ queue'[i] = queue[i + 1] /\ i + 1 \in 1..Len(queue)
          \/ queue'[i] = queue[1] /\ 1 \in 1..Len(queue)
      BY <1>1
    <3> QED BY <1>3, <3>1 DEF Hopeless
  <2>2. queue' # <<>>
    BY <1>1
  <2> QED BY <1>1, <1>2, <2>1, <2>2 DEF Hopeless
<1>4. ASSUME ~Hopeless, Unplayable(Head(queue)), NEW k \in Spent
      PROVE  k + 1 \in Spent'
  <2>1. /\ k \in 0..Len(queue)
        /\ \A i \in 1..Len(queue) : i > Len(queue) - k => Unplayable(queue[i])
    BY DEF Spent
  <2>2. k # Len(queue)
    <3> SUFFICES ASSUME k = Len(queue) PROVE Hopeless
      BY <1>4
    <3>1. \A i \in 1..Len(queue) : i > Len(queue) - k
      BY <1>1
    <3> QED BY <2>1, <3>1 DEF Hopeless
  <2>3. k + 1 \in 0..Len(queue')
    BY <1>1, <2>1, <2>2
  <2>4. ASSUME NEW i \in 1..Len(queue), i > Len(queue) - (k + 1)
        PROVE  Unplayable(queue'[i])
    <3>1. CASE i < Len(queue)
      <4>1. i + 1 \in 1..Len(queue) /\ i + 1 > Len(queue) - k
        BY <1>1, <2>1, <2>4, <3>1
      <4> QED BY <1>1, <2>1, <3>1, <4>1
    <3>2. CASE ~(i < Len(queue))
      BY <1>1, <1>4, <3>2
    <3> QED BY <3>1, <3>2
  <2> QED BY <1>1, <1>2, <2>3, <2>4 DEF Spent
<1> QED BY <1>1, <1>3, <1>4

(* A layout that has just been loaded.                                     *)
LEMMA StartRests ==
  ASSUME todo' = <<Call("startLayout", 0, 0)>>, expiredRegions' = {}, Starting',
         Hopeless' \/ depth' <= Cardinality(LayoutIds) + Len(queue') + 1
  PROVE  Resting'
<1> DEFINE c == Call("startLayout", 0, 0)
<1>1. c \in Calls /\ c.op = "startLayout"
  <2>1. "startLayout" \in Operations /\ 0 \in Nat
    BY DEF Operations
  <2> QED BY <2>1, CallType
<1>2. todo' = <<c>>
  OBVIOUS
<1> HIDE DEF c
<1>3. /\ todo' # <<>> /\ Head(todo') = c
      /\ ~CheckBehind' /\ BehindInv' /\ FreshRegions'
  BY <1>1, <1>2, OneIsLeft
<1>4. \A o : Calling(o)' <=> "startLayout" = o
  BY <1>1, <1>3 DEF Calling
<1> QED BY <1>3, <1>4 DEF Resting, DepthInv

(* A layout that loads: an override, or the next of a queue, be it the one *)
(* that there was or one that has just been reloaded.                      *)
LEMMA FetchRestsLoaded ==
  ASSUME FiniteLayouts, PlaybackInv, QueueInv, QueueInv', Resting,
         Calling("fetchMainLayout"), UNCHANGED <<unsafeMedia, unsafeWidget>>,
         NEW id \in LayoutIds, NEW q \in CurrentQueues, NEW p, Fetch(id, p),
         id \in Loadable,
         \/ unsafeLayout[id] = 0 /\ p = q
         \/ q # <<>> /\ id = Head(q) /\ p = Rotated(q)
  PROVE  Resting'
<1>1. /\ todo # <<>> /\ todo \in Seq(Calls) /\ depth \in Nat
      /\ \A o : Calling(o) <=> "fetchMainLayout" = o
  BY HeadOp
<1>2. /\ Hopeless \/ depth <= Cardinality(LayoutIds) + Len(queue) + 1
      /\ CheckBehind => depth <= Cardinality(Flagged)
      /\ ~CheckBehind => Within(Cardinality(Flagged) + 1)
  BY <1>1 DEF Resting, DepthInv
<1>3. CreateLayout(id) /\ queue' = p /\ depth' = depth
  BY DEF Fetch
<1>4. /\ Load(id, LayoutOf[id]) /\ expiredRegions' = {}
      /\ todo' = <<Call("startLayout", 0, 0)>>
  BY <1>3 DEF CreateLayout, Load
<1>5. /\ Counted /\ Counted'
      /\ Cardinality(Flagged) <= Cardinality(Others') + 1
      /\ unsafeLayout[id] = 0 => Cardinality(Flagged) <= Cardinality(Others')
  BY <1>3, FlaggedCounts, FlaggedAreOthers DEF FiniteLayouts
<1>6. Len(queue') \in Nat /\ Len(queue) \in Nat /\ Spent \subseteq 0..Len(queue)
  BY QueueCounts, QueueCountsNext
<1>7. CASE depth <= 1 \/ CheckBehind
  <2>1. depth' <= Cardinality(Others') + 1
    BY <1>1, <1>2, <1>3, <1>5, <1>7 DEF Counted
  <2>2. Starting'
    <3>1. Cardinality(Others') + 1 \in Nat /\ depth' \in Nat
      BY <1>1, <1>3, <1>5 DEF Counted
    <3> QED BY <2>1, <3>1, WithinFlagged DEF Starting, Within
  <2>3. depth' <= Cardinality(LayoutIds) + Len(queue') + 1
    BY <1>1, <1>2, <1>3, <1>5, <1>6, <1>7 DEF Counted
  <2> QED BY <1>4, <2>2, <2>3, StartRests
<1>8. CASE ~(depth <= 1) /\ ~CheckBehind
  <2>1. q = queue
    BY <1>8 DEF CurrentQueues
  <2>2. CASE p = q /\ unsafeLayout[id] = 0
    <3>1. Hopeless' = Hopeless /\ Spent' = Spent
      BY <1>3, <2>1, <2>2, SameQueue
    <3>2. Within(Cardinality(Others) + 1)'
      <4> SUFFICES ASSUME ~Hopeless
                   PROVE  \E k \in Spent : depth <= Cardinality(Others') + 1 + k
        BY <1>3, <3>1 DEF Within
      <4>1. PICK k \in Spent : depth <= Cardinality(Flagged) + 1 + k
        BY <1>2, <1>8 DEF Within
      <4>2. depth <= Cardinality(Others') + 1 + k
        BY <1>1, <1>5, <1>6, <2>2, <4>1 DEF Counted
      <4> QED BY <4>1, <4>2
    <3>3. Hopeless' \/ depth' <= Cardinality(LayoutIds) + Len(queue') + 1
      BY <1>2, <1>3, <2>1, <2>2, <3>1
    <3>4. Starting'
      BY <3>2 DEF Starting
    <3> QED BY <1>4, <3>3, <3>4, StartRests
  <2>3. CASE q # <<>> /\ id = Head(q) /\ p = Rotated(q)
    <3>1. /\ Len(queue') = Len(queue)
          /\ Hopeless => Hopeless'
          /\ ~Hopeless /\ Unplayable(id) => \A k \in Spent : k + 1 \in Spent'
      BY <1>3, <2>1, <2>3, RotatedSpent
    <3>2. Starting'
      <4>1. CASE Hopeless
        BY <3>1, <4>1 DEF Starting, Within
      <4>2. CASE ~Unplayable(id)
        BY <1>4, <4>2, PlayableIsLively DEF Starting
      <4>3. CASE ~Hopeless /\ Unplayable(id)
        <5>1. PICK k \in Spent : depth <= Cardinality(Flagged) + 1 + k
          BY <1>2, <1>8, <4>3 DEF Within
        <5>2. depth' <= Cardinality(Others') + 1 + (k + 1)
          BY <1>1, <1>3, <1>5, <1>6, <5>1 DEF Counted
        <5>3. k + 1 \in Spent'
          BY <3>1, <4>3, <5>1
        <5> QED BY <5>2, <5>3 DEF Starting, Within
      <4> QED BY <4>1, <4>2, <4>3
    <3>3. Hopeless' \/ depth' <= Cardinality(LayoutIds) + Len(queue') + 1
      BY <1>2, <1>3, <3>1
    <3> QED BY <1>4, <3>2, <3>3, StartRests
  <2> QED BY <2>2, <2>3
<1> QED BY <1>7, <1>8

LEMMA FetchMainLayoutRests ==
  ASSUME FiniteLayouts, PlaybackInv, PlaybackInv', QueueInv, QueueInv', Resting,
         FetchMainLayout
  PROVE  Resting'
<1>1. /\ todo # <<>> /\ todo \in Seq(Calls) /\ depth \in Nat
      /\ Head(todo).op = "fetchMainLayout"
      /\ Calling("fetchMainLayout") /\ \A o : Calling(o) <=> "fetchMainLayout" = o
  <2>1. Calling("fetchMainLayout")
    BY DEF FetchMainLayout
  <2> QED BY <2>1, HeadOp
<1>2. /\ Hopeless \/ depth <= Cardinality(LayoutIds) + Len(queue) + 1
      /\ CheckBehind => depth <= Cardinality(Flagged)
      /\ Rest = <<>> \/ CheckBehind
  BY <1>1 DEF Resting, BehindInv, DepthInv
<1>3. UNCHANGED <<unsafeMedia, unsafeWidget>>
  BY DEF FetchMainLayout
<1>4. ASSUME NEW id \in LayoutIds, NEW p, Fetch(id, p), id \notin Loadable
      PROVE  Resting'
  <2>1. todo' = <<>> /\ depth' = 0
    BY <1>4 DEF Fetch, CreateLayout
  <2> QED BY <2>1, EventRests DEF FiniteLayouts
<1>5. PICK q \in CurrentQueues :
        /\ q \in Seq(LayoutIds)
        /\ \/ /\ q = <<>> /\ queue' = q /\ todo' = Rest
              /\ UNCHANGED <<layoutVars, unsafeLayout, depth>>
           \/ \E id \in LayoutIds : unsafeLayout[id] = 0 /\ Fetch(id, q)
           \/ /\ q # <<>> /\ Head(q) \in LayoutIds
              /\ Fetch(Head(q), Rotated(q)) /\ Rotated(q) \in Seq(LayoutIds)
  BY FetchCases
<1>6. CASE q = <<>> /\ queue' = q /\ todo' = Rest /\ UNCHANGED <<layoutVars, unsafeLayout, depth>>
  <2>1. Hopeless' \/ depth <= Cardinality(LayoutIds) + Len(queue') + 1
    <3>1. CASE q = queue
      BY <1>2, <1>3, <1>6, <3>1, SameQueue
    <3>2. CASE depth <= 1
      <4>1. Cardinality(LayoutIds) \in Nat /\ Len(queue') \in Nat
        BY FlaggedCounts, QueueCountsNext DEF Counted, FiniteLayouts
      <4> QED BY <1>1, <3>2, <4>1
    <3> QED BY <3>1, <3>2 DEF CurrentQueues
  <2>2. /\ UNCHANGED <<layoutId, unsafeLayout, depth, expiredRegions>>
        /\ ~(~CheckBehind /\ Rest # <<>>)
        /\ expiredRegions' \subseteq expiredRegions \cup {Head(todo).region}
    BY <1>2, <1>6 DEF layoutVars
  <2> QED BY <1>1, <1>2, <1>6, <2>1, <2>2, PoppedRests DEF FiniteLayouts
<1>7. CASE \E id \in LayoutIds : unsafeLayout[id] = 0 /\ Fetch(id, q)
  BY <1>1, <1>3, <1>4, <1>7, FetchRestsLoaded
<1>8. CASE q # <<>> /\ Head(q) \in LayoutIds /\ Fetch(Head(q), Rotated(q))
  BY <1>1, <1>3, <1>4, <1>8, FetchRestsLoaded
<1> QED BY <1>5, <1>6, <1>7, <1>8

LEMMA CallRests ==
  ASSUME FiniteLayouts, PlaybackInv, PlaybackInv', QueueInv, QueueInv', Resting,
         slot = "main", PendingCall
  PROVE  Resting'
<1>1. CASE Restart
  <2>1. todo # <<>> /\ Calling("restart")
    BY <1>1 DEF Restart, Calling
  <2> QED BY <2>1 DEF Resting, BehindInv
<1>2. CASE Crash
  BY <1>2, EventRests DEF Crash, FiniteLayouts
<1> QED BY <1>1, <1>2, PlaceMediaRests, MediaFinishedRests, CheckExpiredRests,
           StartLayoutRests, RegionExpiredRests, LayoutExpiredRests,
           FetchMainLayoutRests DEF PendingCall

(* What happens at rest begins a handler with one call, or none.           *)
LEMMA FinishedRests ==
  ASSUME IsFiniteSet(LayoutIds), PlaybackInv, QueueInv', NEW r \in Regions,
         Event(<<>>) \/ Event(Finished(r))
  PROVE  Resting'
<1> DEFINE c == Call("finished", r, 0)
<1>1. c \in Calls /\ c.op = "finished"
  <2>1. "finished" \in Operations /\ 0 \in Nat /\ r \in Nat
    BY InvParts DEF Operations
  <2> QED BY <2>1, CallType
<1>2. depth' = 0 /\ (todo' = <<>> \/ todo' = <<c>>)
  BY DEF Event, Finished
<1> HIDE DEF c
<1> QED BY <1>1, <1>2, EventRests

LEMMA NothingRests ==
  ASSUME IsFiniteSet(LayoutIds), QueueInv', Event(<<>>)
  PROVE  Resting'
BY EventRests DEF Event

LEMMA FetchRests ==
  ASSUME IsFiniteSet(LayoutIds), QueueInv', Event(<<Call("fetchMainLayout", 0, 0)>>)
  PROVE  Resting'
<1> DEFINE c == Call("fetchMainLayout", 0, 0)
<1>1. c \in Calls /\ c.op = "fetchMainLayout"
  <2>1. "fetchMainLayout" \in Operations /\ 0 \in Nat
    BY DEF Operations
  <2> QED BY <2>1, CallType
<1>2. depth' = 0 /\ todo' = <<c>>
  BY DEF Event
<1> HIDE DEF c
<1> QED BY <1>1, <1>2, EventRests

LEMMA PlaceRests ==
  ASSUME IsFiniteSet(LayoutIds), PlaybackInv, QueueInv', NEW r \in Regions, NEW i \in Nat,
         Event(<<Call("placeMedia", r, i)>>)
  PROVE  Resting'
<1> DEFINE c == Call("placeMedia", r, i)
<1>1. c \in Calls /\ c.op = "placeMedia"
  <2>1. "placeMedia" \in Operations /\ r \in Nat
    BY InvParts DEF Operations
  <2> QED BY <2>1, CallType
<1>2. depth' = 0 /\ todo' = <<c>>
  BY DEF Event
<1> HIDE DEF c
<1> QED BY <1>1, <1>2, EventRests

LEMMA DisturbanceRests ==
  ASSUME IsFiniteSet(LayoutIds), PlaybackInv, QueueInv', slot = "main", Disturbance
  PROVE  Resting'
<1>1. ASSUME NEW p \in AllMedia, StreamFails(p[1], p[2]) \/ AudioFails(p[1], p[2])
      PROVE  Resting'
  <2>1. p[1] \in Regions
    BY DEF AllMedia
  <2>2. Event(<<>>) \/ Event(Finished(p[1]))
    BY <1>1 DEF StreamFails, AudioFails, PlaybackFinished
  <2> QED BY <2>1, <2>2, FinishedRests
<1>2. CASE ScheduleChanges
  <2>1. Event(<<>>) \/ Event(<<Call("fetchMainLayout", 0, 0)>>)
    BY <1>2 DEF ScheduleChanges, Event
  <2> QED BY <2>1, NothingRests, FetchRests
<1>3. ASSUME NEW r \in Regions, NEW id \in MediaIds, NavigateToWidget(r, id)
      PROVE  Resting'
  <2> DEFINE i == Min(Shows(r, id))
  <2>1. i \in Nat
    <3>1. Shows(r, id) \subseteq Nat /\ Shows(r, id) # {}
      BY <1>3 DEF Shows, Media, NavigateToWidget
    <3> QED BY <3>1, MinOfMany
  <2>2. Event(<<>>) \/ Event(<<Call("placeMedia", r, i)>>)
    BY <1>3 DEF NavigateToWidget
  <2> HIDE DEF i
  <2> QED BY <2>1, <2>2, PlaceRests, NothingRests
<1>4. CASE ExpireDuration
  <2>1. \/ \E r \in Regions : Event(Finished(r))
        \/ Event(<<Call("fetchMainLayout", 0, 0)>>)
    BY <1>4 DEF ExpireDuration
  <2> QED BY <2>1, FinishedRests, FetchRests
<1>5. ASSUME NEW r \in Regions, NEW seconds \in Seconds,
             ExtendDuration(r, seconds) \/ SetDuration(r, seconds)
      PROVE  Resting'
  <2>1. \A s : RestartTimer(r, s) => Event(<<>>) \/ Event(Finished(r))
    BY DEF RestartTimer
  <2>2. \E s : RestartTimer(r, s)
    BY <1>5 DEF ExtendDuration, SetDuration
  <2> QED BY <2>1, <2>2, FinishedRests
<1>6. ASSUME NEW id \in MediaIds, NEW ttl \in FaultTtls, Fault(id, ttl)
      PROVE  Resting'
  <2>1. Event(<<>>)
    BY Zenon, <1>6 DEF Fault
  <2> QED BY <2>1, NothingRests
<1> QED BY <1>1, <1>2, <1>3, <1>4, <1>5, <1>6 DEF Disturbance

LEMMA NextRests ==
  ASSUME FiniteLayouts, PlaybackInv, PlaybackInv', QueueInv, QueueInv', RestInv, [Next]_vars
  PROVE  RestInv'
<1>1. slot' = slot
  <2>1. PendingCall => slot' = slot
    BY Zenon DEF PendingCall, PlaceMedia, MediaFinished, CheckExpired, StartLayout,
           RegionExpired, LayoutExpired, Restart, FetchMainLayout, Crash
  <2>2. Disturbance => slot' = slot
    BY Zenon DEF Disturbance, StreamFails, AudioFails, ScheduleChanges,
           NavigateToWidget, ExpireDuration, ExtendDuration, SetDuration, Fault, Request
  <2> QED BY Zenon, <2>1, <2>2 DEF Next, TimeOut, StreamEnd, TimerFires, EndOfStream,
                                   AudioEnds, Tick, vars
<1> SUFFICES ASSUME slot = "main" PROVE Resting'
  BY <1>1 DEF RestInv
<1>2. Resting
  BY DEF RestInv
<1>3. CASE PendingCall
  BY <1>2, <1>3, CallRests
<1>4. ASSUME NEW r \in Regions, TimeOut(r) \/ StreamEnd(r) PROVE Resting'
  <2>1. Event(<<>>) \/ Event(Finished(r))
    BY <1>4 DEF TimeOut, StreamEnd, TimerFires, EndOfStream, PlaybackFinished
  <2> QED BY <2>1, FinishedRests DEF FiniteLayouts
<1>5. ASSUME NEW p \in AllMedia, AudioEnds(p[1], p[2]) PROVE Resting'
  <2>1. Event(<<>>)
    BY Zenon, <1>5 DEF AudioEnds
  <2> QED BY <2>1, NothingRests DEF FiniteLayouts
<1>6. CASE Tick
  <2>1. todo' = <<>> /\ depth' = 0
    BY <1>6 DEF Tick, Idle
  <2> QED BY <2>1, EventRests DEF FiniteLayouts
<1>7. CASE Disturbance
  BY <1>7, DisturbanceRests DEF FiniteLayouts
<1>8. CASE UNCHANGED vars
  <2>1. /\ UNCHANGED <<layoutId, layout, expiredRegions, todo, depth>>
        /\ UNCHANGED <<queue, unsafeMedia, unsafeWidget, unsafeLayout>>
    BY <1>8 DEF vars, layoutVars, unsafeVars
  <2>2. /\ Hopeless' = Hopeless /\ Spent' = Spent /\ Lively' = Lively
        /\ SafeMedia(Head(todo).region)' = SafeMedia(Head(todo).region)
    BY <2>1, SameQueue, SameLively, SameCandidate
  <2>3. /\ CheckBehind' = CheckBehind /\ Flagged' = Flagged /\ Others' = Others
        /\ \A op : Calling(op)' <=> Calling(op)
    BY <2>1 DEF CheckBehind, Rest, Flagged, Others, Calling
  <2>4. DepthInv'
    BY <1>2, <2>1, <2>2, <2>3 DEF Resting, DepthInv, Starting, Within
  <2>5. BehindInv' /\ FreshRegions'
    BY <1>2, <2>1 DEF Resting, BehindInv, FreshRegions, CheckBehind, OnlyMediaBehind, Rest,
                      Calling
  <2> QED BY <2>4, <2>5 DEF Resting
<1> QED BY <1>3, <1>4, <1>5, <1>6, <1>7, <1>8 DEF Next

(* RegionImpl::placeMedia: however the main layouts start within one      *)
(* another, no more of them expire than there are layouts, the queue is    *)
(* long, and one, unless nothing in the queue can play.                    *)
THEOREM MainLayoutsRest ==
  ASSUME FiniteLayouts
  PROVE  Spec => []MainLayoutsComeToRest
<1>1. Init => RestInv
  <2> SUFFICES ASSUME Init PROVE Resting
    BY DEF RestInv
  <2>1. todo = <<>> /\ depth = 0 /\ Len(todo) = 0 /\ Len(queue) = 0
    BY DEF Init
  <2>2. Counted
    BY FlaggedCounts DEF FiniteLayouts
  <2> QED BY <2>1, <2>2 DEF Resting, BehindInv, FreshRegions, DepthInv, Calling, Counted
<1>2. PlaybackInv /\ PlaybackInv' /\ QueueInv /\ RestInv /\ [Next]_vars => RestInv'
  BY QueueNext, NextRests
<1>3. RestInv => MainLayoutsComeToRest
  BY DEF RestInv, Resting, DepthInv, MainLayoutsComeToRest, Hopeless
<1> QED BY PlaybackInvariant, QueueAlways, <1>1, <1>2, <1>3, PTL DEF Spec
=============================================================================
