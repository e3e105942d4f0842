---------------------------- MODULE LayoutParser ----------------------------
(***************************************************************************)
(* src/player/control/layout/MainLayoutParser.cpp and the parsers of       *)
(* regions and media: which regions and media of an XLF file make up the   *)
(* layout, with which options, and what makes a medium, a region or the    *)
(* whole layout fail.                                                      *)
(*                                                                         *)
(* An attribute that the code requires and that is missing or has the      *)
(* wrong form makes its node malformed; of the others the model keeps      *)
(* those that decide what plays and for how long.                          *)
(***************************************************************************)
EXTENDS Selection

CONSTANTS
  MediaIds,    \* the ids of media
  Durations,   \* the durations of media in seconds; 0 is none
  GlobalStats  \* statsEnabled_ of LayoutsManager

MinVolume  == 0
MaxVolume  == 100
NoDuration == -1

(* The table of MediaParsersRepo::init.                                    *)
Parsers ==
  {<<"image", "native", "image">>, <<"video", "native", "player">>,
   <<"hls", "html", "player">>, <<"localvideo", "native", "player">>,
   <<"audio", "native", "audio">>, <<"audionode", "native", "audio">>}
  \cup {<<type, "native", "webview">> :
          type \in {"text", "embedded", "ticker", "webpage", "datasetview"}}

(* MediaParsersRepo::get: html is rendered by the browser, but for hls.    *)
ParserOf(type, render) ==
  IF type # "hls" /\ render = "html" THEN "webview"
  ELSE LET found == {p \in Parsers : p[1] = type /\ p[2] = render}
       IN  IF found = {} THEN "none" ELSE (CHOOSE p \in found : TRUE)[3]

(* An <audio> child of a media node.                                       *)
AudioNode == [wellFormed : BOOLEAN, volume : Int]

MediaNode ==
  [id : MediaIds, typed : BOOLEAN, type : STRING, render : STRING,
   wellFormed : BOOLEAN,     \* the other attributes that are required
   uri : BOOLEAN,            \* it has a uri
   nativeMode : BOOLEAN,     \* modeid is 1: the page is a remote one
   duration : Durations,
   pageDuration : Durations \cup {NoDuration},  \* DURATION= in its page
   looped : BOOLEAN, enableStat : BOOLEAN, volume : Int,
   audio : Seq(AudioNode)]

RegionNode ==
  [positioned : BOOLEAN, wellFormed : BOOLEAN, loop : BOOLEAN,
   media : Seq(MediaNode)]

Document ==
  [wellFormed : BOOLEAN, enableStat : BOOLEAN, regions : Seq(RegionNode)]

-----------------------------------------------------------------------------
(* Media                                                                   *)

VolumeInRange(volume) == MinVolume <= volume /\ volume <= MaxVolume

(* uriFrom: a page needs a uri only in native mode, else it is the         *)
(* player's own server that serves it.                                     *)
HasUri(node) ==
  node.uri \/ (ParserOf(node.type, node.render) = "webview" /\ ~node.nativeMode)

AttachedParses(audio) == audio.wellFormed /\ VolumeInRange(audio.volume)

(* mediaFrom throws nothing.  An attached audio that fails takes the       *)
(* medium it is attached to with it.                                       *)
MediaParses(node) ==
  /\ node.wellFormed
  /\ HasUri(node)
  /\ ParserOf(node.type, node.render) = "audio" => VolumeInRange(node.volume)
  /\ \A i \in 1..Len(node.audio) : AttachedParses(node.audio[i])

(* durationFrom: a page may override the duration of its node.             *)
DurationFrom(node) ==
  IF /\ ParserOf(node.type, node.render) = "webview"
     /\ node.pageDuration # NoDuration
  THEN node.pageDuration ELSE node.duration

(* What a medium is made from: whether a player plays it, and whether an   *)
(* audio is attached.  The attached one has no duration of its own.        *)
Medium ==
  [id : MediaIds, player : BOOLEAN, duration : Durations, looped : BOOLEAN,
   stat : BOOLEAN, audio : BOOLEAN]

MediaFrom(node) ==
  LET player == ParserOf(node.type, node.render) \in {"player", "audio"}
  IN  [id |-> node.id,
       player |-> player,
       duration |-> DurationFrom(node),
       looped |-> player /\ node.looped,
       stat |-> GlobalStats /\ node.enableStat,
       audio |-> node.audio # <<>>]

-----------------------------------------------------------------------------
(* Regions and layouts                                                     *)

Region == [loop : BOOLEAN, media : Seq(Medium)]

Layout == [stat : BOOLEAN, regions : Seq(Region)]

NoLayout == [stat |-> FALSE, regions |-> <<>>]

(* addMedia: a medium without a parser, or that fails, is passed over.     *)
ParsedNodes(region) ==
  Keep(region.media, {node \in Elements(region.media) :
                        /\ ParserOf(node.type, node.render) # "none"
                        /\ MediaParses(node)})

RegionMedia(region) ==
  LET nodes == ParsedNodes(region)
  IN  [i \in 1..Len(nodes) |-> MediaFrom(nodes[i])]

(* A node without a type makes its region fail.                            *)
RegionReadable(region) ==
  region.wellFormed /\ \A i \in 1..Len(region.media) : region.media[i].typed

(* regionFrom flags the region unsafe when nothing is left to play.        *)
RegionFlagged(region) == RegionReadable(region) /\ ParsedNodes(region) = <<>>

(* Fault to be caught: a region counts although its media all failed.      *)
RegionParsesEmpty(region) == RegionReadable(region)

RegionParses(region) == RegionReadable(region) /\ ParsedNodes(region) # <<>>

RegionFrom(region) == [loop |-> region.loop, media |-> RegionMedia(region)]

(* A region without a position is not caught by addRegions: like a layout  *)
(* without a size, it makes the whole layout fail.                         *)
LayoutReadable(document) ==
  /\ document.wellFormed
  /\ \A i \in 1..Len(document.regions) : document.regions[i].positioned

ParsedRegions(document) ==
  Keep(document.regions, {region \in Elements(document.regions) : RegionParses(region)})

(* How parseBy ends; the names are those of LayoutsManager.                *)
OutcomeOf(document) ==
  CASE ~LayoutReadable(document) -> "broken"
    [] LayoutReadable(document) /\ ParsedRegions(document) = <<>> -> "hollow"
    [] OTHER ->
         IF \E i \in 1..Len(document.regions) : RegionFlagged(document.regions[i])
         THEN "partial" ELSE "loads"

LayoutParses(document) == OutcomeOf(document) \in {"partial", "loads"}

(* The layout is flagged unsafe for itself, or for a region that is read   *)
(* before anything makes the layout fail.                                  *)
LayoutFlagged(document) ==
  \/ OutcomeOf(document) = "hollow"
  \/ /\ document.wellFormed
     /\ \E i \in 1..Len(document.regions) :
          /\ RegionFlagged(document.regions[i])
          /\ \A j \in 1..i : document.regions[j].positioned

LayoutFrom(document) ==
  LET regions == ParsedRegions(document)
  IN  [stat |-> GlobalStats /\ document.enableStat,
       regions |-> [i \in 1..Len(regions) |-> RegionFrom(regions[i])]]
=============================================================================
