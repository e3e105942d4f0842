----------------------------- MODULE MCPlayback -----------------------------
(***************************************************************************)
(* Instances of Playback for TLC.  Layout 1 has a region with a video that *)
(* lasts as long as its stream and an image with music, and a region with  *)
(* a looped video; layout 2 has an empty region and a page that repeats.   *)
(* Layout 3 has nothing that can be played, layout 4 cannot be read, and   *)
(* layout 5 has nothing but the page.                                      *)
(***************************************************************************)
EXTENDS Playback

Node(id, type, render, duration) ==
  [id |-> id, typed |-> TRUE, type |-> type, render |-> render,
   wellFormed |-> TRUE, uri |-> TRUE, nativeMode |-> FALSE,
   duration |-> duration, pageDuration |-> NoDuration,
   looped |-> FALSE, enableStat |-> TRUE, volume |-> 100, audio |-> <<>>]

Music(volume) == [wellFormed |-> TRUE, volume |-> volume]

Image   == [Node(12, "image", "native", 2) EXCEPT !.audio = <<Music(100)>>]
TooLoud == [Node(14, "image", "native", 2) EXCEPT !.audio = <<Music(101)>>]
Video   == Node(11, "video", "native", 0)
Looped  == [Node(13, "video", "native", 1) EXCEPT !.looped = TRUE]
Page    == [Node(13, "forecast", "html", 2) EXCEPT !.uri = FALSE, !.pageDuration = 1]
Unknown == Node(14, "shellcommand", "native", 1)
Untyped == [Node(14, "image", "native", 1) EXCEPT !.typed = FALSE]

Of(loop, media) ==
  [positioned |-> TRUE, wellFormed |-> TRUE, loop |-> loop, media |-> media]

Xlf(regions) == [wellFormed |-> TRUE, enableStat |-> TRUE, regions |-> regions]

MCLayoutIds == 1..5
MCDocuments ==
  <<Xlf(<<Of(FALSE, <<Video, Image>>), Of(FALSE, <<Looped, Unknown>>)>>),
    Xlf(<<Of(FALSE, <<TooLoud>>), Of(TRUE, <<Page>>)>>),
    Xlf(<<Of(FALSE, <<Untyped>>), Of(FALSE, <<Unknown>>)>>),
    Xlf(<<[Of(FALSE, <<Image>>) EXCEPT !.positioned = FALSE]>>),
    Xlf(<<Of(FALSE, <<Page>>)>>)>>

MCSeconds == {-1, 2}
MCQueues == {<<>>, <<5>>, <<2, 5>>, <<1, 5>>}
=============================================================================
