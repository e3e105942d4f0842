---------------------------- MODULE MCDownloads ----------------------------
(* Instances of Downloads for TLC: a layout that comes in two chunks, and  *)
(* the page of a widget.                                                   *)
EXTENDS Downloads

MCRegular   == {"layout"}
MCResources == {"page"}
MCChunks    == [f \in MCRegular \cup MCResources |-> IF f \in MCRegular THEN 2 ELSE 1]
=============================================================================
