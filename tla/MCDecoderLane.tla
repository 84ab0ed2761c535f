--------------------------- MODULE MCDecoderLane ---------------------------
(***************************************************************************)
(* Six frames in seven samples: two samples show nothing, one shows two    *)
(* frames, and one is decoded before a frame that is shown earlier.  The   *)
(* ring holds four frames.                                                 *)
(***************************************************************************)
EXTENDS DecoderLaneProperties

Reordered == <<{0}, {}, {}, {2, 3}, {1}, {4}, {5}>>
=============================================================================
