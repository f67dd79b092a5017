--------------------------- MODULE MCBufferLayout ---------------------------
(***************************************************************************)
(* Instances of BufferLayout for TLC: every HAL format the allocator       *)
(* accepts, small sizes around the subsampling and alignment boundaries,   *)
(* and sizes large enough to wrap.                                         *)
(***************************************************************************)
EXTENDS BufferLayout

MCFormats == {hal \in FormatCodes : gralloc_convert_format(hal) # DRM_FORMAT_NONE}

MCWord == 32768
MCWidths == {1, 2, 3, 16, 33, 120, 32765}
MCHeights == {1, 2, 3, 17, 32767}

=============================================================================
