---------------------------- MODULE LayoutProofs ----------------------------
(***************************************************************************)
(* Theorems about BufferLayout: for every size of a buffer, every accepted *)
(* format and every width of the word.  What TLC finds of a few sizes      *)
(* follows here from bounds on the products of the loop.                   *)
(***************************************************************************)
EXTENDS BufferLayout, TLAPS

-----------------------------------------------------------------------------
(* Numbers.                                                                 *)

\* Any number wraps to a uint32_t, and a uint32_t to itself.
LEMMA WrapRange == ASSUME NEW n \in Int PROVE Wrap(n) \in Uint32
  BY WordAssumption, SMT DEF WordAssumption, Wrap, Uint32

LEMMA WrapSmall == ASSUME NEW n \in Nat, n < Word PROVE Wrap(n) = n
  BY WordAssumption, SMT DEF WordAssumption, Wrap

\* Products grow with their factors.
LEMMA ProductMonotonic ==
  ASSUME NEW a \in Nat, NEW b \in Nat, NEW c \in Nat, NEW d \in Nat, a <= c, b <= d
  PROVE  a * b <= c * d
  BY SMT

\* What is below a quotient gives a product below the dividend.
LEMMA QuotientBound ==
  ASSUME NEW x \in Nat, NEW d \in Nat \ {0}, NEW limit \in Nat, x < limit \div d
  PROVE  x * d < limit
  BY SMT

\* The layouts of the table.
LEMMA LayoutKinds ==
  ASSUME NEW format, layout_from_format(format).num_planes # 0
  PROVE  layout_from_format(format) \in
           {packed(1), packed(2), packed(3), packed(4), packed(8),
            biplanar_yuv_420_layout, biplanar_yuv_422_layout, triplanar_yuv_420_layout,
            biplanar_yuv_p010_layout, biplanar_yuv_p210_layout}
  BY DEF layout_from_format, NoLayout, Planar

\* Their planes are subsampled by two at most, the first one never.
LEMMA PlaneFacts ==
  ASSUME NEW format, layout_from_format(format).num_planes # 0,
         NEW q \in 0 .. (layout_from_format(format).num_planes - 1)
  PROVE  LET L == layout_from_format(format) IN
         /\ L.num_planes \in 1 .. 3
         /\ Of(L.horizontal_subsampling, q) \in {1, 2}
         /\ Of(L.vertical_subsampling, q) \in {1, 2}
         /\ Of(L.bytes_per_pixel, q) \in {1, 2, 3, 4, 8}
         /\ Of(L.horizontal_subsampling, 0) = 1 /\ Of(L.vertical_subsampling, 0) = 1
         /\ Of(L.bytes_per_pixel, 0) \in {1, 2, 3, 4, 8}
<1> DEFINE L == layout_from_format(format)
<1>1. CASE L \in {packed(1), packed(2), packed(3), packed(4), packed(8)}
  BY <1>1 DEF packed, Planar, Of
<1>2. CASE L \in {biplanar_yuv_420_layout, biplanar_yuv_422_layout,
                  biplanar_yuv_p010_layout, biplanar_yuv_p210_layout}
  <2>1. L.num_planes = 2 /\ q \in {0, 1}
    BY <1>2 DEF biplanar_yuv_420_layout, biplanar_yuv_422_layout,
                biplanar_yuv_p010_layout, biplanar_yuv_p210_layout, Planar
  <2>2. QED BY <1>2, <2>1 DEF biplanar_yuv_420_layout, biplanar_yuv_422_layout,
                biplanar_yuv_p010_layout, biplanar_yuv_p210_layout, Planar, Of
<1>3. CASE L = triplanar_yuv_420_layout
  <2>1. L.num_planes = 3 /\ q \in {0, 1, 2}
    BY <1>3 DEF triplanar_yuv_420_layout, Planar
  <2>2. QED BY <1>3, <2>1 DEF triplanar_yuv_420_layout, Planar, Of
<1>4. QED BY <1>1, <1>2, <1>3, LayoutKinds

-----------------------------------------------------------------------------
(* uint32_t arithmetic.                                                     *)

Alignments == {1, 4, 8, 16, 32, 64}

\* ALIGN gives a uint32_t, and below the wrap the next multiple.
LEMMA AlignRange ==
  ASSUME NEW n \in Nat, NEW a \in Alignments
  PROVE  ALIGN(n, a) \in Uint32
<1>1. Wrap(n + a - 1) \in Uint32
  BY WrapRange DEF Alignments
<1> DEFINE w == Wrap(n + a - 1)
<1> HIDE DEF w
<1>2. ASSUME NEW x \in Uint32 PROVE x - (x % a) \in Uint32
  BY WordAssumption, SMT DEF WordAssumption, Uint32, Alignments
<1>3. QED BY <1>1, <1>2 DEF ALIGN

LEMMA AlignBound ==
  ASSUME NEW n \in Nat, NEW a \in Alignments, n + a - 1 < Word
  PROVE  /\ ALIGN(n, a) \in n .. (n + a - 1)
         /\ ALIGN(n, a) % a = 0
<1>1. Wrap(n + a - 1) = n + a - 1
  BY WrapSmall DEF Alignments
<1>2. ASSUME NEW x \in Nat, x = n + a - 1
      PROVE  x - (x % a) \in n .. x /\ (x - (x % a)) % a = 0
  BY <1>2, SMT DEF Alignments
<1>3. QED BY <1>1, <1>2, SMT DEF ALIGN, Alignments

\* So does DIV_ROUND_UP, which below the wrap rounds up.
LEMMA RoundUpRange ==
  ASSUME NEW n \in Nat, NEW d \in {1, 2}
  PROVE  DIV_ROUND_UP(n, d) \in Uint32
<1>1. Wrap(n + d - 1) \in Uint32
  BY WrapRange
<1>2. ASSUME NEW x \in Uint32 PROVE x \div d \in Uint32
  BY WordAssumption, SMT DEF WordAssumption, Uint32
<1>3. QED BY <1>1, <1>2 DEF DIV_ROUND_UP

LEMMA RoundUpBound ==
  ASSUME NEW n \in Nat, NEW d \in {1, 2}, n + d - 1 < Word
  PROVE  /\ DIV_ROUND_UP(n, d) = CeilDiv(n, d)
         /\ CeilDiv(n, d) \in 0 .. n
<1>1. Wrap(n + d - 1) = n + d - 1
  BY WrapSmall
<1>2. (n + d - 1) \div d \in 0 .. n
  BY SMT
<1>3. QED BY <1>1, <1>2 DEF DIV_ROUND_UP, CeilDiv

-----------------------------------------------------------------------------
(* The buffer that is laid out.                                             *)

\* buf is a call of drv_bo_from_format the driver may make.
BufInv ==
  \E hal \in Formats : \E format \in Codes(hal) :
    \E width \in Widths, height \in Heights,
       sa \in StrideAlignments, ha \in HeightAlignments :
      buf = Buffer(hal, format, width, height, sa, ha)

\* No accepted format becomes a tiled one.
LEMMA NotTiled ==
  ASSUME NEW hal \in Formats, NEW format \in Codes(hal)
  PROVE  format \notin TiledFormats
<1>1. gralloc_convert_format(hal) # DRM_FORMAT_NONE
  BY BufferLayoutAssumption DEF BufferLayoutAssumption
<1>2. hal \in DOMAIN HalFourcc \/ hal \in DOMAIN DirectFourcc
  BY <1>1 DEF gralloc_convert_format, drv_convert_gralloc_format_to_drm_format
<1>3. hal \notin TiledFormats
  BY <1>2 DEF HalFourcc, DirectFourcc, TiledFormats
<1>4. gralloc_convert_format(hal) \notin TiledFormats
  BY <1>2 DEF gralloc_convert_format, drv_convert_gralloc_format_to_drm_format,
              HalFourcc, DirectFourcc, TiledFormats
<1>5. convert_pix_format_to_viv_format(hal) \notin TiledFormats
  BY <1>3 DEF convert_pix_format_to_viv_format, TiledFormats
<1>6. QED BY <1>4, <1>5 DEF Codes

\* A pixel's bytes, at the width of the buffer, and the room a plane may take.
Row == buf.width * Of(Layout.bytes_per_pixel, 0)
Room == (Row + 64) * (buf.height + 16)

\* What the buffer's fields are, whatever its size.
LEMMA BufFacts ==
  ASSUME BufInv
  PROVE  /\ Layout.num_planes \in 1 .. 3
         /\ buf.format \notin TiledFormats
         /\ buf.width \in 1 .. (Word - 1) /\ buf.height \in 1 .. (Word - 1)
         /\ Row \in Nat \ {0} /\ Room \in Nat \ {0}
         /\ buf.stride \in Uint32 /\ buf.aligned_height \in Uint32
         /\ \E sa \in {4, 8, 16, 32, 64} :
              buf.stride = ALIGN(drv_stride_from_format(buf.format, buf.width, 0), sa)
         /\ \E ha \in {1, 4, 16} : buf.aligned_height = ALIGN(buf.height, ha)
<1>0. PICK hal \in Formats :
        \E format \in Codes(hal) :
          \E width \in Widths, height \in Heights,
             sa \in StrideAlignments, ha \in HeightAlignments :
            buf = Buffer(hal, format, width, height, sa, ha)
  BY DEF BufInv
<1>1. PICK format \in Codes(hal), width \in Widths, height \in Heights,
           sa \in StrideAlignments, ha \in HeightAlignments :
             buf = Buffer(hal, format, width, height, sa, ha)
  BY <1>0
<1>2. /\ buf.format = format /\ buf.width = width /\ buf.height = height
      /\ buf.stride = ALIGN(drv_stride_from_format(format, width, 0), sa)
      /\ buf.aligned_height = ALIGN(height, ha)
  BY <1>1 DEF Buffer
<1>3. /\ width \in 1 .. (Word - 1) /\ height \in 1 .. (Word - 1)
      /\ sa \in {4, 8, 16, 32, 64} /\ ha \in {1, 4, 16}
      /\ Word \in Nat \ {0}
  BY BufferLayoutAssumption, WordAssumption DEF BufferLayoutAssumption, WordAssumption
<1>4. Layout.num_planes # 0
  BY <1>2 DEF Codes, drv_num_planes_from_format, Layout
<1>5. Layout.num_planes \in 1 .. 3
  <2>1. Layout \in
           {packed(1), packed(2), packed(3), packed(4), packed(8),
            biplanar_yuv_420_layout, biplanar_yuv_422_layout, triplanar_yuv_420_layout,
            biplanar_yuv_p010_layout, biplanar_yuv_p210_layout}
    BY <1>4, LayoutKinds DEF Layout
  <2>2. QED BY <2>1 DEF packed, biplanar_yuv_420_layout, biplanar_yuv_422_layout,
         triplanar_yuv_420_layout, biplanar_yuv_p010_layout, biplanar_yuv_p210_layout, Planar
<1>6. /\ Of(Layout.bytes_per_pixel, 0) \in {1, 2, 3, 4, 8}
      /\ Of(Layout.horizontal_subsampling, 0) = 1
  <2>1. 0 \in 0 .. (Layout.num_planes - 1)
    BY <1>5
  <2>2. QED BY <1>4, <2>1, PlaneFacts DEF Layout
<1>7. Row \in Nat \ {0}
  BY <1>2, <1>3, <1>6 DEF Row
<1>8. Room \in Nat \ {0}
  BY <1>2, <1>3, <1>7, SMT DEF Room
<1>9. drv_stride_from_format(format, width, 0) \in Nat
  <2>1. DIV_ROUND_UP(width, 1) \in Uint32
    BY <1>3, RoundUpRange
  <2>2. Wrap(DIV_ROUND_UP(width, 1) * Of(Layout.bytes_per_pixel, 0)) \in Uint32
    BY <1>6, <2>1, WrapRange DEF Uint32
  <2>3. ALIGN(Wrap(DIV_ROUND_UP(width, 1) * Of(Layout.bytes_per_pixel, 0)), 32) \in Uint32
    BY <2>2, AlignRange DEF Uint32, Alignments
  <2>4. QED BY <1>2, <1>3, <1>6, <2>2, <2>3 DEF drv_stride_from_format, Uint32, Layout
<1>10. buf.stride \in Uint32 /\ buf.aligned_height \in Uint32
  BY <1>2, <1>3, <1>9, AlignRange DEF Alignments
<1>11. QED BY <1>1, <1>2, <1>3, <1>5, <1>7, <1>8, <1>10, NotTiled

\* Below the wrap the first plane's row and the height are what they should be,
\* and all planes together fit the word.
LEMMA SmallFacts ==
  ASSUME BufInv, Small
  PROVE  /\ Layout.num_planes * Room < Word
         /\ buf.stride \in Row .. (Row + 63) /\ buf.stride % 4 = 0
         /\ buf.aligned_height \in buf.height .. (buf.height + 15)
         /\ Row + 64 <= Room /\ buf.height + 32 <= Room
         /\ Room < Word
<1> DEFINE np == Layout.num_planes
           X == Row + 64
           Y == buf.height + 16
<1>1. /\ np \in 1 .. 3 /\ X \in Nat \ {0} /\ Y \in Nat \ {0} /\ Room = X * Y
  BY BufFacts DEF Room
<1>2. X * (np * Y) < Word
  <2>1. np * Y \in Nat \ {0} /\ X < Word \div (np * Y)
    BY <1>1, SMT DEF Small, Below, Row
  <2>2. Word \in Nat
    BY WordAssumption DEF WordAssumption
  <2>3. QED BY <1>1, <2>1, <2>2, QuotientBound
<1>3. np * Room < Word
  <2> HIDE DEF np, X, Y
  <2>1. np * (X * Y) = X * (np * Y)
    BY <1>1, SMT
  <2>2. QED BY <1>1, <1>2, <2>1
<1>4. X <= Room /\ Y <= Room /\ buf.height + 32 <= Room
  <2>1. 1 <= Y /\ 2 <= X
    BY BufFacts
  <2>2. X * 1 <= X * Y /\ 2 * Y <= X * Y
    BY <1>1, <2>1, ProductMonotonic
  <2>3. QED BY <1>1, <2>2, BufFacts
<1>5. Room < Word /\ Room \in Nat /\ Word \in Nat /\ Row \in Nat /\ buf.height \in Nat
  <2>1. ASSUME NEW n \in 1 .. 3, NEW r \in Nat PROVE r <= n * r
    BY SMT
  <2>2. Room <= np * Room /\ np * Room \in Nat
    BY <2>1, BufFacts
  <2>3. Word \in Nat
    BY WordAssumption DEF WordAssumption
  <2>4. QED BY <1>3, <2>2, <2>3, BufFacts
<1>6. buf.aligned_height \in buf.height .. (buf.height + 15)
  <2>1. PICK ha \in {1, 4, 16} : buf.aligned_height = ALIGN(buf.height, ha)
    BY BufFacts
  <2>2. ALIGN(buf.height, ha) \in buf.height .. (buf.height + ha - 1)
    <3>1. buf.height + ha - 1 < Word
      BY <1>4, <1>5
    <3>2. QED BY <1>5, <3>1, AlignBound DEF Alignments
  <2>3. QED BY <1>5, <2>1, <2>2
<1>7. buf.stride \in Row .. (Row + 63) /\ buf.stride % 4 = 0
  <2>1. PICK sa \in {4, 8, 16, 32, 64} :
          buf.stride = ALIGN(drv_stride_from_format(buf.format, buf.width, 0), sa)
    BY BufFacts
  <2>2. /\ Of(Layout.horizontal_subsampling, 0) = 1
        /\ Of(Layout.bytes_per_pixel, 0) \in {1, 2, 3, 4, 8}
    <3>1. Layout.num_planes # 0 /\ 0 \in 0 .. (Layout.num_planes - 1)
      BY BufFacts
    <3>2. QED BY <3>1, PlaneFacts DEF Layout
  <2>3. DIV_ROUND_UP(buf.width, 1) = buf.width
    <3>1. buf.width + 1 - 1 < Word /\ buf.width \in Nat
      BY BufFacts, WordAssumption DEF WordAssumption
    <3>2. DIV_ROUND_UP(buf.width, 1) = CeilDiv(buf.width, 1)
      BY <3>1, RoundUpBound
    <3>3. QED BY <3>1, <3>2 DEF CeilDiv
  <2>4. Wrap(Row) = Row
    BY <1>4, <1>5, WrapSmall
  <2>5. CASE buf.format = "DRM_YVU420_ANDROID"
    <3>1. drv_stride_from_format(buf.format, buf.width, 0) = ALIGN(Row, 32)
      BY <2>2, <2>3, <2>4, <2>5 DEF drv_stride_from_format, Layout, Row, TiledFormats
    <3>2. ALIGN(Row, 32) \in Row .. (Row + 31) /\ ALIGN(Row, 32) % 32 = 0
      <4>1. Row + 32 - 1 < Word
        BY <1>4, <1>5
      <4>2. QED BY <1>5, <4>1, AlignBound DEF Alignments
    <3>3. Row + 94 < Word
      <4>1. ASSUME NEW x \in Nat, NEW y \in Nat, y >= 17 PROVE x + x <= x * y
        <5>1. x * 2 <= x * y
          BY <4>1, ProductMonotonic
        <5>2. QED BY <5>1
      <4>2. Y >= 17
        BY BufFacts, <1>5
      <4>3. (Row + 64) + (Row + 64) <= Room
        BY <1>1, <4>1, <4>2
      <4>4. QED BY <1>5, <4>3, BufFacts
    <3>4. ASSUME NEW x \in Nat, x \in Row .. (Row + 31), x % 32 = 0
          PROVE  ALIGN(x, sa) \in Row .. (Row + 63) /\ ALIGN(x, sa) % 4 = 0
      <4>1. ALIGN(x, sa) \in x .. (x + sa - 1) /\ ALIGN(x, sa) % sa = 0
        <5>1. x + sa - 1 < Word
          BY <1>5, <3>3, <3>4
        <5>2. QED BY <5>1, AlignBound DEF Alignments
      <4>2. CASE sa = 64
        BY <3>4, <4>1, <4>2, BufFacts, SMT
      <4>3. CASE sa # 64
        BY <3>4, <4>1, <4>3, BufFacts, SMT
      <4>4. QED BY <4>2, <4>3
    <3>5. QED BY <2>1, <3>1, <3>2, <3>4, BufFacts
  <2>6. CASE buf.format # "DRM_YVU420_ANDROID"
    <3>1. drv_stride_from_format(buf.format, buf.width, 0) = Row
      BY <2>2, <2>3, <2>4, <2>6, BufFacts DEF drv_stride_from_format, Layout, Row
    <3>2. buf.stride \in Row .. (Row + sa - 1) /\ buf.stride % sa = 0
      <4>1. Row + sa - 1 < Word
        BY <1>4, <1>5
      <4>2. QED BY <1>5, <2>1, <3>1, <4>1, AlignBound DEF Alignments
    <3>3. QED BY <3>2, BufFacts
  <2>7. QED BY <2>5, <2>6
<1>8. QED BY <1>3, <1>4, <1>5, <1>6, <1>7

-----------------------------------------------------------------------------
(* One plane of it.                                                         *)

StrideOf(q) == subsample_stride(buf.stride, buf.format, q)
HeightOf(q) == drv_height_from_format(buf.format, buf.aligned_height, q)
SizeOf(q) == drv_size_from_format(buf.format, StrideOf(q), buf.aligned_height, q)

\* Whatever its size, a plane's stride and size are uint32_t.
LEMMA PlaneRange ==
  ASSUME BufInv, NEW q \in Planes
  PROVE  /\ StrideOf(q) \in Uint32 /\ HeightOf(q) \in Uint32 /\ SizeOf(q) \in Uint32
         /\ Layout.num_planes # 0
         /\ Of(Layout.vertical_subsampling, q) \in {1, 2}
<1>1. Layout.num_planes # 0 /\ Of(Layout.vertical_subsampling, q) \in {1, 2}
  BY BufFacts, PlaneFacts DEF Planes, Layout
<1>2. buf.stride \in Nat /\ buf.aligned_height \in Nat
  BY BufFacts DEF Uint32
<1>3. StrideOf(q) \in Uint32
  BY <1>2, BufFacts, RoundUpRange DEF StrideOf, subsample_stride
<1>4. HeightOf(q) \in Uint32
  <2>1. ALIGN(buf.aligned_height, 4) \in Uint32
    <3>1. buf.aligned_height \in Nat /\ 4 \in Alignments
      BY <1>2 DEF Alignments
    <3>2. QED BY <3>1, AlignRange
  <2>2. ALIGN(buf.aligned_height, 4) \in Nat
    BY <2>1 DEF Uint32
  <2>3. QED BY <1>1, <1>2, <2>2, RoundUpRange DEF HeightOf, drv_height_from_format,
                                                  alignedh, Layout
<1>5. SizeOf(q) \in Uint32
  <2>1. StrideOf(q) * HeightOf(q) \in Int
    BY <1>3, <1>4 DEF Uint32
  <2>2. QED BY <2>1, WrapRange DEF SizeOf, HeightOf, drv_size_from_format
<1>6. QED BY <1>1, <1>3, <1>4, <1>5

\* Below the wrap a plane takes its share of the room, and no product wraps.
LEMMA PlaneFits ==
  ASSUME BufInv, Small, NEW q \in Planes
  PROVE  /\ StrideOf(q) \in 0 .. (Row + 63)
         /\ HeightOf(q) \in 0 .. (buf.height + 15)
         /\ CeilDiv(buf.height, Of(Layout.vertical_subsampling, q)) \in 0 .. HeightOf(q)
         /\ SizeOf(q) = StrideOf(q) * HeightOf(q)
         /\ SizeOf(q) \in 0 .. Room
<1>1. /\ Word \in Nat /\ Room \in Nat /\ Row \in Nat /\ buf.height \in Nat
      /\ Row + 64 < Word /\ buf.height + 32 < Word
      /\ buf.stride \in Row .. (Row + 63)
      /\ buf.aligned_height \in buf.height .. (buf.height + 15)
      /\ Room = (Row + 64) * (buf.height + 16) /\ Room < Word
  BY BufFacts, SmallFacts, WordAssumption DEF WordAssumption, Room
<1>2. StrideOf(q) \in 0 .. (Row + 63)
  <2>1. buf.stride \in Nat /\ buf.stride + 2 - 1 < Word
    BY <1>1
  <2>2. DIV_ROUND_UP(buf.stride, 2) \in 0 .. buf.stride
    BY <2>1, RoundUpBound
  <2>3. QED BY <1>1, <2>2 DEF StrideOf, subsample_stride
<1>3. PICK ha \in {1, 4, 16} : buf.aligned_height = ALIGN(buf.height, ha)
  BY BufFacts
<1>4. ALIGN(buf.aligned_height, 4) \in buf.aligned_height .. (buf.height + 15)
  <2>1. /\ buf.aligned_height \in buf.height .. (buf.height + ha - 1)
        /\ buf.aligned_height % ha = 0
    <3>1. buf.height \in Nat /\ ha \in Alignments /\ buf.height + ha - 1 < Word
      BY <1>1 DEF Alignments
    <3>2. ALIGN(buf.height, ha) \in buf.height .. (buf.height + ha - 1)
          /\ ALIGN(buf.height, ha) % ha = 0
      BY <3>1, AlignBound
    <3>3. QED BY <1>3, <3>2
  <2>2. buf.aligned_height + 4 - 1 < Word /\ buf.aligned_height \in Nat
    BY <1>1
  <2>3. /\ ALIGN(buf.aligned_height, 4) \in buf.aligned_height .. (buf.aligned_height + 3)
        /\ ALIGN(buf.aligned_height, 4) % 4 = 0
    BY <2>2, AlignBound DEF Alignments
  <2>4. ASSUME NEW x \in Nat, NEW y \in Nat, x = buf.aligned_height,
               y = ALIGN(buf.aligned_height, 4)
        PROVE  y <= buf.height + 15
    <3>1. CASE ha = 1
      BY <1>1, <2>1, <2>3, <2>4, <3>1
    <3>2. CASE ha # 1
      BY <1>1, <2>1, <2>3, <2>4, <3>2, SMT
    <3>3. QED BY <3>1, <3>2
  <2>5. QED BY <1>1, <2>2, <2>3, <2>4
<1>5. /\ Layout.num_planes # 0
      /\ Of(Layout.vertical_subsampling, q) \in {1, 2}
  BY PlaneRange
<1>6. PICK a \in buf.aligned_height .. (buf.height + 15) :
        HeightOf(q) = DIV_ROUND_UP(a, Of(Layout.vertical_subsampling, q))
  BY <1>1, <1>4 DEF HeightOf, drv_height_from_format, alignedh, Layout
<1>7. HeightOf(q) = CeilDiv(a, Of(Layout.vertical_subsampling, q)) /\ HeightOf(q) \in 0 .. a
  <2>1. a \in Nat /\ a + Of(Layout.vertical_subsampling, q) - 1 < Word
    BY <1>1, <1>5
  <2>2. QED BY <1>5, <1>6, <2>1, RoundUpBound
<1>8. CeilDiv(buf.height, Of(Layout.vertical_subsampling, q)) \in 0 .. HeightOf(q)
  BY <1>1, <1>5, <1>7 DEF CeilDiv
<1>9. StrideOf(q) * HeightOf(q) <= Room
  BY <1>1, <1>2, <1>7, ProductMonotonic
<1>10. SizeOf(q) = StrideOf(q) * HeightOf(q)
  <2>1. StrideOf(q) * HeightOf(q) \in Nat /\ StrideOf(q) * HeightOf(q) < Word
    BY <1>1, <1>2, <1>7, <1>9
  <2>2. QED BY <2>1, WrapSmall DEF SizeOf, HeightOf, drv_size_from_format
<1>11. QED BY <1>1, <1>2, <1>7, <1>8, <1>9, <1>10

\* The widths of a plane: the first one's, or subsampled with samples as wide
\* together, or subsampled with samples of one byte.
LEMMA RowKinds ==
  ASSUME NEW format, layout_from_format(format).num_planes # 0,
         NEW q \in 0 .. (layout_from_format(format).num_planes - 1)
  PROVE  LET L == layout_from_format(format)
             hsub == Of(L.horizontal_subsampling, q)
             bpp == Of(L.bytes_per_pixel, q)
             bpp0 == Of(L.bytes_per_pixel, 0)
         IN  \/ q = 0 /\ hsub = 1 /\ bpp = bpp0
             \/ /\ hsub = 2 /\ bpp = 2 * bpp0 /\ bpp0 \in {1, 2}
                /\ format \notin {"YV12", "DRM_YVU420_ANDROID"}
             \/ hsub = 2 /\ bpp = 1 /\ bpp0 = 1
<1> DEFINE L == layout_from_format(format)
<1>1. CASE L \in {packed(1), packed(2), packed(3), packed(4), packed(8)}
  <2>1. L.num_planes = 1 /\ q = 0 /\ L.horizontal_subsampling = <<1>>
    BY <1>1 DEF packed, Planar
  <2>2. QED BY <2>1 DEF Of
<1>2. CASE L \in {biplanar_yuv_420_layout, biplanar_yuv_422_layout,
                  biplanar_yuv_p010_layout, biplanar_yuv_p210_layout}
  <2>1. L.num_planes = 2 /\ q \in {0, 1}
    BY <1>2 DEF biplanar_yuv_420_layout, biplanar_yuv_422_layout,
                biplanar_yuv_p010_layout, biplanar_yuv_p210_layout, Planar
  <2>2. format \notin {"YV12", "DRM_YVU420_ANDROID"}
    BY <2>1 DEF layout_from_format, triplanar_yuv_420_layout, Planar
  <2>3. QED BY <1>2, <2>1, <2>2 DEF biplanar_yuv_420_layout, biplanar_yuv_422_layout,
                biplanar_yuv_p010_layout, biplanar_yuv_p210_layout, Planar, Of
<1>3. CASE L = triplanar_yuv_420_layout
  <2>1. L.num_planes = 3 /\ q \in {0, 1, 2}
    BY <1>3 DEF triplanar_yuv_420_layout, Planar
  <2>2. QED BY <1>3, <2>1 DEF triplanar_yuv_420_layout, Planar, Of
<1>4. QED BY <1>1, <1>2, <1>3, LayoutKinds

\* A plane's stride holds a row of its samples.
LEMMA RowFits ==
  ASSUME BufInv, Small, NEW q \in Planes
  PROVE  CeilDiv(buf.width, Of(Layout.horizontal_subsampling, q))
           * Of(Layout.bytes_per_pixel, q) \in 0 .. StrideOf(q)
<1> DEFINE hsub == Of(Layout.horizontal_subsampling, q)
           bpp == Of(Layout.bytes_per_pixel, q)
           bpp0 == Of(Layout.bytes_per_pixel, 0)
<1>1. /\ buf.width \in Nat /\ Row = buf.width * bpp0
      /\ buf.stride \in Nat /\ Row <= buf.stride /\ buf.stride % 4 = 0
      /\ buf.stride + 2 - 1 < Word
  BY BufFacts, SmallFacts, WordAssumption DEF WordAssumption, Row
<1>2. bpp0 \in {1, 2, 3, 4, 8}
  BY BufFacts, PlaneFacts DEF Planes, Layout
<1>3. \/ q = 0 /\ hsub = 1 /\ bpp = bpp0
      \/ /\ hsub = 2 /\ bpp = 2 * bpp0 /\ bpp0 \in {1, 2}
         /\ buf.format \notin {"YV12", "DRM_YVU420_ANDROID"}
      \/ hsub = 2 /\ bpp = 1 /\ bpp0 = 1
  <2>1. Layout.num_planes # 0
    BY BufFacts
  <2>2. QED BY <2>1, RowKinds DEF Planes, Layout
<1>4. /\ StrideOf(q) = buf.stride \/ StrideOf(q) = CeilDiv(buf.stride, 2)
      /\ q = 0 \/ buf.format \notin {"YV12", "DRM_YVU420_ANDROID"}
           => StrideOf(q) = buf.stride
  BY <1>1, RoundUpBound DEF StrideOf, subsample_stride
<1> HIDE DEF hsub, bpp, bpp0
<1>5. CASE hsub = 1 /\ q = 0 /\ bpp = bpp0
  <2>1. CeilDiv(buf.width, 1) = buf.width
    BY <1>1 DEF CeilDiv
  <2>2. Row \in Nat
    BY BufFacts
  <2>3. QED BY <1>1, <1>4, <1>5, <2>1, <2>2 DEF hsub, bpp
<1>6. CASE /\ hsub = 2 /\ bpp = 2 * bpp0 /\ bpp0 \in {1, 2}
           /\ buf.format \notin {"YV12", "DRM_YVU420_ANDROID"}
  <2>1. StrideOf(q) = buf.stride
    BY <1>4, <1>6
  <2>2. ASSUME NEW s \in Nat, NEW w \in Nat, s % 4 = 0, w * bpp0 <= s
        PROVE  ((w + 2 - 1) \div 2) * (2 * bpp0) \in 0 .. s
    <3>1. CASE bpp0 = 1
      BY <2>2, <3>1, SMT
    <3>2. CASE bpp0 = 2
      BY <2>2, <3>2, SMT
    <3>3. QED BY <1>6, <3>1, <3>2
  <2>3. ((buf.width + 2 - 1) \div 2) * (2 * bpp0) \in 0 .. buf.stride
    BY <1>1, <2>2
  <2>4. QED BY <1>6, <2>1, <2>3 DEF CeilDiv, hsub, bpp
<1>7. CASE hsub = 2 /\ bpp = 1 /\ bpp0 = 1
  <2>1. CeilDiv(buf.width, 2) * 1 \in 0 .. CeilDiv(buf.stride, 2)
    BY <1>1, <1>7 DEF CeilDiv
  <2>2. CeilDiv(buf.stride, 2) \in 0 .. buf.stride
    BY <1>1, RoundUpBound
  <2>3. CeilDiv(buf.width, 2) * 1 \in 0 .. StrideOf(q)
    <3>1. CASE StrideOf(q) = buf.stride
      BY <1>1, <2>1, <2>2, <3>1
    <3>2. CASE StrideOf(q) = CeilDiv(buf.stride, 2)
      BY <2>1, <3>2
    <3>3. QED BY <1>4, <3>1, <3>2
  <2>4. QED BY <1>7, <2>3 DEF hsub, bpp
<1>8. QED BY <1>3, <1>5, <1>6, <1>7

-----------------------------------------------------------------------------
(* The loop.                                                                *)

\* The inductive invariant.  The handle describes the planes before p as they
\* are; while nothing can wrap, they follow one another below offset, which no
\* plane takes further than its room.
Types ==
  /\ pc \in {"fill", "filled", "reported", "unsupported"}
  /\ p \in 0 .. Layout.num_planes
  /\ Filled => p = Layout.num_planes /\ hnd.total_size = offset

LaidOut ==
  \A q \in 0 .. (p - 1) : hnd.strides[q] = StrideOf(q) /\ hnd.sizes[q] = SizeOf(q)

InOrder ==
  Small =>
    /\ offset <= p * Room
    /\ \A q \in 0 .. (p - 1) : hnd.offsets[q] + hnd.sizes[q] <= offset
    /\ \A q, r \in 0 .. (p - 1) : q < r => hnd.offsets[q] + hnd.sizes[q] <= hnd.offsets[r]

\* A plane begins where the one before it ends, modulo the word.
NextOffset(q) == IF q = 0 THEN 0 ELSE Wrap(hnd.offsets[q - 1] + SizeOf(q - 1))

Offsets ==
  /\ \A q \in 0 .. (p - 1) : hnd.offsets[q] = NextOffset(q)
  /\ offset = NextOffset(p)

LayoutInv == BufInv /\ TypeOK /\ Types /\ LaidOut /\ Offsets /\ InOrder

\* No plane is laid out at first.
LEMMA LayoutInvInit == Init => LayoutInv
<1> SUFFICES ASSUME Init PROVE LayoutInv
  OBVIOUS
<1>1. BufInv
  BY DEF Init, BufInv
<1>2. 0 \in Uint32 /\ Layout.num_planes \in 1 .. 3 /\ Room \in Nat
  BY <1>1, BufFacts, WordAssumption DEF Uint32, WordAssumption
<1>3. TypeOK
  BY <1>2 DEF Init, TypeOK, NoPlanes, DRV_MAX_PLANES
<1>4. Types /\ LaidOut /\ Offsets /\ InOrder
  BY <1>2 DEF Init, Types, LaidOut, Offsets, NextOffset, InOrder, Filled
<1>5. QED BY <1>1, <1>3, <1>4 DEF LayoutInv

\* One plane more.
LEMMA FillStep ==
  ASSUME LayoutInv, FillPlane
  PROVE  LayoutInv'
<1> USE DEF LayoutInv
<1>1. /\ pc = "fill" /\ pc' = pc /\ buf' = buf /\ p' = p + 1
      /\ p \in Planes /\ p \in 0 .. 2 /\ Layout.num_planes \in 1 .. 3
  BY BufFacts DEF FillPlane, Types, Planes, Layout, drv_num_planes_from_format
<1>2. /\ hnd' = [hnd EXCEPT !.strides[p] = StrideOf(p), !.sizes[p] = SizeOf(p),
                            !.offsets[p] = offset]
      /\ offset' = Wrap(offset + SizeOf(p))
  BY DEF FillPlane, StrideOf, SizeOf
<1>3. StrideOf(p) \in Uint32 /\ SizeOf(p) \in Uint32 /\ offset \in Uint32
  BY <1>1, PlaneRange DEF TypeOK
<1>4. offset' \in Uint32
  BY <1>2, <1>3, WrapRange DEF Uint32
<1>5. BufInv' /\ Layout' = Layout /\ (Small' <=> Small) /\ Room' = Room
      /\ \A q : StrideOf(q)' = StrideOf(q) /\ SizeOf(q)' = SizeOf(q)
  BY <1>1 DEF BufInv, Layout, Small, Below, Room, Row, StrideOf, SizeOf
<1>6. TypeOK'
  <2>1. p \in 0 .. (DRV_MAX_PLANES - 1) /\ p' \in 0 .. DRV_MAX_PLANES
    BY <1>1 DEF DRV_MAX_PLANES
  <2>2. hnd' = [strides |-> [hnd.strides EXCEPT ![p] = StrideOf(p)],
                sizes |-> [hnd.sizes EXCEPT ![p] = SizeOf(p)],
                offsets |-> [hnd.offsets EXCEPT ![p] = offset],
                total_size |-> hnd.total_size]
    BY <1>2 DEF TypeOK
  <2>3. /\ hnd.strides \in [0 .. (DRV_MAX_PLANES - 1) -> Uint32]
        /\ hnd.sizes \in [0 .. (DRV_MAX_PLANES - 1) -> Uint32]
        /\ hnd.offsets \in [0 .. (DRV_MAX_PLANES - 1) -> Uint32]
        /\ hnd.total_size \in Uint32
    BY DEF TypeOK
  <2>4. /\ hnd'.strides \in [0 .. (DRV_MAX_PLANES - 1) -> Uint32]
        /\ hnd'.sizes \in [0 .. (DRV_MAX_PLANES - 1) -> Uint32]
        /\ hnd'.offsets \in [0 .. (DRV_MAX_PLANES - 1) -> Uint32]
        /\ hnd'.total_size \in Uint32
    BY <1>3, <2>1, <2>2, <2>3
  <2>5. QED BY <1>1, <1>4, <2>1, <2>2, <2>4 DEF TypeOK
<1>7. /\ hnd'.strides[p] = StrideOf(p) /\ hnd'.sizes[p] = SizeOf(p) /\ hnd'.offsets[p] = offset
      /\ \A q \in 0 .. (p - 1) :
           /\ hnd'.strides[q] = hnd.strides[q] /\ hnd'.sizes[q] = hnd.sizes[q]
           /\ hnd'.offsets[q] = hnd.offsets[q]
  BY <1>1, <1>2 DEF TypeOK, DRV_MAX_PLANES
<1>8. Types'
  <2>1. p + 1 \in 0 .. Layout.num_planes
    BY <1>1 DEF Planes
  <2>2. QED BY <1>1, <1>5, <2>1 DEF Types, Filled
<1>9. LaidOut'
  BY <1>1, <1>5, <1>7 DEF LaidOut
<1>10. InOrder'
  <2> SUFFICES ASSUME Small
               PROVE  /\ offset' <= (p + 1) * Room
                      /\ \A q \in 0 .. p : hnd'.offsets[q] + hnd'.sizes[q] <= offset'
                      /\ \A q, r \in 0 .. p :
                           q < r => hnd'.offsets[q] + hnd'.sizes[q] <= hnd'.offsets[r]
    BY <1>1, <1>5 DEF InOrder
  <2>1. /\ SizeOf(p) \in 0 .. Room /\ Room \in Nat /\ Word \in Nat
        /\ Layout.num_planes * Room < Word
    BY <1>1, PlaneFits, BufFacts, SmallFacts, WordAssumption DEF WordAssumption
  <2>2. offset \in Nat /\ offset <= p * Room
    BY <1>3 DEF InOrder, Uint32
  <2>3. offset + SizeOf(p) <= (p + 1) * Room
    BY <1>1, <2>1, <2>2, SMT
  <2>4. (p + 1) * Room <= Layout.num_planes * Room
    BY <1>1, <2>1, ProductMonotonic DEF Planes
  <2>5. offset' = offset + SizeOf(p)
    <3>1. offset + SizeOf(p) \in Nat /\ offset + SizeOf(p) < Word
      BY <1>1, <2>1, <2>2, <2>3, <2>4
    <3>2. QED BY <1>2, <3>1, WrapSmall
  <2>6. \A q \in 0 .. (p - 1) :
          hnd.offsets[q] \in Nat /\ hnd.sizes[q] \in Nat
            /\ hnd.offsets[q] + hnd.sizes[q] <= offset
    BY <1>1 DEF InOrder, TypeOK, Uint32, DRV_MAX_PLANES
  <2>7. \A q \in 0 .. p : hnd'.offsets[q] + hnd'.sizes[q] <= offset'
    BY <1>1, <1>7, <2>1, <2>2, <2>5, <2>6
  <2>8. \A q, r \in 0 .. p : q < r => hnd'.offsets[q] + hnd'.sizes[q] <= hnd'.offsets[r]
    BY <1>1, <1>7, <2>6 DEF InOrder
  <2>9. QED BY <2>3, <2>5, <2>7, <2>8
<1>11. Offsets'
  <2>1. PICK k \in 0 .. 2 : k = p
    BY <1>1
  <2>2. ASSUME NEW q \in 0 .. k PROVE NextOffset(q)' = NextOffset(q)
    <3>1. CASE q = 0
      BY <3>1 DEF NextOffset
    <3>2. CASE q # 0
      <4>1. q - 1 \in 0 .. (p - 1)
        BY <2>1, <3>2
      <4>2. hnd'.offsets[q - 1] = hnd.offsets[q - 1] /\ SizeOf(q - 1)' = SizeOf(q - 1)
        BY <1>5, <1>7, <4>1
      <4>3. QED BY <4>2 DEF NextOffset
    <3>3. QED BY <3>1, <3>2
  <2>3. ASSUME NEW q \in 0 .. (k - 1) PROVE hnd'.offsets[q] = NextOffset(q)'
    <3>1. q \in 0 .. k /\ hnd'.offsets[q] = hnd.offsets[q] /\ hnd.offsets[q] = NextOffset(q)
      BY <1>7, <2>1 DEF Offsets
    <3>2. QED BY <2>2, <3>1
  <2>4. hnd'.offsets[k] = NextOffset(k)'
    <3>1. k \in 0 .. k /\ offset = NextOffset(k)
      BY <2>1 DEF Offsets
    <3>2. QED BY <1>7, <2>1, <2>2, <3>1
  <2>5. offset' = NextOffset(k + 1)'
    <3>1. k + 1 # 0 /\ (k + 1) - 1 = k
      BY <2>1
    <3>2. offset' = Wrap(hnd'.offsets[k] + SizeOf(k)')
      BY <1>2, <1>5, <1>7, <2>1
    <3>3. QED BY <3>1, <3>2 DEF NextOffset
  <2>6. ASSUME NEW q \in 0 .. (p' - 1) PROVE hnd'.offsets[q] = NextOffset(q)'
    <3>1. q \in 0 .. (k - 1) \/ q = k
      BY <1>1, <2>1
    <3>2. QED BY <2>3, <2>4, <3>1
  <2>7. p' = k + 1
    BY <1>1, <2>1
  <2>8. QED BY <2>5, <2>6, <2>7 DEF Offsets
<1>12. QED BY <1>5, <1>6, <1>8, <1>9, <1>10, <1>11

\* The other steps leave the planes alone.
LEMMA LayoutInvStep == LayoutInv /\ [Next]_vars => LayoutInv'
<1> SUFFICES ASSUME LayoutInv, [Next]_vars PROVE LayoutInv'
  OBVIOUS
<1>1. CASE FillPlane
  BY <1>1, FillStep
<1>2. CASE FillDone \/ Report \/ ReportFails \/ UNCHANGED vars
  <2> USE DEF LayoutInv
  <2>1. /\ UNCHANGED <<buf, p, offset>>
        /\ hnd' = [hnd EXCEPT !.total_size = IF FillDone THEN offset ELSE @]
    BY <1>2 DEF FillDone, Report, ReportFails, vars, TypeOK
  <2>2. BufInv' /\ Layout' = Layout /\ (Small' <=> Small) /\ Room' = Room
        /\ \A q : StrideOf(q)' = StrideOf(q) /\ SizeOf(q)' = SizeOf(q)
    BY <2>1 DEF BufInv, Layout, Small, Below, Room, Row, StrideOf, SizeOf
  <2>3. TypeOK'
    BY <1>2, <2>1 DEF TypeOK, FillDone, Report, ReportFails, vars
  <2>4. Types'
    BY <1>2, <2>1, <2>2 DEF Types, Filled, FillDone, Report, ReportFails, vars, TypeOK,
                            Layout, drv_num_planes_from_format
  <2>5. /\ hnd'.strides = hnd.strides /\ hnd'.sizes = hnd.sizes
        /\ hnd'.offsets = hnd.offsets
    BY <2>1 DEF TypeOK
  <2>6. LaidOut' /\ Offsets' /\ InOrder'
    BY <2>1, <2>2, <2>5 DEF LaidOut, Offsets, NextOffset, InOrder
  <2>7. QED BY <2>2, <2>3, <2>4, <2>6
<1>3. QED BY <1>1, <1>2 DEF Next

\* The loop keeps the invariant.
LEMMA Invariance == Spec => []LayoutInv
  BY LayoutInvInit, LayoutInvStep, PTL DEF Spec

\* What the loop computes is always a uint32_t, whatever the size of the buffer.
THEOREM TypeCorrect == Spec => []TypeOK
<1>1. LayoutInv => TypeOK
  BY DEF LayoutInv
<1>2. QED BY Invariance, <1>1, PTL

\* Planes never overlap, in buffers of every format and of every size that
\* cannot wrap.
THEOREM PlanesApart == Spec => []PlanesDisjoint
<1>1. ASSUME LayoutInv PROVE PlanesDisjoint
  <2> SUFFICES ASSUME Filled, Small
               PROVE  \A q \in Planes :
                        /\ hnd.offsets[q] + hnd.sizes[q] <= hnd.total_size
                        /\ \A r \in Planes : q < r =>
                             hnd.offsets[q] + hnd.sizes[q] <= hnd.offsets[r]
    BY DEF PlanesDisjoint
  <2>1. p = Layout.num_planes /\ hnd.total_size = offset
    BY <1>1 DEF LayoutInv, Types
  <2>2. QED BY <1>1, <2>1 DEF LayoutInv, InOrder, Planes
<1>2. QED BY Invariance, <1>1, PTL

\* Every plane has room for all its samples, odd sizes included.
THEOREM SamplesFit == Spec => []PlanesHoldSamples
<1>1. ASSUME LayoutInv PROVE PlanesHoldSamples
  <2> SUFFICES ASSUME Filled, Small, NEW q \in Planes
               PROVE  LET row  == CeilDiv(buf.width, Of(Layout.horizontal_subsampling, q))
                                    * Of(Layout.bytes_per_pixel, q)
                          rows == CeilDiv(buf.height, Of(Layout.vertical_subsampling, q))
                      IN  /\ row <= hnd.strides[q]
                          /\ hnd.strides[q] * rows <= hnd.sizes[q]
    BY DEF PlanesHoldSamples
  <2>1. hnd.strides[q] = StrideOf(q) /\ hnd.sizes[q] = SizeOf(q)
    BY <1>1 DEF LayoutInv, Types, LaidOut, Planes
  <2>2. CeilDiv(buf.width, Of(Layout.horizontal_subsampling, q))
          * Of(Layout.bytes_per_pixel, q) <= StrideOf(q)
    BY <1>1, RowFits DEF LayoutInv
  <2>3. StrideOf(q) * CeilDiv(buf.height, Of(Layout.vertical_subsampling, q)) <= SizeOf(q)
    <3>1. /\ CeilDiv(buf.height, Of(Layout.vertical_subsampling, q)) \in 0 .. HeightOf(q)
          /\ StrideOf(q) \in Nat /\ HeightOf(q) \in Nat
          /\ SizeOf(q) = StrideOf(q) * HeightOf(q)
      BY <1>1, PlaneFits DEF LayoutInv
    <3>2. QED BY <3>1, ProductMonotonic
  <2>4. QED BY <2>1, <2>2, <2>3
<1>2. QED BY Invariance, <1>1, PTL

-----------------------------------------------------------------------------
(* The two tables.                                                          *)

\* The mapper's planes are those of the layout: as many, subsampled alike, with
\* samples as wide.
Matches(planes, layout) ==
  /\ Len(planes) = layout.num_planes /\ layout.num_planes # 0
  /\ \A n \in 1 .. Len(planes) :
       /\ planes[n].sampleIncrementInBits = 8 * layout.bytes_per_pixel[n]
       /\ planes[n].horizontalSubsampling = layout.horizontal_subsampling[n]
       /\ planes[n].verticalSubsampling = layout.vertical_subsampling[n]

\* The fourccs the mapper has planes of.
LEMMA TableDomains ==
  /\ DOMAIN WideRgbPlanes =
       {"DRM_ABGR8888", "DRM_ABGR2101010", "DRM_ABGR16161616F", "DRM_ARGB8888"}
  /\ DOMAIN BiplanarPlanes = {"DRM_NV12", "DRM_NV21", "DRM_P010", "DRM_P210"}
  /\ DOMAIN OtherRgbPlanes =
       {"DRM_R8", "DRM_R16", "DRM_RGB565", "DRM_BGR888", "DRM_XBGR8888"}
  /\ DOMAIN TriplanarPlanes = {"YV12", "DRM_YVU420_ANDROID"}
  BY DEF WideRgbPlanes, BiplanarPlanes, OtherRgbPlanes, TriplanarPlanes

\* The tables, but for the components of their planes.
LEMMA TableShapes ==
  /\ \E a, b, c, d :
       WideRgbPlanes =
         [DRM_ABGR8888 |-> <<Plane(a, 32, 1, 1)>>, DRM_ABGR2101010 |-> <<Plane(b, 32, 1, 1)>>,
          DRM_ABGR16161616F |-> <<Plane(c, 64, 1, 1)>>, DRM_ARGB8888 |-> <<Plane(d, 32, 1, 1)>>]
  /\ \E a, b, c, d, e, f, g, h :
       BiplanarPlanes =
         [DRM_NV12 |-> <<Plane(a, 8, 1, 1), Plane(b, 16, 2, 2)>>,
          DRM_NV21 |-> <<Plane(c, 8, 1, 1), Plane(d, 16, 2, 2)>>,
          DRM_P010 |-> <<Plane(e, 16, 1, 1), Plane(f, 32, 2, 2)>>,
          DRM_P210 |-> <<Plane(g, 16, 1, 1), Plane(h, 32, 2, 1)>>]
  /\ \E a, b, c, d, e :
       OtherRgbPlanes =
         [DRM_R8 |-> <<Plane(a, 8, 1, 1)>>, DRM_R16 |-> <<Plane(b, 16, 1, 1)>>,
          DRM_RGB565 |-> <<Plane(c, 16, 1, 1)>>, DRM_BGR888 |-> <<Plane(d, 24, 1, 1)>>,
          DRM_XBGR8888 |-> <<Plane(e, 32, 1, 1)>>]
  /\ \E a, b, c : Yvu420Planes = <<Plane(a, 8, 1, 1), Plane(b, 8, 2, 2), Plane(c, 8, 2, 2)>>
<1>1. \E a, b, c, d :
       WideRgbPlanes =
         [DRM_ABGR8888 |-> <<Plane(a, 32, 1, 1)>>, DRM_ABGR2101010 |-> <<Plane(b, 32, 1, 1)>>,
          DRM_ABGR16161616F |-> <<Plane(c, 64, 1, 1)>>, DRM_ARGB8888 |-> <<Plane(d, 32, 1, 1)>>]
  BY Zenon DEF WideRgbPlanes
<1>2. \E a, b, c, d, e, f, g, h :
       BiplanarPlanes =
         [DRM_NV12 |-> <<Plane(a, 8, 1, 1), Plane(b, 16, 2, 2)>>,
          DRM_NV21 |-> <<Plane(c, 8, 1, 1), Plane(d, 16, 2, 2)>>,
          DRM_P010 |-> <<Plane(e, 16, 1, 1), Plane(f, 32, 2, 2)>>,
          DRM_P210 |-> <<Plane(g, 16, 1, 1), Plane(h, 32, 2, 1)>>]
  BY Zenon DEF BiplanarPlanes
<1>3. \E a, b, c, d, e :
       OtherRgbPlanes =
         [DRM_R8 |-> <<Plane(a, 8, 1, 1)>>, DRM_R16 |-> <<Plane(b, 16, 1, 1)>>,
          DRM_RGB565 |-> <<Plane(c, 16, 1, 1)>>, DRM_BGR888 |-> <<Plane(d, 24, 1, 1)>>,
          DRM_XBGR8888 |-> <<Plane(e, 32, 1, 1)>>]
  BY Zenon DEF OtherRgbPlanes
<1>4. \E a, b, c : Yvu420Planes = <<Plane(a, 8, 1, 1), Plane(b, 8, 2, 2), Plane(c, 8, 2, 2)>>
  BY Zenon DEF Yvu420Planes
<1>5. QED BY <1>1, <1>2, <1>3, <1>4, Zenon

\* The table a fourcc is found in.
LEMMA LookupTable ==
  ASSUME NEW f
  PROVE  /\ f \in DOMAIN WideRgbPlanes => getPlaneLayouts(f) = WideRgbPlanes[f]
         /\ f \in DOMAIN BiplanarPlanes => getPlaneLayouts(f) = BiplanarPlanes[f]
         /\ f \in DOMAIN OtherRgbPlanes => getPlaneLayouts(f) = OtherRgbPlanes[f]
         /\ f \in DOMAIN TriplanarPlanes => getPlaneLayouts(f) = TriplanarPlanes[f]
         /\ f \notin PlaneLayoutFormats => getPlaneLayouts(f) = <<>>
<1>1. CASE f \in DOMAIN WideRgbPlanes
  BY <1>1, TableDomains DEF getPlaneLayouts, PlaneLayoutFormats
<1>2. CASE f \in DOMAIN BiplanarPlanes
  BY <1>2, TableDomains DEF getPlaneLayouts, PlaneLayoutFormats
<1>3. CASE f \in DOMAIN OtherRgbPlanes
  BY <1>3, TableDomains DEF getPlaneLayouts, PlaneLayoutFormats
<1>4. CASE f \in DOMAIN TriplanarPlanes
  BY <1>4, TableDomains DEF getPlaneLayouts, PlaneLayoutFormats
<1>5. CASE f \notin PlaneLayoutFormats
  BY <1>5 DEF getPlaneLayouts, PlaneLayoutFormats
<1>6. QED BY <1>1, <1>2, <1>3, <1>4, <1>5 DEF PlaneLayoutFormats

\* One plane, two planes and three.
LEMMA PackedMatches ==
  ASSUME NEW c, NEW bpp \in Nat
  PROVE  Matches(<<Plane(c, 8 * bpp, 1, 1)>>, packed(bpp))
  BY DEF Matches, Plane, packed, Planar

LEMMA BiplanarMatches ==
  ASSUME NEW c, NEW d
  PROVE  /\ Matches(<<Plane(c, 8, 1, 1), Plane(d, 16, 2, 2)>>, biplanar_yuv_420_layout)
         /\ Matches(<<Plane(c, 16, 1, 1), Plane(d, 32, 2, 2)>>, biplanar_yuv_p010_layout)
         /\ Matches(<<Plane(c, 16, 1, 1), Plane(d, 32, 2, 1)>>, biplanar_yuv_p210_layout)
  BY DEF Matches, Plane, biplanar_yuv_420_layout, biplanar_yuv_p010_layout,
         biplanar_yuv_p210_layout, Planar

LEMMA TriplanarMatches ==
  ASSUME NEW c, NEW d, NEW e
  PROVE  Matches(<<Plane(c, 8, 1, 1), Plane(d, 8, 2, 2), Plane(e, 8, 2, 2)>>,
                 triplanar_yuv_420_layout)
  BY DEF Matches, Plane, triplanar_yuv_420_layout, Planar

\* Of every fourcc the mapper knows it tells what the driver's library lays out.
LEMMA TablesAgree ==
  ASSUME NEW f, getPlaneLayouts(f) # <<>>
  PROVE  Matches(getPlaneLayouts(f), layout_from_format(f))
<1>1. CASE f \in DOMAIN WideRgbPlanes
  <2>1. PICK c : \/ f # "DRM_ABGR16161616F" /\ getPlaneLayouts(f) = <<Plane(c, 8 * 4, 1, 1)>>
                 \/ f = "DRM_ABGR16161616F" /\ getPlaneLayouts(f) = <<Plane(c, 8 * 8, 1, 1)>>
    BY <1>1, TableDomains, TableShapes, LookupTable
  <2>2. layout_from_format(f) = packed(IF f = "DRM_ABGR16161616F" THEN 8 ELSE 4)
    BY <1>1, TableDomains DEF layout_from_format
  <2>3. QED BY <2>1, <2>2, PackedMatches
<1>2. CASE f \in DOMAIN BiplanarPlanes
  <2>1. PICK c, d :
          \/ /\ f \in {"DRM_NV12", "DRM_NV21"}
             /\ getPlaneLayouts(f) = <<Plane(c, 8, 1, 1), Plane(d, 16, 2, 2)>>
          \/ /\ f = "DRM_P010"
             /\ getPlaneLayouts(f) = <<Plane(c, 16, 1, 1), Plane(d, 32, 2, 2)>>
          \/ /\ f = "DRM_P210"
             /\ getPlaneLayouts(f) = <<Plane(c, 16, 1, 1), Plane(d, 32, 2, 1)>>
    <3>1. getPlaneLayouts(f) = BiplanarPlanes[f]
      BY <1>2, LookupTable
    <3>2. PICK a1, b1, a2, b2, a3, b3, a4, b4 :
            BiplanarPlanes =
              [DRM_NV12 |-> <<Plane(a1, 8, 1, 1), Plane(b1, 16, 2, 2)>>,
               DRM_NV21 |-> <<Plane(a2, 8, 1, 1), Plane(b2, 16, 2, 2)>>,
               DRM_P010 |-> <<Plane(a3, 16, 1, 1), Plane(b3, 32, 2, 2)>>,
               DRM_P210 |-> <<Plane(a4, 16, 1, 1), Plane(b4, 32, 2, 1)>>]
      BY TableShapes, Zenon
    <3>3. CASE f = "DRM_NV12"
      BY <3>1, <3>2, <3>3
    <3>4. CASE f = "DRM_NV21"
      BY <3>1, <3>2, <3>4
    <3>5. CASE f = "DRM_P010"
      BY <3>1, <3>2, <3>5
    <3>6. CASE f = "DRM_P210"
      BY <3>1, <3>2, <3>6
    <3>7. QED BY <1>2, <3>3, <3>4, <3>5, <3>6, TableDomains
  <2>2. /\ f \in {"DRM_NV12", "DRM_NV21"} => layout_from_format(f) = biplanar_yuv_420_layout
        /\ f = "DRM_P010" => layout_from_format(f) = biplanar_yuv_p010_layout
        /\ f = "DRM_P210" => layout_from_format(f) = biplanar_yuv_p210_layout
    BY DEF layout_from_format
  <2>3. QED BY <2>1, <2>2, BiplanarMatches
<1>3. CASE f \in DOMAIN OtherRgbPlanes
  <2> DEFINE bpp == CASE f = "DRM_R8" -> 1 [] f = "DRM_BGR888" -> 3
                      [] f = "DRM_XBGR8888" -> 4 [] OTHER -> 2
  <2>1. PICK c : getPlaneLayouts(f) = <<Plane(c, 8 * bpp, 1, 1)>>
    BY <1>3, TableDomains, TableShapes, LookupTable
  <2>2. layout_from_format(f) = packed(bpp) /\ bpp \in Nat
    BY <1>3, TableDomains DEF layout_from_format
  <2> HIDE DEF bpp
  <2>3. QED BY <2>1, <2>2, PackedMatches
<1>4. CASE f \in DOMAIN TriplanarPlanes
  <2>1. getPlaneLayouts(f) = Yvu420Planes
    BY <1>4, LookupTable DEF TriplanarPlanes
  <2>2. layout_from_format(f) = triplanar_yuv_420_layout
    BY <1>4, TableDomains DEF layout_from_format
  <2>3. QED BY <2>1, <2>2, TableShapes, TriplanarMatches
<1>5. QED BY <1>1, <1>2, <1>3, <1>4, LookupTable DEF PlaneLayoutFormats

\* Where both conversions lead to a layout, they lead to the same.
LEMMA BothWays ==
  ASSUME NEW hal, gralloc_convert_format(hal) # DRM_FORMAT_NONE,
         layout_from_format(convert_pix_format_to_viv_format(hal)).num_planes # 0,
         layout_from_format(gralloc_convert_format(hal)).num_planes # 0
  PROVE  layout_from_format(convert_pix_format_to_viv_format(hal))
           = layout_from_format(gralloc_convert_format(hal))
<1>1. hal \in DOMAIN HalFourcc \/ hal \in DOMAIN DirectFourcc
  BY DEF gralloc_convert_format, drv_convert_gralloc_format_to_drm_format
<1>2. CASE hal \in DOMAIN HalFourcc
  BY <1>2, SMTT(60) DEF gralloc_convert_format, convert_pix_format_to_viv_format, VivCodes,
                        HalFourcc, layout_from_format, NoLayout, Planar
<1>3. CASE hal \in DOMAIN DirectFourcc \ DOMAIN HalFourcc
  BY <1>3, SMTT(60) DEF gralloc_convert_format, convert_pix_format_to_viv_format, VivCodes,
                        HalFourcc, DirectFourcc, drv_convert_gralloc_format_to_drm_format,
                        layout_from_format, NoLayout, Planar
<1>4. QED BY <1>1, <1>2, <1>3

\* The buffer's format is one of those the driver may get to.
LEMMA BufIsAccepted ==
  BufInv => /\ buf.hal \in Formats
            /\ gralloc_convert_format(buf.hal) # DRM_FORMAT_NONE
            /\ buf.format \in Codes(buf.hal)
<1> SUFFICES ASSUME BufInv PROVE /\ buf.hal \in Formats
                                 /\ gralloc_convert_format(buf.hal) # DRM_FORMAT_NONE
                                 /\ buf.format \in Codes(buf.hal)
  OBVIOUS
<1>1. PICK hal \in Formats :
        \E format \in Codes(hal) :
          \E width \in Widths, height \in Heights,
             sa \in StrideAlignments, ha \in HeightAlignments :
            buf = Buffer(hal, format, width, height, sa, ha)
  BY DEF BufInv
<1>2. buf.hal = hal /\ buf.format \in Codes(hal)
  BY <1>1 DEF Buffer
<1>3. QED BY <1>2, BufferLayoutAssumption DEF BufferLayoutAssumption

\* The two codes of a format: their planes are alike, and neither is the one
\* fourcc whose rows are aligned; the half strides of YV12 belong to both or
\* to none.
LEMMA CodesAlike ==
  ASSUME BufInv, NEW g \in Codes(buf.hal)
  PROVE  /\ layout_from_format(g) = Layout
         /\ g \notin TiledFormats \cup {"DRM_YVU420_ANDROID"}
         /\ buf.format \notin TiledFormats \cup {"DRM_YVU420_ANDROID"}
         /\ g = "YV12" <=> buf.format = "YV12"
<1>1. buf.hal \in Formats /\ gralloc_convert_format(buf.hal) # DRM_FORMAT_NONE
      /\ buf.format \in Codes(buf.hal)
  BY BufIsAccepted
<1>2. layout_from_format(g) = Layout
  BY <1>1, BothWays DEF Codes, drv_num_planes_from_format, Layout
<1>3. g \notin TiledFormats /\ buf.format \notin TiledFormats
  BY <1>1, NotTiled
<1> DEFINE hal == buf.hal
<1>4. hal \in DOMAIN HalFourcc \/ hal \in DOMAIN DirectFourcc
  BY <1>1 DEF gralloc_convert_format, drv_convert_gralloc_format_to_drm_format
<1> HIDE DEF hal
<1>5. /\ gralloc_convert_format(hal) # "DRM_YVU420_ANDROID"
      /\ gralloc_convert_format(hal) = "YV12" <=> hal = "YV12"
  BY <1>4 DEF gralloc_convert_format, drv_convert_gralloc_format_to_drm_format,
              HalFourcc, DirectFourcc
<1>6. /\ convert_pix_format_to_viv_format(hal) # "DRM_YVU420_ANDROID"
      /\ convert_pix_format_to_viv_format(hal) = "YV12" <=> hal = "YV12"
  BY DEF convert_pix_format_to_viv_format, VivCodes
<1>7. QED BY <1>1, <1>2, <1>3, <1>5, <1>6 DEF Codes, hal

\* Rows already in fours are not rounded any more.
LEMMA RowsRoundedOnce ==
  ASSUME NEW n \in Uint32, n % 4 = 0
  PROVE  ALIGN(n, 4) = n
<1>1. n \in Nat /\ n + 4 - 1 < Word
  BY WordAssumption, SMT DEF WordAssumption, Uint32
<1>2. ALIGN(n, 4) \in n .. (n + 3) /\ ALIGN(n, 4) % 4 = 0
  BY <1>1, AlignBound DEF Alignments
<1>3. QED BY <1>1, <1>2, SMT

\* Whichever conversion the driver uses, each byte of the buffer has the same
\* place: all strides, sizes and offsets are those of the other code, for
\* every size of a buffer, wrapped sums included.
THEOREM OneLayout == Spec => []SameLayoutEitherWay
<1>1. ASSUME LayoutInv PROVE SameLayoutEitherWay
  <2> DEFINE rows == alignedh(buf.format, buf.aligned_height)
  <2> SUFFICES ASSUME Filled, NEW g \in Codes(buf.hal)
               PROVE  /\ drv_stride_from_format(g, buf.width, 0)
                           = drv_stride_from_format(buf.format, buf.width, 0)
                      /\ g \notin FourRowFormats \/ rows % 4 = 0 => FilledAs(g, rows)
    BY DEF SameLayoutEitherWay
  <2>1. BufInv /\ Layout.num_planes \in 1 .. 3 /\ Layout = layout_from_format(buf.format)
    BY <1>1, BufFacts DEF LayoutInv, Layout
  <2>2. /\ layout_from_format(g) = Layout
        /\ g \notin TiledFormats \cup {"DRM_YVU420_ANDROID"}
        /\ buf.format \notin TiledFormats \cup {"DRM_YVU420_ANDROID"}
        /\ g = "YV12" <=> buf.format = "YV12"
    BY <2>1, CodesAlike
  <2>3. drv_stride_from_format(g, buf.width, 0)
          = drv_stride_from_format(buf.format, buf.width, 0)
    BY <2>1, <2>2 DEF drv_stride_from_format
  <2>4. ASSUME g \notin FourRowFormats \/ rows % 4 = 0
        PROVE  FilledAs(g, rows)
    <3>1. rows \in Uint32
      <4>1. buf.aligned_height \in Nat /\ buf.aligned_height \in Uint32
        BY <2>1, BufFacts DEF Uint32
      <4>2. ALIGN(buf.aligned_height, 4) \in Uint32
        BY <4>1, AlignRange DEF Alignments
      <4>3. QED BY <4>1, <4>2 DEF alignedh
    <3> HIDE DEF rows
    <3>2. alignedh(g, rows) = rows
      BY <2>4, <3>1, RowsRoundedOnce DEF alignedh
    <3>3. ASSUME NEW q
          PROVE  /\ subsample_stride(buf.stride, g, q) = StrideOf(q)
                 /\ drv_size_from_format(g, subsample_stride(buf.stride, g, q), rows, q)
                      = SizeOf(q)
      <4>1. subsample_stride(buf.stride, g, q) = StrideOf(q)
        BY <2>2 DEF subsample_stride, StrideOf
      <4>2. drv_height_from_format(g, rows, q)
              = drv_height_from_format(buf.format, buf.aligned_height, q)
        BY <2>1, <2>2, <3>2 DEF drv_height_from_format, rows
      <4>3. QED BY <4>1, <4>2 DEF drv_size_from_format, SizeOf
    <3>4. drv_num_planes_from_format(g) = p /\ p \in 1 .. 3 /\ hnd.total_size = offset
      BY <1>1, <2>1, <2>2 DEF LayoutInv, Types, drv_num_planes_from_format
    <3>5. \A q \in 0 .. (p - 1) : hnd.strides[q] = StrideOf(q) /\ hnd.sizes[q] = SizeOf(q)
      BY <1>1 DEF LayoutInv, LaidOut
    <3>6. hnd.offsets[0] = 0
      BY <1>1, <3>4 DEF LayoutInv, Offsets, NextOffset
    <3>7. \A q \in 1 .. (p - 1) : hnd.offsets[q] = Wrap(hnd.offsets[q - 1] + SizeOf(q - 1))
      BY <1>1, <3>4 DEF LayoutInv, Offsets, NextOffset
    <3>8. hnd.total_size = Wrap(hnd.offsets[p - 1] + SizeOf(p - 1))
      BY <1>1, <3>4 DEF LayoutInv, Offsets, NextOffset
    <3>9. QED BY <3>3, <3>4, <3>5, <3>6, <3>7, <3>8 DEF FilledAs
  <2>5. QED BY <2>3, <2>4
<1>2. QED BY Invariance, <1>1, PTL

-----------------------------------------------------------------------------
(* What the mapper reports.                                                 *)

Fourcc == gralloc_convert_format(buf.hal)

\* The report is of the planes of the table, with the handle's numbers.
ReportInv ==
  pc = "reported" =>
    /\ getPlaneLayouts(Fourcc) # <<>>
    /\ report = [n \in 1 .. Len(getPlaneLayouts(Fourcc)) |->
                   ReportedPlane(n - 1, getPlaneLayouts(Fourcc)[n])]

\* The report is made once, of the planes then laid out.
LEMMA ReportInvStep == ReportInv /\ [Next]_vars => ReportInv'
<1> SUFFICES ASSUME ReportInv, [Next]_vars PROVE ReportInv'
  OBVIOUS
<1>1. CASE FillPlane \/ FillDone \/ ReportFails
  BY <1>1 DEF FillPlane, FillDone, ReportFails, ReportInv
<1>2. CASE Report
  BY <1>2 DEF Report, ReportInv, Fourcc, ReportedPlane
<1>3. CASE UNCHANGED vars
  BY <1>3 DEF vars, ReportInv, Fourcc, ReportedPlane
<1>4. QED BY <1>1, <1>2, <1>3 DEF Next

\* A size that fits an int fits a uint32_t.
LEMMA HalfIsSmall ==
  ASSUME BufInv, Below(Word \div 2)
  PROVE  Small /\ Layout.num_planes * Room < Word \div 2
<1> DEFINE D == Layout.num_planes * (buf.height + 16)
           X == Row + 64
<1>1. /\ D \in Nat \ {0} /\ X \in Nat \ {0} /\ Word \in Nat \ {0}
      /\ X < (Word \div 2) \div D
  BY BufFacts, WordAssumption, SMT DEF WordAssumption, Below, Row
<1>2. X * D < Word \div 2
  BY <1>1, QuotientBound
<1>3. Layout.num_planes * Room = X * D
  <2>1. ASSUME NEW n \in Nat, NEW x \in Nat, NEW y \in Nat PROVE n * (x * y) = x * (n * y)
    BY SMT
  <2>2. QED BY <1>1, <2>1, BufFacts DEF Room
<1>4. (Word \div 2) \div D <= Word \div D
  <2> HIDE DEF D
  <2>1. ASSUME NEW w \in Nat, NEW v \in Nat, v <= w, NEW d \in Nat \ {0}
        PROVE  v \div d <= w \div d
    BY <2>1, SMT
  <2>2. QED BY <1>1, <2>1
<1>5. X < Word \div D
  BY <1>1, <1>4
<1>6. QED BY <1>2, <1>3, <1>5 DEF Small, Below, Row

\* What PLANE_LAYOUTS tells of a buffer whose sizes fit an int lies in the planes
\* that were laid out.
THEOREM ReportFits == Spec => []ReportedPlanesFit
<1>1. ASSUME LayoutInv, ReportInv PROVE ReportedPlanesFit
  <2> SUFFICES ASSUME pc = "reported", Below(Word \div 2)
               PROVE  /\ Len(report) = Layout.num_planes
                      /\ \A n \in 1 .. Len(report) :
                           LET plane == report[n] IN
                           /\ plane.offsetInBytes >= 0
                           /\ plane.offsetInBytes + plane.totalSizeInBytes <= hnd.total_size
                           /\ plane.widthInSamples * plane.sampleIncrementInBits
                                <= 8 * plane.strideInBytes
                           /\ plane.heightInSamples * plane.strideInBytes
                                <= plane.totalSizeInBytes
                           /\ plane.sampleIncrementInBits
                                = 8 * Of(Layout.bytes_per_pixel, n - 1)
    BY DEF ReportedPlanesFit
  <2> DEFINE planes == getPlaneLayouts(Fourcc)
  <2>1. Small /\ Layout.num_planes * Room < Word \div 2
    BY <1>1, HalfIsSmall DEF LayoutInv
  <2>2. /\ p = Layout.num_planes /\ hnd.total_size = offset
        /\ Layout.num_planes \in 1 .. 3
        /\ planes # <<>> /\ report = [n \in 1 .. Len(planes) |-> ReportedPlane(n - 1, planes[n])]
    BY <1>1, BufFacts DEF LayoutInv, Types, ReportInv, Filled
  <2>3. Layout = layout_from_format(Fourcc) /\ Matches(planes, Layout)
    <3>1. Matches(planes, layout_from_format(Fourcc))
      BY <2>2, TablesAgree
    <3>2. layout_from_format(Fourcc).num_planes # 0
      BY <3>1 DEF Matches
    <3>3. buf.format = Fourcc \/ buf.format = convert_pix_format_to_viv_format(buf.hal)
      BY <1>1, BufIsAccepted DEF LayoutInv, Codes, Fourcc
    <3>4. Layout = layout_from_format(Fourcc)
      BY <1>1, <2>2, <3>2, <3>3, BufIsAccepted, BothWays DEF LayoutInv, Layout, Fourcc
    <3>5. QED BY <3>1, <3>4
  <2>4. Len(planes) = Layout.num_planes /\ Len(report) = Layout.num_planes
    BY <2>2, <2>3 DEF Matches
  <2>5. ASSUME NEW n \in 1 .. Len(report)
        PROVE  LET plane == report[n] IN
               /\ plane.offsetInBytes >= 0
               /\ plane.offsetInBytes + plane.totalSizeInBytes <= hnd.total_size
               /\ plane.widthInSamples * plane.sampleIncrementInBits <= 8 * plane.strideInBytes
               /\ plane.heightInSamples * plane.strideInBytes <= plane.totalSizeInBytes
               /\ plane.sampleIncrementInBits = 8 * Of(Layout.bytes_per_pixel, n - 1)
    <3>1. PICK q \in Planes :
            q = n - 1 /\ n = q + 1 /\ q \in 0 .. (p - 1) /\ q \in 0 .. (DRV_MAX_PLANES - 1)
      <4>1. n - 1 \in Planes /\ n - 1 \in 0 .. (DRV_MAX_PLANES - 1) /\ n = (n - 1) + 1
        BY <2>2, <2>4 DEF Planes, DRV_MAX_PLANES
      <4>2. QED BY <2>2, <4>1 DEF Planes
    <3> DEFINE hsub == Of(Layout.horizontal_subsampling, q)
               vsub == Of(Layout.vertical_subsampling, q)
               bpp == Of(Layout.bytes_per_pixel, q)
    <3>2. /\ planes[n].sampleIncrementInBits = 8 * bpp
          /\ planes[n].horizontalSubsampling = hsub
          /\ planes[n].verticalSubsampling = vsub
      BY <2>3, <2>4, <3>1 DEF Matches, Of
    <3>3. /\ hsub \in {1, 2} /\ vsub \in {1, 2} /\ bpp \in {1, 2, 3, 4, 8}
      BY <2>2, <3>1, PlaneFacts DEF Planes, Layout
    <3>4. /\ hnd.strides[q] = StrideOf(q) /\ hnd.sizes[q] = SizeOf(q)
          /\ hnd.offsets[q] \in Nat /\ SizeOf(q) \in Nat /\ StrideOf(q) \in Nat
          /\ HeightOf(q) \in Nat /\ offset \in Nat
      <4>1. hnd.strides[q] = StrideOf(q) /\ hnd.sizes[q] = SizeOf(q)
        BY <1>1, <3>1 DEF LayoutInv, LaidOut
      <4>2. SizeOf(q) \in Nat /\ StrideOf(q) \in Nat /\ HeightOf(q) \in Nat
        BY <1>1, PlaneRange DEF LayoutInv, Uint32
      <4>3. hnd.offsets[q] \in Nat /\ offset \in Nat
        <5>1. hnd.offsets[q] \in Uint32 /\ offset \in Uint32
          BY <1>1, <3>1 DEF LayoutInv, TypeOK
        <5>2. \A u \in Uint32 : u \in Nat
          BY WordAssumption DEF WordAssumption, Uint32
        <5>3. QED BY <5>1, <5>2
      <4>4. QED BY <4>1, <4>2, <4>3
    <3>5. /\ hnd.offsets[q] + SizeOf(q) <= offset
          /\ offset <= Layout.num_planes * Room
      BY <1>1, <2>1, <2>2, <3>1, <3>4 DEF LayoutInv, InOrder
    <3>6. /\ StrideOf(q) < Word \div 2 /\ SizeOf(q) < Word \div 2
          /\ hnd.offsets[q] < Word \div 2 /\ offset < Word \div 2
      <4>1. /\ StrideOf(q) \in 0 .. (Row + 63) /\ Row + 64 <= Room
            /\ Room \in Nat /\ Row \in Nat /\ Word \in Nat
        BY <1>1, <2>1, <3>1, PlaneFits, SmallFacts, BufFacts, WordAssumption
           DEF LayoutInv, WordAssumption
      <4>2. Room <= Layout.num_planes * Room /\ Layout.num_planes * Room \in Nat
        <5>1. ASSUME NEW k \in 1 .. 3, NEW r \in Nat PROVE r <= k * r /\ k * r \in Nat
          BY SMT
        <5>2. QED BY <2>2, <4>1, <5>1
      <4>3. PICK m \in Nat : m = Layout.num_planes * Room
        BY <4>2
      <4>4. Room <= m /\ m < Word \div 2 /\ offset <= m
        BY <2>1, <3>5, <4>2, <4>3
      <4>5. hnd.offsets[q] <= offset /\ SizeOf(q) <= offset
        BY <3>4, <3>5
      <4>6. Word \div 2 \in Nat
        BY <4>1
      <4>7. QED BY <3>4, <4>1, <4>3, <4>4, <4>5, <4>6
    <3>7. /\ gralloc_handle_field(hnd.offsets[q]) = hnd.offsets[q]
          /\ gralloc_handle_field(hnd.strides[q]) = StrideOf(q)
          /\ gralloc_handle_field(hnd.sizes[q]) = SizeOf(q)
      BY <3>4, <3>6 DEF gralloc_handle_field
    <3>8. /\ report[n].offsetInBytes = hnd.offsets[q]
          /\ report[n].strideInBytes = StrideOf(q)
          /\ report[n].totalSizeInBytes = SizeOf(q)
          /\ report[n].widthInSamples = buf.width \div hsub
          /\ report[n].heightInSamples = buf.height \div vsub
          /\ report[n].sampleIncrementInBits = 8 * bpp
      <4>1. report[n] = ReportedPlane(q, planes[n])
        BY <2>2, <2>4, <3>1
      <4>2. QED BY <3>2, <3>7, <4>1 DEF ReportedPlane
    <3>9. (buf.width \div hsub) * (8 * bpp) <= 8 * StrideOf(q)
      <4>1. CeilDiv(buf.width, hsub) * bpp \in 0 .. StrideOf(q) /\ buf.width \in Nat
        BY <1>1, <2>1, <3>1, RowFits, BufFacts DEF LayoutInv
      <4>2. /\ buf.width \div hsub \in Nat /\ CeilDiv(buf.width, hsub) \in Nat
            /\ buf.width \div hsub <= CeilDiv(buf.width, hsub)
        BY <3>3, <4>1 DEF CeilDiv
      <4>3. PICK a \in Nat, c \in Nat, b \in Nat :
              a = buf.width \div hsub /\ c = CeilDiv(buf.width, hsub) /\ b = bpp
        BY <3>3, <4>2
      <4>4. a * b <= c * b /\ c * b <= StrideOf(q)
        BY <4>1, <4>2, <4>3, ProductMonotonic
      <4>5. PICK u \in Nat, v \in Nat : u = a * b /\ v = c * b /\ a * (8 * b) = 8 * u
        BY SMT
      <4>6. a * (8 * b) <= 8 * StrideOf(q)
        <5>1. u <= v /\ v <= StrideOf(q)
          BY <4>4, <4>5
        <5>2. QED BY <3>4, <4>5, <5>1
      <4>7. QED BY <4>3, <4>6
    <3>10. (buf.height \div vsub) * StrideOf(q) <= SizeOf(q)
      <4>1. /\ CeilDiv(buf.height, vsub) \in 0 .. HeightOf(q) /\ buf.height \in Nat
            /\ SizeOf(q) = StrideOf(q) * HeightOf(q)
        BY <1>1, <2>1, <3>1, PlaneFits, BufFacts DEF LayoutInv
      <4>2. buf.height \div vsub \in Nat /\ buf.height \div vsub <= HeightOf(q)
        BY <3>3, <3>4, <4>1 DEF CeilDiv
      <4>3. (buf.height \div vsub) * StrideOf(q) <= HeightOf(q) * StrideOf(q)
        <5>1. PICK a \in Nat : a = buf.height \div vsub /\ a <= HeightOf(q)
          BY <4>2
        <5>2. a * StrideOf(q) <= HeightOf(q) * StrideOf(q)
          BY <3>4, <5>1, ProductMonotonic
        <5>3. QED BY <5>1, <5>2
      <4>4. HeightOf(q) * StrideOf(q) = StrideOf(q) * HeightOf(q)
        BY <3>4, SMT
      <4>5. QED BY <4>1, <4>3, <4>4
    <3>11. report[n].sampleIncrementInBits = 8 * Of(Layout.bytes_per_pixel, n - 1)
      BY <3>1, <3>8
    <3>12. report[n].offsetInBytes >= 0
           /\ report[n].offsetInBytes + report[n].totalSizeInBytes <= hnd.total_size
      BY <2>2, <3>4, <3>5, <3>8
    <3>13. report[n].widthInSamples * report[n].sampleIncrementInBits
             <= 8 * report[n].strideInBytes
      BY <3>8, <3>9
    <3>14. report[n].heightInSamples * report[n].strideInBytes <= report[n].totalSizeInBytes
      BY <3>8, <3>10
    <3>15. QED BY <3>11, <3>12, <3>13, <3>14
  <2>6. QED BY <2>4, <2>5
<1>2. Init => ReportInv
  BY DEF Init, ReportInv
<1>3. Spec => []ReportInv
  BY <1>2, ReportInvStep, PTL DEF Spec
<1>4. QED BY Invariance, <1>1, <1>3, PTL

-----------------------------------------------------------------------------
(* The components of a plane.                                               *)

\* Components have bits of their own in a sample.
SideBySide(components, increment) ==
  \A c, d \in components :
    /\ c.offsetInBits + c.sizeInBits <= increment
    /\ \/ c = d
       \/ c.offsetInBits + c.sizeInBits <= d.offsetInBits
       \/ d.offsetInBits + d.sizeInBits <= c.offsetInBits

AllSideBySide(planes) ==
  \A n \in 1 .. Len(planes) :
    SideBySide(planes[n].components, planes[n].sampleIncrementInBits)

\* Those of every plane the mapper knows have.
LEMMA TablesSideBySide ==
  ASSUME NEW f \in PlaneLayoutFormats
  PROVE  AllSideBySide(getPlaneLayouts(f))
<1>1. CASE f \in DOMAIN WideRgbPlanes
  <2>1. SideBySide({C("R", 0, 8), C("G", 8, 8), C("B", 16, 8), C("A", 24, 8)}, 32)
    BY DEF SideBySide, C
  <2>2. SideBySide({C("R", 0, 10), C("G", 10, 10), C("B", 20, 10), C("A", 30, 2)}, 32)
    BY DEF SideBySide, C
  <2>3. SideBySide({C("R", 0, 16), C("G", 16, 16), C("B", 32, 16), C("A", 48, 16)}, 64)
    BY DEF SideBySide, C
  <2>4. SideBySide({C("B", 0, 8), C("G", 8, 8), C("R", 16, 8), C("A", 24, 8)}, 32)
    BY DEF SideBySide, C
  <2>5. AllSideBySide(WideRgbPlanes["DRM_ABGR8888"])
    BY <2>1 DEF WideRgbPlanes, AllSideBySide, Plane
  <2>6. AllSideBySide(WideRgbPlanes["DRM_ABGR2101010"])
    BY <2>2 DEF WideRgbPlanes, AllSideBySide, Plane
  <2>7. AllSideBySide(WideRgbPlanes["DRM_ABGR16161616F"])
    BY <2>3 DEF WideRgbPlanes, AllSideBySide, Plane
  <2>8. AllSideBySide(WideRgbPlanes["DRM_ARGB8888"])
    BY <2>4 DEF WideRgbPlanes, AllSideBySide, Plane
  <2>9. QED BY <1>1, <2>5, <2>6, <2>7, <2>8, LookupTable, TableDomains
<1>2. CASE f \in DOMAIN BiplanarPlanes
  <2>1. AllSideBySide(BiplanarPlanes["DRM_NV12"])
    BY DEF BiplanarPlanes, AllSideBySide, SideBySide, Plane, C
  <2>2. AllSideBySide(BiplanarPlanes["DRM_NV21"])
    BY DEF BiplanarPlanes, AllSideBySide, SideBySide, Plane, C
  <2>3. AllSideBySide(BiplanarPlanes["DRM_P010"])
    BY DEF BiplanarPlanes, AllSideBySide, SideBySide, Plane, C
  <2>4. AllSideBySide(BiplanarPlanes["DRM_P210"])
    BY DEF BiplanarPlanes, AllSideBySide, SideBySide, Plane, C
  <2>5. QED BY <1>2, <2>1, <2>2, <2>3, <2>4, LookupTable, TableDomains
<1>3. CASE f \in DOMAIN OtherRgbPlanes
  <2>1. AllSideBySide(OtherRgbPlanes["DRM_R8"]) /\ AllSideBySide(OtherRgbPlanes["DRM_R16"])
    BY DEF OtherRgbPlanes, AllSideBySide, SideBySide, Plane, C
  <2>2. AllSideBySide(OtherRgbPlanes["DRM_RGB565"])
    BY DEF OtherRgbPlanes, AllSideBySide, SideBySide, Plane, C
  <2>3. AllSideBySide(OtherRgbPlanes["DRM_BGR888"])
    BY DEF OtherRgbPlanes, AllSideBySide, SideBySide, Plane, C
  <2>4. AllSideBySide(OtherRgbPlanes["DRM_XBGR8888"])
    BY DEF OtherRgbPlanes, AllSideBySide, SideBySide, Plane, C
  <2>5. QED BY <1>3, <2>1, <2>2, <2>3, <2>4, LookupTable, TableDomains
<1>4. CASE f \in DOMAIN TriplanarPlanes
  <2>1. getPlaneLayouts(f) = Yvu420Planes
    BY <1>4, LookupTable DEF TriplanarPlanes
  <2>2. AllSideBySide(Yvu420Planes)
    BY DEF Yvu420Planes, AllSideBySide, SideBySide, Plane, C
  <2>3. QED BY <2>1, <2>2
<1>5. QED BY <1>1, <1>2, <1>3, <1>4 DEF PlaneLayoutFormats

\* The components the mapper reports of a plane have bits of their own inside
\* its samples, for every format and whatever numbers the handle holds.
THEOREM ComponentsApart == Spec => []ComponentsDisjoint
<1> DEFINE Reported == pc # "reported" => report = <<>>
<1>1. ASSUME ReportInv, Reported PROVE ComponentsDisjoint
  <2>1. CASE pc # "reported"
    BY <1>1, <2>1 DEF ComponentsDisjoint
  <2>2. CASE pc = "reported"
    <3> DEFINE planes == getPlaneLayouts(Fourcc)
    <3>1. /\ planes # <<>>
          /\ report = [n \in 1 .. Len(planes) |-> ReportedPlane(n - 1, planes[n])]
      BY <1>1, <2>2 DEF ReportInv
    <3>2. AllSideBySide(planes) /\ Len(planes) \in Nat
      <4>1. Fourcc \in PlaneLayoutFormats
        BY <3>1, LookupTable
      <4>2. Len(planes) \in Nat
        BY <3>1, TablesAgree, LayoutKinds, PlaneFacts DEF Matches
      <4>3. QED BY <4>1, <4>2, TablesSideBySide
    <3> HIDE DEF planes
    <3>3. Len(report) = Len(planes)
      BY <3>1, <3>2
    <3>4. ASSUME NEW n \in 1 .. Len(report)
          PROVE  SideBySide(report[n].components, report[n].sampleIncrementInBits)
      <4>1. report[n] = ReportedPlane(n - 1, planes[n]) /\ n \in 1 .. Len(planes)
        BY <3>1, <3>3
      <4>2. QED BY <3>2, <4>1 DEF ReportedPlane, AllSideBySide
    <3>5. QED BY <3>4 DEF ComponentsDisjoint, SideBySide
  <2>3. QED BY <2>1, <2>2
<1>2. Init => ReportInv /\ Reported
  BY DEF Init, ReportInv
<1>3. Reported /\ [Next]_vars => Reported'
  BY DEF Next, FillPlane, FillDone, Report, ReportFails, vars
<1>4. QED BY <1>1, <1>2, <1>3, ReportInvStep, PTL DEF Spec

=============================================================================
