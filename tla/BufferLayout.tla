---------------------------- MODULE BufferLayout ----------------------------
(***************************************************************************)
(* From allocation to report: drv_bo_from_format fills in the planes of a  *)
(* handle (utils/helpers.cpp), and the mapper reports them to clients      *)
(* (PLANE_LAYOUTS in mapper/mapper.cpp).                                   *)
(*                                                                         *)
(* The driver that calls drv_bo_from_format is external.  It passes the    *)
(* HAL format through one of the two conversions of the library, the       *)
(* first plane's stride aligned as its hardware wants, and the height,     *)
(* perhaps aligned too.                                                    *)
(***************************************************************************)
EXTENDS Layout, PlaneLayouts

CONSTANTS Formats,           \* the HAL formats of the buffers, accepted ones
          Widths,            \* their widths in pixels
          Heights,           \* their heights
          StrideAlignments,  \* what the driver aligns the first stride to
          HeightAlignments   \* and the height

ASSUME BufferLayoutAssumption ==
  /\ \A hal \in Formats : gralloc_convert_format(hal) # DRM_FORMAT_NONE
  /\ Widths \subseteq 1 .. (Word - 1)
  /\ Heights \subseteq 1 .. (Word - 1)
  /\ StrideAlignments \subseteq {4, 8, 16, 32, 64}
  /\ HeightAlignments \subseteq {1, 4, 16}

DRV_MAX_PLANES == 4
NoPlanes == [q \in 0 .. (DRV_MAX_PLANES - 1) |-> 0]

VARIABLES buf,     \* the buffer: HAL format, code given to the library, sizes
          pc,      \* "fill", "filled", "reported" or "unsupported"
          p,       \* the plane the loop works on
          offset,  \* the bytes laid out so far
          hnd,     \* the fields of the handle the loop writes
          report   \* the planes PLANE_LAYOUTS returned

vars == <<buf, pc, p, offset, hnd, report>>

\* The codes the driver may hand to drv_bo_from_format for a HAL format: those
\* the library has a layout for (assert(num_planes)).
Codes(hal) ==
  {f \in {convert_pix_format_to_viv_format(hal), gralloc_convert_format(hal)} :
     drv_num_planes_from_format(f) # 0}

\* A call of drv_bo_from_format(hnd, stride, aligned_height, format).
Buffer(hal, format, width, height, sa, ha) ==
  [hal |-> hal, format |-> format, width |-> width, height |-> height,
   stride |-> ALIGN(drv_stride_from_format(format, width, 0), sa),
   aligned_height |-> ALIGN(height, ha)]

Init ==
  /\ \E hal \in Formats : \E format \in Codes(hal) :
       \E width \in Widths, height \in Heights,
          sa \in StrideAlignments, ha \in HeightAlignments :
         buf = Buffer(hal, format, width, height, sa, ha)
  /\ pc = "fill"
  /\ p = 0
  /\ offset = 0
  /\ hnd = [strides |-> NoPlanes, sizes |-> NoPlanes, offsets |-> NoPlanes,
            total_size |-> 0]
  /\ report = <<>>

\* Slip: the offset is replaced, not advanced.
FillPlane_LastSize ==
  /\ pc = "fill" /\ p < drv_num_planes_from_format(buf.format)
  /\ LET stride == subsample_stride(buf.stride, buf.format, p)
         size == drv_size_from_format(buf.format, stride, buf.aligned_height, p)
     IN  /\ hnd' = [hnd EXCEPT !.strides[p] = stride, !.sizes[p] = size,
                               !.offsets[p] = offset]
         /\ offset' = size
  /\ p' = p + 1
  /\ UNCHANGED <<buf, pc, report>>

\* Slip: the offset is wider than the fields it is stored in.
FillPlane_WideOffset ==
  /\ pc = "fill" /\ p < drv_num_planes_from_format(buf.format)
  /\ LET stride == subsample_stride(buf.stride, buf.format, p)
         size == drv_size_from_format(buf.format, stride, buf.aligned_height, p)
     IN  /\ hnd' = [hnd EXCEPT !.strides[p] = stride, !.sizes[p] = size,
                               !.offsets[p] = offset]
         /\ offset' = offset + size
  /\ p' = p + 1
  /\ UNCHANGED <<buf, pc, report>>

\* One round of the loop of drv_bo_from_format_and_padding, without padding.
FillPlane ==
  /\ pc = "fill"
  /\ p < drv_num_planes_from_format(buf.format)
  /\ LET stride == subsample_stride(buf.stride, buf.format, p)
         size == drv_size_from_format(buf.format, stride, buf.aligned_height, p)
     IN  /\ hnd' = [hnd EXCEPT !.strides[p] = stride, !.sizes[p] = size,
                               !.offsets[p] = offset]
         /\ offset' = Wrap(offset + size)
  /\ p' = p + 1
  /\ UNCHANGED <<buf, pc, report>>

FillDone ==
  /\ pc = "fill"
  /\ p = drv_num_planes_from_format(buf.format)
  /\ hnd' = [hnd EXCEPT !.total_size = offset]
  /\ pc' = "filled"
  /\ UNCHANGED <<buf, p, offset, report>>

\* The getters of the handle return its uint32_t fields as int.
gralloc_handle_field(u) == IF u < Word \div 2 THEN u ELSE u - Word

\* What the mapper says of plane q of a fourcc.
ReportedPlane(q, layout) ==
  [offsetInBytes |-> gralloc_handle_field(hnd.offsets[q]),
   strideInBytes |-> gralloc_handle_field(hnd.strides[q]),
   totalSizeInBytes |-> gralloc_handle_field(hnd.sizes[q]),
   widthInSamples |-> buf.width \div layout.horizontalSubsampling,
   heightInSamples |-> buf.height \div layout.verticalSubsampling,
   sampleIncrementInBits |-> layout.sampleIncrementInBits,
   components |-> layout.components]

\* getStandardMetadata<PLANE_LAYOUTS>.
Report ==
  /\ pc = "filled"
  /\ LET layouts == getPlaneLayouts(gralloc_convert_format(buf.hal))
     IN  /\ layouts # <<>>
         /\ report' = [n \in 1 .. Len(layouts) |-> ReportedPlane(n - 1, layouts[n])]
  /\ pc' = "reported"
  /\ UNCHANGED <<buf, p, offset, hnd>>

\* No fourcc, or no plane layout for it: UNSUPPORTED.
ReportFails ==
  /\ pc = "filled"
  /\ getPlaneLayouts(gralloc_convert_format(buf.hal)) = <<>>
  /\ pc' = "unsupported"
  /\ UNCHANGED <<buf, p, offset, hnd, report>>

Next == FillPlane \/ FillDone \/ Report \/ ReportFails

Spec == Init /\ [][Next]_vars

-----------------------------------------------------------------------------
(* Properties.                                                             *)

Uint32 == 0 .. (Word - 1)

\* Every value the loop computes is a uint32_t.
TypeOK ==
  /\ pc \in {"fill", "filled", "reported", "unsupported"}
  /\ p \in 0 .. DRV_MAX_PLANES
  /\ offset \in Uint32
  /\ hnd \in [strides : [0 .. (DRV_MAX_PLANES - 1) -> Uint32],
              sizes : [0 .. (DRV_MAX_PLANES - 1) -> Uint32],
              offsets : [0 .. (DRV_MAX_PLANES - 1) -> Uint32],
              total_size : Uint32]

Layout == layout_from_format(buf.format)
Planes == 0 .. (Layout.num_planes - 1)
Filled == pc # "fill"
CeilDiv(n, d) == (n + d - 1) \div d

\* The buffer is so small that no size can reach limit.
Below(limit) ==
  buf.width * Of(Layout.bytes_per_pixel, 0) + 64
    < limit \div (Layout.num_planes * (buf.height + 16))

Small == Below(Word)

\* The planes of a buffer that is not too large for 32 bits follow one another
\* without overlap, and the total size ends the last one: writing one plane
\* never reaches another, nor the end of the allocation.
PlanesDisjoint ==
  Filled /\ Small =>
    \A q \in Planes :
      /\ hnd.offsets[q] + hnd.sizes[q] <= hnd.total_size
      /\ \A r \in Planes : q < r => hnd.offsets[q] + hnd.sizes[q] <= hnd.offsets[r]

\* Each plane has room for all its samples: as many rows as the subsampled
\* height rounded up, each as wide as the subsampled width rounded up.
PlanesHoldSamples ==
  Filled /\ Small =>
    \A q \in Planes :
      LET row  == CeilDiv(buf.width, Of(Layout.horizontal_subsampling, q))
                    * Of(Layout.bytes_per_pixel, q)
          rows == CeilDiv(buf.height, Of(Layout.vertical_subsampling, q))
      IN  /\ row <= hnd.strides[q]
          /\ hnd.strides[q] * rows <= hnd.sizes[q]

\* A client that follows PLANE_LAYOUTS stays inside the plane the driver laid
\* out, whichever conversion the driver used: the mapper's table and the
\* driver's agree on planes, subsampling and sample size.  So it is for buffers
\* whose sizes fit an int, as the getters return them.
ReportedPlanesFit ==
  pc = "reported" /\ Below(Word \div 2) =>
    /\ Len(report) = Layout.num_planes
    /\ \A n \in 1 .. Len(report) :
         LET plane == report[n] IN
         /\ plane.offsetInBytes >= 0
         /\ plane.offsetInBytes + plane.totalSizeInBytes <= hnd.total_size
         /\ plane.widthInSamples * plane.sampleIncrementInBits <= 8 * plane.strideInBytes
         /\ plane.heightInSamples * plane.strideInBytes <= plane.totalSizeInBytes
         /\ plane.sampleIncrementInBits = 8 * Of(Layout.bytes_per_pixel, n - 1)

\* The components of a reported plane have bits of their own inside a sample.
ComponentsDisjoint ==
  \A n \in 1 .. Len(report) :
    \A c, d \in report[n].components :
      /\ c.offsetInBits + c.sizeInBits <= report[n].sampleIncrementInBits
      /\ \/ c = d
         \/ c.offsetInBits + c.sizeInBits <= d.offsetInBits
         \/ d.offsetInBits + d.sizeInBits <= c.offsetInBits

\* The handle is filled as drv_bo_from_format fills it for this stride, under
\* the code g and at a height of rows.
FilledAs(g, rows) ==
  LET last == drv_num_planes_from_format(g) - 1
      stride(q) == subsample_stride(buf.stride, g, q)
      size(q) == drv_size_from_format(g, stride(q), rows, q)
  IN  /\ \A q \in 0 .. last : hnd.strides[q] = stride(q) /\ hnd.sizes[q] = size(q)
      /\ hnd.offsets[0] = 0
      /\ \A q \in 1 .. last : hnd.offsets[q] = Wrap(hnd.offsets[q - 1] + size(q - 1))
      /\ hnd.total_size = Wrap(hnd.offsets[last] + size(last))

\* Both conversions put every byte in its place: the first row, and then all
\* strides, sizes and offsets, are those of the other code too, at the height
\* the buffer's code rounds up to.  The one exception is a buffer laid out by its
\* fourcc at a height not in fours, if the other code does round it up.
SameLayoutEitherWay ==
  LET rows == alignedh(buf.format, buf.aligned_height) IN
  Filled =>
    \A g \in Codes(buf.hal) :
      /\ drv_stride_from_format(g, buf.width, 0)
           = drv_stride_from_format(buf.format, buf.width, 0)
      /\ g \notin FourRowFormats \/ rows % 4 = 0 => FilledAs(g, rows)

-----------------------------------------------------------------------------
(* What comments of the repository say, and the code does not do.          *)

\* "describeStandard(StandardMetadataType::PLANE_LAYOUTS, true, false)"
\* (mapper.cpp:671): the plane layouts can be got.
PlaneLayoutsGettable == pc # "unsupported"

=============================================================================
