------------------------------- MODULE Layout -------------------------------
(***************************************************************************)
(* The layout of a buffer's planes: the tables and the uint32_t arithmetic *)
(* of utils/helpers.cpp.  Planes are counted from 0, as in the code;       *)
(* arithmetic wraps at Word.                                               *)
(***************************************************************************)
EXTENDS PixelFormats

CONSTANT Word   \* 2^32: uint32_t values are 0 .. Word - 1

ASSUME WordAssumption == Word \in Nat \ {0} /\ Word % 4 = 0

-----------------------------------------------------------------------------
(* struct planar_layout and the table of layouts.                          *)

\* The value an array of a layout holds for a plane.
Of(array, plane) == array[plane + 1]

Planar(hsub, vsub, bpp) ==
  [num_planes |-> Len(bpp), horizontal_subsampling |-> hsub,
   vertical_subsampling |-> vsub, bytes_per_pixel |-> bpp]

packed(bpp) == Planar(<<1>>, <<1>>, <<bpp>>)
biplanar_yuv_420_layout  == Planar(<<1, 2>>, <<1, 2>>, <<1, 2>>)
biplanar_yuv_422_layout  == Planar(<<1, 2>>, <<1, 1>>, <<1, 2>>)
triplanar_yuv_420_layout == Planar(<<1, 2, 2>>, <<1, 2, 2>>, <<1, 1, 1>>)
biplanar_yuv_p010_layout == Planar(<<1, 2>>, <<1, 2>>, <<2, 4>>)
biplanar_yuv_p210_layout_420 == Planar(<<1, 2>>, <<1, 2>>, <<2, 4>>)   \* slip: 4:2:0
biplanar_yuv_p210_layout == Planar(<<1, 2>>, <<1, 1>>, <<2, 4>>)

NoLayout == Planar(<<>>, <<>>, <<>>)     \* NULL

\* The codes of the switch that the conversions of PixelFormats yield; it
\* knows some fifty fourccs more, all of them packed.
layout_from_format(format) ==
  CASE format \in {"DRM_R8", "BLOB"} -> packed(1)
    [] format \in {"DRM_R16", "DRM_RGB565", "DRM_YUYV", "RGB_565",
                   "YCbCr_422_I", "VIV_RAW16"} -> packed(2)
    [] format \in {"DRM_BGR888", "RGB_888"} -> packed(3)
    [] format \in {"DRM_ABGR2101010", "DRM_ABGR8888", "DRM_ARGB8888",
                   "DRM_XBGR8888", "RGBA_8888", "RGBX_8888", "BGRA_8888",
                   "RGBA_1010102"} -> packed(4)
    [] format \in {"DRM_ABGR16161616F", "RGBA_FP16"} -> packed(8)
    [] format \in {"YV12", "DRM_YVU420_ANDROID", "YCbCr_420_P"}
         -> triplanar_yuv_420_layout
    [] format \in {"DRM_NV12", "DRM_FLEX_IMPLEMENTATION_DEFINED", "DRM_NV21",
                   "YCrCb_420_SP", "YCbCr_420_SP", "NV12_TILED"}
         -> biplanar_yuv_420_layout
    [] format \in {"YCBCR_P010", "DRM_P010", "P010", "P010_TILED"}
         -> biplanar_yuv_p010_layout
    [] format \in {"YCBCR_P210", "DRM_P210"} -> biplanar_yuv_p210_layout
    [] format = "YCbCr_422_SP" -> biplanar_yuv_422_layout
    [] OTHER -> NoLayout

-----------------------------------------------------------------------------
(* The arithmetic of helpers.cpp, on uint32_t.                             *)

Wrap(n) == n % Word
DIV_ROUND_UP_Down(n, d) == n \div d                  \* slip: rounds down
DIV_ROUND_UP(n, d) == Wrap(n + d - 1) \div d
ALIGN(n, a) == Wrap(n + a - 1) - (Wrap(n + a - 1) % a)

drv_num_planes_from_format(format) == layout_from_format(format).num_planes

\* The rows that are laid out: in fours under some FORMAT_* codes, FORMAT_NV12
\* and FORMAT_NV21 among them, but not under DRM_FORMAT_NV12 or DRM_FORMAT_NV21.
FourRowFormats ==
  {"YCbCr_420_SP", "YCrCb_420_SP", "YCbCr_420_P", "YV12", "YCbCr_422_I"}

alignedh(format, height) ==
  IF format \in FourRowFormats THEN ALIGN(height, 4) ELSE height

drv_height_from_format(format, height, plane) ==
  DIV_ROUND_UP(alignedh(format, height),
               Of(layout_from_format(format).vertical_subsampling, plane))

TiledFormats ==
  {"NV12_TILED", "NV12_G1_TILED", "NV12_G2_TILED", "NV12_G2_TILED_COMPRESSED",
   "P010_TILED", "P010_TILED_COMPRESSED"}

drv_stride_from_format(format, width, plane) ==
  LET layout == layout_from_format(format)
      plane_width == DIV_ROUND_UP(width, Of(layout.horizontal_subsampling, plane))
      stride == Wrap(plane_width * Of(layout.bytes_per_pixel, plane))
  IN  CASE format \in TiledFormats -> width
        [] format = "DRM_YVU420_ANDROID" -> ALIGN(stride, IF plane = 0 THEN 32 ELSE 16)
        [] OTHER -> stride

drv_size_from_format(format, stride, height, plane) ==
  Wrap(stride * drv_height_from_format(format, height, plane))

subsample_stride(stride, format, plane) ==
  IF plane # 0 /\ format \in {"YV12", "DRM_YVU420_ANDROID"}
    THEN DIV_ROUND_UP(stride, 2)
    ELSE stride

=============================================================================
