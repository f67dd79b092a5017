---------------------------- MODULE PixelFormats ----------------------------
(***************************************************************************)
(* The format tables of libstm_gralloc_utils (utils/gralloc_helpers.cpp,   *)
(* utils/helpers.cpp).                                                     *)
(*                                                                         *)
(* A format code is a name, one name per code.  The HAL_PIXEL_FORMAT_* and *)
(* FORMAT_* enums share one code space and agree wherever both define a    *)
(* code (FORMAT_NV21 is HAL YCrCb_420_SP, FORMAT_I420 is YCbCr_420_P, ...),*)
(* so one bare name serves both; FORMAT_RAW16 (0x203) is not HAL RAW16 and *)
(* is called VIV_RAW16.  A DRM fourcc is "DRM_...", except where it is one  *)
(* code with a FORMAT_*: HAL YV12, FORMAT_YV12 and DRM_FORMAT_YVU420 are   *)
(* "YV12", FORMAT_RAW16 and DRM_FORMAT_RAW16 are "VIV_RAW16".  The tables  *)
(* are those of a build with ANDROID_SDK_VERSION >= 30.                    *)
(***************************************************************************)
EXTENDS Integers, Sequences

DRM_FORMAT_NONE == "NONE"

\* drv_convert_gralloc_format_to_drm_format: "NONE" stands for its 0.
DirectFourcc ==
  [BLOB |-> "DRM_R8", YV12 |-> "DRM_YVU420_ANDROID",
   YCrCb_420_SP |-> "DRM_NV21", YCBCR_P010 |-> "DRM_P010",
   P010 |-> "DRM_P010", YCBCR_P210 |-> "DRM_P210", RGB_565 |-> "DRM_RGB565",
   YCbCr_422_I |-> "DRM_YUYV", RGB_888 |-> "DRM_BGR888",
   RGBA_8888 |-> "DRM_ABGR8888", RGBX_8888 |-> "DRM_XBGR8888",
   BGRA_8888 |-> "DRM_ARGB8888", RGBA_1010102 |-> "DRM_ABGR2101010",
   RGBA_FP16 |-> "DRM_ABGR16161616F", YCbCr_420_SP |-> "DRM_NV12",
   YCbCr_422_SP |-> "DRM_NV16", YCbCr_420_P |-> "DRM_YUV420",
   VIV_RAW16 |-> "VIV_RAW16"]

drv_convert_gralloc_format_to_drm_format(format) ==
  IF format \in DOMAIN DirectFourcc THEN DirectFourcc[format]
                                    ELSE DRM_FORMAT_NONE

\* The switch at the head of gralloc_convert_format.
HalFourcc ==
  [RGBA_8888 |-> "DRM_ABGR8888", RGBX_8888 |-> "DRM_XBGR8888",
   RGB_888 |-> "DRM_BGR888", RGB_565 |-> "DRM_RGB565",
   BGRA_8888 |-> "DRM_ARGB8888", RAW16 |-> "DRM_R16", BLOB |-> "DRM_R8",
   R8 |-> "DRM_R8",
   IMPLEMENTATION_DEFINED |-> "DRM_FLEX_IMPLEMENTATION_DEFINED",
   YCbCr_420_888 |-> "DRM_NV12", Y8 |-> "DRM_R8", Y16 |-> "DRM_R16",
   YV12 |-> "YV12", RGBA_FP16 |-> "DRM_ABGR16161616F",
   RGBA_1010102 |-> "DRM_ABGR2101010", YCBCR_P010 |-> "DRM_P010",
   YCBCR_P210 |-> "DRM_P210"]

\* HAL code to fourcc: the switch first, the FORMAT_* table for the rest.
gralloc_convert_format(format) ==
  IF format \in DOMAIN HalFourcc
    THEN HalFourcc[format]
    ELSE drv_convert_gralloc_format_to_drm_format(format)

\* HAL code to the code the Vivante driver works with: the same code, but for
\* three; "NONE" stands for the 0 an invalid format gets.
VivCodes ==
  {"RGBA_8888", "RGBX_8888", "BGRA_8888", "RGB_888", "RGB_565", "YV12",
   "YCbCr_422_SP", "YCrCb_420_SP", "YCbCr_422_I", "YCbCr_420_P",
   "YCbCr_420_SP", "BLOB", "NV12_TILED", "NV12_G1_TILED", "NV12_G2_TILED",
   "NV12_G2_TILED_COMPRESSED", "YCBCR_P010", "YCBCR_P210", "P010",
   "P010_TILED", "P010_TILED_COMPRESSED", "RGBA_1010102", "RGBA_FP16"}

\* Slip: flexible YUV becomes 4:2:2.
convert_pix_format_to_viv_format_422(format) ==
  CASE format \in {"YCbCr_420_888", "IMPLEMENTATION_DEFINED"} -> "YCbCr_422_SP"
    [] format = "RAW16"        -> "VIV_RAW16"
    [] format \in VivCodes     -> format
    [] OTHER                   -> "NONE"

convert_pix_format_to_viv_format(format) ==
  CASE format \in {"YCbCr_420_888", "IMPLEMENTATION_DEFINED"} -> "YCbCr_420_SP"
    [] format = "RAW16"        -> "VIV_RAW16"
    [] format \in VivCodes     -> format
    [] OTHER                   -> "NONE"

\* Every code the three tables know.
FormatCodes ==
  DOMAIN DirectFourcc \cup DOMAIN HalFourcc \cup VivCodes

=============================================================================
