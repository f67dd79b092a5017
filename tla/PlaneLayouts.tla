---------------------------- MODULE PlaneLayouts ----------------------------
(***************************************************************************)
(* The plane layouts the mapper knows for each fourcc                      *)
(* (GetPlaneLayoutsMap and getPlaneLayouts in utils/gralloc_utils.cpp).    *)
(***************************************************************************)
EXTENDS Integers, Sequences

\* Slip: offset and size swapped.
C_Swapped(type, offsetInBits, sizeInBits) ==
  [type |-> type, offsetInBits |-> sizeInBits, sizeInBits |-> offsetInBits]

C(type, offsetInBits, sizeInBits) ==
  [type |-> type, offsetInBits |-> offsetInBits, sizeInBits |-> sizeInBits]

Plane(components, increment, hsub, vsub) ==
  [components |-> components, sampleIncrementInBits |-> increment,
   horizontalSubsampling |-> hsub, verticalSubsampling |-> vsub]

WideRgbPlanes ==
  [DRM_ABGR8888 |->
     <<Plane({C("R", 0, 8), C("G", 8, 8), C("B", 16, 8), C("A", 24, 8)}, 32, 1, 1)>>,
   DRM_ABGR2101010 |->
     <<Plane({C("R", 0, 10), C("G", 10, 10), C("B", 20, 10), C("A", 30, 2)}, 32, 1, 1)>>,
   DRM_ABGR16161616F |->
     <<Plane({C("R", 0, 16), C("G", 16, 16), C("B", 32, 16), C("A", 48, 16)}, 64, 1, 1)>>,
   DRM_ARGB8888 |->
     <<Plane({C("B", 0, 8), C("G", 8, 8), C("R", 16, 8), C("A", 24, 8)}, 32, 1, 1)>>]

BiplanarPlanes ==
  [DRM_NV12 |-> <<Plane({C("Y", 0, 8)}, 8, 1, 1),
                  Plane({C("CB", 0, 8), C("CR", 8, 8)}, 16, 2, 2)>>,
   DRM_NV21 |-> <<Plane({C("Y", 0, 8)}, 8, 1, 1),
                  Plane({C("CR", 0, 8), C("CB", 8, 8)}, 16, 2, 2)>>,
   DRM_P010 |-> <<Plane({C("Y", 6, 10)}, 16, 1, 1),
                  Plane({C("CB", 6, 10), C("CR", 22, 10)}, 32, 2, 2)>>,
   DRM_P210 |-> <<Plane({C("Y", 6, 10)}, 16, 1, 1),
                  Plane({C("CB", 6, 10), C("CR", 22, 10)}, 32, 2, 1)>>]

OtherRgbPlanes ==
  [DRM_R8 |-> <<Plane({C("R", 0, 8)}, 8, 1, 1)>>,
   DRM_R16 |-> <<Plane({C("R", 0, 16)}, 16, 1, 1)>>,
   DRM_RGB565 |-> <<Plane({C("B", 0, 5), C("G", 5, 6), C("R", 11, 5)}, 16, 1, 1)>>,
   DRM_BGR888 |-> <<Plane({C("R", 0, 8), C("G", 8, 8), C("B", 16, 8)}, 24, 1, 1)>>,
   DRM_XBGR8888 |-> <<Plane({C("R", 0, 8), C("G", 8, 8), C("B", 16, 8)}, 32, 1, 1)>>]

Yvu420Planes == <<Plane({C("Y", 0, 8)}, 8, 1, 1),
                  Plane({C("CR", 0, 8)}, 8, 2, 2),
                  Plane({C("CB", 0, 8)}, 8, 2, 2)>>

\* Fourcc YVU420 is "YV12".
TriplanarPlanes == [YV12 |-> Yvu420Planes, DRM_YVU420_ANDROID |-> Yvu420Planes]

PlaneLayoutFormats ==
  DOMAIN WideRgbPlanes \cup DOMAIN BiplanarPlanes
    \cup DOMAIN OtherRgbPlanes \cup DOMAIN TriplanarPlanes

\* The planes of a fourcc of the table; none for the others (-EINVAL).
getPlaneLayouts(fourcc) ==
  CASE fourcc \in DOMAIN WideRgbPlanes   -> WideRgbPlanes[fourcc]
    [] fourcc \in DOMAIN BiplanarPlanes  -> BiplanarPlanes[fourcc]
    [] fourcc \in DOMAIN OtherRgbPlanes  -> OtherRgbPlanes[fourcc]
    [] fourcc \in DOMAIN TriplanarPlanes -> TriplanarPlanes[fourcc]
    [] OTHER -> <<>>

=============================================================================
