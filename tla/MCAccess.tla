------------------------------ MODULE MCAccess ------------------------------
(***************************************************************************)
(* Instances of Access for TLC.                                            *)
(***************************************************************************)
EXTENDS Access

MCFds == {3, 4}
MCOneFd == {3}

Region(left, top, right, bottom) ==
  [left |-> left, top |-> top, right |-> right, bottom |-> bottom]

Args(usage, region) == [usage |-> usage, region |-> region]

\* The whole buffer, a part of it that touches its far edges, and one that
\* reaches past its right edge.
MCLockCalls ==
  {Args(3, Everything), Args(3, Region(1, 1, 4, 2)), Args(3, Region(1, 1, 5, 2))}

\* For one thread: all regions with corners in and around the buffer.
MCRegions ==
  {Args(3, Region(l, t, r, b)) : l, t \in {-1, 0, 1}, r \in 0 .. 3, b \in 0 .. 3}
    \cup {Args(0, Everything)}

=============================================================================
