----------------------------- MODULE MCMetadata -----------------------------
(***************************************************************************)
(* Instances of Metadata for TLC.                                          *)
(***************************************************************************)
EXTENDS Metadata

C(op, via, type, v) ==
  [op |-> op, via |-> via, handle |-> TRUE, standard |-> TRUE, type |-> type, value |-> v]

MCValues == {"one", "two"}

\* Sets and gets of a scalar, of an optional type whose sets are kept apart,
\* and sets that race.
MCSets ==
  {C("set", "direct", "DATASPACE", v) : v \in Values}
    \cup {C("set", "named", "CTA861_3", v) : v \in Values}
    \cup {C("set", "direct", "SMPTE2086", v) : v \in {"one", NoValue}}

MCGets ==
  {C("get", "direct", type, NoValue) : type \in {"DATASPACE", "CTA861_3"}}

\* The other types, one that is on no list, a vendor's, and calls without a handle.
MCOthers ==
  {C("get", "direct", type, NoValue) : type \in FromHandle \cup {"SMPTE2094_40"}}
    \cup {C("set", "named", type, NoValue) : type \in {"NAME", "CROP"}}
    \cup {[C("get", "named", "NAME", NoValue) EXCEPT !.standard = FALSE],
          [C("get", "named", "NAME", NoValue) EXCEPT !.handle = FALSE],
          [C("set", "direct", "DATASPACE", "one") EXCEPT !.handle = FALSE]}

MCCalls == MCSets \cup MCGets \cup MCOthers

=============================================================================
