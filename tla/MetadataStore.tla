---------------------------- MODULE MetadataStore ---------------------------
(***************************************************************************)
(* What the mapper promises of a buffer's metadata to all processes that   *)
(* imported the buffer, by its own list of supported types                 *)
(* (listSupportedMetadataTypes, mapper/mapper.cpp): a set or get is        *)
(* answered as if it happened at one instant.  A set of a settable type    *)
(* replaces the value or fails and changes nothing; a get of a gettable    *)
(* type returns the value last set.  One listed type, PLANE_LAYOUTS, is     *)
(* unsupported after all for buffers whose format has no planes to         *)
(* describe.  How values travel through shared memory is the business of   *)
(* module Metadata.                                                        *)
(***************************************************************************)

CONSTANTS Threads,   \* threads of the importing processes
          Calls,     \* calls they make
          Values,    \* values of the stored types
          NoValue,   \* an optional value that is absent
          NoWord,    \* what a word of a new region holds
          Initial,   \* type -> the value of a new buffer
          Atomic     \* the types sets and gets of which take effect at once

\* sSupportedMetadaTypes.  All are gettable.
Settable == {"DATASPACE", "BLEND_MODE", "SMPTE2086", "CTA861_3"}

Gettable ==
  Settable \cup
  {"BUFFER_ID", "NAME", "WIDTH", "HEIGHT", "LAYER_COUNT",
   "PIXEL_FORMAT_REQUESTED", "PIXEL_FORMAT_FOURCC", "PIXEL_FORMAT_MODIFIER",
   "USAGE", "ALLOCATION_SIZE", "PROTECTED_CONTENT", "COMPRESSION",
   "INTERLACED", "CHROMA_SITING", "PLANE_LAYOUTS", "CROP", "STRIDE"}

VARIABLES value,      \* settable type -> its value
          hasPlanes,  \* the buffer's planes can be described
          phase,      \* thread -> "idle" or "pending"
          call,       \* thread -> its call
          answer      \* thread -> [status, value] of its last call, until the next

storeVars == <<value, hasPlanes, phase, call, answer>>

\* The calls that the list says are served.
Served(c) ==
  /\ c.handle /\ c.standard
  /\ c.type \in IF c.op = "set" THEN Settable ELSE Gettable
  /\ c.type = "PLANE_LAYOUTS" => hasPlanes

NoCall == [op |-> "none"]

Reply(status, v) == [status |-> status, value |-> v]

NoReply == Reply("none", NoValue)

Init ==
  /\ value = Initial
  /\ hasPlanes \in BOOLEAN
  /\ phase = [t \in Threads |-> "idle"]
  /\ call = [t \in Threads |-> NoCall]
  /\ answer = [t \in Threads |-> NoReply]

Call(t) ==
  /\ phase[t] = "idle"
  /\ phase' = [phase EXCEPT ![t] = "pending"]
  /\ \E c \in Calls : call' = [call EXCEPT ![t] = c]
  /\ answer' = [answer EXCEPT ![t] = NoReply]
  /\ UNCHANGED <<value, hasPlanes>>

Done(t, status, v) ==
  /\ phase' = [phase EXCEPT ![t] = "idle"]
  /\ answer' = [answer EXCEPT ![t] = Reply(status, v)]
  /\ call' = [call EXCEPT ![t] = NoCall]

Set(t) ==
  /\ phase[t] = "pending" /\ call[t].op = "set" /\ Served(call[t])
  /\ Done(t, "NONE", NoValue)
  /\ value' = [value EXCEPT ![call[t].type] = call[t].value]
  /\ UNCHANGED hasPlanes

Get(t) ==
  /\ phase[t] = "pending" /\ call[t].op = "get" /\ Served(call[t])
  /\ \E v \in IF call[t].type \in Atomic
              THEN {value[call[t].type]} ELSE Values \cup {NoValue, NoWord, "torn", "handle"} :
       Done(t, "NONE", v)
  /\ UNCHANGED <<value, hasPlanes>>

\* Calls without a handle are refused.  Types the list does not offer are
\* refused, and only those are unsupported; others may fail for want of the
\* mapper or the region, or of a sound value.
Errors(c) ==
  {"BAD_BUFFER"}
    \cup (IF ~c.handle THEN {}
          ELSE {IF Served(c) THEN "NO_RESOURCES" ELSE "UNSUPPORTED"}
                 \cup {error \in {"BAD_VALUE"} : c.op = "set"})

Fail(t) ==
  /\ phase[t] = "pending"
  /\ \E error \in Errors(call[t]) : Done(t, error, NoValue)
  /\ UNCHANGED <<value, hasPlanes>>

Next == \E t \in Threads : Call(t) \/ Set(t) \/ Get(t) \/ Fail(t)

Safety == Init /\ [][Next]_storeVars

\* And every call is answered.
Spec == Safety /\ \A t \in Threads : WF_storeVars(Set(t) \/ Get(t) \/ Fail(t))

=============================================================================
