------------------------------ MODULE Metadata ------------------------------
(***************************************************************************)
(* The metadata of one buffer: setMetadata, setStandardMetadata,           *)
(* getMetadata and getStandardMetadata of VivanteMapper (mapper/mapper.cpp)*)
(* over struct gralloc_metadata (mapper/utils/gralloc_utils_metadata.h).   *)
(*                                                                         *)
(* The struct lies at the start of a region of shared memory that every    *)
(* process that imported the buffer maps; set_* and get_* copy between it  *)
(* and their caller without any lock.  A value is copied word by word, in  *)
(* an order the compiler chooses: blend mode and dataspace are one word,   *)
(* the two optional types a flag and (here) two words.                     *)
(***************************************************************************)
EXTENDS Integers, FiniteSets

CONSTANTS Threads,       \* threads of the importing processes
          Calls,         \* [op, via, handle, standard, type, value] records they may make
          Values,        \* values of the stored types
          NoValue,       \* an optional without a value
          NoWord,        \* what a word of a new region holds
          SetsAlone,     \* types: callers keep a set of one apart from its other calls
          Faults         \* calls that may fail: "decode", "region"

Scalars == {"BLEND_MODE", "DATASPACE"}
Optionals == {"CTA861_3", "SMPTE2086"}

\* The switch of setStandardMetadata.
ReadOnly ==
  {"BUFFER_ID", "NAME", "WIDTH", "HEIGHT", "LAYER_COUNT",
   "PIXEL_FORMAT_REQUESTED", "USAGE"}
Supported == Scalars \cup Optionals

\* The types getStandardMetadata answers from the handle, or by a constant.
FromHandle ==
  ReadOnly \cup
  {"STRIDE", "PIXEL_FORMAT_FOURCC", "PIXEL_FORMAT_MODIFIER", "ALLOCATION_SIZE",
   "PROTECTED_CONTENT", "COMPRESSION", "INTERLACED", "CHROMA_SITING",
   "PLANE_LAYOUTS", "CROP"}

ASSUME MetadataAssumption ==
  /\ SetsAlone \subseteq Supported
  /\ NoValue \notin Values /\ NoWord \notin Values
  /\ Values \cap {"torn", "handle"} = {}
  /\ NoValue # NoWord
  /\ \A c \in Calls :
       /\ c.op \in {"set", "get"} /\ c.handle \in BOOLEAN /\ c.standard \in BOOLEAN
       /\ c.op = "set" /\ c.type \in Scalars => c.value \in Values
       /\ c.op = "set" /\ c.type \in Optionals => c.value \in Values \cup {NoValue}

\* The words of a type, and those a set of value v writes.
Words(type) == IF type \in Scalars THEN {"word"} ELSE {"engaged", "lo", "hi"}

Written(type, v) ==
  IF type \in Optionals /\ v = NoValue THEN {"engaged"} ELSE Words(type)

WordOf(w, v) == IF w = "engaged" THEN v # NoValue ELSE v

\* The value that words make up.
ValueOf(type, words) ==
  IF type \in Scalars THEN words["word"]
  ELSE IF ~words["engaged"] THEN NoValue
  ELSE IF words["lo"] = words["hi"] THEN words["lo"] ELSE "torn"

NewWords(type) ==
  [w \in Words(type) |-> IF w = "engaged" THEN FALSE ELSE NoWord]

Initial == [type \in Supported |-> ValueOf(type, NewWords(type))]

VARIABLES
  mManager,   \* the constructor's gralloc_manager::init() succeeded
  hasPlanes,  \* the buffer's format has a fourcc and a table of planes
  region,     \* the metadata struct: type -> word -> what it holds
  committed,  \* type -> the value last set (a history variable)
  pc,         \* thread -> "idle", "check" or "copy"
  call,       \* thread -> its call
  left,       \* thread -> the words it has still to copy
  got,        \* thread -> the words it has read
  answer      \* thread -> [status, value] of its last call, until the next

vars == <<mManager, hasPlanes, region, committed, pc, call, left, got, answer>>

NoCall == [op |-> "none"]

Reply(status, v) == [status |-> status, value |-> v]

NoReply == Reply("none", NoValue)

Init ==
  /\ mManager \in BOOLEAN
  /\ hasPlanes \in BOOLEAN
  /\ region = [type \in Supported |-> NewWords(type)]
  /\ committed = Initial
  /\ pc = [t \in Threads |-> "idle"]
  /\ call = [t \in Threads |-> NoCall]
  /\ left = [t \in Threads |-> {}]
  /\ got = [t \in Threads |-> <<>>]
  /\ answer = [t \in Threads |-> NoReply]

Return(t, status, v) ==
  /\ pc' = [pc EXCEPT ![t] = "idle"]
  /\ call' = [call EXCEPT ![t] = NoCall]
  /\ left' = [left EXCEPT ![t] = {}]
  /\ got' = [got EXCEPT ![t] = <<>>]
  /\ answer' = [answer EXCEPT ![t] = Reply(status, v)]

\* Nothing in the mapper keeps calls apart; the callers may.
MayCall(c) ==
  c.type \in SetsAlone =>
    \A u \in Threads :
      pc[u] # "idle" /\ call[u].type = c.type => c.op = "get" /\ call[u].op = "get"

Call(t) ==
  /\ pc[t] = "idle"
  /\ \E c \in Calls :
       /\ MayCall(c)
       /\ call' = [call EXCEPT ![t] = c]
  /\ pc' = [pc EXCEPT ![t] = "check"]
  /\ answer' = [answer EXCEPT ![t] = NoReply]
  /\ UNCHANGED <<mManager, hasPlanes, region, committed, left, got>>

\* Slip: a type the switch does not name is applied as well.
SetRefusal_NoDefault(c) ==
  IF ~c.handle \/ (c.via = "named" /\ ~mManager) THEN {"BAD_BUFFER"}
  ELSE IF ~c.standard THEN {"UNSUPPORTED"}
  ELSE IF c.type \in ReadOnly THEN {"BAD_VALUE"}
  ELSE IF c.type \notin Supported THEN {"NONE"} ELSE {}

\* How setMetadata ("named": it looks at the mapper and the type's name too) and
\* setStandardMetadata turn a call down before they touch the region.  A call's
\* handle is FALSE if it passes none.
SetRefusal(c) ==
  IF ~c.handle \/ (c.via = "named" /\ ~mManager) THEN {"BAD_BUFFER"}
  ELSE IF ~c.standard THEN {"UNSUPPORTED"}
  ELSE IF c.type \in ReadOnly THEN {"BAD_VALUE"}
  ELSE IF c.type \notin Supported THEN {"UNSUPPORTED"} ELSE {}

GetRefusal(c) ==
  IF ~c.handle \/ (c.via = "named" /\ ~mManager) THEN {"BAD_BUFFER"}
  ELSE IF ~c.standard \/ c.type \notin FromHandle \cup Supported THEN {"UNSUPPORTED"}
  ELSE {}

Refusal(c) == IF c.op = "set" THEN SetRefusal(c) ELSE GetRefusal(c)

Refuse(t) ==
  /\ pc[t] = "check"
  /\ \E status \in Refusal(call[t]) : Return(t, status, NoValue)
  /\ UNCHANGED <<mManager, hasPlanes, region, committed>>

\* applyStandardMetadata cannot decode the value.
DecodeFails(t) ==
  /\ pc[t] = "check"
  /\ Refusal(call[t]) = {} /\ call[t].op = "set" /\ "decode" \in Faults
  /\ Return(t, "BAD_VALUE", NoValue)
  /\ UNCHANGED <<mManager, hasPlanes, region, committed>>

\* The planes of a format without fourcc, or without a table of planes.
PlanesUnknown(t) ==
  /\ pc[t] = "check"
  /\ Refusal(call[t]) = {} /\ call[t].op = "get" /\ call[t].type = "PLANE_LAYOUTS"
  /\ ~hasPlanes
  /\ Return(t, "UNSUPPORTED", NoValue)
  /\ UNCHANGED <<mManager, hasPlanes, region, committed>>

GetFromHandle(t) ==
  /\ pc[t] = "check"
  /\ Refusal(call[t]) = {} /\ call[t].op = "get" /\ call[t].type \in FromHandle
  /\ call[t].type = "PLANE_LAYOUTS" => hasPlanes
  /\ Return(t, "NONE", "handle")
  /\ UNCHANGED <<mManager, hasPlanes, region, committed>>

UsesRegion(t) == Refusal(call[t]) = {} /\ call[t].type \in Supported

\* get_metadata: no mapper, no region, or a null address.
NoRegion(t) ==
  /\ pc[t] = "check" /\ UsesRegion(t)
  /\ ~mManager \/ "region" \in Faults
  /\ Return(t, "NO_RESOURCES", NoValue)
  /\ UNCHANGED <<mManager, hasPlanes, region, committed>>

\* get_metadata succeeds; the copy begins.
get_metadata(t) ==
  /\ pc[t] = "check" /\ UsesRegion(t)
  /\ mManager
  /\ pc' = [pc EXCEPT ![t] = "copy"]
  /\ left' = [left EXCEPT ![t] =
                IF call[t].op = "set" THEN Written(call[t].type, call[t].value)
                                      ELSE Words(call[t].type)]
  /\ UNCHANGED <<mManager, hasPlanes, region, committed, call, got, answer>>

\* Slip: the flag is set and the values are left out.
WriteWord_FlagOnly(t) ==
  /\ pc[t] = "copy" /\ call[t].op = "set"
  /\ \E w \in left[t] :
       LET c == call[t] IN
       /\ region' = IF w = "hi" THEN region
                    ELSE [region EXCEPT ![c.type][w] = WordOf(w, c.value)]
       /\ IF left[t] = {w}
          THEN /\ committed' = [committed EXCEPT ![c.type] = c.value]
               /\ Return(t, "NONE", NoValue)
          ELSE /\ left' = [left EXCEPT ![t] = @ \ {w}]
               /\ UNCHANGED <<committed, pc, call, got, answer>>
  /\ UNCHANGED <<mManager, hasPlanes>>

\* set_*: one word of the assignment; with the last one the call returns.
WriteWord(t) ==
  /\ pc[t] = "copy" /\ call[t].op = "set"
  /\ \E w \in left[t] :
       LET c == call[t] IN
       /\ region' = [region EXCEPT ![c.type][w] = WordOf(w, c.value)]
       /\ IF left[t] = {w}
          THEN /\ committed' = [committed EXCEPT ![c.type] = c.value]
               /\ Return(t, "NONE", NoValue)
          ELSE /\ left' = [left EXCEPT ![t] = @ \ {w}]
               /\ UNCHANGED <<committed, pc, call, got, answer>>
  /\ UNCHANGED <<mManager, hasPlanes>>

\* What t has read with word w added.
Read(t, w) ==
  [x \in DOMAIN got[t] \cup {w} |->
     IF x = w THEN region[call[t].type][w] ELSE got[t][x]]

\* get_*: one word of the copy, and with the last one the value.
ReadWord(t) ==
  /\ pc[t] = "copy" /\ call[t].op = "get"
  /\ \E w \in left[t] :
       IF left[t] = {w}
       THEN Return(t, "NONE", ValueOf(call[t].type, Read(t, w)))
       ELSE /\ left' = [left EXCEPT ![t] = @ \ {w}]
            /\ got' = [got EXCEPT ![t] = Read(t, w)]
            /\ UNCHANGED <<pc, call, answer>>
  /\ UNCHANGED <<mManager, hasPlanes, region, committed>>

Step(t) ==
  \/ Refuse(t) \/ DecodeFails(t) \/ PlanesUnknown(t) \/ GetFromHandle(t) \/ NoRegion(t)
  \/ get_metadata(t) \/ WriteWord(t) \/ ReadWord(t)

Next == \E t \in Threads : Call(t) \/ Step(t)

Fairness == \A t \in Threads : WF_vars(Step(t))

Spec == Init /\ [][Next]_vars

FairSpec == Spec /\ Fairness

-----------------------------------------------------------------------------
(* Properties.                                                             *)

\* The contents of a word.
WordValues(w) == IF w = "engaged" THEN BOOLEAN ELSE Values \cup {NoWord}

\* The type invariant.
TypeOK ==
  /\ DOMAIN region = Supported
  /\ \A type \in Supported :
       /\ DOMAIN region[type] = Words(type)
       /\ \A w \in Words(type) : region[type][w] \in WordValues(w)
  /\ committed \in [Supported -> Values \cup {NoValue, NoWord}]
  /\ pc \in [Threads -> {"idle", "check", "copy"}]
  /\ DOMAIN call = Threads /\ DOMAIN left = Threads /\ DOMAIN got = Threads
  /\ DOMAIN answer = Threads
  /\ \A t \in Threads : pc[t] # "idle" => call[t] \in Calls

Writing(type) ==
  \E t \in Threads : pc[t] = "copy" /\ call[t].op = "set" /\ call[t].type = type

\* Types with a value at every instant: those of one word, and those the callers
\* look after.
AtomicTypes == Scalars \cup SetsAlone

\* What the shared memory holds between sets is, whole, what was last set: of
\* every type whose sets the callers keep apart, of the one-word types always.
MetadataIntact ==
  \A type \in AtomicTypes : ~Writing(type) => ValueOf(type, region[type]) = committed[type]

\* The mapper keeps what its list promises: a set or get is answered as if it
\* happened at one instant, failed sets change nothing, and exactly the listed
\* types are served, PLANE_LAYOUTS where the format has planes to describe.  What
\* a get returns is not promised of an optional type whose sets race.
Store ==
  INSTANCE MetadataStore
  WITH value  <- committed,
       phase  <- [t \in Threads |-> IF pc[t] = "idle" THEN "idle" ELSE "pending"],
       Atomic <- AtomicTypes

ImplementsStore == Store!Spec

=============================================================================
