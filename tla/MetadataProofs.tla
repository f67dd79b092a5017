--------------------------- MODULE MetadataProofs ---------------------------
(***************************************************************************)
(* Theorems about Metadata: the shared region holds what was last set, and *)
(* sets and gets implement the atomic MetadataStore.                       *)
(***************************************************************************)
EXTENDS Metadata, TLAPS

-----------------------------------------------------------------------------
(* The inductive invariant.                                                 *)

\* What a thread in the middle of a copy still has to do.
Copying(t) == pc[t] = "copy"

Copies ==
  \A t \in Threads : Copying(t) =>
    /\ call[t].type \in Supported /\ call[t].handle /\ call[t].standard
    /\ left[t] # {}
    /\ call[t].op = "set" => left[t] \subseteq Written(call[t].type, call[t].value)
    /\ call[t].op = "get" => /\ left[t] \subseteq Words(call[t].type)
                             /\ DOMAIN got[t] = Words(call[t].type) \ left[t]

NotReading ==
  \A t \in Threads : ~Copying(t) => DOMAIN got[t] = {}

ReadSoFar ==
  \A t \in Threads : Copying(t) /\ call[t].op = "get" =>
    \A w \in DOMAIN got[t] : got[t][w] \in WordValues(w)

\* The types whose values are looked after.
Kept(type) == type \in Scalars \/ type \in SetsAlone

\* No call overlaps a set of its type, if the callers see to it.
Apart ==
  \A t, u \in Threads :
    /\ t # u /\ pc[t] # "idle" /\ pc[u] # "idle" /\ call[t].type = call[u].type
    /\ call[t].type \in SetsAlone
    => call[t].op = "get" /\ call[u].op = "get"

\* A set under way has written its words, a get under way read what is there.
InStep ==
  \A t \in Threads : Copying(t) /\ Kept(call[t].type) =>
    /\ call[t].op = "set" =>
         \A w \in Written(call[t].type, call[t].value) \ left[t] :
           region[call[t].type][w] = WordOf(w, call[t].value)
    /\ call[t].op = "get" =>
         \A w \in DOMAIN got[t] : got[t][w] = region[call[t].type][w]

\* A value that no set is half way through is the one last set.
Whole ==
  \A type \in Supported :
    Kept(type) /\ (Writing(type) => type \in Scalars)
      => ValueOf(type, region[type]) = committed[type]

Inv == TypeOK /\ Copies /\ NotReading /\ ReadSoFar /\ Apart /\ InStep /\ Whole

-----------------------------------------------------------------------------
(* Words and values.                                                        *)

\* A set writes words of its type, at least one.
LEMMA WrittenWords ==
  ASSUME NEW type \in Supported, NEW v
  PROVE  /\ Written(type, v) \subseteq Words(type)
         /\ Written(type, v) # {} /\ Words(type) # {}
         /\ type \in Scalars => Words(type) = {"word"}
         /\ \A w \in Words(type) : w \in {"word", "engaged", "lo", "hi"}
  BY DEF Written, Words, Scalars, Optionals, Supported

\* Once every word of a set is written, the words make up its value.
LEMMA WrittenOut ==
  ASSUME NEW type \in Supported, NEW v, NEW words,
         type \in Scalars \/ v = NoValue \/ v \in Values,
         \A w \in Written(type, v) : words[w] = WordOf(w, v)
  PROVE  ValueOf(type, words) = v
<1>1. CASE type \in Scalars
  BY <1>1 DEF Written, Words, WordOf, ValueOf, Scalars, Optionals
<1>2. CASE type \notin Scalars /\ v = NoValue
  BY <1>2 DEF Written, Words, WordOf, ValueOf, Scalars, Optionals, Supported
<1>3. CASE type \notin Scalars /\ v # NoValue
  BY <1>3 DEF Written, Words, WordOf, ValueOf, Scalars, Optionals, Supported
<1>4. QED BY <1>1, <1>2, <1>3

\* What is written fits its word.
LEMMA WordFits ==
  ASSUME NEW t \in Threads, TypeOK, Copies, Copying(t), call[t].op = "set",
         NEW w \in left[t]
  PROVE  /\ WordOf(w, call[t].value) \in WordValues(w)
         /\ call[t].type \in Scalars => call[t].value \in Values
         /\ call[t].value \in Values \cup {NoValue}
<1>1. /\ call[t] \in Calls /\ call[t].type \in Supported
      /\ w \in Written(call[t].type, call[t].value)
  BY DEF TypeOK, Copies, Copying
<1>2. /\ call[t].type \in Scalars => call[t].value \in Values
      /\ call[t].type \in Optionals => call[t].value \in Values \cup {NoValue}
  BY <1>1, MetadataAssumption DEF MetadataAssumption
<1>3. WordOf(w, call[t].value) \in WordValues(w)
  <2>1. CASE w = "engaged"
    BY <2>1 DEF WordOf, WordValues
  <2>2. CASE w # "engaged"
    <3>1. call[t].value \in Values
      BY <1>1, <1>2, <2>2 DEF Written, Supported
    <3>2. QED BY <2>2, <3>1 DEF WordOf, WordValues
  <2>3. QED BY <2>1, <2>2
<1>4. QED BY <1>1, <1>2, <1>3 DEF Supported

\* The words of a type make up one of these values.
LEMMA ValueRange ==
  ASSUME NEW type \in Supported, NEW words,
         \A w \in Words(type) : words[w] \in WordValues(w)
  PROVE  ValueOf(type, words) \in Values \cup {NoValue, NoWord, "torn"}
<1>1. CASE type \in Scalars
  <2>1. words["word"] \in Values \cup {NoWord}
    BY <1>1 DEF Words, WordValues
  <2>2. QED BY <1>1, <2>1 DEF ValueOf
<1>2. CASE type \notin Scalars
  <2>1. words["lo"] \in Values \cup {NoWord}
    BY <1>2 DEF Words, WordValues
  <2>2. QED BY <1>2, <2>1 DEF ValueOf
<1>3. QED BY <1>1, <1>2

-----------------------------------------------------------------------------
(* The steps.                                                               *)

\* A new region holds no value.
LEMMA InvInit == Init => Inv
<1> SUFFICES ASSUME Init PROVE Inv
  OBVIOUS
<1> USE DEF Init
<1>1. \A type \in Supported :
        /\ DOMAIN NewWords(type) = Words(type)
        /\ \A w \in Words(type) : NewWords(type)[w] \in WordValues(w)
  BY DEF NewWords, WordValues
<1>2. \A type \in Supported : Initial[type] \in {NoValue, NoWord}
  BY DEF Initial, NewWords, ValueOf, Words
<1>3. Initial \in [Supported -> Values \cup {NoValue, NoWord}]
  BY <1>2 DEF Initial
<1>4. TypeOK
  BY <1>1, <1>3 DEF TypeOK
<1>5. Copies /\ ReadSoFar /\ Apart /\ InStep /\ NotReading
  BY DEF Copies, ReadSoFar, Apart, InStep, NotReading, Copying
<1>6. Whole
  BY DEF Whole, Initial
<1>7. QED BY <1>4, <1>5, <1>6 DEF Inv

\* A call is made.
LEMMA CallStep ==
  ASSUME Inv, NEW t \in Threads, Call(t)
  PROVE  Inv'
<1> USE DEF Inv
<1>1. PICK c \in Calls : MayCall(c) /\ call' = [call EXCEPT ![t] = c]
  BY DEF Call
<1>2. /\ pc[t] = "idle" /\ pc' = [pc EXCEPT ![t] = "check"]
      /\ answer' = [answer EXCEPT ![t] = NoReply]
      /\ UNCHANGED <<mManager, hasPlanes, region, committed, left, got>>
  BY DEF Call
<1>3. /\ pc'[t] = "check" /\ call'[t] = c
      /\ \A u \in Threads : u # t => pc'[u] = pc[u] /\ call'[u] = call[u]
  BY <1>1, <1>2 DEF TypeOK
<1>4. TypeOK'
  BY <1>1, <1>2, <1>3 DEF TypeOK
<1>5. \A u \in Threads : (Copying(u)' <=> Copying(u)) /\ (Copying(u) => u # t)
  BY <1>2, <1>3 DEF Copying
<1>6. Copies' /\ NotReading' /\ ReadSoFar' /\ InStep'
  BY <1>2, <1>3, <1>5 DEF Copies, NotReading, ReadSoFar, InStep, Kept
<1>7. Apart'
  BY <1>1, <1>3 DEF Apart, MayCall
<1>8. \A type : Writing(type)' <=> Writing(type)
  BY <1>2, <1>3, <1>5 DEF Writing, Copying
<1>9. Whole'
  BY <1>2, <1>8 DEF Whole, Kept
<1>10. QED BY <1>4, <1>6, <1>7, <1>9

\* A call returns, and leaves the region as it is; the call was no set that
\* had begun to write.
LEMMA ReturnStep ==
  ASSUME Inv, NEW t \in Threads, NEW status, NEW v,
         Return(t, status, v), UNCHANGED <<mManager, hasPlanes, region, committed>>,
         ~(Copying(t) /\ call[t].op = "set")
  PROVE  Inv'
<1> USE DEF Inv, Return
<1>1. /\ pc'[t] = "idle" /\ DOMAIN got'[t] = {}
      /\ \A u \in Threads : u # t => /\ pc'[u] = pc[u] /\ call'[u] = call[u]
                                     /\ left'[u] = left[u] /\ got'[u] = got[u]
  BY DEF TypeOK
<1>2. TypeOK'
  BY <1>1 DEF TypeOK
<1>3. \A u \in Threads : Copying(u)' <=> (u # t /\ Copying(u))
  BY <1>1 DEF Copying
<1>4. Copies' /\ NotReading' /\ ReadSoFar' /\ InStep'
  BY <1>1, <1>3 DEF Copies, NotReading, ReadSoFar, InStep, Kept
<1>5. Apart'
  BY <1>1 DEF Apart
<1>6. \A type : Writing(type)' <=> Writing(type)
  BY <1>1, <1>3 DEF Writing, Copying
<1>7. Whole'
  BY <1>6 DEF Whole, Kept
<1>8. QED BY <1>2, <1>4, <1>5, <1>7

\* The copy begins.
LEMMA BeginStep ==
  ASSUME Inv, NEW t \in Threads, get_metadata(t)
  PROVE  Inv'
<1> USE DEF Inv, get_metadata
<1>1. /\ pc[t] = "check" /\ pc'[t] = "copy" /\ ~Copying(t)
      /\ \A u \in Threads : u # t => pc'[u] = pc[u] /\ left'[u] = left[u]
      /\ left'[t] = IF call[t].op = "set" THEN Written(call[t].type, call[t].value)
                                          ELSE Words(call[t].type)
  BY DEF TypeOK, Copying
<1>2. /\ call[t].type \in Supported /\ call[t].handle /\ call[t].standard
      /\ call[t] \in Calls
      /\ call[t].op \in {"set", "get"}
  <2>1. call[t] \in Calls /\ call[t].type \in Supported /\ Refusal(call[t]) = {}
    BY <1>1 DEF TypeOK, UsesRegion
  <2>2. call[t].op \in {"set", "get"} /\ {call[t].handle, call[t].standard} \subseteq BOOLEAN
    BY <2>1, MetadataAssumption DEF MetadataAssumption
  <2>3. call[t].handle /\ call[t].standard
    BY <2>1, <2>2 DEF Refusal, SetRefusal, GetRefusal
  <2>4. QED BY <2>1, <2>2, <2>3
<1>3. TypeOK'
  BY <1>1 DEF TypeOK
<1>4. \A u \in Threads : Copying(u)' <=> (u = t \/ Copying(u))
  BY <1>1 DEF Copying
<1>5. DOMAIN got[t] = {}
  BY <1>1 DEF NotReading
<1>6. Copies'
  <2>1. /\ left'[t] # {}
        /\ call[t].op = "set" => left'[t] = Written(call[t].type, call[t].value)
        /\ call[t].op = "get" => left'[t] = Words(call[t].type)
    BY <1>1, <1>2, WrittenWords
  <2>2. \A u \in Threads : u # t => left'[u] = left[u] /\ (Copying(u)' => Copying(u))
    BY <1>1, <1>4
  <2>3. QED BY <1>2, <1>5, <2>1, <2>2 DEF Copies
<1>7. NotReading' /\ ReadSoFar'
  BY <1>1, <1>4, <1>5 DEF NotReading, ReadSoFar
<1>8. InStep'
  BY <1>1, <1>4, <1>5 DEF InStep, Kept
<1>9. Apart'
  BY <1>1 DEF Apart
<1>10. \A type : Writing(type) => Writing(type)'
  BY <1>1, <1>4 DEF Writing, Copying
<1>11. Whole'
  BY <1>10 DEF Whole, Kept
<1>12. QED BY <1>3, <1>6, <1>7, <1>8, <1>9, <1>11

\* One word of a set is written, and not the last.
LEMMA WriteMore ==
  ASSUME Inv, NEW t \in Threads, NEW w \in left[t],
         pc[t] = "copy", call[t].op = "set", left[t] # {w},
         region' = [region EXCEPT ![call[t].type][w] = WordOf(w, call[t].value)],
         left' = [left EXCEPT ![t] = @ \ {w}],
         UNCHANGED <<mManager, hasPlanes, committed, pc, call, got, answer>>
  PROVE  Inv'
<1> USE DEF Inv
<1> DEFINE y == call[t].type
           v == call[t].value
<1>1. /\ Copying(t) /\ y \in Supported /\ w \in Words(y) /\ w \in Written(y, v)
      /\ WordOf(w, v) \in WordValues(w)
  BY WordFits, WrittenWords DEF Copying, Copies
<1>2. /\ \A type \in Supported : type # y => region'[type] = region[type]
      /\ region'[y][w] = WordOf(w, v)
      /\ \A x \in Words(y) : x # w => region'[y][x] = region[y][x]
      /\ DOMAIN region' = Supported
      /\ \A type \in Supported : DOMAIN region'[type] = Words(type)
  BY <1>1 DEF TypeOK
<1>3. /\ left'[t] = left[t] \ {w} /\ left'[t] # {}
      /\ \A u \in Threads : u # t => left'[u] = left[u]
  BY DEF TypeOK
<1>4. TypeOK'
  BY <1>1, <1>2, <1>3 DEF TypeOK
<1>5. \A u \in Threads : Copying(u)' <=> Copying(u)
  BY DEF Copying
<1>6. Copies' /\ NotReading' /\ ReadSoFar'
  BY <1>3, <1>5 DEF Copies, NotReading, ReadSoFar
<1>7. Apart'
  BY DEF Apart
<1>8. ASSUME Kept(y) PROVE left[t] = {"word"} \/ y \in SetsAlone
  BY <1>1, <1>8, WrittenWords DEF Kept, Copies
<1>9. ~(Kept(y) /\ y \notin SetsAlone)
  <2>1. ASSUME Kept(y), y \notin SetsAlone PROVE FALSE
    BY <1>8, <2>1
  <2>2. QED BY <2>1
<1>10. ASSUME Kept(y), NEW u \in Threads, u # t, Copying(u) PROVE call[u].type # y
  BY <1>1, <1>9, <1>10 DEF Apart, Copying
<1>11. InStep'
  <2> SUFFICES ASSUME NEW u \in Threads, Copying(u), Kept(call[u].type)
               PROVE  /\ call[u].op = "set" =>
                           \A x \in Written(call[u].type, call[u].value) \ left'[u] :
                             region'[call[u].type][x] = WordOf(x, call[u].value)
                      /\ call[u].op = "get" =>
                           \A x \in DOMAIN got[u] : got[u][x] = region'[call[u].type][x]
    BY <1>5 DEF InStep, Kept
  <2>1. CASE u = t
    BY <1>1, <1>2, <1>3, <2>1, WrittenWords DEF InStep
  <2>2. CASE u # t
    <3>1. call[u].type # y /\ call[u].type \in Supported
      BY <1>10, <2>2 DEF Copies
    <3>2. QED BY <1>2, <1>3, <2>2, <3>1 DEF InStep
  <2>3. QED BY <2>1, <2>2
<1>12. \A type : Writing(type)' <=> Writing(type)
  BY DEF Writing
<1>13. y \notin Scalars /\ Writing(y)
  BY <1>1, WrittenWords DEF Copies, Writing, Copying
<1>14. Whole'
  BY <1>1, <1>2, <1>12, <1>13 DEF Whole, Kept
<1>15. QED BY <1>4, <1>6, <1>7, <1>11, <1>14

\* The last word of a set is written, and the call returns.
LEMMA WriteLast ==
  ASSUME Inv, NEW t \in Threads, NEW w \in left[t],
         pc[t] = "copy", call[t].op = "set", left[t] = {w},
         region' = [region EXCEPT ![call[t].type][w] = WordOf(w, call[t].value)],
         committed' = [committed EXCEPT ![call[t].type] = call[t].value],
         Return(t, "NONE", NoValue), UNCHANGED <<mManager, hasPlanes>>
  PROVE  Inv'
<1> USE DEF Inv
<1> DEFINE y == call[t].type
           v == call[t].value
<1>1. /\ Copying(t) /\ y \in Supported /\ w \in Words(y) /\ w \in Written(y, v)
      /\ WordOf(w, v) \in WordValues(w)
      /\ (y \in Scalars => v \in Values) /\ v \in Values \cup {NoValue}
  BY WordFits, WrittenWords DEF Copying, Copies
<1>2. /\ \A type \in Supported : type # y => region'[type] = region[type]
      /\ region'[y][w] = WordOf(w, v)
      /\ \A x \in Words(y) : x # w => region'[y][x] = region[y][x]
      /\ DOMAIN region' = Supported
      /\ \A type \in Supported : DOMAIN region'[type] = Words(type)
      /\ committed' \in [Supported -> Values \cup {NoValue, NoWord}]
      /\ committed'[y] = v
      /\ \A type \in Supported : type # y => committed'[type] = committed[type]
  BY <1>1 DEF TypeOK
<1>3. /\ pc'[t] = "idle" /\ DOMAIN got'[t] = {}
      /\ pc' \in [Threads -> {"idle", "check", "copy"}]
      /\ DOMAIN call' = Threads /\ DOMAIN left' = Threads /\ DOMAIN got' = Threads
      /\ DOMAIN answer' = Threads
      /\ \A u \in Threads : u # t => /\ pc'[u] = pc[u] /\ call'[u] = call[u]
                                     /\ left'[u] = left[u] /\ got'[u] = got[u]
  BY DEF TypeOK, Return
<1>4. TypeOK'
  BY <1>1, <1>2, <1>3 DEF TypeOK
<1>5. \A u \in Threads : Copying(u)' <=> (u # t /\ Copying(u))
  BY <1>3 DEF Copying
<1>6. Copies' /\ NotReading' /\ ReadSoFar'
  BY <1>3, <1>5 DEF Copies, NotReading, ReadSoFar
<1>7. Apart'
  BY <1>3 DEF Apart
<1>8. ASSUME Kept(y), y \notin SetsAlone
      PROVE  \A x \in Words(y) : x = w
  BY <1>1, <1>8, WrittenWords DEF Kept
<1>9. ASSUME NEW u \in Threads, u # t, Copying(u), Kept(call[u].type),
             call[u].type \notin SetsAlone, call[u].op = "get"
      PROVE  DOMAIN got[u] = {}
  <2>1. call[u].type \in Scalars /\ call[u].type \in Supported
    BY <1>9 DEF Kept, Supported
  <2>2. /\ left[u] # {} /\ left[u] \subseteq {"word"}
        /\ DOMAIN got[u] = {"word"} \ left[u]
    BY <1>9, <2>1, WrittenWords DEF Copies
  <2>3. QED BY <2>2
<1>10. ASSUME NEW u \in Threads, u # t, Copying(u), Kept(call[u].type),
              call[u].type \notin SetsAlone, call[u].op = "set"
       PROVE  Written(call[u].type, call[u].value) \ left[u] = {}
  <2>1. call[u].type \in Scalars /\ call[u].type \in Supported
    BY <1>10 DEF Kept, Supported
  <2>2. /\ left[u] # {} /\ Written(call[u].type, call[u].value) \subseteq {"word"}
        /\ left[u] \subseteq Written(call[u].type, call[u].value)
    BY <1>10, <2>1, WrittenWords DEF Copies
  <2>3. QED BY <2>2
<1>11. InStep'
  <2> SUFFICES ASSUME NEW u \in Threads, u # t, Copying(u), Kept(call[u].type)
               PROVE  /\ call[u].op = "set" =>
                           \A x \in Written(call[u].type, call[u].value) \ left[u] :
                             region'[call[u].type][x] = WordOf(x, call[u].value)
                      /\ call[u].op = "get" =>
                           \A x \in DOMAIN got[u] : got[u][x] = region'[call[u].type][x]
    BY <1>3, <1>5 DEF InStep, Kept
  <2>1. CASE call[u].type \in SetsAlone
    <3>1. call[u].type # y /\ call[u].type \in Supported
      BY <1>1, <2>1 DEF Apart, Copies, Copying
    <3>2. QED BY <1>2, <3>1 DEF InStep
  <2>2. CASE call[u].type \notin SetsAlone
    BY <1>9, <1>10, <2>2
  <2>3. QED BY <2>1, <2>2
<1>12. \A type : type # y => (Writing(type)' <=> Writing(type))
  BY <1>3, <1>5 DEF Writing, Copying
<1>13. Kept(y) => ValueOf(y, region'[y]) = v
  <2> SUFFICES ASSUME Kept(y) PROVE ValueOf(y, region'[y]) = v
    OBVIOUS
  <2>1. \A x \in Written(y, v) : region'[y][x] = WordOf(x, v)
    BY <1>1, <1>2, WrittenWords DEF InStep
  <2>2. y \in Scalars \/ v = NoValue \/ v \in Values
    BY <1>1
  <2>3. QED BY <1>1, <2>1, <2>2, WrittenOut
<1>14. Whole'
  <2> SUFFICES ASSUME NEW type \in Supported, Kept(type),
                      Writing(type)' => type \in Scalars
               PROVE  ValueOf(type, region'[type]) = committed'[type]
    BY DEF Whole, Kept
  <2>1. CASE type = y
    BY <1>2, <1>13, <2>1
  <2>2. CASE type # y
    BY <1>2, <1>12, <2>2 DEF Whole
  <2>3. QED BY <2>1, <2>2
<1>15. QED BY <1>4, <1>6, <1>7, <1>11, <1>14

\* A word of a get is read, and not the last.
LEMMA ReadMore ==
  ASSUME Inv, NEW t \in Threads, NEW w \in left[t],
         pc[t] = "copy", call[t].op = "get", left[t] # {w},
         left' = [left EXCEPT ![t] = @ \ {w}],
         got' = [got EXCEPT ![t] = Read(t, w)],
         UNCHANGED <<mManager, hasPlanes, region, committed, pc, call, answer>>
  PROVE  Inv'
<1> USE DEF Inv
<1>1. /\ left'[t] = left[t] \ {w} /\ left'[t] # {}
      /\ DOMAIN got'[t] = DOMAIN got[t] \cup {w}
      /\ \A x \in DOMAIN got[t] : x # w => got'[t][x] = got[t][x]
      /\ got'[t][w] = region[call[t].type][w]
      /\ \A u \in Threads : u # t => left'[u] = left[u] /\ got'[u] = got[u]
  BY DEF TypeOK, Read
<1>2. TypeOK'
  BY <1>1 DEF TypeOK
<1>3. \A u \in Threads : Copying(u)' <=> Copying(u)
  BY DEF Copying
<1>4. /\ Copying(t) /\ call[t].type \in Supported /\ w \in Words(call[t].type)
      /\ call[t].op # "set"
  BY DEF Copying, Copies
<1>5. Copies'
  <2>1. DOMAIN got'[t] = Words(call[t].type) \ left'[t]
    BY <1>1, <1>4 DEF Copies
  <2>2. QED BY <1>1, <1>3, <1>4, <2>1 DEF Copies
<1>6. NotReading'
  BY <1>1, <1>3, <1>4 DEF NotReading
<1>7. ReadSoFar'
  <2>1. got'[t][w] \in WordValues(w)
    BY <1>1, <1>4 DEF TypeOK
  <2>2. QED BY <1>1, <1>3, <1>4, <2>1 DEF ReadSoFar
<1>8. InStep'
  BY <1>1, <1>3, <1>4 DEF InStep, Kept
<1>9. Apart' /\ Whole'
  BY DEF Apart, Whole, Kept, Writing
<1>10. QED BY <1>2, <1>5, <1>6, <1>7, <1>8, <1>9

\* Every step keeps the invariant.
LEMMA InvStep == Inv /\ [Next]_vars => Inv'
<1> SUFFICES ASSUME Inv, [Next]_vars PROVE Inv'
  OBVIOUS
<1>2. ASSUME NEW t \in Threads, Call(t) PROVE Inv'
  BY <1>2, CallStep
<1>3. ASSUME NEW t \in Threads,
             \/ Refuse(t) \/ DecodeFails(t) \/ NoRegion(t)
             \/ PlanesUnknown(t) \/ GetFromHandle(t)
      PROVE  Inv'
  <2>1. PICK status, v :
          Return(t, status, v) /\ UNCHANGED <<mManager, hasPlanes, region, committed>>
    BY <1>3 DEF Refuse, DecodeFails, PlanesUnknown, GetFromHandle, NoRegion
  <2>2. pc[t] = "check"
    BY <1>3 DEF Refuse, DecodeFails, PlanesUnknown, GetFromHandle, NoRegion
  <2>3. QED BY <2>1, <2>2, ReturnStep DEF Copying
<1>4. ASSUME NEW t \in Threads, get_metadata(t) PROVE Inv'
  BY <1>4, BeginStep
<1>5. ASSUME NEW t \in Threads, WriteWord(t) PROVE Inv'
  <2> PICK w \in left[t] :
        /\ region' = [region EXCEPT ![call[t].type][w] = WordOf(w, call[t].value)]
        /\ IF left[t] = {w}
           THEN /\ committed' = [committed EXCEPT ![call[t].type] = call[t].value]
                /\ Return(t, "NONE", NoValue)
           ELSE /\ left' = [left EXCEPT ![t] = @ \ {w}]
                /\ UNCHANGED <<committed, pc, call, got, answer>>
    BY <1>5 DEF WriteWord
  <2>1. pc[t] = "copy" /\ call[t].op = "set" /\ UNCHANGED <<mManager, hasPlanes>>
    BY <1>5 DEF WriteWord
  <2>2. CASE left[t] = {w}
    BY <2>1, <2>2, WriteLast
  <2>3. CASE left[t] # {w}
    BY <2>1, <2>3, WriteMore
  <2>4. QED BY <2>2, <2>3
<1>6. ASSUME NEW t \in Threads, ReadWord(t) PROVE Inv'
  <2> PICK w \in left[t] :
        IF left[t] = {w}
        THEN Return(t, "NONE", ValueOf(call[t].type, Read(t, w)))
        ELSE /\ left' = [left EXCEPT ![t] = @ \ {w}]
             /\ got' = [got EXCEPT ![t] = Read(t, w)]
             /\ UNCHANGED <<pc, call, answer>>
    BY <1>6 DEF ReadWord
  <2>1. /\ pc[t] = "copy" /\ call[t].op = "get"
        /\ UNCHANGED <<mManager, hasPlanes, region, committed>>
    BY <1>6 DEF ReadWord
  <2>2. CASE left[t] = {w}
    BY <2>1, <2>2, ReturnStep
  <2>3. CASE left[t] # {w}
    BY <2>1, <2>3, ReadMore
  <2>4. QED BY <2>2, <2>3
<1>7. CASE UNCHANGED vars
  BY <1>7 DEF vars, Inv, TypeOK, Copies, NotReading, ReadSoFar, Apart, InStep, Whole,
              Copying, Kept, Writing
<1>8. QED BY <1>2, <1>3, <1>4, <1>5, <1>6, <1>7 DEF Next, Step

LEMMA Invariance == Spec => []Inv
<1>1. Init => Inv
  BY InvInit
<1>2. Inv /\ [Next]_vars => Inv'
  BY InvStep
<1>3. QED BY <1>1, <1>2, PTL DEF Spec

-----------------------------------------------------------------------------
(* The theorems.                                                            *)

\* Words, calls and the values last set are what they are meant to be.
THEOREM TypeCorrect == Spec => []TypeOK
<1>1. Inv => TypeOK
  BY DEF Inv
<1>2. QED BY <1>1, Invariance, PTL

\* The region holds the values last set whenever no set is copying: of every
\* type whose sets are kept apart from its other calls, and of the one-word
\* types however set_* and get_* overlap.
THEOREM RegionKeepsSets == Spec => []MetadataIntact
<1>1. Inv => MetadataIntact
  <2> SUFFICES ASSUME Inv, NEW type \in AtomicTypes, ~Writing(type)
               PROVE  ValueOf(type, region[type]) = committed[type]
    BY DEF MetadataIntact
  <2>1. Kept(type) /\ type \in Supported
    BY MetadataAssumption DEF MetadataAssumption, AtomicTypes, Kept, Supported
  <2>2. QED BY <2>1 DEF Inv, Whole
<1>2. QED BY <1>1, Invariance, PTL

\* The value of words depends on the words of its type alone.
LEMMA SameValue ==
  ASSUME NEW type \in Supported, NEW v, NEW w,
         \A x \in Words(type) : v[x] = w[x]
  PROVE  ValueOf(type, v) = ValueOf(type, w)
<1>1. CASE type \in Scalars
  BY <1>1 DEF ValueOf, Words
<1>2. CASE type \notin Scalars
  BY <1>2 DEF ValueOf, Words
<1>3. QED BY <1>1, <1>2

\* What a get answers: a value of the store, and the stored one where the types
\* are looked after.
LEMMA GetAnswers ==
  ASSUME Inv, NEW t \in Threads, NEW w \in left[t],
         pc[t] = "copy", call[t].op = "get", left[t] = {w}
  PROVE  /\ ValueOf(call[t].type, Read(t, w)) \in Values \cup {NoValue, NoWord, "torn"}
         /\ Kept(call[t].type) =>
              ValueOf(call[t].type, Read(t, w)) = committed[call[t].type]
<1> USE DEF Inv
<1> DEFINE y == call[t].type
           r == Read(t, w)
<1>1. /\ Copying(t) /\ y \in Supported /\ w \in Words(y)
      /\ DOMAIN got[t] = Words(y) \ {w}
  BY DEF Copying, Copies
<1>2. /\ r[w] = region[y][w]
      /\ \A x \in Words(y) \ {w} : r[x] = got[t][x]
  BY <1>1 DEF Read
<1>3. \A x \in Words(y) : r[x] \in WordValues(x)
  BY <1>1, <1>2 DEF ReadSoFar, TypeOK
<1>4. r = Read(t, w) /\ y = call[t].type
  OBVIOUS
<1> HIDE DEF r, y
<1>5. ASSUME Kept(y) PROVE ValueOf(y, r) = committed[y]
  <2>1. \A x \in Words(y) : r[x] = region[y][x]
    BY <1>1, <1>2, <1>4, <1>5 DEF InStep
  <2>2. ValueOf(y, r) = ValueOf(y, region[y])
    BY <1>1, <2>1, SameValue
  <2>3. Writing(y) => y \in Scalars
    BY <1>1, <1>4, <1>5 DEF Kept, Writing, Apart
  <2>4. ValueOf(y, region[y]) = committed[y]
    BY <1>1, <1>5, <2>3 DEF Whole
  <2>5. QED BY <2>2, <2>4
<1>6. QED BY <1>1, <1>3, <1>4, <1>5, ValueRange

Phase == [t \in Threads |-> IF pc[t] = "idle" THEN "idle" ELSE "pending"]

\* A call that returns is done in the store.
LEMMA ReturnIsDone ==
  ASSUME Inv, NEW t \in Threads, NEW status, NEW v, pc[t] # "idle", Return(t, status, v)
  PROVE  Store!Done(t, status, v) /\ Phase[t] = "pending"
<1>1. Phase' = [Phase EXCEPT ![t] = "idle"]
  BY DEF Phase, Return, Inv, TypeOK
<1>2. QED BY <1>1 DEF Phase, Return, Store!Done, NoCall, Reply, Store!NoCall, Store!Reply

\* What the mapper turns down is an error of the store; what it does not turn
\* down the store serves, but for the planes of formats that have none.
LEMMA RefusalsAreErrors ==
  ASSUME NEW c \in Calls
  PROVE  /\ Refusal(c) \subseteq Store!Errors(c)
         /\ Refusal(c) = {} =>
              /\ c.op = "set" => Store!Served(c) /\ "BAD_VALUE" \in Store!Errors(c)
              /\ c.type \in Supported => "NO_RESOURCES" \in Store!Errors(c)
              /\ c.op = "get" =>
                   IF c.type = "PLANE_LAYOUTS" /\ ~hasPlanes
                   THEN "UNSUPPORTED" \in Store!Errors(c) ELSE Store!Served(c)
<1>1. c.op \in {"set", "get"} /\ c.handle \in BOOLEAN /\ c.standard \in BOOLEAN
  BY MetadataAssumption DEF MetadataAssumption
<1>2. /\ \A y : y \in Store!Settable <=> y \in Supported
      /\ \A y : y \in Store!Gettable <=> y \in FromHandle \cup Supported
      /\ "PLANE_LAYOUTS" \notin Supported
  BY DEF Store!Settable, Store!Gettable, Supported, FromHandle, ReadOnly, Scalars, Optionals
<1>3. CASE c.op = "set"
  BY <1>1, <1>2, <1>3 DEF Refusal, SetRefusal, Store!Errors, Store!Served
<1>4. CASE c.op = "get"
  BY <1>1, <1>2, <1>4 DEF Refusal, GetRefusal, Store!Errors, Store!Served
<1>5. QED BY <1>1, <1>3, <1>4

\* Calls that copy are on types of the region, and the store serves them.
Supplied(t) == call[t].type \in Supported /\ call[t].handle /\ call[t].standard

\* The list offers all four types of the region.
LEMMA SuppliedServed ==
  ASSUME NEW t \in Threads, Supplied(t)
  PROVE  Store!Served(call[t])
BY DEF Supplied, Store!Served, Store!Settable, Store!Gettable, Supported, Scalars, Optionals

\* A step of the mapper is a step of the store, or hidden from it.
LEMMA StoreStep ==
  ASSUME Inv, [Next]_vars
  PROVE  [Store!Next]_(Store!storeVars)
<1> USE DEF Inv
<1>1. UNCHANGED <<committed, hasPlanes, pc, call, answer>> => UNCHANGED Store!storeVars
  BY DEF Store!storeVars
<1>3. ASSUME NEW t \in Threads, Call(t) PROVE Store!Call(t)
  <2>1. /\ Phase[t] = "idle" /\ Phase' = [Phase EXCEPT ![t] = "pending"]
        /\ answer' = [answer EXCEPT ![t] = NoReply]
        /\ UNCHANGED <<committed, hasPlanes>>
    BY <1>3 DEF Call, Phase, TypeOK
  <2>2. \E c \in Calls : call' = [call EXCEPT ![t] = c]
    BY <1>3 DEF Call
  <2>3. QED BY <2>1, <2>2 DEF Store!Call, Phase, NoReply, Reply, Store!NoReply, Store!Reply
<1>4. ASSUME NEW t \in Threads,
             Refuse(t) \/ DecodeFails(t) \/ PlanesUnknown(t) \/ NoRegion(t)
      PROVE  Store!Fail(t)
  <2>1. call[t] \in Calls /\ pc[t] = "check" /\ UNCHANGED <<committed, hasPlanes>>
    BY <1>4 DEF Refuse, DecodeFails, PlanesUnknown, NoRegion, TypeOK
  <2>2. PICK error \in Store!Errors(call[t]) : Return(t, error, NoValue)
    BY <1>4, <2>1, RefusalsAreErrors
    DEF Refuse, DecodeFails, PlanesUnknown, NoRegion, UsesRegion
  <2>3. QED BY <2>1, <2>2, ReturnIsDone DEF Store!Fail, Phase
<1>5. ASSUME NEW t \in Threads, GetFromHandle(t) PROVE Store!Get(t)
  <2>1. /\ call[t] \in Calls /\ pc[t] = "check" /\ UNCHANGED <<committed, hasPlanes>>
        /\ call[t].op = "get" /\ call[t].type \in FromHandle /\ Refusal(call[t]) = {}
        /\ call[t].type = "PLANE_LAYOUTS" => hasPlanes
        /\ Return(t, "NONE", "handle")
    BY <1>5 DEF GetFromHandle, TypeOK
  <2>2. Store!Served(call[t])
    BY <2>1, RefusalsAreErrors
  <2>3. call[t].type \notin AtomicTypes
    BY <2>1, MetadataAssumption
    DEF MetadataAssumption, AtomicTypes, FromHandle, ReadOnly, Supported, Scalars, Optionals
  <2>4. QED BY <2>1, <2>2, <2>3, ReturnIsDone DEF Store!Get, Phase, AtomicTypes
<1>6. ASSUME NEW t \in Threads, get_metadata(t) PROVE UNCHANGED Store!storeVars
  <2>1. Phase' = Phase
    BY <1>6 DEF get_metadata, Phase, TypeOK
  <2>2. QED BY <1>6, <2>1 DEF get_metadata, Phase, Store!storeVars
<1>7. ASSUME NEW t \in Threads, WriteWord(t)
      PROVE  Store!Set(t) \/ UNCHANGED Store!storeVars
  <2>1. /\ pc[t] = "copy" /\ call[t].op = "set"
        /\ Supplied(t) /\ UNCHANGED hasPlanes
    BY <1>7 DEF WriteWord, Copies, Copying, Supplied
  <2>2. CASE /\ committed' = [committed EXCEPT ![call[t].type] = call[t].value]
             /\ Return(t, "NONE", NoValue)
    <3>1. Store!Served(call[t])
      BY <2>1, SuppliedServed
    <3>2. Store!Set(t)
      BY <2>1, <2>2, <3>1, ReturnIsDone DEF Store!Set, Phase
    <3>3. QED BY <3>2
  <2>3. CASE UNCHANGED <<committed, pc, call, answer>>
    BY <1>1, <2>1, <2>3
  <2>4. QED BY <1>7, <2>2, <2>3 DEF WriteWord
<1>8. ASSUME NEW t \in Threads, ReadWord(t)
      PROVE  Store!Get(t) \/ UNCHANGED Store!storeVars
  <2>1. /\ pc[t] = "copy" /\ call[t].op = "get" /\ UNCHANGED <<committed, hasPlanes>>
        /\ Supplied(t)
    BY <1>8 DEF ReadWord, Copies, Copying, Supplied
  <2>2. PICK w \in left[t] :
          IF left[t] = {w}
          THEN Return(t, "NONE", ValueOf(call[t].type, Read(t, w)))
          ELSE UNCHANGED <<pc, call, answer>>
    BY <1>8 DEF ReadWord
  <2>3. CASE left[t] = {w}
    <3> PICK r : r = ValueOf(call[t].type, Read(t, w)) /\ Return(t, "NONE", r)
      BY <2>2, <2>3
    <3>1. /\ r \in Values \cup {NoValue, NoWord, "torn"}
          /\ Kept(call[t].type) => r = committed[call[t].type]
      BY <2>1, <2>3, GetAnswers
    <3>2. call[t].type \in AtomicTypes => Kept(call[t].type)
      BY DEF AtomicTypes, Kept
    <3>3. Store!Done(t, "NONE", r) /\ Phase[t] = "pending"
      BY <2>1, ReturnIsDone
    <3>4. Store!Served(call[t])
      BY <2>1, SuppliedServed
    <3>5. r \in IF call[t].type \in AtomicTypes
                   THEN {committed[call[t].type]}
                   ELSE Values \cup {NoValue, NoWord, "torn", "handle"}
      BY <3>1, <3>2
    <3>6. Store!Get(t)
      BY <2>1, <3>3, <3>4, <3>5 DEF Store!Get, Phase, AtomicTypes
    <3>7. QED BY <3>6
  <2>4. CASE left[t] # {w}
    BY <1>1, <2>1, <2>2, <2>4
  <2>5. QED BY <2>3, <2>4
<1>9. CASE UNCHANGED vars
  BY <1>1, <1>9 DEF vars
<1>10. QED
  BY <1>3, <1>4, <1>5, <1>6, <1>7, <1>8, <1>9 DEF Next, Step, Store!Next

\* Sets and gets through shared memory implement the store in which each takes
\* effect at one instant: every answer, status and value, is one the mapper's
\* own list of types allows.
THEOREM MetadataImplementsStore == Spec => Store!Safety
<1>1. Init => Store!Init
  BY DEF Init, Store!Init, NoReply, Store!NoReply, Reply, Store!Reply, NoCall, Store!NoCall
<1>2. Inv /\ [Next]_vars => [Store!Next]_(Store!storeVars)
  BY StoreStep
<1>3. QED BY <1>1, <1>2, Invariance, PTL DEF Spec, Store!Safety

=============================================================================
