--------------------------- MODULE JsonEmitProofs -----------------------------
(***************************************************************************)
(* The emitter and the payload of a push, for every buffer, every set of   *)
(* element lengths and every list of variables: types and indices,         *)
(* separators, truncation, and what is in a payload that is reported       *)
(* complete.                                                               *)
(***************************************************************************)
EXTENDS JsonEmit, FiniteSetTheorems, TLAPS

\* What the emitter alone keeps: the flag on top of the stack tells whether the
\* last element is one that a separator has to follow.
FlagFits ==
    prepend[depth] <=> /\ payload # <<>>
                       /\ payload[Len(payload)].what # "open"

\* The braces opened and not closed are those on the stack.
OpenOnes == Count("open") = Count("close") + depth

EmitterInv ==
    /\ offset \in 0..(BufferLen - 1)
    /\ depth \in 0..3 /\ indent = depth
    /\ prepend \in [0..(MaxStack - 1) -> BOOLEAN]
    /\ payload \in Seq(Elements)
    /\ FlagFits
    /\ OpenOnes
    /\ SeparatorsRight
    /\ OnlyLastCut

\* How deep the emitter is at each call.
Nesting ==
    /\ pc = "payload" => depth = 0
    /\ pc \in {"var_decls", "vars", "texts"} => depth = 1
    /\ pc \in {"decl", "var"} => depth = 2
    /\ pc = "decl end" => depth = 3

\* The rest of the type invariant.
WalkInv ==
    /\ pending \in Seq(BOOLEAN)
    /\ dirty \subseteq Fields
    /\ pc \in {"payload", "var_decls", "decl", "decl end", "vars", "var", "texts", "done"}
    /\ at \in 1..(Len(pending) + 1)
    /\ pc = "decl end" => at =< Len(pending)
    /\ cleared \subseteq DOMAIN pending
    /\ emitted \subseteq dirty
    /\ result \in {"NONE", "SUCCESS", "JSON", "UNKNOWN", "NETWORK"}
    /\ result = "NONE" <=> pc # "done"

Holds(x) == \E k \in DOMAIN payload : payload[k].of = x

\* How far the two loops and the texts have come.
Progress ==
    /\ pc \in {"payload", "var_decls", "decl", "decl end", "vars"} => cleared = {}
    /\ pc = "var" => cleared = {i \in 1..(at - 1) : pending[i]}
    /\ pc = "texts" => cleared = {i \in DOMAIN pending : pending[i]}
    /\ \A i \in cleared : InPayload(i) \/ (result = "JSON" /\ i = at /\ Full)
    /\ \A i \in DOMAIN pending : InPayload(i) => i \in cleared
    /\ \A f \in Fields : f \in emitted <=> Holds(<<f, 0>>)

IInv ==
    /\ EmitterInv
    /\ WalkInv
    /\ Nesting
    /\ Progress
    /\ SuccessIsComplete

-------------------------------------------------------------------------------
(* The emitter                                                             *)

\* The elements of one kind are finitely many, and one more is one more.
LEMMA CountType ==
    ASSUME payload \in Seq(Elements), NEW what
    PROVE  /\ IsFiniteSet({k \in DOMAIN payload : payload[k].what = what})
           /\ Count(what) \in Nat
<1>1. IsFiniteSet(1..Len(payload))
  BY FS_Interval
<1>2. IsFiniteSet({k \in DOMAIN payload : payload[k].what = what})
  BY <1>1, FS_Subset
<1>. QED
  BY <1>2, FS_CardinalityType DEF Count

\* The count of a kind in the buffer after a step.
LEMMA CountPrime ==
    ASSUME payload' \in Seq(Elements), NEW what
    PROVE  Count(what)' \in Nat
<1>1. IsFiniteSet(1..Len(payload'))
  BY FS_Interval
<1>2. IsFiniteSet({k \in DOMAIN payload' : payload'[k].what = what})
  BY <1>1, FS_Subset
<1>. QED
  BY <1>2, FS_CardinalityType DEF Count

\* Appending an element raises the count of its own kind by one, and of no other.
LEMMA CountAppend ==
    ASSUME payload \in Seq(Elements), NEW e \in Elements,
           payload' = Append(payload, e), NEW what
    PROVE  Count(what)' = Count(what) + (IF e.what = what THEN 1 ELSE 0)
<1>. DEFINE S == {k \in DOMAIN payload : payload[k].what = what}
            T == {k \in DOMAIN payload' : payload'[k].what = what}
<1>1. /\ DOMAIN payload' = DOMAIN payload \union {Len(payload) + 1}
      /\ Len(payload) + 1 \notin DOMAIN payload
      /\ \A k \in DOMAIN payload : payload'[k] = payload[k]
      /\ payload'[Len(payload) + 1] = e
  OBVIOUS
<1>2. IsFiniteSet(S) /\ Cardinality(S) \in Nat
  BY CountType DEF Count
<1>3. CASE e.what = what
  <2>1. T = S \union {Len(payload) + 1} /\ Len(payload) + 1 \notin S
    BY <1>1, <1>3
  <2>2. Cardinality(T) = Cardinality(S) + 1
    BY <2>1, <1>2, FS_AddElement
  <2>. QED
    BY <2>2, <1>3 DEF Count
<1>4. CASE e.what # what
  <2>1. T = S
    BY <1>1, <1>4
  <2>. HIDE DEF S, T
  <2>2. Cardinality(T) = Cardinality(S) + 0
    BY <2>1, <1>2
  <2>. QED
    BY <2>2, <1>4 DEF Count, S, T
<1>. QED
  BY <1>3, <1>4

Kinds == {"payload", "var_decls", "decl", "vars", "var"} \union Fields

\* What a call of the emitter appends is an element.
LEMMA ElementType ==
    ASSUME NEW what \in {"open", "close", "value"}, NEW of \in Kinds \X Nat,
           NEW sep \in BOOLEAN, NEW cut \in BOOLEAN
    PROVE  LET e == Element(what, of, sep, cut)
           IN  e \in Elements /\ e.what = what /\ e.of = of /\ e.sep = sep /\ (e.cut <=> cut)
BY DEF Element, Elements, Kinds

\* What an emitter call puts into the buffer while there is room for it.
LEMMA PutKeeps ==
    ASSUME EmitterInv, ~Full,
           NEW what \in {"open", "close", "value"}, NEW of \in Kinds \X Nat,
           NEW sep \in BOOLEAN, NEW n \in Sizes, Put(what, of, sep, n),
           sep <=> what # "close" /\ prepend[depth]
    PROVE  /\ offset' \in 0..(BufferLen - 1)
           /\ payload' \in Seq(Elements)
           /\ payload' # <<>> /\ payload'[Len(payload')].what = what
           /\ SeparatorsRight' /\ OnlyLastCut'
           /\ \A w : Count(w)' = Count(w) + (IF what = w THEN 1 ELSE 0)
           /\ payload'[Len(payload')].of = of
           /\ \A x : Holds(x)' <=> Holds(x) \/ x = of
<1>. DEFINE e == Element(what, of, sep, n > BufferLen - 1 - offset)
<1>1. /\ payload \in Seq(Elements) /\ Len(payload) \in Nat
      /\ offset \in Nat /\ offset < BufferLen - 1 /\ n \in Nat /\ BufferLen \in Nat
  BY JsonEmitAssumption DEF EmitterInv, Full
<1>2. /\ e \in Elements /\ e.what = what /\ e.of = of /\ e.sep = sep
      /\ (e.cut <=> n > BufferLen - 1 - offset)
      /\ payload' = Append(payload, e)
  <2>1. (n > BufferLen - 1 - offset) \in BOOLEAN
    BY <1>1
  <2>2. /\ e \in Elements /\ e.what = what /\ e.of = of /\ e.sep = sep
        /\ (e.cut <=> n > BufferLen - 1 - offset)
    <3>1. PICK cut \in BOOLEAN : cut = (n > BufferLen - 1 - offset)
      BY <2>1, Zenon
    <3>2. e = Element(what, of, sep, cut)
      BY <3>1, Zenon
    <3>. HIDE DEF e
    <3>3. e \in Elements /\ e.what = what /\ e.of = of /\ e.sep = sep /\ (e.cut <=> cut)
      BY <3>2, ElementType
    <3>. QED
      BY <3>1, <3>3, Zenon
  <2>3. payload' = Append(payload, e)
    BY DEF Put
  <2>. QED
    BY <2>2, <2>3, Zenon
<1>3. offset' \in 0..(BufferLen - 1) /\ (e.cut => offset' = BufferLen - 1)
  <2>1. offset' = offset + (IF n > BufferLen - 1 - offset THEN BufferLen - 1 - offset ELSE n)
    BY DEF Put
  <2>2. CASE n > BufferLen - 1 - offset
    BY <2>1, <2>2, <1>1
  <2>3. CASE ~(n > BufferLen - 1 - offset)
    BY <2>1, <2>3, <1>1, <1>2
  <2>. QED
    BY <2>2, <2>3
<1>4. /\ payload' \in Seq(Elements) /\ Len(payload') = Len(payload) + 1
      /\ DOMAIN payload' = DOMAIN payload \union {Len(payload) + 1}
      /\ DOMAIN payload = 1..Len(payload)
      /\ \A k \in DOMAIN payload : payload'[k] = payload[k]
      /\ payload'[Len(payload) + 1] = e
  BY <1>1, <1>2
<1>5. SeparatorsRight'
  <2>1. ASSUME NEW k \in DOMAIN payload'
        PROVE  payload'[k].sep <=> /\ payload'[k].what # "close"
                                   /\ k > 1 /\ payload'[k - 1].what # "open"
    <3>1. CASE k \in DOMAIN payload
      <4>1. k > 1 => k - 1 \in DOMAIN payload
        BY <3>1, <1>1
      <4>. QED
        BY <3>1, <4>1, <1>4 DEF EmitterInv, SeparatorsRight
    <3>2. CASE k = Len(payload) + 1
      <4>1. k > 1 <=> payload # <<>>
        BY <3>2, <1>1
      <4>2. k > 1 => /\ k - 1 = Len(payload) /\ k - 1 \in DOMAIN payload
                     /\ payload'[k - 1] = payload[Len(payload)]
        BY <3>2, <1>1, <1>4
      <4>. QED
        BY <3>2, <4>1, <4>2, <1>2, <1>4 DEF EmitterInv, FlagFits
    <3>. QED
      BY <3>1, <3>2, <1>4
  <2>. QED
    BY <2>1 DEF SeparatorsRight
<1>6. OnlyLastCut'
  <2>1. \A k \in DOMAIN payload : ~payload[k].cut
    BY <1>1 DEF EmitterInv, OnlyLastCut
  <2>. QED
    BY <2>1, <1>3, <1>4 DEF OnlyLastCut
<1>7. \A w : Count(w)' = Count(w) + (IF what = w THEN 1 ELSE 0)
  BY <1>1, <1>2, CountAppend
<1>8. \A x : Holds(x)' <=> Holds(x) \/ x = of
  BY <1>2, <1>4 DEF Holds
<1>. QED
  BY <1>1, <1>2, <1>3, <1>4, <1>5, <1>6, <1>7, <1>8

\* c_json_emit_open_object and c_json_emit_open_array: one more brace is open.
LEMMA OpenKeeps ==
    ASSUME EmitterInv, ~Full, NEW of \in Kinds \X Nat, NEW n \in Sizes,
           depth < 3, Open(of, n)
    PROVE  /\ EmitterInv' /\ depth' = depth + 1
           /\ payload' # <<>> /\ payload'[Len(payload')].of = of
           /\ \A x : Holds(x)' <=> Holds(x) \/ x = of
<1>1. /\ depth \in 0..2 /\ indent = depth /\ MaxStack \in Nat /\ MaxStack > 3
      /\ prepend \in [0..(MaxStack - 1) -> BOOLEAN] /\ payload \in Seq(Elements)
  BY JsonEmitAssumption DEF EmitterInv
<1>2. prepend[depth] \in BOOLEAN
  BY <1>1
<1>3. /\ offset' \in 0..(BufferLen - 1)
      /\ payload' \in Seq(Elements)
      /\ payload' # <<>> /\ payload'[Len(payload')].what = "open"
      /\ payload'[Len(payload')].of = of
      /\ \A x : Holds(x)' <=> Holds(x) \/ x = of
      /\ SeparatorsRight' /\ OnlyLastCut'
      /\ Count("open")' = Count("open") + 1 /\ Count("close")' = Count("close")
  <2>1. Put("open", of, prepend[depth], n)
    BY DEF Open
  <2>2. Count("close") \in Nat
    BY <1>1, CountType
  <2>. QED
    BY <2>1, <2>2, <1>2, PutKeeps
<1>4. FlagFits'
  BY <1>1, <1>3 DEF FlagFits, Open
<1>5. OpenOnes'
  <2>1. Count("open") \in Nat /\ Count("close") \in Nat
    BY <1>1, CountType
  <2>. QED
    BY <1>1, <1>3, <2>1 DEF OpenOnes, Open, EmitterInv
<1>. QED
  BY <1>1, <1>3, <1>4, <1>5 DEF EmitterInv, Open

\* c_json_emit_close_object and c_json_emit_close_array: one brace fewer is open.
LEMMA CloseKeeps ==
    ASSUME EmitterInv, ~Full, NEW of \in Kinds \X Nat, NEW n \in Sizes,
           depth > 0, Close(of, n)
    PROVE  /\ EmitterInv' /\ depth' = depth - 1
           /\ payload' # <<>> /\ payload'[Len(payload')].of = of
           /\ \A x : Holds(x)' <=> Holds(x) \/ x = of
<1>1. /\ depth \in 1..3 /\ indent = depth /\ MaxStack \in Nat /\ MaxStack > 3
      /\ prepend \in [0..(MaxStack - 1) -> BOOLEAN] /\ payload \in Seq(Elements)
  BY JsonEmitAssumption DEF EmitterInv
<1>2. /\ offset' \in 0..(BufferLen - 1)
      /\ payload' \in Seq(Elements)
      /\ payload' # <<>> /\ payload'[Len(payload')].what = "close"
      /\ payload'[Len(payload')].of = of
      /\ \A x : Holds(x)' <=> Holds(x) \/ x = of
      /\ SeparatorsRight' /\ OnlyLastCut'
      /\ Count("open")' = Count("open") /\ Count("close")' = Count("close") + 1
  <2>1. PICK sep \in BOOLEAN : ~sep /\ Put("close", of, sep, n)
    BY DEF Close
  <2>2. Count("open") \in Nat
    BY <1>1, CountType
  <2>. QED
    BY <2>1, <2>2, PutKeeps
<1>3. FlagFits'
  BY <1>1, <1>2 DEF FlagFits, Close
<1>4. OpenOnes'
  <2>1. Count("open") \in Nat /\ Count("close") \in Nat
    BY <1>1, CountType
  <2>. QED
    BY <1>1, <1>2, <2>1 DEF OpenOnes, Close, EmitterInv
<1>. QED
  BY <1>1, <1>2, <1>3, <1>4 DEF EmitterInv, Close

\* A value of the emitter leaves the open braces as they are.
LEMMA ValueKeeps ==
    ASSUME EmitterInv, ~Full, NEW of \in Kinds \X Nat, NEW n \in Sizes,
           NameAndValue(of, n)
    PROVE  /\ EmitterInv' /\ depth' = depth
           /\ payload' # <<>> /\ payload'[Len(payload')].of = of
           /\ \A x : Holds(x)' <=> Holds(x) \/ x = of
<1>1. /\ depth \in 0..3 /\ indent = depth /\ MaxStack \in Nat /\ MaxStack > 3
      /\ prepend \in [0..(MaxStack - 1) -> BOOLEAN] /\ payload \in Seq(Elements)
  BY JsonEmitAssumption DEF EmitterInv
<1>2. prepend[depth] \in BOOLEAN
  BY <1>1
<1>3. /\ offset' \in 0..(BufferLen - 1)
      /\ payload' \in Seq(Elements)
      /\ payload' # <<>> /\ payload'[Len(payload')].what = "value"
      /\ payload'[Len(payload')].of = of
      /\ \A x : Holds(x)' <=> Holds(x) \/ x = of
      /\ SeparatorsRight' /\ OnlyLastCut'
      /\ Count("open")' = Count("open") /\ Count("close")' = Count("close")
  <2>1. Put("value", of, prepend[depth], n)
    BY DEF NameAndValue
  <2>2. Count("open") \in Nat /\ Count("close") \in Nat
    BY <1>1, CountType
  <2>. QED
    BY <2>1, <2>2, <1>2, PutKeeps
<1>4. FlagFits'
  BY <1>1, <1>3 DEF FlagFits, NameAndValue
<1>5. OpenOnes'
  BY <1>1, <1>3 DEF OpenOnes, NameAndValue, EmitterInv
<1>. QED
  BY <1>1, <1>3, <1>4, <1>5 DEF EmitterInv, NameAndValue
-------------------------------------------------------------------------------
(* The walk over the device                                                *)

\* What has been cleared and emitted, as far as it is in the payload.
Recorded ==
    /\ \A i \in cleared : InPayload(i) \/ (result = "JSON" /\ i = at /\ Full)
    /\ \A i \in DOMAIN pending : InPayload(i) => i \in cleared
    /\ \A f \in Fields : f \in emitted <=> Holds(<<f, 0>>)

\* A variable is in the payload when its element is in the buffer.
LEMMA InPayloadHolds == \A i : InPayload(i) <=> Holds(<<"var", i>>)
BY DEF InPayload, Holds

\* A brace records nothing.
LEMMA BraceRecords ==
    ASSUME IInv, pc # "done",
           NEW tag \in {"payload", "var_decls", "decl", "vars"}, NEW i \in Nat,
           \A x : Holds(x)' <=> Holds(x) \/ x = <<tag, i>>,
           UNCHANGED <<pending, dirty, cleared, emitted>>
    PROVE  Recorded'
<1>1. \A j : <<"var", j>> # <<tag, i>>
  OBVIOUS
<1>2. \A f \in Fields : <<f, 0>> # <<tag, i>>
  BY DEF Fields
<1>3. \A j : InPayload(j)' <=> InPayload(j)
  BY <1>1 DEF InPayload, Holds
<1>4. \A j \in cleared : InPayload(j)
  BY DEF IInv, WalkInv, Progress
<1>. QED
  BY <1>2, <1>3, <1>4 DEF IInv, Progress, Recorded

\* The emitter refuses: the call returns, and nothing it keeps changes.
LEMMA FailsKeeps ==
    ASSUME IInv, pc # "done", cleared' = cleared,
           NEW err \in {"JSON", "UNKNOWN", "NETWORK"}, Fails(err)
    PROVE  IInv'
<1>. USE DEF IInv, Fails, device, state
<1>1. EmitterInv'
  BY DEF EmitterInv, FlagFits, OpenOnes, Count, SeparatorsRight, OnlyLastCut
<1>2. WalkInv'
  BY DEF WalkInv
<1>3. Nesting'
  BY DEF Nesting
<1>4. Progress'
  <2>1. \A j \in cleared : InPayload(j)
    BY DEF WalkInv, Progress
  <2>. QED
    BY <2>1 DEF Progress, InPayload, Holds
<1>5. SuccessIsComplete'
  BY DEF SuccessIsComplete
<1>. QED
  BY <1>1, <1>2, <1>3, <1>4, <1>5

\* A brace is put: what is left to show is how the walk goes on.
LEMMA BraceKeeps ==
    ASSUME IInv, pc # "done", EmitterInv',
           NEW tag \in {"payload", "var_decls", "decl", "vars"}, NEW i \in Nat,
           \A x : Holds(x)' <=> Holds(x) \/ x = <<tag, i>>,
           UNCHANGED <<pending, dirty, cleared, emitted, result>>,
           pc' \in {"var_decls", "decl", "decl end", "vars", "var", "texts"},
           Nesting', at' \in 1..(Len(pending) + 1),
           pc' = "decl end" => at' =< Len(pending),
           pc' \in {"var_decls", "decl", "decl end", "vars"} => cleared = {},
           pc' = "var" => cleared = {j \in 1..(at' - 1) : pending[j]},
           pc' = "texts" => cleared = {j \in DOMAIN pending : pending[j]}
    PROVE  IInv'
<1>1. WalkInv'
  BY DEF IInv, WalkInv
<1>2. Recorded'
  BY BraceRecords
<1>3. Progress'
  BY <1>2 DEF Progress, Recorded
<1>4. SuccessIsComplete'
  BY DEF IInv, WalkInv, SuccessIsComplete
<1>. QED
  BY <1>1, <1>3, <1>4 DEF IInv

\* Where the walk through the variables stands.
LEMMA Position ==
    ASSUME IInv
    PROVE  /\ pending \in Seq(BOOLEAN) /\ Len(pending) \in Nat
           /\ at \in Nat /\ 1 =< at /\ at =< Len(pending) + 1
           /\ pc = "decl end" => at =< Len(pending)
<1>1. pending \in Seq(BOOLEAN) /\ at \in 1..(Len(pending) + 1)
  BY DEF IInv, WalkInv
<1>2. Len(pending) \in Nat
  BY <1>1
<1>. QED
  <2>1. at \in Nat
    BY <1>1, <1>2
  <2>2. 1 =< at
    BY <1>1, <1>2
  <2>3. at =< Len(pending) + 1
    BY <1>1, <1>2
  <2>4. pc = "decl end" => at =< Len(pending)
    BY DEF IInv, WalkInv
  <2>. QED
    BY <1>1, <1>2, <2>1, <2>2, <2>3, <2>4

LEMMA OpenPayloadKeeps ==
    ASSUME IInv, NEW n \in Sizes, OpenPayload(n) PROVE IInv'
<1>1. pc = "payload" /\ depth = 0 /\ cleared' = cleared
  BY DEF OpenPayload, IInv, Nesting
<1>2. CASE Fails("NETWORK")
  BY <1>1, <1>2, FailsKeeps
<1>3. CASE Emits(Open(<<"payload", 0>>, n), "var_decls")
  <2>1. ~Full /\ Open(<<"payload", 0>>, n) /\ pc' = "var_decls"
    BY <1>3 DEF Emits
  <2>2. /\ EmitterInv' /\ depth' = 1
        /\ \A x : Holds(x)' <=> Holds(x) \/ x = <<"payload", 0>>
    BY <1>1, <2>1, OpenKeeps DEF IInv, Kinds
  <2>3. Nesting'
    BY <2>1, <2>2 DEF Nesting
  <2>4. UNCHANGED <<pending, dirty, at, cleared, emitted, result>>
    BY <1>3 DEF OpenPayload, Emits, device
  <2>5. cleared = {} /\ at \in 1..(Len(pending) + 1)
    BY <1>1 DEF IInv, WalkInv, Progress
  <2>. QED
    BY <1>1, <2>1, <2>2, <2>3, <2>4, <2>5, BraceKeeps
<1>. QED
  BY <1>2, <1>3 DEF OpenPayload

LEMMA OpenDeclsKeeps ==
    ASSUME IInv, NEW n \in Sizes, OpenDecls(n) PROVE IInv'
<1>1. pc = "var_decls" /\ depth = 1 /\ cleared' = cleared
  BY DEF OpenDecls, IInv, Nesting
<1>2. CASE Fails("JSON")
  BY <1>1, <1>2, FailsKeeps
<1>3. CASE Emits(Open(<<"var_decls", 0>>, n), "decl") /\ at' = 1
  <2>1. ~Full /\ Open(<<"var_decls", 0>>, n) /\ pc' = "decl"
    BY <1>3 DEF Emits
  <2>2. /\ EmitterInv' /\ depth' = 2
        /\ \A x : Holds(x)' <=> Holds(x) \/ x = <<"var_decls", 0>>
    BY <1>1, <2>1, OpenKeeps DEF IInv, Kinds
  <2>3. Nesting'
    BY <2>1, <2>2 DEF Nesting
  <2>4. UNCHANGED <<pending, dirty, cleared, emitted, result>>
    BY <1>3 DEF OpenDecls, Emits, device
  <2>5. cleared = {} /\ at' \in 1..(Len(pending) + 1)
    BY <1>1, <1>3 DEF IInv, WalkInv, Progress
  <2>. QED
    BY <1>1, <2>1, <2>2, <2>3, <2>4, <2>5, BraceKeeps
<1>. QED
  BY <1>2, <1>3 DEF OpenDecls

LEMMA OpenDeclKeeps ==
    ASSUME IInv, NEW n \in Sizes, OpenDecl(n) PROVE IInv'
<1>1. /\ pc = "decl" /\ depth = 2 /\ cleared' = cleared /\ cleared = {}
      /\ Len(pending) \in Nat /\ at \in Nat /\ 1 =< at /\ at =< Len(pending)
  BY Position DEF OpenDecl, IInv, Nesting, Progress
<1>2. CASE Fails("JSON")
  BY <1>1, <1>2, FailsKeeps
<1>3. CASE Emits(Open(<<"decl", at>>, n), "decl end")
  <2>1. ~Full /\ Open(<<"decl", at>>, n) /\ pc' = "decl end"
    BY <1>3 DEF Emits
  <2>2. /\ EmitterInv' /\ depth' = 3
        /\ \A x : Holds(x)' <=> Holds(x) \/ x = <<"decl", at>>
    <3>1. PICK of \in Kinds \X Nat : of = <<"decl", at>>
      BY <1>1 DEF Kinds
    <3>2. EmitterInv /\ ~Full /\ Open(of, n)
      BY <2>1, <3>1 DEF IInv
    <3>3. EmitterInv' /\ depth' = 3 /\ \A x : Holds(x)' <=> Holds(x) \/ x = of
      BY <1>1, <3>2, OpenKeeps
    <3>. QED
      BY <3>1, <3>3
  <2>3. Nesting'
    BY <2>1, <2>2 DEF Nesting
  <2>4. UNCHANGED <<pending, dirty, at, cleared, emitted, result>>
    BY <1>3 DEF OpenDecl, Emits, device
  <2>5. at' \in 1..(Len(pending) + 1) /\ at' =< Len(pending)
    BY <1>1, <2>4
  <2>. QED
    BY <1>1, <2>1, <2>2, <2>3, <2>4, <2>5, BraceKeeps
<1>. QED
  BY <1>2, <1>3 DEF OpenDecl

LEMMA CloseDeclKeeps ==
    ASSUME IInv, NEW n \in Sizes, CloseDecl(n) PROVE IInv'
<1>1. /\ pc = "decl end" /\ depth = 3 /\ cleared' = cleared /\ cleared = {}
      /\ Len(pending) \in Nat /\ at \in Nat /\ 1 =< at /\ at =< Len(pending)
  BY Position DEF CloseDecl, IInv, Nesting, Progress
<1>2. CASE Fails("JSON")
  BY <1>1, <1>2, FailsKeeps
<1>3. CASE Emits(Close(<<"decl", at>>, n), "decl") /\ at' = at + 1
  <2>1. ~Full /\ Close(<<"decl", at>>, n) /\ pc' = "decl"
    BY <1>3 DEF Emits
  <2>2. /\ EmitterInv' /\ depth' = 2
        /\ \A x : Holds(x)' <=> Holds(x) \/ x = <<"decl", at>>
    <3>1. PICK of \in Kinds \X Nat : of = <<"decl", at>>
      BY <1>1 DEF Kinds
    <3>2. EmitterInv /\ ~Full /\ Close(of, n)
      BY <2>1, <3>1 DEF IInv
    <3>3. depth = 3
      BY <1>1
    <3>4. depth > 0 /\ depth - 1 = 2
      BY <3>3
    <3>5. EmitterInv' /\ depth' = depth - 1 /\ \A x : Holds(x)' <=> Holds(x) \/ x = of
      BY <3>2, <3>4, CloseKeeps
    <3>. QED
      BY <3>1, <3>5, <3>4
  <2>3. Nesting'
    BY <2>1, <2>2 DEF Nesting
  <2>4. /\ UNCHANGED <<pending, dirty, cleared, emitted, result>>
        /\ at' \in 1..(Len(pending) + 1)
    <3>1. at \in Nat /\ Len(pending) \in Nat /\ 1 =< at /\ at =< Len(pending)
      BY <1>1
    <3>2. at + 1 \in 1..(Len(pending) + 1)
      BY <3>1
    <3>. QED
      BY <1>3, <3>2 DEF CloseDecl, Emits, device
  <2>. QED
    BY <1>1, <2>1, <2>2, <2>3, <2>4, BraceKeeps
<1>. QED
  BY <1>2, <1>3 DEF CloseDecl

LEMMA CloseDeclsKeeps ==
    ASSUME IInv, NEW n \in Sizes, CloseDecls(n) PROVE IInv'
<1>1. /\ pc = "decl" /\ depth = 2 /\ cleared' = cleared /\ cleared = {}
      /\ at \in 1..(Len(pending) + 1)
  BY DEF CloseDecls, IInv, Nesting, WalkInv, Progress
<1>2. CASE Fails("JSON")
  BY <1>1, <1>2, FailsKeeps
<1>3. CASE Emits(Close(<<"var_decls", 0>>, n), "vars")
  <2>1. ~Full /\ Close(<<"var_decls", 0>>, n) /\ pc' = "vars"
    BY <1>3 DEF Emits
  <2>2. /\ EmitterInv' /\ depth' = 1
        /\ \A x : Holds(x)' <=> Holds(x) \/ x = <<"var_decls", 0>>
    BY <1>1, <2>1, CloseKeeps DEF IInv, Kinds
  <2>3. Nesting'
    BY <2>1, <2>2 DEF Nesting
  <2>4. UNCHANGED <<pending, dirty, at, cleared, emitted, result>>
    BY <1>3 DEF CloseDecls, Emits, device
  <2>. QED
    BY <1>1, <2>1, <2>2, <2>3, <2>4, BraceKeeps
<1>. QED
  BY <1>2, <1>3 DEF CloseDecls

LEMMA OpenVarsKeeps ==
    ASSUME IInv, NEW n \in Sizes, OpenVars(n) PROVE IInv'
<1>1. /\ pc = "vars" /\ depth = 1 /\ cleared' = cleared /\ cleared = {}
      /\ pending \in Seq(BOOLEAN)
  BY DEF OpenVars, IInv, Nesting, WalkInv, Progress
<1>2. CASE Fails("JSON")
  BY <1>1, <1>2, FailsKeeps
<1>3. CASE Emits(Open(<<"vars", 0>>, n), "var") /\ at' = 1
  <2>1. ~Full /\ Open(<<"vars", 0>>, n) /\ pc' = "var"
    BY <1>3 DEF Emits
  <2>2. /\ EmitterInv' /\ depth' = 2
        /\ \A x : Holds(x)' <=> Holds(x) \/ x = <<"vars", 0>>
    BY <1>1, <2>1, OpenKeeps DEF IInv, Kinds
  <2>3. Nesting'
    BY <2>1, <2>2 DEF Nesting
  <2>4. UNCHANGED <<pending, dirty, cleared, emitted, result>>
    BY <1>3 DEF OpenVars, Emits, device
  <2>5. at' \in 1..(Len(pending) + 1) /\ cleared = {j \in 1..(at' - 1) : pending[j]}
    BY <1>1, <1>3
  <2>. QED
    BY <1>1, <2>1, <2>2, <2>3, <2>4, <2>5, BraceKeeps
<1>. QED
  BY <1>2, <1>3 DEF OpenVars

LEMMA CloseVarsKeeps ==
    ASSUME IInv, NEW n \in Sizes, CloseVars(n) PROVE IInv'
<1>1. /\ pc = "var" /\ depth = 2 /\ cleared' = cleared
      /\ pending \in Seq(BOOLEAN)
      /\ at \in 1..(Len(pending) + 1) /\ at > Len(pending)
      /\ cleared = {i \in 1..(at - 1) : pending[i]}
  BY DEF CloseVars, IInv, Nesting, WalkInv, Progress
<1>2. CASE Fails("JSON")
  BY <1>1, <1>2, FailsKeeps
<1>3. CASE Emits(Close(<<"vars", 0>>, n), "texts")
  <2>1. ~Full /\ Close(<<"vars", 0>>, n) /\ pc' = "texts"
    BY <1>3 DEF Emits
  <2>2. /\ EmitterInv' /\ depth' = 1
        /\ \A x : Holds(x)' <=> Holds(x) \/ x = <<"vars", 0>>
    BY <1>1, <2>1, CloseKeeps DEF IInv, Kinds
  <2>3. Nesting'
    BY <2>1, <2>2 DEF Nesting
  <2>4. UNCHANGED <<pending, dirty, at, cleared, emitted, result>>
    BY <1>3 DEF CloseVars, Emits, device
  <2>5. cleared = {i \in DOMAIN pending : pending[i]}
    BY <1>1
  <2>. QED
    BY <1>1, <2>1, <2>2, <2>3, <2>4, <2>5, BraceKeeps
<1>. QED
  BY <1>2, <1>3 DEF CloseVars

LEMMA SkipVarKeeps ==
    ASSUME IInv, SkipVar PROVE IInv'
<1>. USE DEF SkipVar, device, state
<1>1. /\ Len(pending) \in Nat /\ at \in Nat /\ 1 =< at /\ at =< Len(pending)
      /\ pc = "var" /\ ~pending[at] /\ at' = at + 1
  BY Position
<1>2. EmitterInv'
  BY DEF IInv, EmitterInv, FlagFits, OpenOnes, Count, SeparatorsRight, OnlyLastCut
<1>3. at' \in 1..(Len(pending) + 1)
  BY <1>1
<1>4. WalkInv'
  BY <1>1, <1>3 DEF IInv, WalkInv
<1>5. Nesting'
  BY DEF IInv, Nesting
<1>6. cleared' = {i \in 1..(at' - 1) : pending[i]}
  <2>1. cleared = {i \in 1..(at - 1) : pending[i]}
    BY <1>1 DEF IInv, Progress
  <2>2. \A i \in 1..(at' - 1) : i \in 1..(at - 1) \/ i = at
    BY <1>1
  <2>3. \A i \in 1..(at - 1) : i \in 1..(at' - 1)
    BY <1>1
  <2>. QED
    BY <1>1, <2>1, <2>2, <2>3
<1>7. Recorded'
  <2>1. \A j \in cleared : InPayload(j)
    BY <1>1 DEF IInv, WalkInv, Progress
  <2>. QED
    BY <2>1 DEF IInv, Progress, Recorded, InPayload, Holds
<1>8. Progress'
  BY <1>1, <1>6, <1>7 DEF Progress, Recorded
<1>9. SuccessIsComplete'
  BY <1>1 DEF IInv, WalkInv, SuccessIsComplete
<1>. QED
  BY <1>2, <1>4, <1>5, <1>8, <1>9 DEF IInv

LEMMA EmitVarKeeps ==
    ASSUME IInv, NEW n \in Sizes, EmitVar(n) PROVE IInv'
<1>1. /\ Len(pending) \in Nat /\ at \in Nat /\ 1 =< at /\ at =< Len(pending)
      /\ pc = "var" /\ pending[at]
  BY Position DEF EmitVar
<1>2. /\ pending \in Seq(BOOLEAN) /\ at \in DOMAIN pending
      /\ result = "NONE" /\ depth = 2 /\ cleared \subseteq DOMAIN pending
      /\ emitted \subseteq dirty /\ dirty \subseteq Fields
  BY <1>1 DEF IInv, WalkInv, Nesting
<1>3. /\ cleared = {i \in 1..(at - 1) : pending[i]}
      /\ \A j \in cleared : InPayload(j)
      /\ cleared' = cleared \union {at} /\ emitted' = emitted
  BY <1>1, <1>2 DEF IInv, Progress, EmitVar, ClearedNow
<1>4. CASE Fails("JSON")
  <2>. USE <1>4 DEF Fails, device, state
  <2>1. EmitterInv'
    BY DEF IInv, EmitterInv, FlagFits, OpenOnes, Count, SeparatorsRight, OnlyLastCut
  <2>2. WalkInv'
    BY <1>2, <1>3 DEF IInv, WalkInv
  <2>3. Nesting'
    BY DEF Nesting
  <2>4. Full'
    BY DEF Full
  <2>5. Progress'
    BY <1>3, <2>4 DEF IInv, Progress, InPayload, Holds
  <2>6. SuccessIsComplete'
    BY DEF SuccessIsComplete
  <2>. QED
    BY <2>1, <2>2, <2>3, <2>5, <2>6 DEF IInv
<1>5. CASE Emits(NameAndValue(<<"var", at>>, n), "var") /\ at' = at + 1
  <2>1. /\ ~Full /\ NameAndValue(<<"var", at>>, n) /\ pc' = "var" /\ at' = at + 1
        /\ UNCHANGED <<pending, dirty, result>>
    BY <1>5 DEF Emits, device
  <2>2. EmitterInv' /\ depth' = 2 /\ \A x : Holds(x)' <=> Holds(x) \/ x = <<"var", at>>
    <3>1. PICK of \in Kinds \X Nat : of = <<"var", at>>
      BY <1>1 DEF Kinds
    <3>2. EmitterInv /\ ~Full /\ NameAndValue(of, n)
      BY <2>1, <3>1 DEF IInv
    <3>3. EmitterInv' /\ depth' = depth /\ \A x : Holds(x)' <=> Holds(x) \/ x = of
      BY <3>2, ValueKeeps
    <3>. QED
      BY <1>2, <3>1, <3>3
  <2>3. at' \in 1..(Len(pending) + 1)
    <3>1. Len(pending) \in Nat /\ at \in Nat /\ 1 =< at /\ at =< Len(pending)
      BY <1>1
    <3>. QED
      BY <2>1, <3>1
  <2>4. WalkInv'
    BY <1>2, <1>3, <2>1, <2>3 DEF WalkInv
  <2>5. Nesting'
    BY <2>1, <2>2 DEF Nesting
  <2>6. cleared' = {i \in 1..(at' - 1) : pending[i]}
    <3>1. \A i \in 1..(at + 1 - 1) : i \in 1..(at - 1) \/ i = at
      BY <1>1
    <3>2. \A i \in 1..(at - 1) : i \in 1..(at + 1 - 1)
      BY <1>1
    <3>3. at \in 1..(at + 1 - 1)
      BY <1>1
    <3>. QED
      BY <1>1, <1>3, <2>1, <3>1, <3>2, <3>3
  <2>7. \A j : InPayload(j)' <=> InPayload(j) \/ j = at
    BY <2>2 DEF InPayload, Holds
  <2>8. \A f \in Fields : <<f, 0>> # <<"var", at>>
    BY DEF Fields
  <2>9. Recorded'
    BY <1>3, <2>1, <2>2, <2>7, <2>8 DEF IInv, Progress, Recorded
  <2>10. Progress'
    BY <2>1, <2>6, <2>9 DEF Progress, Recorded
  <2>11. SuccessIsComplete'
    BY <1>2, <2>1 DEF SuccessIsComplete
  <2>. QED
    BY <2>2, <2>4, <2>5, <2>10, <2>11 DEF IInv
<1>. QED
  BY <1>4, <1>5 DEF EmitVar

LEMMA EmitTextKeeps ==
    ASSUME IInv, NEW n \in Sizes, NEW f \in Fields, EmitText(f, n) PROVE IInv'
<1>1. /\ pc = "texts" /\ f \in dirty /\ depth = 1 /\ result = "NONE" /\ cleared' = cleared
      /\ UNCHANGED at
  BY DEF EmitText, IInv, WalkInv, Nesting
<1>2. CASE Fails("UNKNOWN")
  BY <1>1, <1>2, FailsKeeps
<1>3. CASE Emits(NameAndValue(<<f, 0>>, n), "texts") /\ emitted' = emitted \union {f}
  <2>1. /\ ~Full /\ NameAndValue(<<f, 0>>, n) /\ pc' = "texts"
        /\ emitted' = emitted \union {f}
        /\ UNCHANGED <<pending, dirty, result>>
    BY <1>3 DEF Emits, device
  <2>2. EmitterInv' /\ depth' = 1 /\ \A x : Holds(x)' <=> Holds(x) \/ x = <<f, 0>>
    BY <1>1, <2>1, ValueKeeps DEF IInv, Kinds
  <2>3. WalkInv'
    BY <1>1, <2>1 DEF IInv, WalkInv
  <2>4. Nesting'
    BY <2>1, <2>2 DEF Nesting
  <2>5. \A j : InPayload(j)' <=> InPayload(j)
    <3>1. \A j : <<"var", j>> # <<f, 0>>
      BY DEF Fields
    <3>. QED
      BY <2>2, <3>1 DEF InPayload, Holds
  <2>6. \A g \in Fields : g \in emitted' <=> Holds(<<g, 0>>)'
    BY <2>1, <2>2 DEF IInv, Progress
  <2>7. \A j \in cleared : InPayload(j)
    BY <1>1 DEF IInv, Progress
  <2>8. Progress'
    BY <1>1, <2>1, <2>5, <2>6, <2>7 DEF IInv, Progress
  <2>9. SuccessIsComplete'
    BY <1>1, <2>1 DEF SuccessIsComplete
  <2>. QED
    BY <2>2, <2>3, <2>4, <2>8, <2>9 DEF IInv
<1>. QED
  BY <1>2, <1>3 DEF EmitText

\* The last brace: only here can the payload be reported complete.
LEMMA ClosePayloadKeeps ==
    ASSUME IInv, NEW n \in Sizes, ClosePayload(n) PROVE IInv'
<1>1. /\ pc = "texts" /\ dirty = emitted /\ depth = 1 /\ result = "NONE"
      /\ cleared' = cleared /\ UNCHANGED <<at, emitted>>
      /\ pending \in Seq(BOOLEAN) /\ dirty \subseteq Fields
  BY DEF ClosePayload, IInv, WalkInv, Nesting
<1>2. CASE Fails("NETWORK")
  BY <1>1, <1>2, FailsKeeps
<1>3. CASE /\ ~Full
           /\ Close(<<"payload", 0>>, n)
           /\ pc' = "done"
           /\ result' = "SUCCESS"
           /\ UNCHANGED device
  <2>1. /\ EmitterInv' /\ depth' = 0
        /\ payload' # <<>> /\ payload'[Len(payload')].of = <<"payload", 0>>
        /\ \A x : Holds(x)' <=> Holds(x) \/ x = <<"payload", 0>>
    BY <1>1, <1>3, CloseKeeps DEF IInv, Kinds
  <2>2. WalkInv'
    BY <1>1, <1>3 DEF IInv, WalkInv, device
  <2>3. Nesting'
    BY <1>3 DEF Nesting
  <2>4. /\ \A j \in DOMAIN pending : pending[j] <=> InPayload(j)
        /\ \A f \in Fields : f \in dirty <=> Holds(<<f, 0>>)
        /\ \A j \in cleared : InPayload(j)
    BY <1>1 DEF IInv, Progress
  <2>5. /\ \A j : <<"var", j>> # <<"payload", 0>>
        /\ \A f \in Fields : <<f, 0>> # <<"payload", 0>>
    BY DEF Fields
  <2>6. \A j : InPayload(j)' <=> InPayload(j)
    BY <2>1, <2>5 DEF InPayload, Holds
  <2>7. Progress'
    BY <1>1, <1>3, <2>1, <2>4, <2>5, <2>6 DEF IInv, Progress, device
  <2>8. \A k \in DOMAIN payload' : payload'[k].cut => payload'[k].of = <<"payload", 0>>
    BY <2>1 DEF EmitterInv, OnlyLastCut
  <2>9. \A x : x # <<"payload", 0>> => (Whole(x)' <=> Holds(x))
    BY <2>1, <2>8 DEF Whole, Holds
  <2>10. /\ \A j \in DOMAIN pending : pending[j] <=> Whole(<<"var", j>>)'
         /\ \A f \in Fields : f \in dirty <=> Whole(<<f, 0>>)'
    BY <2>4, <2>5, <2>9, InPayloadHolds
  <2>11. Count("open")' = Count("close")'
    <3>1. payload' \in Seq(Elements) /\ OpenOnes'
      BY <2>1 DEF EmitterInv
    <3>2. Count("open")' \in Nat /\ Count("close")' \in Nat
      BY <3>1, CountPrime
    <3>. QED
      BY <2>1, <3>1, <3>2 DEF OpenOnes
  <2>12. SuccessIsComplete'
    BY <1>3, <2>1, <2>8, <2>10, <2>11 DEF SuccessIsComplete, device
  <2>. QED
    BY <2>1, <2>2, <2>3, <2>7, <2>12 DEF IInv
<1>. QED
  BY <1>2, <1>3 DEF ClosePayload

-------------------------------------------------------------------------------
(* The invariant                                                           *)

\* The invariant holds of an empty buffer.
LEMMA InitKeeps == EmitInit => IInv
<1>1. ASSUME EmitInit PROVE IInv
  <2>. USE <1>1, JsonEmitAssumption DEF EmitInit
  <2>1. payload = <<>> /\ DOMAIN payload = {} /\ payload \in Seq(Elements)
    OBVIOUS
  <2>2. \A w : Count(w) = 0
    <3>1. \A w : {k \in DOMAIN payload : payload[k].what = w} = {}
      BY <2>1
    <3>. QED
      BY <3>1, FS_EmptySet DEF Count
  <2>3. EmitterInv
    BY <2>1, <2>2 DEF EmitterInv, FlagFits, OpenOnes, SeparatorsRight, OnlyLastCut
  <2>4. pending \in Seq(BOOLEAN) /\ Len(pending) \in Nat
    <3>1. PICK m \in 0..MaxVars : pending \in [1..m -> BOOLEAN]
      OBVIOUS
    <3>. QED
      BY <3>1
  <2>5. WalkInv
    BY <2>4 DEF WalkInv
  <2>6. Nesting
    BY DEF Nesting
  <2>7. Progress
    BY <2>1 DEF Progress, InPayload, Holds
  <2>8. SuccessIsComplete
    BY DEF SuccessIsComplete
  <2>. QED
    BY <2>3, <2>5, <2>6, <2>7, <2>8 DEF IInv
<1>. QED
  BY <1>1

\* Every call keeps the invariant.
LEMMA NextKeeps == IInv /\ [EmitNext]_emitVars => IInv'
<1>. SUFFICES ASSUME IInv, [EmitNext]_emitVars PROVE IInv'
  OBVIOUS
<1>1. CASE SkipVar
  BY <1>1, SkipVarKeeps
<1>2. CASE \E n \in Sizes : Calls(n)
  <2>1. PICK n \in Sizes : Calls(n)
    BY <1>2
  <2>. QED
    BY <2>1, OpenPayloadKeeps, OpenDeclsKeeps, OpenDeclKeeps, CloseDeclKeeps,
       CloseDeclsKeeps, OpenVarsKeeps, EmitVarKeeps, CloseVarsKeeps, EmitTextKeeps,
       ClosePayloadKeeps DEF Calls
<1>3. CASE UNCHANGED emitVars
  <2>. USE DEF IInv
  <2>1. /\ UNCHANGED <<pending, dirty, pc, at, cleared, emitted, result>>
        /\ UNCHANGED <<offset, indent, depth, prepend, payload>>
    BY <1>3 DEF emitVars, state
  <2>2. EmitterInv'
    BY <2>1 DEF EmitterInv, FlagFits, OpenOnes, Count, SeparatorsRight, OnlyLastCut
  <2>3. WalkInv' /\ Nesting'
    BY <2>1 DEF WalkInv, Nesting
  <2>4. Progress'
    BY <2>1 DEF Progress, InPayload, Holds, Full
  <2>5. SuccessIsComplete'
    BY <2>1 DEF SuccessIsComplete, Whole, Count
  <2>. QED
    BY <2>2, <2>3, <2>4, <2>5
<1>. QED
  BY <1>1, <1>2, <1>3 DEF EmitNext

\* The inductive invariant holds for every buffer size, variable list and element length.
THEOREM Invariance == EmitSpec => []IInv
BY InitKeeps, NextKeeps, PTL DEF EmitSpec

\* The types, and with them: whatever the lengths of the names and values, the \0
\* stays in request_payload, and the nesting never indexes indent_spaces or
\* prepend_separator outside.
THEOREM TypesAndIndices == EmitSpec => []EmitTypeOK
<1>1. IInv => EmitTypeOK
  <2>1. ASSUME IInv PROVE depth \in 0..(MaxStack - 1) /\ indent \in 0..(Indents - 1)
    BY <2>1, JsonEmitAssumption DEF IInv, EmitterInv
  <2>. QED
    BY <2>1 DEF IInv, EmitterInv, WalkInv, EmitTypeOK
<1>. QED
  BY <1>1, Invariance, PTL

\* The flags that the emitter keeps by depth put the separators where JSON wants
\* them, for every nesting that the two loops produce.
THEOREM SeparatorsAreRight == EmitSpec => []SeparatorsRight
<1>1. IInv => SeparatorsRight
  BY DEF IInv, EmitterInv
<1>. QED
  BY <1>1, Invariance, PTL

\* check_buffer_length stops the emitter at the first element that snprintf cut,
\* for every buffer length.
THEOREM OnlyTheLastIsCut == EmitSpec => []OnlyLastCut
<1>1. IInv => OnlyLastCut
  BY DEF IInv, EmitterInv
<1>. QED
  BY <1>1, Invariance, PTL

\* CANOPY_SUCCESS means that everything that was dirty is in the payload, whole.
THEOREM SuccessMeansComplete == EmitSpec => []SuccessIsComplete
<1>1. IInv => SuccessIsComplete
  BY DEF IInv
<1>. QED
  BY <1>1, Invariance, PTL

\* The flags that c_json_emit_vars clears are those of the values it wrote, and of
\* the one it could not write.
THEOREM ClearedAreEmitted == EmitSpec => []ClearedIsEmitted
<1>1. IInv => ClearedIsEmitted
  BY DEF IInv, Progress, ClearedIsEmitted
<1>. QED
  BY <1>1, Invariance, PTL

===============================================================================
