--------------------------- MODULE LocalCellsProofs ----------------------------
(***************************************************************************)
(* The texts keep to their arrays and the flags to their meaning, and      *)
(* pushes and getters find them, for all lengths of the arrays and all     *)
(* texts that the application and the server can send; the names of the    *)
(* variables, for all lengths of their arrays and of the list; and their   *)
(* values, for bytes of every even number of values and strings of every   *)
(* length.                                                                 *)
(***************************************************************************)
EXTENDS MCLocalCells, SequenceTheorems, FiniteSetTheorems, Inductions, TLAPS

\* The device and its pushes, as far as the texts go.
TextsSpec == TextsInit /\ [][TextsNext]_texts

Bytes == 1..Size

\* m with the text w in front and its flag behind.
WithText(m, start, w, flag, b) == Over(Over(m, start, w), flag, <<b>>)

\* An array of max bytes holds s, as a C string if there is room for its end.
HasText(m, start, max, s) ==
    /\ Len(s) =< max
    /\ \A k \in 1..Len(s) : m[start + k - 1] = s[k]
    /\ Len(s) < max => m[start + Len(s)] = 0

\* The inductive invariant: TextsKeep byte by byte, with the lengths of the texts, without
\* which one of them would reach into the next array.
Keeps(m, l, u) ==
    /\ m \in [Bytes -> Nat]
    /\ l \in [TextFields -> Seq(Nat \ {0})]
    /\ u \in [TextFields -> BOOLEAN]
    /\ \A f \in TextFields :
       HasText(m, Start[f], MaxLength[f], l[f]) /\ (m[Flag(f)] # 0 <=> u[f])

IInv == Keeps(mem, latest, unsent)

-------------------------------------------------------------------------------

\* Each array lies in front of its flag, one array and flag behind the other.
LEMMA Layout ==
    /\ Size \in Nat
    /\ \A f \in TextFields :
          /\ Start[f] \in Bytes /\ Flag(f) \in Bytes /\ MaxLength[f] \in Nat \ {0}
          /\ Flag(f) = Start[f] + MaxLength[f]
    /\ \A f, g \in TextFields : f # g => Flag(f) < Start[g] \/ Flag(g) < Start[f]
BY DeviceTextsAssumption, SMT DEF Size, TextFields, Start, Flag, MaxLength, Bytes

\* The bytes that a store writes, and those that it does not.
LEMMA OverBytes ==
    ASSUME NEW m \in [Bytes -> Nat], NEW at \in Bytes, NEW s \in Seq(Nat), at + Len(s) - 1 =< Size
    PROVE  /\ Over(m, at, s) \in [Bytes -> Nat]
           /\ \A k \in 1..Len(s) : Over(m, at, s)[at + k - 1] = s[k]
           /\ \A k \in Bytes : k < at \/ k >= at + Len(s) => Over(m, at, s)[k] = m[k]
<1> DEFINE o == Over(m, at, s)
<1>1. Size \in Nat /\ at \in Nat /\ Len(s) \in Nat
  BY Layout, SMT DEF Bytes
<1>2. o = [k \in Bytes |-> IF k \in at..(at + Len(s) - 1) THEN s[k - at + 1] ELSE m[k]]
  BY DEF Over, Bytes
<1>3. \A k \in 1..Len(s) : s[k] \in Nat
  BY SMT
<1> HIDE DEF o
<1>4. ASSUME NEW k \in Bytes
      PROVE  o[k] \in Nat
  <2>1. CASE k \in at..(at + Len(s) - 1)
    <3>1. k - at + 1 \in 1..Len(s)
      BY <1>1, <2>1, SMT DEF Bytes
    <3> QED
      BY <1>2, <1>3, <2>1, <3>1
  <2>2. CASE k \notin at..(at + Len(s) - 1)
    BY <1>2, <2>2
  <2> QED
    BY <2>1, <2>2
<1>5. o \in [Bytes -> Nat]
  BY <1>2, <1>4
<1>6. ASSUME NEW k \in 1..Len(s)
      PROVE  o[at + k - 1] = s[k]
  <2>1. at + k - 1 \in Bytes /\ at + k - 1 \in at..(at + Len(s) - 1) /\ (at + k - 1) - at + 1 = k
    BY <1>1, SMT DEF Bytes
  <2> QED
    BY <1>2, <2>1
<1>7. ASSUME NEW k \in Bytes, k < at \/ k >= at + Len(s)
      PROVE  o[k] = m[k]
  <2>1. k \notin at..(at + Len(s) - 1)
    BY <1>1, <1>7, SMT DEF Bytes
  <2> QED
    BY <1>2, <2>1
<1> QED
  BY <1>5, <1>6, <1>7 DEF o

\* A text is stored at the start of its array and its flag behind the array, and nothing else
\* is written, although the text's terminator can fall on the flag.
LEMMA StoreText ==
    ASSUME NEW m \in [Bytes -> Nat], NEW start \in Bytes, NEW max \in Nat, NEW flag \in Bytes,
           flag = start + max, NEW w \in Seq(Nat), Len(w) =< max + 1, NEW b \in Nat
    PROVE  /\ WithText(m, start, w, flag, b) \in [Bytes -> Nat]
           /\ \A k \in 1..Len(w) : k =< max => WithText(m, start, w, flag, b)[start + k - 1] = w[k]
           /\ WithText(m, start, w, flag, b)[flag] = b
           /\ \A k \in Bytes : k < start \/ k > flag => WithText(m, start, w, flag, b)[k] = m[k]
<1> DEFINE n == WithText(m, start, w, flag, b)
           o == Over(m, start, w)
           one == <<b>>
           length == Len(w)
<1>1. Size \in Nat /\ start \in 1..Size /\ flag \in 1..Size /\ length \in Nat /\ length =< max + 1
  BY Layout DEF Bytes
<1>2. one \in Seq(Nat) /\ Len(one) = 1 /\ one[1] = b
  BY SMT
<1>3. /\ o \in [Bytes -> Nat]
      /\ \A k \in 1..length : o[start + k - 1] = w[k]
      /\ \A k \in Bytes : k < start \/ k >= start + length => o[k] = m[k]
  <2>1. start + Len(w) - 1 =< Size
    BY <1>1, SMT
  <2> QED
    BY <2>1, OverBytes
<1>4. n = Over(o, flag, one)
  BY DEF WithText
<1> HIDE DEF n, o, one, length
<1>5. flag + Len(one) - 1 =< Size
  BY <1>1, <1>2, SMT
<1>6. /\ n \in [Bytes -> Nat]
      /\ \A k \in 1..Len(one) : n[flag + k - 1] = one[k]
      /\ \A k \in Bytes : k < flag \/ k >= flag + Len(one) => n[k] = o[k]
  <2> DEFINE p == Over(o, flag, one)
  <2>1. /\ p \in [Bytes -> Nat]
        /\ \A k \in 1..Len(one) : p[flag + k - 1] = one[k]
        /\ \A k \in Bytes : k < flag \/ k >= flag + Len(one) => p[k] = o[k]
    BY <1>2, <1>3, <1>5, OverBytes
  <2>2. n = p
    BY <1>4
  <2> HIDE DEF p
  <2> QED
    BY <2>1, <2>2
<1>7. n[flag] = b
  <2>1. 1 \in 1..Len(one) /\ flag + 1 - 1 = flag
    BY <1>1, <1>2, SMT
  <2> QED
    BY <1>2, <1>6, <2>1
<1>8. ASSUME NEW k \in 1..length, k =< max
      PROVE  n[start + k - 1] = w[k]
  <2>1. start + k - 1 \in 1..Size /\ start + k - 1 < flag
    BY <1>1, <1>8, SMT
  <2> QED
    BY <1>3, <1>6, <2>1 DEF Bytes
<1>9. ASSUME NEW k \in 1..Size, k < start \/ k > flag
      PROVE  n[k] = m[k]
  <2>1. (k < flag \/ k >= flag + 1) /\ (k < start \/ k >= start + length)
    BY <1>1, <1>9, SMT
  <2> QED
    BY <1>2, <1>3, <1>6, <2>1 DEF Bytes
<1> QED
  BY <1>6, <1>7, <1>8, <1>9 DEF n, length, Bytes

\* An array holds what it held if none of its bytes has been written.
LEMMA Untouched ==
    ASSUME NEW m, NEW n, NEW start \in Bytes, NEW max \in Nat, NEW flag \in Bytes, flag = start + max,
           NEW s \in Seq(Nat \ {0}), HasText(m, start, max, s),
           \A k \in Bytes : k >= start /\ k < flag => n[k] = m[k]
    PROVE  HasText(n, start, max, s)
<1> DEFINE length == Len(s)
<1>1. Size \in Nat /\ start \in 1..Size /\ flag \in 1..Size /\ length \in Nat
  BY Layout DEF Bytes
<1>2. /\ length =< max
      /\ \A k \in 1..length : m[start + k - 1] = s[k]
      /\ length < max => m[start + length] = 0
  BY DEF HasText
<1> HIDE DEF length
<1>3. ASSUME NEW k \in 1..length
      PROVE  n[start + k - 1] = s[k]
  <2>1. start + k - 1 \in 1..Size /\ start + k - 1 >= start /\ start + k - 1 < flag
    BY <1>1, <1>2, SMT
  <2> QED
    BY <1>2, <2>1 DEF Bytes
<1>4. ASSUME length < max
      PROVE  n[start + length] = 0
  <2>1. start + length \in 1..Size /\ start + length >= start /\ start + length < flag
    BY <1>1, <1>4, SMT
  <2> QED
    BY <1>2, <1>4, <2>1 DEF Bytes
<1> QED
  BY <1>2, <1>3, <1>4 DEF HasText, length

-------------------------------------------------------------------------------

\* What storing one of the texts with its flag writes, and what it leaves alone.
LEMMA StoreWrites ==
    ASSUME NEW m \in [Bytes -> Nat], NEW f \in TextFields,
           NEW w \in Seq(Nat), Len(w) =< MaxLength[f] + 1, NEW b \in Nat
    PROVE  LET n == WithText(m, Start[f], w, Flag(f), b)
           IN  /\ n \in [Bytes -> Nat]
               /\ \A k \in 1..Len(w) : k =< MaxLength[f] => n[Start[f] + k - 1] = w[k]
               /\ n[Flag(f)] = b
               /\ \A k \in Bytes : k < Start[f] \/ k > Flag(f) => n[k] = m[k]
<1> DEFINE start == Start[f]
           max == MaxLength[f]
           flag == Flag(f)
<1>1. start \in Bytes /\ flag \in Bytes /\ max \in Nat /\ flag = start + max
  BY Layout
<1>2. Len(w) =< max + 1
  OBVIOUS
<1> HIDE DEF start, max, flag
<1>3. LET n == WithText(m, start, w, flag, b)
      IN  /\ n \in [Bytes -> Nat]
          /\ \A k \in 1..Len(w) : k =< max => n[start + k - 1] = w[k]
          /\ n[flag] = b
          /\ \A k \in Bytes : k < start \/ k > flag => n[k] = m[k]
  BY <1>1, <1>2, StoreText
<1> QED
  BY <1>3 DEF start, max, flag

\* One of the texts is stored with its flag; what it is then, and all else, is as the
\* invariant wants it.
LEMMA StoreKeeps ==
    ASSUME NEW m, NEW l, NEW u, Keeps(m, l, u),
           NEW f \in TextFields, NEW w \in Seq(Nat), Len(w) =< MaxLength[f] + 1,
           NEW b \in Nat, NEW v \in BOOLEAN, v <=> b # 0,
           NEW s \in Seq(Nat \ {0}), Len(s) =< MaxLength[f], Len(s) =< Len(w),
           \A k \in 1..Len(s) : w[k] = s[k],
           Len(s) < MaxLength[f] => Len(s) < Len(w) /\ w[Len(s) + 1] = 0
    PROVE  Keeps(WithText(m, Start[f], w, Flag(f), b), [l EXCEPT ![f] = s], [u EXCEPT ![f] = v])
<1> DEFINE start == Start[f]
           max == MaxLength[f]
           flag == Flag(f)
           n == WithText(m, start, w, flag, b)
           l2 == [l EXCEPT ![f] = s]
           u2 == [u EXCEPT ![f] = v]
<1>1. /\ Size \in Nat /\ start \in Bytes /\ flag \in Bytes /\ max \in Nat /\ flag = start + max
      /\ Len(s) \in Nat /\ Len(w) \in Nat
  BY Layout
<1>2. /\ n \in [Bytes -> Nat]
      /\ \A k \in 1..Len(w) : k =< max => n[start + k - 1] = w[k]
      /\ n[flag] = b
      /\ \A k \in Bytes : k < start \/ k > flag => n[k] = m[k]
  <2>1. m \in [Bytes -> Nat]
    BY DEF Keeps
  <2>2. n \in [Bytes -> Nat]
    BY <2>1, StoreWrites
  <2>3. \A k \in 1..Len(w) : k =< max => n[start + k - 1] = w[k]
    BY <2>1, StoreWrites
  <2>4. n[flag] = b
    BY <2>1, StoreWrites
  <2>5. \A k \in Bytes : k < start \/ k > flag => n[k] = m[k]
    BY <2>1, StoreWrites
  <2> QED
    BY <2>2, <2>3, <2>4, <2>5
<1> HIDE DEF n
<1>3. l2 \in [TextFields -> Seq(Nat \ {0})] /\ u2 \in [TextFields -> BOOLEAN]
  BY DEF Keeps
<1>4. l2[f] = s /\ (u2[f] <=> b # 0)
  BY DEF Keeps
<1>5. HasText(n, start, max, s)
  <2>1. ASSUME NEW k \in 1..Len(s)
        PROVE  n[start + k - 1] = s[k]
    <3>1. k \in 1..Len(w) /\ k =< max
      BY <1>1, SMT
    <3> QED
      BY <1>2, <3>1
  <2>2. ASSUME Len(s) < max
        PROVE  n[start + Len(s)] = 0
    <3>1. Len(s) + 1 \in 1..Len(w) /\ Len(s) + 1 =< max
      BY <1>1, <2>2, SMT
    <3>2. start + (Len(s) + 1) - 1 = start + Len(s)
      <4> HIDE DEF start
      <4> QED
        BY <1>1, SMT DEF Bytes
    <3>3. w[Len(s) + 1] = 0
      BY <2>2
    <3> QED
      BY <1>2, <3>1, <3>2, <3>3
  <2> QED
    BY <2>1, <2>2 DEF HasText
<1>6. ASSUME NEW g \in TextFields
      PROVE  HasText(n, Start[g], MaxLength[g], l2[g]) /\ (n[Flag(g)] # 0 <=> u2[g])
  <2>1. CASE g = f
    BY <1>2, <1>4, <1>5, <2>1
  <2>2. CASE g # f
    <3> DEFINE t == l[g]
               a == Start[g]
               x == MaxLength[g]
               c == Flag(g)
    <3>1. l2[g] = t /\ u2[g] = u[g] /\ t \in Seq(Nat \ {0})
      BY <2>2 DEF Keeps
    <3>2. HasText(m, a, x, t) /\ (m[c] # 0 <=> u[g])
      BY DEF Keeps
    <3>3. /\ a \in Bytes /\ c \in Bytes /\ x \in Nat /\ c = a + x
          /\ flag < a \/ c < start
      BY <2>2, Layout
    <3> HIDE DEF t, a, x, c, start, max, flag
    <3>4. \A k \in Bytes : k >= a /\ k =< c => n[k] = m[k]
      <4>1. \A k \in Bytes : k >= a /\ k =< c => k < start \/ k > flag
        BY <1>1, <3>3, SMT DEF Bytes
      <4> QED
        BY <1>2, <4>1
    <3>5. n[c] = m[c]
      <4>1. c >= a /\ c =< c
        BY <1>1, <3>3, SMT DEF Bytes
      <4> QED
        BY <3>3, <3>4, <4>1
    <3>6. \A k \in Bytes : k >= a /\ k < c => n[k] = m[k]
      <4>1. \A k \in Bytes : k < c => k =< c
        BY <1>1, <3>3, SMT DEF Bytes
      <4> QED
        BY <3>4, <4>1
    <3>7. HasText(n, a, x, t)
      BY <3>1, <3>2, <3>3, <3>6, Untouched
    <3> QED
      BY <3>1, <3>2, <3>5, <3>7 DEF a, x, c
  <2> QED
    BY <2>1, <2>2
<1> QED
  BY <1>2, <1>3, <1>6 DEF Keeps, n

\* What strcpy writes for a setter: the text and its end, the last byte that it writes.
LEMMA SetWrites ==
    ASSUME NEW s \in Seq(Nat \ {0}), NEW max \in Nat, Len(s) =< max
    PROVE  /\ SetInto(s) \in Seq(Nat) /\ Len(SetInto(s)) =< max + 1
           /\ Len(s) =< Len(SetInto(s)) /\ Len(s) < Len(SetInto(s))
           /\ \A k \in 1..Len(s) : SetInto(s)[k] = s[k]
           /\ SetInto(s)[Len(s) + 1] = 0
BY SMT DEF SetInto

\* What there is room for of a text in an answer.
ParsedText(f, s) == SubSeq(s, 1, Shorter(Len(s), MaxLength[f]))

\* What strncpy writes for the parser: the whole array, whatever the length of the text.
LEMMA ParseWrites ==
    ASSUME NEW f \in TextFields, NEW s \in Seq(Nat \ {0})
    PROVE  /\ ParsedInto(f, s) \in Seq(Nat) /\ Len(ParsedInto(f, s)) =< MaxLength[f] + 1
           /\ ParsedText(f, s) \in Seq(Nat \ {0}) /\ Len(ParsedText(f, s)) =< MaxLength[f]
           /\ Len(ParsedText(f, s)) =< Len(ParsedInto(f, s))
           /\ \A k \in 1..Len(ParsedText(f, s)) : ParsedInto(f, s)[k] = ParsedText(f, s)[k]
           /\ Len(ParsedText(f, s)) < MaxLength[f] =>
                 /\ Len(ParsedText(f, s)) < Len(ParsedInto(f, s))
                 /\ ParsedInto(f, s)[Len(ParsedText(f, s)) + 1] = 0
<1> DEFINE t == ParsedText(f, s)
           w == ParsedInto(f, s)
           max == MaxLength[f]
           c == Shorter(Len(s), max)
<1>1. Len(s) \in Nat /\ max \in Nat
  BY Layout
<1>2. c \in Nat /\ c =< Len(s) /\ c =< max /\ (c < max => c = Len(s))
  BY <1>1, SMT DEF Shorter
<1>3. /\ t \in Seq(Nat \ {0}) /\ Len(t) = c
      /\ \A k \in 1..c : t[k] = s[k]
  <2>1. t = SubSeq(s, 1, c)
    BY DEF ParsedText
  <2> HIDE DEF c
  <2>2. c - 1 + 1 = c /\ 1 \in 1..(Len(s) + 1) /\ c \in 0..Len(s)
    BY <1>1, <1>2, SMT
  <2>3. SubSeq(s, 1, c) \in Seq(Nat \ {0}) /\ Len(SubSeq(s, 1, c)) = c
    BY <1>1, <1>2, SMT
  <2>4. \A k \in 1..c : SubSeq(s, 1, c)[k] = s[k]
    BY <1>1, <1>2, SMT
  <2> QED
    BY <2>1, <2>3, <2>4
<1>4. /\ w \in Seq(Nat) /\ Len(w) = max
      /\ \A k \in 1..max : w[k] = IF k =< Len(s) THEN s[k] ELSE 0
  <2>1. w = [k \in 1..max |-> IF k =< Len(s) THEN s[k] ELSE 0]
    BY DEF ParsedInto, Copied
  <2>2. \A k \in 1..max : (IF k =< Len(s) THEN s[k] ELSE 0) \in Nat
    BY <1>1, SMT
  <2> HIDE DEF max, w
  <2>3. w \in [1..max -> Nat]
    BY <2>1, <2>2
  <2> QED
    BY <1>1, <2>1, <2>3, SMT
<1> HIDE DEF c, max, t, w
<1>5. /\ Len(w) =< max + 1 /\ Len(t) =< max /\ Len(t) =< Len(w)
      /\ \A k \in 1..Len(t) : w[k] = t[k]
      /\ Len(t) < max => Len(t) < Len(w) /\ w[Len(t) + 1] = 0
  <2>1. Len(w) =< max + 1 /\ Len(t) =< max /\ Len(t) =< Len(w)
    BY <1>1, <1>2, <1>3, <1>4, SMT
  <2>2. ASSUME NEW k \in 1..Len(t)
        PROVE  w[k] = t[k]
    <3>1. k \in 1..c /\ k \in 1..max /\ k =< Len(s)
      BY <1>1, <1>2, <1>3, SMT
    <3> QED
      BY <1>3, <1>4, <3>1
  <2>3. ASSUME Len(t) < max
        PROVE  Len(t) < Len(w) /\ w[Len(t) + 1] = 0
    <3>1. /\ Len(t) = Len(s) /\ Len(t) < Len(w)
          /\ Len(t) + 1 \in 1..max /\ ~(Len(t) + 1 =< Len(s))
      BY <1>1, <1>2, <1>3, <1>4, <2>3, SMT
    <3> QED
      BY <1>4, <3>1
  <2> QED
    BY <2>1, <2>2, <2>3
<1> QED
  BY <1>3, <1>4, <1>5 DEF max, t, w

\* A setter keeps the invariant: the terminator of the longest text lies on its flag, which is
\* then set.
LEMMA SetKeeps ==
    ASSUME IInv, NEW f \in TextFields, NEW s \in Given, SetText(f, s)
    PROVE  IInv'
<1> PICK m, l, u : m = mem /\ l = latest /\ u = unsent
  OBVIOUS
<1> DEFINE w == SetInto(s)
<1>1. Keeps(m, l, u)
  BY DEF IInv
<1>2. s \in Seq(Nat \ {0}) /\ Len(s) =< MaxLength[f] /\ MaxLength[f] \in Nat
  BY DeviceTextsAssumption, Layout DEF SetText, Allows
<1>3. /\ w \in Seq(Nat) /\ Len(w) =< MaxLength[f] + 1 /\ Len(s) =< Len(w) /\ Len(s) < Len(w)
      /\ \A k \in 1..Len(s) : w[k] = s[k]
      /\ Len(s) < MaxLength[f] => Len(s) < Len(w) /\ w[Len(s) + 1] = 0
  BY <1>2, SetWrites
<1> HIDE DEF w
<1>4. Keeps(WithText(m, Start[f], w, Flag(f), 1), [l EXCEPT ![f] = s], [u EXCEPT ![f] = TRUE])
  <2> DEFINE b == 1
             v == TRUE
  <2>1. b \in Nat /\ v \in BOOLEAN /\ (v <=> b # 0)
    OBVIOUS
  <2> HIDE DEF b, v
  <2>2. Keeps(WithText(m, Start[f], w, Flag(f), b), [l EXCEPT ![f] = s], [u EXCEPT ![f] = v])
    BY <1>1, <1>2, <1>3, <2>1, StoreKeeps
  <2> QED
    BY <2>2 DEF b, v
<1>5. /\ mem' = WithText(m, Start[f], w, Flag(f), 1)
      /\ latest' = [l EXCEPT ![f] = s] /\ unsent' = [u EXCEPT ![f] = TRUE]
  BY DEF SetText, WithText, w
<1> QED
  BY <1>4, <1>5 DEF IInv

\* A tag of an answer keeps the invariant: strncpy stays in the array and cuts what is longer.
LEMMA ParseKeeps ==
    ASSUME IInv, NEW f \in TextFields, NEW s \in Answered, ParseText(f, s)
    PROVE  IInv'
<1> PICK m, l, u : m = mem /\ l = latest /\ u = unsent
  OBVIOUS
<1> DEFINE w == ParsedInto(f, s)
           t == ParsedText(f, s)
<1>1. Keeps(m, l, u)
  BY DEF IInv
<1>2. s \in Seq(Nat \ {0})
  BY DeviceTextsAssumption
<1>3. /\ w \in Seq(Nat) /\ Len(w) =< MaxLength[f] + 1
      /\ t \in Seq(Nat \ {0}) /\ Len(t) =< MaxLength[f] /\ Len(t) =< Len(w)
      /\ \A k \in 1..Len(t) : w[k] = t[k]
      /\ Len(t) < MaxLength[f] => Len(t) < Len(w) /\ w[Len(t) + 1] = 0
  BY <1>2, ParseWrites
<1>4. /\ mem' = WithText(m, Start[f], w, Flag(f), 0)
      /\ latest' = [l EXCEPT ![f] = t] /\ unsent' = [u EXCEPT ![f] = FALSE]
  BY DEF ParseText, WithText, ParsedText
<1> HIDE DEF w, t
<1>5. Keeps(WithText(m, Start[f], w, Flag(f), 0), [l EXCEPT ![f] = t], [u EXCEPT ![f] = FALSE])
  <2> DEFINE b == 0
             v == FALSE
  <2>1. b \in Nat /\ v \in BOOLEAN /\ (v <=> b # 0)
    OBVIOUS
  <2> HIDE DEF b, v
  <2>2. Keeps(WithText(m, Start[f], w, Flag(f), b), [l EXCEPT ![f] = t], [u EXCEPT ![f] = v])
    BY <1>1, <1>3, <2>1, StoreKeeps
  <2> QED
    BY <2>2 DEF b, v
<1> QED
  BY <1>4, <1>5 DEF IInv

\* Clearing the flags touches no text.
LEMMA ClearKeeps ==
    ASSUME NEW m, NEW l, NEW u, Keeps(m, l, u)
    PROVE  Keeps([m EXCEPT ![Flag("friendly_name")] = 0, ![Flag("location_note")] = 0],
                 l, [f \in TextFields |-> FALSE])
<1> DEFINE a == Flag("friendly_name")
           b == Flag("location_note")
           n == [m EXCEPT ![a] = 0, ![b] = 0]
<1>1. a \in Bytes /\ b \in Bytes /\ m \in [Bytes -> Nat]
  BY Layout DEF Keeps, TextFields
<1>2. n \in [Bytes -> Nat] /\ \A k \in Bytes : n[k] = IF k \in {a, b} THEN 0 ELSE m[k]
  <2> HIDE DEF a, b
  <2> QED
    BY <1>1
<1> HIDE DEF n
<1>3. ASSUME NEW f \in TextFields
      PROVE  n[Flag(f)] = 0 /\ HasText(n, Start[f], MaxLength[f], l[f])
  <2> DEFINE s == l[f]
             start == Start[f]
             max == MaxLength[f]
             flag == Flag(f)
  <2>1. flag \in {a, b} /\ start \in Bytes /\ max \in Nat /\ flag \in Bytes /\ flag = start + max
    BY Layout DEF TextFields
  <2>2. s \in Seq(Nat \ {0}) /\ HasText(m, start, max, s)
    BY DEF Keeps
  <2>3. ASSUME NEW k \in Bytes, k >= start /\ k < flag
        PROVE  n[k] = m[k]
    <3>1. ASSUME NEW g \in TextFields
          PROVE  k # Flag(g)
      <4> DEFINE c == Flag(g)
                 d == Start[g]
                 e == MaxLength[g]
      <4>1. /\ Size \in Nat /\ d \in Bytes /\ c \in Bytes /\ e \in Nat /\ c = d + e
            /\ c = flag \/ flag < d \/ c < start
        BY Layout
      <4> HIDE DEF c, d, e, flag, start, max
      <4>2. k # c
        BY <2>1, <2>3, <4>1, SMT DEF Bytes
      <4> QED
        BY <4>2 DEF c
    <3>2. k \notin {a, b}
      BY <3>1 DEF TextFields
    <3> QED
      BY <1>2, <3>2
  <2> HIDE DEF s, start, max, flag
  <2>4. HasText(n, start, max, s)
    BY <2>1, <2>2, <2>3, Untouched
  <2>5. n[flag] = 0
    BY <1>2, <2>1
  <2> QED
    BY <2>4, <2>5 DEF s, start, max, flag
<1>4. l \in [TextFields -> Seq(Nat \ {0})]
  BY DEF Keeps
<1> QED
  BY <1>2, <1>3, <1>4 DEF Keeps, n

-------------------------------------------------------------------------------

\* canopy_get_self_device has cleared the struct: two empty texts, nothing to send.
LEMMA InitHolds == TextsInit => IInv
<1> SUFFICES ASSUME TextsInit
             PROVE  IInv
  OBVIOUS
<1>1. mem \in [Bytes -> Nat] /\ \A k \in Bytes : mem[k] = 0
  BY DEF TextsInit, Bytes
<1>2. latest \in [TextFields -> Seq(Nat \ {0})] /\ unsent \in [TextFields -> BOOLEAN]
  BY SMT DEF TextsInit
<1>3. ASSUME NEW f \in TextFields
      PROVE  HasText(mem, Start[f], MaxLength[f], latest[f]) /\ ~Dirty(f) /\ ~unsent[f]
  <2>1. latest[f] = <<>> /\ Len(<<>>) = 0 /\ ~unsent[f]
    BY SMT DEF TextsInit
  <2>2. Start[f] + 0 \in Bytes /\ Start[f] + 0 = Start[f] /\ Flag(f) \in Bytes /\ 0 =< MaxLength[f]
    BY Layout, SMT DEF Bytes
  <2>3. 1..0 = {}
    BY SMT
  <2>4. HasText(mem, Start[f], MaxLength[f], <<>>)
    BY <1>1, <2>1, <2>2, <2>3 DEF HasText
  <2> QED
    BY <1>1, <2>1, <2>2, <2>4 DEF Dirty
<1> QED
  BY <1>1, <1>2, <1>3 DEF IInv, Keeps, Dirty

\* Every setter, every tag of an answer and every end of a push keeps the texts and the flags.
LEMMA StepHolds == IInv /\ [TextsNext]_texts => IInv'
<1> SUFFICES ASSUME IInv, [TextsNext]_texts
             PROVE  IInv'
  OBVIOUS
<1>1. ASSUME NEW f \in TextFields, NEW s \in Given, SetText(f, s)
      PROVE  IInv'
  BY <1>1, SetKeeps
<1>2. ASSUME NEW f \in TextFields, NEW s \in Answered, ParseText(f, s)
      PROVE  IInv'
  BY <1>2, ParseKeeps
<1>3. CASE SendTexts
  BY <1>3 DEF SendTexts, IInv
<1>4. CASE ClearFlags
  <2> PICK m, l, u : m = mem /\ l = latest /\ u = unsent
    OBVIOUS
  <2>1. Keeps([m EXCEPT ![Flag("friendly_name")] = 0, ![Flag("location_note")] = 0],
              l, [f \in TextFields |-> FALSE])
    BY ClearKeeps DEF IInv
  <2>2. /\ mem' = [m EXCEPT ![Flag("friendly_name")] = 0, ![Flag("location_note")] = 0]
        /\ latest' = l /\ unsent' = [f \in TextFields |-> FALSE]
    BY <1>4 DEF ClearFlags
  <2> QED
    BY <2>1, <2>2 DEF IInv
<1>5. CASE PushFails
  BY <1>5 DEF PushFails, IInv
<1>6. CASE UNCHANGED texts
  BY <1>6 DEF texts, IInv
<1> QED
  BY <1>1, <1>2, <1>3, <1>4, <1>5, <1>6 DEF TextsNext

\* Byte by byte, the text is the part of the struct that TextsKeep reads.
LEMMA KeepFollows == IInv => TextsKeep
<1> SUFFICES ASSUME IInv, NEW f \in TextFields
             PROVE  /\ SubSeq(mem, Start[f], Start[f] + Len(latest[f]) - 1) = latest[f]
                    /\ Len(latest[f]) < MaxLength[f] => mem[Start[f] + Len(latest[f])] = 0
                    /\ Dirty(f) <=> unsent[f]
  BY DEF TextsKeep
<1> DEFINE s == latest[f]
           a == Start[f]
           max == MaxLength[f]
<1>1. s \in Seq(Nat \ {0}) /\ HasText(mem, a, max, s) /\ (Dirty(f) <=> unsent[f]) /\ mem \in [1..Size -> Nat]
  BY DEF IInv, Keeps, Dirty, Bytes
<1>2. Size \in Nat /\ a \in 1..Size /\ max \in Nat /\ a + max \in 1..Size /\ Len(s) \in Nat /\ Len(s) =< max
  BY <1>1, Layout DEF HasText, Bytes
<1>3. \A k \in 1..Len(s) : mem[a + k - 1] = s[k]
  BY <1>1 DEF HasText
<1>4. SubSeq(mem, a, a + Len(s) - 1) = s
  <2> HIDE DEF s, a, max
  <2>1. mem \in Seq(Nat) /\ Len(mem) = Size
    BY <1>1, <1>2, SMT
  <2> DEFINE q == SubSeq(mem, a, a + Len(s) - 1)
  <2>2. /\ q \in Seq(Nat) /\ Len(q) = Len(s)
        /\ \A k \in 1..Len(s) : q[k] = mem[a + k - 1]
    BY <1>2, <2>1, SMT
  <2>3. \A k \in 1..Len(s) : q[k] = s[k]
    BY <1>3, <2>2
  <2> HIDE DEF q
  <2>4. q = s
    BY <1>1, <2>2, <2>3, SMT
  <2> QED
    BY <2>4 DEF q
<1> QED
  BY <1>1, <1>4 DEF HasText

\* Each text stays in its array as it was last set or answered, and its flag tells whether it
\* is still to be sent, for all lengths of the arrays: although the terminator of the longest text
\* that a setter of canopy_device.c takes is written on the flag.
THEOREM TextsStay == TextsSpec => []TextsKeep
<1>1. TextsSpec => []IInv
  BY InitHolds, StepHolds, PTL DEF TextsSpec
<1> QED
  BY <1>1, KeepFollows, PTL

-------------------------------------------------------------------------------
(* What is read out of an array                                            *)

\* A C string ends at the first NUL, and there is one: ws_connected is never set.
LEMMA CStringEnds ==
    ASSUME NEW m \in [Bytes -> Nat], m[Size] = 0, NEW a \in Bytes
    PROVE  \E z \in a..Size : /\ m[z] = 0 /\ \A j \in a..(z - 1) : m[j] # 0
                              /\ CString(m, a) = SubSeq(m, a, z - 1)
<1> DEFINE T == {k \in a..Size : m[k] = 0}
           P(k) == m[k] = 0 /\ \A j \in a..(k - 1) : m[j] # 0
<1>1. Size \in Nat /\ a \in Nat /\ a =< Size
  BY Layout DEF Bytes
<1>2. T \subseteq Nat /\ Size \in T
  BY <1>1, SMT
<1>3. PICK k \in T : \A j \in T : k =< j
  <2>1. T # {}
    BY <1>2
  <2> HIDE DEF T
  <2> QED
    BY <1>2, <2>1, LeastNatural
<1>4. k \in a..Size /\ P(k)
  <2>1. ASSUME NEW j \in a..(k - 1)
        PROVE  m[j] # 0
    <3>1. j \in a..Size /\ ~(k =< j)
      BY <1>1, <1>3, SMT
    <3> QED
      BY <1>3, <3>1
  <2> QED
    BY <1>3, <2>1
<1>5. \E i \in a..Size : P(i)
  BY <1>4
<1> DEFINE z == CHOOSE i \in a..Size : P(i)
<1>6. z \in a..Size /\ P(z)
  <2> HIDE DEF P
  <2> QED
    BY <1>5
<1>7. CString(m, a) = SubSeq(m, a, z - 1)
  BY DEF CString
<1> HIDE DEF z
<1> QED
  BY <1>6, <1>7

\* The C string in an array that holds a text: it begins with the text, and it is the text
\* unless that fills its array and the flag behind it is set.
LEMMA CStringOfText ==
    ASSUME NEW m \in [Bytes -> Nat], m[Size] = 0, NEW a \in Bytes, NEW max \in Nat, NEW flag \in Bytes,
           flag = a + max, NEW s \in Seq(Nat \ {0}), HasText(m, a, max, s)
    PROVE  /\ CString(m, a) \in Seq(Nat) /\ Len(s) =< Len(CString(m, a))
           /\ \A k \in 1..Len(s) : CString(m, a)[k] = s[k]
           /\ Len(s) < max => CString(m, a) = s
           /\ Len(s) = max /\ m[flag] # 0 => Len(CString(m, a)) > Len(s)
<1> DEFINE c == CString(m, a)
           l == Len(s)
<1>1. PICK z \in a..Size : /\ m[z] = 0 /\ \A j \in a..(z - 1) : m[j] # 0
                           /\ c = SubSeq(m, a, z - 1)
  BY CStringEnds
<1>2. Size \in Nat /\ a \in 1..Size /\ flag \in 1..Size /\ l \in Nat /\ l =< max
  BY Layout DEF Bytes, HasText
<1>3. \A k \in 1..l : m[a + k - 1] = s[k] /\ s[k] # 0
  <2>1. \A k \in 1..l : s[k] # 0
    BY SMT
  <2> QED
    BY <2>1 DEF HasText
<1>4. l < max => m[a + l] = 0
  BY DEF HasText
<1> HIDE DEF c, l
<1>5. c \in Seq(Nat) /\ Len(c) = z - a /\ \A k \in 1..(z - a) : c[k] = m[a + k - 1]
  <2>1. m \in Seq(Nat) /\ Len(m) = Size
    BY <1>2, SMT DEF Bytes
  <2> QED
    BY <1>1, <1>2, <2>1, SMT
<1>6. z >= a + l
  <2>1. SUFFICES ASSUME ~(z >= a + l)
                 PROVE  FALSE
    OBVIOUS
  <2>2. z - a + 1 \in 1..l /\ a + (z - a + 1) - 1 = z
    BY <1>1, <1>2, <2>1, SMT
  <2> QED
    BY <1>1, <1>3, <2>2
<1>7. \A k \in 1..l : c[k] = s[k]
  <2>1. ASSUME NEW k \in 1..l
        PROVE  k \in 1..(z - a)
    BY <1>1, <1>2, <1>6, SMT
  <2> QED
    BY <1>3, <1>5, <2>1
<1>8. ASSUME l < max
      PROVE  c = s
  <2>1. ~(z > a + l)
    <3>1. SUFFICES ASSUME z > a + l
                   PROVE  FALSE
      OBVIOUS
    <3>2. a + l \in a..(z - 1)
      BY <1>1, <1>2, <3>1, SMT
    <3> QED
      BY <1>1, <1>4, <1>8, <3>2
  <2>2. Len(c) = l
    BY <1>1, <1>2, <1>5, <1>6, <2>1, SMT
  <2>3. Len(s) = Len(c) /\ \A k \in 1..Len(s) : c[k] = s[k]
    BY <1>7, <2>2 DEF l
  <2>4. s \in Seq(Nat)
    BY SMT
  <2> QED
    BY <1>5, <2>3, <2>4, SMT
<1>9. ASSUME l = max, m[flag] # 0
      PROVE  Len(c) > l
  <2>1. z # a + l
    BY <1>1, <1>9
  <2> QED
    BY <1>1, <1>2, <1>5, <1>6, <2>1, SMT
<1>10. l =< Len(c)
  BY <1>1, <1>2, <1>5, <1>6, SMT
<1> QED
  BY <1>5, <1>7, <1>8, <1>9, <1>10 DEF c, l

\* ws_connected lies behind both flags: no store reaches it.
LEMMA EndStays ==
    ASSUME IInv, mem[Size] = 0, [TextsNext]_texts
    PROVE  mem'[Size] = 0
<1>1. Size \in Bytes /\ mem \in [Bytes -> Nat] /\ \A f \in TextFields : Flag(f) < Size
  <2>1. mem \in [Bytes -> Nat]
    BY DEF IInv, Keeps
  <2> QED
    BY <2>1, DeviceTextsAssumption, SMT DEF Size, TextFields, Start, Flag, MaxLength, Bytes
<1>2. ASSUME NEW f \in TextFields, NEW w \in Seq(Nat), Len(w) =< MaxLength[f] + 1, NEW b \in Nat
      PROVE  WithText(mem, Start[f], w, Flag(f), b)[Size] = mem[Size]
  <2> DEFINE start == Start[f]
             max == MaxLength[f]
             flag == Flag(f)
  <2>1. start \in Bytes /\ max \in Nat /\ flag \in Bytes /\ flag = start + max
    BY Layout
  <2>2. Len(w) =< max + 1 /\ Size > flag
    BY <1>1, <1>2, <2>1, SMT DEF Bytes
  <2> HIDE DEF start, max, flag
  <2>3. WithText(mem, start, w, flag, b)[Size] = mem[Size]
    BY <1>1, <2>1, <2>2, StoreText
  <2> QED
    BY <2>3 DEF start, max, flag
<1>3. ASSUME NEW f \in TextFields, NEW s \in Given, SetText(f, s)
      PROVE  mem'[Size] = 0
  <2> DEFINE w == SetInto(s)
  <2>1. s \in Seq(Nat \ {0}) /\ Len(s) =< MaxLength[f] /\ MaxLength[f] \in Nat
    BY <1>3, DeviceTextsAssumption, Layout DEF SetText, Allows
  <2>2. w \in Seq(Nat) /\ Len(w) =< MaxLength[f] + 1
    BY <2>1, SetWrites
  <2>3. mem' = WithText(mem, Start[f], w, Flag(f), 1)
    BY <1>3 DEF SetText, WithText
  <2> HIDE DEF w
  <2> QED
    BY <1>2, <2>2, <2>3
<1>4. ASSUME NEW f \in TextFields, NEW s \in Answered, ParseText(f, s)
      PROVE  mem'[Size] = 0
  <2> DEFINE w == ParsedInto(f, s)
  <2>1. s \in Seq(Nat \ {0})
    BY DeviceTextsAssumption
  <2>2. w \in Seq(Nat) /\ Len(w) =< MaxLength[f] + 1
    BY <2>1, ParseWrites
  <2>3. mem' = WithText(mem, Start[f], w, Flag(f), 0)
    BY <1>4 DEF ParseText, WithText
  <2> HIDE DEF w
  <2> QED
    BY <1>2, <2>2, <2>3
<1>5. CASE ClearFlags
  <2>1. Size # Flag("friendly_name") /\ Size # Flag("location_note")
    <3>1. \A f \in TextFields : Flag(f) \in Nat /\ Size \in Nat
      BY Layout DEF Bytes
    <3>2. \A f \in TextFields : Size # Flag(f)
      BY <1>1, <3>1, SMT
    <3> QED
      BY <3>2 DEF TextFields
  <2> DEFINE a == Flag("friendly_name")
             b == Flag("location_note")
  <2>2. mem' = [mem EXCEPT ![a] = 0, ![b] = 0]
    BY <1>5 DEF ClearFlags
  <2> HIDE DEF a, b
  <2>3. Size # a /\ Size # b
    BY <2>1 DEF a, b
  <2> QED
    BY <1>1, <2>2, <2>3
<1>6. CASE SendTexts \/ PushFails \/ UNCHANGED texts
  BY <1>6 DEF SendTexts, PushFails, texts
<1> QED
  BY <1>3, <1>4, <1>5, <1>6 DEF TextsNext

\* An array and its flag, as CStringOfText takes them.
LEMMA FieldRead ==
    ASSUME IInv, mem[Size] = 0, NEW f \in TextFields
    PROVE  /\ CString(mem, Start[f]) \in Seq(Nat) /\ latest[f] \in Seq(Nat \ {0})
           /\ Len(latest[f]) =< MaxLength[f] /\ MaxLength[f] \in Nat
           /\ Len(latest[f]) =< Len(CString(mem, Start[f]))
           /\ \A k \in 1..Len(latest[f]) : CString(mem, Start[f])[k] = latest[f][k]
           /\ Len(latest[f]) < MaxLength[f] => CString(mem, Start[f]) = latest[f]
           /\ Len(latest[f]) = MaxLength[f] /\ Dirty(f) => Len(CString(mem, Start[f])) > Len(latest[f])
<1> PICK m : m = mem
  OBVIOUS
<1> DEFINE a == Start[f]
           max == MaxLength[f]
           flag == Flag(f)
           s == latest[f]
<1>1. m \in [Bytes -> Nat] /\ m[Size] = 0 /\ s \in Seq(Nat \ {0}) /\ HasText(m, a, max, s)
  BY DEF IInv, Keeps
<1>2. a \in Bytes /\ max \in Nat /\ flag \in Bytes /\ flag = a + max
  BY Layout
<1>3. Len(s) =< max
  BY <1>1 DEF HasText
<1> HIDE DEF a, max, flag, s
<1>4. /\ CString(m, a) \in Seq(Nat) /\ Len(s) =< Len(CString(m, a))
      /\ \A k \in 1..Len(s) : CString(m, a)[k] = s[k]
      /\ Len(s) < max => CString(m, a) = s
      /\ Len(s) = max /\ m[flag] # 0 => Len(CString(m, a)) > Len(s)
  BY <1>1, <1>2, CStringOfText
<1> QED
  BY <1>1, <1>2, <1>3, <1>4 DEF a, max, flag, s, Dirty

\* What a push sends, as long as it lasts.
LEMMA SentStep ==
    ASSUME IInv, mem[Size] = 0, SentIsText, [TextsNext]_texts
    PROVE  SentIsText'
<1>1. CASE SendTexts
  <2> SUFFICES ASSUME NEW f \in TextFields, sent'[f] # <<>>, unsent'[f]
               PROVE  IF Len(latest'[f]) < MaxLength[f] THEN sent'[f] = latest'[f]
                      ELSE Len(sent'[f]) > Len(latest'[f])
    BY DEF SentIsText
  <2>1. /\ sent'[f] = IF Dirty(f) THEN CString(mem, Start[f]) ELSE <<>>
        /\ latest' = latest /\ unsent' = unsent
    BY <1>1 DEF SendTexts
  <2>2. Dirty(f) /\ sent'[f] = CString(mem, Start[f])
    BY <2>1
  <2> DEFINE c == CString(mem, Start[f])
             s == latest[f]
             max == MaxLength[f]
  <2>3. /\ s \in Seq(Nat \ {0}) /\ Len(s) =< max /\ max \in Nat
        /\ Len(s) < max => c = s
        /\ Len(s) = max => Len(c) > Len(s)
    BY <2>2, FieldRead
  <2> HIDE DEF c, s, max
  <2>4. IF Len(s) < max THEN c = s ELSE Len(c) > Len(s)
    <3>1. Len(s) \in Nat /\ (Len(s) < max \/ Len(s) = max)
      BY <2>3, SMT
    <3> QED
      BY <2>3, <3>1, SMT
  <2> QED
    BY <2>1, <2>2, <2>4 DEF c, s, max
<1>2. ASSUME NEW f \in TextFields, NEW s \in Answered, ParseText(f, s)
      PROVE  SentIsText'
  <2> SUFFICES ASSUME NEW g \in TextFields, sent'[g] # <<>>, unsent'[g]
               PROVE  IF Len(latest'[g]) < MaxLength[g] THEN sent'[g] = latest'[g]
                      ELSE Len(sent'[g]) > Len(latest'[g])
    BY DEF SentIsText
  <2>1. g # f /\ latest'[g] = latest[g] /\ sent' = sent /\ unsent[g] /\ in_push
    BY <1>2 DEF ParseText, IInv, Keeps
  <2> QED
    BY <2>1 DEF SentIsText
<1>3. ASSUME NEW f \in TextFields, NEW s \in Given, SetText(f, s)
      PROVE  SentIsText'
  BY <1>3 DEF SetText, SentIsText
<1>4. CASE ClearFlags \/ PushFails
  BY <1>4 DEF ClearFlags, PushFails, SentIsText
<1>5. CASE UNCHANGED texts
  BY <1>5 DEF texts, SentIsText
<1> QED
  BY <1>1, <1>2, <1>3, <1>4, <1>5 DEF TextsNext

\* The first n elements of a sequence.
LEMMA PrefixHolds ==
    ASSUME NEW S, NEW s \in Seq(S), NEW n \in Nat, n =< Len(s)
    PROVE  /\ SubSeq(s, 1, n) \in Seq(S) /\ Len(SubSeq(s, 1, n)) = n
           /\ \A k \in 1..n : SubSeq(s, 1, n)[k] = s[k]
<1>1. \A k \in 1..n : s[k] \in S
  OBVIOUS
<1> DEFINE r == SubSeq(s, 1, n)
<1>2. /\ r \in Seq(S) /\ Len(r) = IF 1 =< n THEN n - 1 + 1 ELSE 0
      /\ \A k \in 1..(n - 1 + 1) : r[k] = s[1 + k - 1]
  BY <1>1, SubSeqProperties
<1> HIDE DEF r
<1>3. Len(r) = n /\ \A k \in 1..n : r[k] = s[k]
  <2>1. n - 1 + 1 = n /\ \A k \in 1..n : 1 + k - 1 = k
    OBVIOUS
  <2> QED
    BY <1>2, <2>1
<1> QED
  BY <1>2, <1>3 DEF r

\* What the getters find is the text, as far as strnlen and the caller's buffer let them.
LEMMA GotFollows == IInv /\ mem[Size] = 0 => GotIsText
<1> SUFFICES ASSUME IInv, mem[Size] = 0, NEW f \in TextFields, NEW n \in 0..(NoteMax + 1)
             PROVE  /\ n > Len(latest[f]) /\ Len(latest[f]) < MaxLength[f] =>
                          Gets(f, n) = [err |-> "SUCCESS", got |-> latest[f]]
                    /\ n > Len(latest[f]) => Gets(f, n).err = "SUCCESS"
                    /\ n < Len(latest[f]) => Gets(f, n).err = "BUFFER_TOO_SMALL"
  BY DEF GotIsText
<1> DEFINE c == CString(mem, Start[f])
           s == latest[f]
           max == MaxLength[f]
           t == SubSeq(c, 1, Shorter(n - 1, Len(c)))
<1>1. /\ c \in Seq(Nat) /\ s \in Seq(Nat \ {0}) /\ Len(s) =< max /\ max \in Nat
      /\ Len(s) =< Len(c)
      /\ \A k \in 1..Len(s) : c[k] = s[k]
      /\ Len(s) < max => c = s
  BY FieldRead
<1>2. Gets(f, n) = IF Shorter(Len(c), max) > n THEN [err |-> "BUFFER_TOO_SMALL", got |-> <<>>]
                   ELSE [err |-> "SUCCESS", got |-> t]
  BY DEF Gets, Measured
<1>3. n \in Nat
  BY DeviceTextsAssumption, SMT
<1> HIDE DEF c, s, max
<1>4. Len(s) \in Nat /\ Len(c) \in Nat /\ Shorter(Len(c), max) = Len(s)
  <2>1. Len(s) \in Nat /\ Len(c) \in Nat
    BY <1>1, SMT
  <2>2. CASE Len(s) < max
    BY <1>1, <2>1, <2>2, SMT DEF Shorter
  <2>3. CASE Len(s) = max
    BY <1>1, <2>1, <2>3, SMT DEF Shorter
  <2> QED
    BY <1>1, <2>1, <2>2, <2>3, SMT
<1>5. ASSUME n > Len(s), Len(s) < max
      PROVE  t = s
  <2>1. Shorter(n - 1, Len(c)) = Len(c) /\ c = s
    BY <1>1, <1>3, <1>4, <1>5, SMT DEF Shorter
  <2> QED
    BY <1>1, <2>1, SMT
<1> HIDE DEF t
<1>7. /\ n > Len(s) /\ Len(s) < max => Gets(f, n) = [err |-> "SUCCESS", got |-> s]
      /\ n > Len(s) => Gets(f, n).err = "SUCCESS"
      /\ n < Len(s) => Gets(f, n).err = "BUFFER_TOO_SMALL"
  <2>1. Shorter(Len(c), max) > n <=> n < Len(s)
    BY <1>3, <1>4, SMT
  <2>2. n > Len(s) => ~(n < Len(s))
    BY <1>3, <1>4, SMT
  <2> QED
    BY <1>2, <1>5, <2>1, <2>2
<1> QED
  BY <1>7 DEF s, max

\* The bytes, and the texts in a payload.
PushInv == IInv /\ mem[Size] = 0 /\ SentIsText

\* From the cleared struct on.
LEMMA PushInvariance == TextsSpec => []PushInv
<1>1. TextsInit => PushInv
  <2> SUFFICES ASSUME TextsInit
               PROVE  PushInv
    OBVIOUS
  <2>1. Size \in 1..Size
    BY DeviceTextsAssumption, SMT DEF Size
  <2>2. mem[Size] = 0
    BY <2>1 DEF TextsInit
  <2> QED
    BY <2>2, InitHolds DEF PushInv, SentIsText, TextsInit
<1>2. PushInv /\ [TextsNext]_texts => PushInv'
  <2> SUFFICES ASSUME PushInv, [TextsNext]_texts
               PROVE  PushInv'
    OBVIOUS
  <2>1. IInv' /\ mem'[Size] = 0 /\ SentIsText'
    BY StepHolds, EndStays, SentStep DEF PushInv
  <2> QED
    BY <2>1 DEF PushInv
<1> QED
  BY <1>1, <1>2, PTL DEF TextsSpec

\* A push that "%s" prints a text into sends the text, and only a text that fills its array
\* is sent with what lies behind it: for all lengths of the arrays.
THEOREM TextsAreSent == TextsSpec => []SentIsText
<1>1. PushInv => SentIsText
  BY DEF PushInv
<1> QED
  BY <1>1, PushInvariance, PTL

\* canopy_device_get_friendly_name and canopy_device_get_location_note return a text that is shorter
\* than its array if the buffer is longer than the text, and refuse a buffer that is shorter: for all
\* lengths of the arrays and of the buffer.  Of a buffer as long as the text it says nothing.
THEOREM TextsAreGot == TextsSpec => []GotIsText
<1>1. PushInv => GotIsText
  BY GotFollows DEF PushInv
<1> QED
  BY <1>1, PushInvariance, PTL

-------------------------------------------------------------------------------
(* The names of the variables                                              *)

\* The list and the application's declarations, as far as the names go.
NamesSpec == NamesInit /\ [][NamesNext]_names

\* A name that was declared, short enough to be kept, and that no kept beginning equals.
Alone(s, w) == s \in w /\ ~Long(s) /\ \A t \in w : Long(t) => Kept(t) # s

\* The only place of s in c is k.
OnlyAt(c, s, k) == k \in 1..Len(c) /\ c[k] = s /\ \A j \in 1..Len(c) : c[j] = s => j = k

\* The inductive invariant: all names in the list are beginnings of declared ones, and one that
\* stands alone has its one place, which is also the application's if it declared it.
NamesInv(c, h, w) ==
    /\ c \in Seq({Kept(s) : s \in Spellings}) /\ w \subseteq Spellings /\ h \in [Spellings -> Nat]
    /\ \A k \in 1..Len(c) : \E t \in w : c[k] = Kept(t)
    /\ \A s \in Spellings \ w : h[s] = 0
    /\ \A s \in Spellings : Alone(s, w) =>
          \E k \in 1..Len(c) : OnlyAt(c, s, k) /\ h[s] \in {0, Len(c) + 1 - k}

\* Both cuts leave a name that is kept as it is, and none that is kept is as long as the others.
LEMMA Cuts ==
    ASSUME NEW s \in Spellings
    PROVE  /\ Cut(s, Cap - 1) = s /\ s \in Seq(STRING)
           /\ ~Long(s) => Kept(s) = s
           /\ Kept(s) \in Seq(STRING) /\ ~(Len(Kept(s)) > Cap - 2)
<1>1. Cap \in Nat /\ Cap > 2 /\ s \in Seq(STRING) /\ Len(s) < Cap /\ Len(s) \in Nat
  BY VarNamesAssumption, SMT
<1>2. ASSUME NEW n \in Nat
      PROVE  /\ Cut(s, n) \in Seq(STRING) /\ ~(Len(Cut(s, n)) > n)
             /\ Len(s) =< n => Cut(s, n) = s
  <2> DEFINE d == Min({Len(s), n})
  <2>1. d \in {Len(s), n} /\ d =< Len(s) /\ d =< n
    <3> DEFINE Least(x) == x \in {Len(s), n} /\ \A y \in {Len(s), n} : x =< y
    <3>1. Len(s) =< n \/ n =< Len(s)
      BY <1>1, SMT
    <3>2. \E x : Least(x)
      BY <1>1, <3>1, SMT
    <3>3. d = CHOOSE x : Least(x)
      BY DEF Min
    <3> HIDE DEF d
    <3>4. Least(d)
      <4> HIDE DEF Least
      <4> QED
        BY <3>2, <3>3
    <3> QED
      BY <3>4
  <2>2. Cut(s, n) = SubSeq(s, 1, d)
    BY DEF Cut
  <2> HIDE DEF d
  <2>3. SubSeq(s, 1, d) \in Seq(STRING) /\ Len(SubSeq(s, 1, d)) = d
    BY <1>1, <2>1, SMT
  <2>4. ASSUME Len(s) =< n
        PROVE  SubSeq(s, 1, d) = s
    <3>1. d = Len(s)
      BY <1>1, <2>1, <2>4, SMT
    <3> QED
      BY <1>1, <3>1, SMT
  <2> QED
    BY <1>1, <2>1, <2>2, <2>3, <2>4, SMT
<1>3. Cap - 1 \in Nat /\ Cap - 2 \in Nat /\ Len(s) =< Cap - 1 /\ (~(Len(s) > Cap - 2) => Len(s) =< Cap - 2)
  BY <1>1, SMT
<1> QED
  BY <1>1, <1>2, <1>3 DEF Kept, Long

\* find_name returns a place of the name, if it has one.
LEMMA Finds ==
    ASSUME chain \in Seq({Kept(s) : s \in Spellings}), NEW s \in Spellings
    PROVE  /\ FindName(s) = 0 => \A k \in 1..Len(chain) : chain[k] # s
           /\ FindName(s) # 0 => FindName(s) \in 1..Len(chain) /\ chain[FindName(s)] = s
           /\ FindName(s) \in Nat
<1> DEFINE I == {i \in 1..Len(chain) : Compares(chain[i], s)}
           f == FindName(s)
<1>1. f = IF I # {} THEN Min(I) ELSE 0
  BY DEF FindName, SelectInSeq
<1>2. \A i \in 1..Len(chain) : Compares(chain[i], s) <=> chain[i] = s
  BY Cuts DEF Compares
<1>3. Len(chain) \in Nat
  BY SMT
<1>4. CASE I = {}
  BY <1>1, <1>2, <1>4
<1>5. CASE I # {}
  <2>1. I \subseteq Nat
    BY <1>3, SMT
  <2>2. \E x \in I : \A y \in I : x =< y
    <3> HIDE DEF I
    <3> QED
      BY <1>5, <2>1, LeastNatural
  <2>3. f \in I
    <3> HIDE DEF I
    <3>1. Min(I) \in I
      BY <2>2 DEF Min
    <3> HIDE DEF f
    <3> QED
      BY <1>1, <1>5, <3>1
  <2>4. f \in 1..Len(chain) /\ chain[f] = s
    BY <1>2, <2>3
  <2>5. f # 0 /\ f \in Nat
    BY <1>3, <2>4, SMT
  <2> HIDE DEF f
  <2> QED
    BY <2>4, <2>5 DEF f
<1> QED
  BY <1>4, <1>5

\* Declaring a name that is found, or one that is not and goes to the front.
LEMMA DeclaredKeeps ==
    ASSUME NamesInv(chain, handle, used), NEW s \in Spellings, Declared(s), NEW h \in [Spellings -> Nat],
           \A r \in Spellings \ {s} : h[r] = handle[r],
           h[s] = handle[s] \/ h[s] = IF FindName(s) # 0 THEN FromEnd(FindName(s)) ELSE Len(chain) + 1
    PROVE  NamesInv(chain', h, used')
<1> PICK c, w, f : c = chain /\ w = used /\ f = FindName(s)
  OBVIOUS
<1> DEFINE v == w \union {s}
<1>1. /\ c \in Seq({Kept(t) : t \in Spellings}) /\ w \subseteq Spellings /\ v \subseteq Spellings
      /\ Len(c) \in Nat
      /\ \A k \in 1..Len(c) : \E t \in w : c[k] = Kept(t)
      /\ \A r \in Spellings \ w : handle[r] = 0
      /\ \A r \in Spellings : Alone(r, w) =>
            \E k \in 1..Len(c) : OnlyAt(c, r, k) /\ handle[r] \in {0, Len(c) + 1 - k}
  BY SMT DEF NamesInv
<1>2. /\ f = 0 => \A k \in 1..Len(c) : c[k] # s
      /\ f # 0 => f \in 1..Len(c) /\ c[f] = s
      /\ f \in Nat
  BY Finds DEF NamesInv
<1>3. used' = v
  BY DEF Declared
<1>4. \A r \in Spellings \ v : h[r] = 0
  BY <1>1
<1>5. ASSUME NEW r \in Spellings, Alone(r, v), r # s
      PROVE  Alone(r, w) /\ Kept(s) # r /\ h[r] = handle[r]
  BY <1>5, Cuts DEF Alone
<1>6. ASSUME Alone(s, v), s \in w
      PROVE  \E k \in 1..Len(c) : OnlyAt(c, s, k) /\ handle[s] \in {0, Len(c) + 1 - k}
  BY <1>1, <1>6 DEF Alone
<1>7. ASSUME Alone(s, v), s \notin w
      PROVE  handle[s] = 0 /\ \A k \in 1..Len(c) : c[k] # s
  <2>1. ASSUME NEW k \in 1..Len(c), c[k] = s
        PROVE  FALSE
    <3>1. PICK t \in w : s = Kept(t)
      BY <1>1, <2>1
    <3>2. t \in Spellings /\ ~Long(t)
      BY <1>1, <1>7, <3>1 DEF Alone
    <3> QED
      BY <1>7, <3>1, <3>2, Cuts
  <2> QED
    BY <1>1, <1>7, <2>1
<1>8. CASE f # 0
  <2>1. chain' = c
    BY <1>8 DEF Declared
  <2>2. h[s] \in {handle[s], Len(c) + 1 - f}
    BY <1>8 DEF FromEnd
  <2>3. ASSUME NEW r \in Spellings, Alone(r, v)
        PROVE  \E k \in 1..Len(c) : OnlyAt(c, r, k) /\ h[r] \in {0, Len(c) + 1 - k}
    <3>1. CASE r # s
      BY <1>1, <1>5, <2>3, <3>1
    <3>2. CASE r = s
      <4>1. s \in w
        BY <1>2, <1>7, <1>8, <2>3, <3>2
      <4>2. PICK k \in 1..Len(c) : OnlyAt(c, s, k) /\ handle[s] \in {0, Len(c) + 1 - k}
        BY <1>6, <2>3, <3>2, <4>1
      <4>3. k = f
        BY <1>2, <1>8, <4>2 DEF OnlyAt
      <4> QED
        BY <2>2, <3>2, <4>2, <4>3
    <3> QED
      BY <3>1, <3>2
  <2>4. \A k \in 1..Len(c) : \E t \in v : c[k] = Kept(t)
    BY <1>1
  <2> QED
    BY <1>1, <1>3, <1>4, <2>1, <2>3, <2>4 DEF NamesInv
<1>9. CASE f = 0
  <2> DEFINE d == <<Kept(s)>> \o c
  <2>1. chain' = d
    BY <1>9 DEF Declared
  <2>2. /\ d \in Seq({Kept(t) : t \in Spellings}) /\ Len(d) = Len(c) + 1 /\ d[1] = Kept(s)
        /\ \A k \in 1..Len(c) : k + 1 \in 1..Len(d) /\ d[k + 1] = c[k]
        /\ \A j \in 1..Len(d) : j = 1 \/ (j - 1 \in 1..Len(c) /\ d[j] = c[j - 1])
        /\ 1 \in 1..Len(d)
    <3> DEFINE S == {Kept(t) : t \in Spellings}
               q == Kept(s)
    <3>1. q \in S /\ c \in Seq(S)
      BY <1>1
    <3> HIDE DEF S, q
    <3> QED
      BY <1>1, <3>1, SMT
  <2>3. h[s] \in {handle[s], Len(d)}
    BY <1>9, <2>2
  <2> HIDE DEF d
  <2>4. ASSUME NEW r \in Spellings, Alone(r, v)
        PROVE  \E k \in 1..Len(d) : OnlyAt(d, r, k) /\ h[r] \in {0, Len(d) + 1 - k}
    <3>1. CASE r # s
      <4>1. PICK k \in 1..Len(c) : OnlyAt(c, r, k) /\ handle[r] \in {0, Len(c) + 1 - k}
        BY <1>1, <1>5, <2>4, <3>1
      <4>2. Kept(s) # r /\ h[r] = handle[r]
        BY <1>5, <2>4, <3>1
      <4>3. k \in Nat /\ Len(d) + 1 - (k + 1) = Len(c) + 1 - k /\ \A j \in 1..Len(d) : j - 1 = k => j = k + 1
        BY <1>1, <2>2, SMT
      <4>4. OnlyAt(d, r, k + 1)
        <5>1. k + 1 \in 1..Len(d) /\ d[k + 1] = r
          BY <2>2, <4>1 DEF OnlyAt
        <5>2. ASSUME NEW j \in 1..Len(d), d[j] = r
              PROVE  j = k + 1
          <6>1. j # 1
            BY <2>2, <4>2, <5>2
          <6>2. j - 1 \in 1..Len(c) /\ c[j - 1] = r
            BY <2>2, <5>2, <6>1
          <6>3. j - 1 = k
            BY <4>1, <6>2 DEF OnlyAt
          <6> QED
            BY <4>3, <6>3
        <5> QED
          BY <5>1, <5>2 DEF OnlyAt
      <4>5. (Len(d) + 1) - (k + 1) = (Len(c) + 1) - k
        BY <1>1, <2>2, SMT
      <4> QED
        BY <4>1, <4>2, <4>4, <4>5 DEF OnlyAt
    <3>2. CASE r = s
      <4>1. s \notin w /\ handle[s] = 0
        BY <1>2, <1>6, <1>7, <1>9, <2>4, <3>2 DEF OnlyAt
      <4>2. d[1] = s
        BY <2>2, <2>4, <3>2, Cuts DEF Alone
      <4>3. OnlyAt(d, s, 1)
        <5>1. ASSUME NEW j \in 1..Len(d), d[j] = s
              PROVE  j = 1
          <6>1. CASE j # 1
            <7>1. j - 1 \in 1..Len(c) /\ c[j - 1] = s
              BY <2>2, <5>1, <6>1
            <7> QED
              BY <1>2, <1>9, <7>1
          <6> QED
            BY <6>1
        <5> QED
          BY <2>2, <4>2, <5>1 DEF OnlyAt
      <4>4. Len(d) + 1 - 1 = Len(d)
        BY <1>1, <2>2, SMT
      <4> QED
        BY <2>2, <2>3, <3>2, <4>1, <4>3, <4>4
    <3> QED
      BY <3>1, <3>2
  <2>5. ASSUME NEW k \in 1..Len(d)
        PROVE  \E t \in v : d[k] = Kept(t)
    <3>1. CASE k = 1
      BY <2>2, <3>1
    <3>2. CASE k # 1
      <4>1. k - 1 \in 1..Len(c) /\ d[k] = c[k - 1]
        BY <2>2, <3>2
      <4> QED
        BY <1>1, <4>1
    <3> QED
      BY <3>1, <3>2
  <2> QED
    BY <1>1, <1>3, <1>4, <2>1, <2>2, <2>4, <2>5 DEF NamesInv
<1> QED
  BY <1>8, <1>9

\* Each declaration, on either side, keeps the invariant.
LEMMA NamesInvariance == NamesSpec => []NamesInv(chain, handle, used)
<1>1. NamesInit => NamesInv(chain, handle, used)
  <2> SUFFICES ASSUME NamesInit
               PROVE  NamesInv(chain, handle, used)
    OBVIOUS
  <2>1. chain \in Seq({Kept(s) : s \in Spellings}) /\ Len(chain) = 0 /\ 1..0 = {}
    BY SMT DEF NamesInit
  <2> QED
    BY <2>1 DEF NamesInit, NamesInv, Alone
<1>2. NamesInv(chain, handle, used) /\ [NamesNext]_names => NamesInv(chain, handle, used)'
  <2> SUFFICES ASSUME NamesInv(chain, handle, used), [NamesNext]_names
               PROVE  NamesInv(chain', handle', used')
    OBVIOUS
  <2>1. CASE UNCHANGED names
    BY <2>1 DEF names
  <2>2. ASSUME NEW s \in Spellings, ParseDecl(s)
        PROVE  NamesInv(chain', handle', used')
    <3>1. Declared(s) /\ handle' = handle /\ handle \in [Spellings -> Nat]
      BY <2>2 DEF ParseDecl, NamesInv
    <3> QED
      BY <3>1, DeclaredKeeps
  <2>3. ASSUME NEW s \in Spellings, DeclareVar(s)
        PROVE  NamesInv(chain', handle', used')
    <3> DEFINE p == IF FindName(s) # 0 THEN FromEnd(FindName(s)) ELSE Len(chain) + 1
               h == [handle EXCEPT ![s] = p]
    <3>1. Declared(s) /\ handle' = h /\ handle \in [Spellings -> Nat]
      BY <2>3 DEF DeclareVar, NamesInv
    <3>2. p \in Nat
      <4>1. chain \in Seq({Kept(t) : t \in Spellings})
        BY DEF NamesInv
      <4>2. PICK f : f = FindName(s)
        OBVIOUS
      <4>3. Len(chain) \in Nat /\ f \in Nat /\ (f # 0 => f \in 1..Len(chain))
        BY <4>1, <4>2, Finds, SMT
      <4>4. f # 0 => Len(chain) + 1 - f \in Nat
        BY <4>3, SMT
      <4> QED
        BY <4>2, <4>3, <4>4, SMT DEF FromEnd
    <3>3. h \in [Spellings -> Nat] /\ h[s] = p /\ \A r \in Spellings \ {s} : h[r] = handle[r]
      BY <3>1, <3>2
    <3> HIDE DEF h
    <3>4. NamesInv(chain', h, used')
      BY <3>1, <3>3, DeclaredKeeps
    <3> QED
      BY <3>1, <3>4
  <2> QED
    BY <2>1, <2>2, <2>3 DEF NamesNext
<1> QED
  BY <1>1, <1>2, PTL DEF NamesSpec

\* In a list of any number of variables with arrays of any length, a name that was declared has one
\* struct, the one that find_name returns and that canopy_device_var_declare gave out; a name that
\* create_variable cut is never found again.
THEOREM OneStructPerName == NamesSpec => []StructPerName
<1>1. NamesInv(chain, handle, used) => StructPerName
  <2> SUFFICES ASSUME NamesInv(chain, handle, used), NEW s \in Spellings
               PROVE  /\ Long(s) => FindName(s) = 0
                      /\ FindName(s) # 0 => chain[FindName(s)] = s
                      /\ Alone(s, used) =>
                            /\ Cardinality({k \in DOMAIN chain : chain[k] = s}) = 1
                            /\ handle[s] \in {0, FromEnd(FindName(s))}
    BY DEF StructPerName, Alone
  <2>1. chain \in Seq({Kept(t) : t \in Spellings})
    BY DEF NamesInv
  <2>2. ASSUME Long(s), FindName(s) # 0
        PROVE  FALSE
    <3>1. PICK t \in Spellings : s = Kept(t)
      <4>1. FindName(s) \in 1..Len(chain) /\ chain[FindName(s)] = s
        BY <2>1, <2>2, Finds
      <4> QED
        BY <4>1 DEF NamesInv
    <3> QED
      BY <2>2, <3>1, Cuts DEF Long
  <2>3. FindName(s) # 0 => chain[FindName(s)] = s
    BY <2>1, Finds
  <2>4. ASSUME Alone(s, used)
        PROVE  /\ Cardinality({k \in DOMAIN chain : chain[k] = s}) = 1
               /\ handle[s] \in {0, FromEnd(FindName(s))}
    <3>1. PICK k \in 1..Len(chain) : OnlyAt(chain, s, k) /\ handle[s] \in {0, Len(chain) + 1 - k}
      BY <2>4 DEF NamesInv
    <3>2. {j \in DOMAIN chain : chain[j] = s} = {k}
      <4>1. DOMAIN chain = 1..Len(chain)
        BY <2>1, SMT
      <4> QED
        BY <3>1, <4>1 DEF OnlyAt
    <3>3. Cardinality({k}) = 1
      BY FS_Singleton
    <3>4. FindName(s) = k /\ k # 0
      <4>1. k # 0
        BY <3>1, SMT
      <4>2. FindName(s) # 0
        BY <2>1, <3>1, Finds DEF OnlyAt
      <4> QED
        BY <2>1, <3>1, <4>1, <4>2, Finds DEF OnlyAt
    <3> QED
      BY <3>1, <3>2, <3>3, <3>4 DEF FromEnd
  <2> QED
    BY <2>2, <2>3, <2>4
<1> QED
  BY <1>1, NamesInvariance, PTL

-------------------------------------------------------------------------------
(* The types of the texts and of the names                                 *)

FlagBits == \A f \in TextFields : mem[Flag(f)] \in {0, 1}

\* A flag is written with 0 or 1, and with nothing of another text.
LEMMA FlagStep ==
    ASSUME IInv, FlagBits, [TextsNext]_texts
    PROVE  FlagBits'
<1>1. mem \in [Bytes -> Nat] /\ Size \in Nat
  BY Layout DEF IInv, Keeps
<1>2. ASSUME NEW f \in TextFields, NEW w \in Seq(Nat), Len(w) =< MaxLength[f] + 1, NEW b \in {0, 1},
             NEW n, n = WithText(mem, Start[f], w, Flag(f), b), NEW g \in TextFields
      PROVE  n[Flag(g)] \in {0, 1}
  <2>1. /\ n[Flag(f)] = b
        /\ \A k \in Bytes : k < Start[f] \/ k > Flag(f) => n[k] = mem[k]
    <3>1. b \in Nat
      BY <1>2, SMT
    <3> QED
      BY <1>1, <1>2, <3>1, StoreWrites
  <2>2. CASE g = f
    BY <1>2, <2>1, <2>2
  <2>3. CASE g # f
    <3> DEFINE a == Start[f]
               c == Start[g]
               p == Flag(f)
               q == Flag(g)
    <3>1. p < c \/ q < a
      BY <2>3, Layout
    <3>2. p \in Bytes /\ q \in Bytes /\ a \in Bytes /\ c \in Bytes /\ MaxLength[g] \in Nat /\ q = c + MaxLength[g]
      BY Layout
    <3> HIDE DEF a, c, p, q
    <3>3. q < a \/ q > p
      BY <1>1, <3>1, <3>2, SMT DEF Bytes
    <3>4. n[q] = mem[q]
      BY <2>1, <3>2, <3>3 DEF a, p
    <3> QED
      BY <3>4 DEF q, FlagBits
  <2> QED
    BY <2>2, <2>3
<1>3. ASSUME NEW f \in TextFields, NEW s \in Given, SetText(f, s)
      PROVE  FlagBits'
  <2> DEFINE w == SetInto(s)
  <2>1. s \in Seq(Nat \ {0}) /\ Len(s) =< MaxLength[f] /\ MaxLength[f] \in Nat
    BY <1>3, DeviceTextsAssumption, Layout DEF SetText, Allows
  <2>2. w \in Seq(Nat) /\ Len(w) =< MaxLength[f] + 1
    BY <2>1, SetWrites
  <2>3. mem' = WithText(mem, Start[f], w, Flag(f), 1)
    BY <1>3 DEF SetText, WithText
  <2> HIDE DEF w
  <2>4. \A g \in TextFields : mem'[Flag(g)] \in {0, 1}
    BY <1>2, <2>2, <2>3
  <2> QED
    BY <2>4 DEF FlagBits, Flag
<1>4. ASSUME NEW f \in TextFields, NEW s \in Answered, ParseText(f, s)
      PROVE  FlagBits'
  <2> DEFINE w == ParsedInto(f, s)
  <2>1. s \in Seq(Nat \ {0})
    BY DeviceTextsAssumption
  <2>2. w \in Seq(Nat) /\ Len(w) =< MaxLength[f] + 1
    BY <2>1, ParseWrites
  <2>3. mem' = WithText(mem, Start[f], w, Flag(f), 0)
    BY <1>4 DEF ParseText, WithText
  <2> HIDE DEF w
  <2>4. \A g \in TextFields : mem'[Flag(g)] \in {0, 1}
    BY <1>2, <2>2, <2>3
  <2> QED
    BY <2>4 DEF FlagBits, Flag
<1>5. CASE ClearFlags
  <2> DEFINE a == Flag("friendly_name")
             b == Flag("location_note")
  <2>1. a \in Bytes /\ b \in Bytes
    BY Layout DEF TextFields
  <2>2. mem' = [mem EXCEPT ![a] = 0, ![b] = 0]
    BY <1>5 DEF ClearFlags
  <2> HIDE DEF a, b
  <2>3. mem'[a] = 0 /\ mem'[b] = 0
    BY <1>1, <2>1, <2>2
  <2> QED
    BY <2>3 DEF a, b, FlagBits, TextFields, Flag
<1>6. CASE SendTexts \/ PushFails \/ UNCHANGED texts
  BY <1>6 DEF SendTexts, PushFails, texts, FlagBits, Flag
<1> QED
  BY <1>3, <1>4, <1>5, <1>6 DEF TextsNext

\* What "%s" prints has no NUL in it.
LEMMA CStringType ==
    ASSUME NEW m \in [Bytes -> Nat], m[Size] = 0, NEW a \in Bytes
    PROVE  CString(m, a) \in Seq(Nat \ {0})
<1>2. Size \in Nat /\ a \in 1..Size
  BY Layout DEF Bytes
<1>3. PICK y \in a..Size : CString(m, a) = SubSeq(m, a, y - 1) /\ \A j \in a..(y - 1) : m[j] # 0
  BY CStringEnds
<1> DEFINE c == SubSeq(m, a, y - 1)
<1>4. c \in Seq(Nat) /\ Len(c) = y - a /\ \A k \in 1..(y - a) : c[k] = m[a + k - 1]
  <2>1. m \in Seq(Nat) /\ Len(m) = Size
    BY <1>2, SMT DEF Bytes
  <2> QED
    BY <1>2, <2>1, SMT
<1> HIDE DEF c
<1>5. \A k \in 1..Len(c) : c[k] \in Nat \ {0}
  <2>1. \A k \in 1..(y - a) : a + k - 1 \in a..(y - 1)
    BY <1>2, SMT
  <2>2. \A k \in 1..Len(c) : c[k] \in Nat
    BY <1>4, SMT
  <2> QED
    BY <1>3, <1>4, <2>1, <2>2
<1>6. c \in Seq(Nat \ {0})
  BY <1>4, <1>5, SMT
<1> QED
  BY <1>3, <1>6 DEF c

\* What the type of the texts adds to the layout: one-bit flags, and sent texts
\* that end at their terminator.
RestTyped == FlagBits /\ in_push \in BOOLEAN /\ sent \in [TextFields -> Seq(Nat \ {0})]

\* From the cleared struct on.
LEMMA TextsInvariance == TextsSpec => []TextsTypeOK
<1>1. TextsInit => RestTyped
  <2> SUFFICES ASSUME TextsInit
               PROVE  FlagBits /\ in_push \in BOOLEAN /\ sent \in [TextFields -> Seq(Nat \ {0})]
    BY DEF RestTyped
  <2>1. \A k \in Bytes : mem[k] = 0
    BY DEF TextsInit, Bytes
  <2>2. <<>> \in Seq(Nat \ {0})
    BY SMT
  <2> QED
    BY <2>1, <2>2, Layout DEF FlagBits, TextsInit
<1>2. PushInv /\ RestTyped /\ [TextsNext]_texts => RestTyped'
  <2> SUFFICES ASSUME PushInv, FlagBits, in_push \in BOOLEAN, sent \in [TextFields -> Seq(Nat \ {0})],
                      [TextsNext]_texts
               PROVE  FlagBits' /\ in_push' \in BOOLEAN /\ sent' \in [TextFields -> Seq(Nat \ {0})]
    BY DEF RestTyped
  <2>1. IInv /\ mem[Size] = 0
    BY DEF PushInv
  <2>2. FlagBits'
    BY <2>1, FlagStep
  <2>3. <<>> \in Seq(Nat \ {0})
    BY SMT
  <2>4. in_push' \in BOOLEAN
    BY DEF TextsNext, SetText, ParseText, SendTexts, ClearFlags, PushFails, texts
  <2>5. CASE SendTexts
    <3>1. \A f \in TextFields : CString(mem, Start[f]) \in Seq(Nat \ {0})
      <4>1. mem \in [Bytes -> Nat]
        BY <2>1 DEF IInv, Keeps
      <4> QED
        BY <2>1, <4>1, Layout, CStringType
    <3> QED
      BY <2>2, <2>3, <2>4, <2>5, <3>1 DEF SendTexts
  <2>6. CASE ClearFlags \/ PushFails
    BY <2>2, <2>3, <2>4, <2>6 DEF ClearFlags, PushFails
  <2>7. CASE sent' = sent
    BY <2>2, <2>4, <2>7
  <2>8. SendTexts \/ ClearFlags \/ PushFails \/ sent' = sent
    BY DEF TextsNext, SetText, ParseText, texts
  <2> QED
    BY <2>5, <2>6, <2>7, <2>8
<1>3. PushInv /\ RestTyped => TextsTypeOK
  BY DEF RestTyped, PushInv, IInv, Keeps, FlagBits, TextsTypeOK, Bytes
<1> QED
  BY <1>1, <1>2, <1>3, PushInvariance, PTL DEF TextsSpec

\* A declaration adds a struct at most, and hands out one that is in the list.
LEMMA NamesTypesInvariance == NamesSpec => []NamesTypeOK
<1>1. NamesInit => NamesTypeOK
  <2> SUFFICES ASSUME NamesInit
               PROVE  NamesTypeOK
    OBVIOUS
  <2>1. chain \in Seq({Kept(s) : s \in Spellings}) /\ Len(chain) = 0 /\ 0 \in 0..0 /\ 0 =< MaxVars
    BY VarNamesAssumption, SMT DEF NamesInit
  <2> QED
    BY <2>1 DEF NamesInit, NamesTypeOK
<1>2. NamesInv(chain, handle, used) /\ NamesInv(chain, handle, used)' /\ NamesTypeOK /\ [NamesNext]_names
      => NamesTypeOK'
  <2> SUFFICES ASSUME NamesInv(chain, handle, used), NamesInv(chain', handle', used'), NamesTypeOK,
                      [NamesNext]_names
               PROVE  NamesTypeOK'
    OBVIOUS
  <2>1. /\ chain \in Seq({Kept(s) : s \in Spellings}) /\ chain' \in Seq({Kept(s) : s \in Spellings})
        /\ handle \in [Spellings -> 0..Len(chain)] /\ Len(chain) =< MaxVars
        /\ handle' \in [Spellings -> Nat] /\ used' \subseteq Spellings
    BY DEF NamesInv, NamesTypeOK
  <2>2. Len(chain) \in Nat /\ Len(chain') \in Nat
    BY <2>1, SMT
  <2>3. CASE UNCHANGED names
    BY <2>3 DEF names, NamesTypeOK
  <2>4. ASSUME NEW s \in Spellings, DeclareVar(s) \/ ParseDecl(s)
        PROVE  NamesTypeOK'
    <3>1. Declared(s)
      BY <2>4 DEF DeclareVar, ParseDecl
    <3>2. PICK f : f = FindName(s)
      OBVIOUS
    <3>3. f \in Nat /\ (f # 0 => f \in 1..Len(chain))
      BY <2>1, <3>2, Finds
    <3>4. /\ Len(chain') =< MaxVars /\ Len(chain) =< Len(chain')
          /\ f = 0 => Len(chain') = Len(chain) + 1
      <4>1. CASE f # 0
        <5>1. chain' = chain
          BY <3>1, <3>2, <4>1 DEF Declared
        <5> QED
          BY <2>1, <2>2, <4>1, <5>1
      <4>2. CASE f = 0
        <5>1. Len(chain) < MaxVars /\ chain' = <<Kept(s)>> \o chain
          BY <3>1, <3>2, <4>2 DEF Declared
        <5>2. Len(chain') = Len(chain) + 1
          <6> DEFINE S == {Kept(t) : t \in Spellings}
                     q == Kept(s)
                     c == chain'
          <6>1. q \in S /\ chain \in Seq(S) /\ c = <<q>> \o chain
            BY <2>1, <5>1
          <6> HIDE DEF S, q, c
          <6>2. Len(c) = Len(chain) + 1
            BY <6>1, SMT
          <6> QED
            BY <6>2 DEF c
        <5> QED
          BY <2>2, <5>1, <5>2, VarNamesAssumption, SMT
      <4> QED
        BY <4>1, <4>2
    <3>5. \A r \in Spellings : handle[r] \in 0..Len(chain')
      <4> TAKE r \in Spellings
      <4>1. handle[r] \in 0..Len(chain)
        BY <2>1
      <4> QED
        BY <2>2, <3>4, <4>1, SMT
    <3>6. \A r \in Spellings : handle'[r] \in 0..Len(chain')
      <4>1. CASE ParseDecl(s)
        BY <3>5, <4>1 DEF ParseDecl
      <4>2. CASE DeclareVar(s)
        <5> DEFINE p == IF f # 0 THEN FromEnd(f) ELSE Len(chain) + 1
        <5>1. handle' = [handle EXCEPT ![s] = p]
          BY <3>2, <4>2 DEF DeclareVar
        <5>2. p \in 0..Len(chain')
          <6>1. CASE f = 0
            BY <2>2, <3>4, <6>1, SMT
          <6>2. CASE f # 0
            <7>1. p = Len(chain) + 1 - f
              BY <6>2 DEF FromEnd
            <7> HIDE DEF p
            <7> QED
              BY <2>2, <3>3, <3>4, <6>2, <7>1, SMT
          <6> QED
            BY <6>1, <6>2
        <5> HIDE DEF p
        <5> QED
          BY <2>1, <3>5, <5>1, <5>2
      <4> QED
        BY <2>4, <4>1, <4>2
    <3>7. handle' \in [Spellings -> 0..Len(chain')]
      BY <2>1, <3>6
    <3> QED
      BY <2>1, <3>4, <3>7 DEF NamesTypeOK
  <2> QED
    BY <2>3, <2>4 DEF NamesNext
<1> QED
  BY <1>1, <1>2, NamesInvariance, PTL DEF NamesSpec

-------------------------------------------------------------------------------
(* Quotients and powers                                                    *)

\* Division with a remainder.
LEMMA Quotient ==
    ASSUME NEW a \in Int, NEW b \in Nat \ {0}
    PROVE  a \div b \in Int /\ a % b \in 0..(b - 1) /\ a = b * (a \div b) + (a % b)
BY SMT

\* A multiple of b is no less than b.
LEMMA AtLeast ==
    ASSUME NEW b \in Nat \ {0}, NEW d \in Nat \ {0}
    PROVE  b * d >= b
BY SMT

\* Quotient and remainder are the only ones.
LEMMA QuotientIs ==
    ASSUME NEW a \in Int, NEW b \in Nat \ {0}, NEW q \in Int, NEW r \in 0..(b - 1), a = b * q + r
    PROVE  a \div b = q /\ a % b = r
<1> DEFINE p == a \div b
           s == a % b
<1>1. p \in Int /\ s \in 0..(b - 1) /\ a = b * p + s
  BY Quotient
<1> HIDE DEF p, s
<1>2. b * (p - q) = r - s /\ b * (q - p) = s - r
  BY <1>1, SMT
<1>3. ~(p > q)
  <2>1. SUFFICES ASSUME p > q
                 PROVE  FALSE
    OBVIOUS
  <2>2. PICK d \in Nat \ {0} : d = p - q
    BY <1>1, <2>1, SMT
  <2>3. b * d >= b
    BY AtLeast
  <2>4. b * d = r - s
    BY <1>2, <2>2
  <2> QED
    BY <1>1, <2>3, <2>4, SMT
<1>4. ~(q > p)
  <2>1. SUFFICES ASSUME q > p
                 PROVE  FALSE
    OBVIOUS
  <2>2. PICK d \in Nat \ {0} : d = q - p
    BY <1>1, <2>1, SMT
  <2>3. b * d >= b
    BY AtLeast
  <2>4. b * d = s - r
    BY <1>2, <2>2
  <2> QED
    BY <1>1, <2>3, <2>4, SMT
<1>5. p = q /\ s = r
  BY <1>1, <1>3, <1>4, SMT
<1> QED
  BY <1>5 DEF p, s

\* The recursion that defines Power, up to n bytes.
Powers(g, n) == g = [k \in 0..n |-> IF k = 0 THEN 1 ELSE ByteValues * g[k - 1]]

\* The recursion of Power has a solution as far as any n.
LEMMA PowersExist == \A n \in Nat : \E g : Powers(g, n)
<1> DEFINE T == {n \in Nat : \E g : Powers(g, n)}
<1>1. 0 \in T
  <2> DEFINE g == [k \in 0..0 |-> 1]
  <2>1. \A k \in 0..0 : k = 0
    BY SMT
  <2>2. Powers(g, 0)
    BY <2>1 DEF Powers
  <2> QED
    BY <2>2
<1>2. ASSUME NEW n \in Nat, n \in T
      PROVE  n + 1 \in T
  <2>1. PICK g : Powers(g, n)
    BY <1>2
  <2> DEFINE h == [k \in 0..(n + 1) |-> IF k = n + 1 THEN ByteValues * g[n] ELSE g[k]]
  <2>2. ASSUME NEW k \in 0..(n + 1)
        PROVE  h[k] = IF k = 0 THEN 1 ELSE ByteValues * h[k - 1]
    <3>1. CASE k = 0
      <4>1. k \in 0..n /\ k # n + 1
        BY <3>1, SMT
      <4>2. g[k] = 1
        BY <2>1, <3>1, <4>1 DEF Powers
      <4> QED
        BY <3>1, <4>1, <4>2
    <3>2. CASE k # 0
      <4>1. k - 1 \in 0..n /\ k - 1 \in 0..(n + 1) /\ k - 1 # n + 1 /\ (k # n + 1 => k \in 0..n) /\ (k = n + 1 => k - 1 = n)
        BY <3>2, SMT
      <4>2. h[k - 1] = g[k - 1]
        BY <4>1
      <4>3. CASE k = n + 1
        <5>1. h[k] = ByteValues * g[n]
          BY <4>3
        <5> QED
          BY <3>2, <4>1, <4>2, <4>3, <5>1
      <4>4. CASE k # n + 1
        <5>1. h[k] = g[k]
          BY <4>4
        <5>2. g[k] = ByteValues * g[k - 1]
          BY <2>1, <3>2, <4>1, <4>4 DEF Powers
        <5> QED
          BY <3>2, <4>2, <5>1, <5>2
      <4> QED
        BY <4>3, <4>4
    <3> QED
      BY <3>1, <3>2
  <2>3. Powers(h, n + 1)
    <3>1. h = [k \in 0..(n + 1) |-> h[k]]
      OBVIOUS
    <3> HIDE DEF h
    <3> QED
      BY <2>2, <3>1 DEF Powers
  <2> QED
    BY <2>3
<1>3. \A n \in Nat : n \in T
  <2> HIDE DEF T
  <2> QED
    BY <1>1, <1>2, AllNaturals
<1> QED
  BY <1>3

\* Each byte counts ByteValues times what the one below it does, an even number but for the lowest.
LEMMA PowerFacts ==
    /\ Power[0] = 1
    /\ \A n \in 0..7 : Power[n + 1] = ByteValues * Power[n]
    /\ \A n \in 0..8 : Power[n] \in Nat \ {0}
    /\ \A n \in 1..8 : \E h \in Nat \ {0} : Power[n] = 2 * h /\ Power[n] \div 2 = h
    /\ \A n \in 0..7 : Power[n + 1] >= 2 * Power[n]
<1>1. Powers(Power, 8)
  <2>1. Power = CHOOSE g : Powers(g, 8)
    BY DEF Power, Powers
  <2>2. \E g : Powers(g, 8)
    <3>1. 8 \in Nat
      BY SMT
    <3> QED
      BY <3>1, PowersExist
  <2> QED
    BY <2>1, <2>2
<1>2. \A k \in 0..8 : Power[k] = IF k = 0 THEN 1 ELSE ByteValues * Power[k - 1]
  BY <1>1 DEF Powers
<1>3. Power[0] = 1
  <2>1. 0 \in 0..8
    BY SMT
  <2> QED
    BY <1>2, <2>1
<1>4. ASSUME NEW n \in 0..7
      PROVE  Power[n + 1] = ByteValues * Power[n]
  <2>1. n + 1 \in 0..8 /\ n + 1 # 0 /\ (n + 1) - 1 = n
    BY SMT
  <2> QED
    BY <1>2, <2>1
<1>5. PICK b \in Nat \ {0} : ByteValues = 2 * b
  <2>1. ByteValues \in Nat \ {0} /\ ByteValues % 2 = 0
    BY VarCellAssumption
  <2>2. ByteValues = 2 * (ByteValues \div 2) + (ByteValues % 2) /\ ByteValues \div 2 \in Int
    BY <2>1, Quotient
  <2>3. ByteValues \div 2 \in Nat \ {0} /\ ByteValues = 2 * (ByteValues \div 2)
    BY <2>1, <2>2, SMT
  <2> QED
    BY <2>3
<1>6. \A n \in 0..8 : Power[n] \in Nat \ {0}
  <2> DEFINE T == {n \in Nat : n =< 8 => Power[n] \in Nat \ {0}}
  <2>1. 0 \in T
    BY <1>3
  <2>2. ASSUME NEW n \in Nat, n \in T
        PROVE  n + 1 \in T
    <3>1. SUFFICES ASSUME n + 1 =< 8
                   PROVE  Power[n + 1] \in Nat \ {0}
      OBVIOUS
    <3>2. n \in 0..7 /\ n =< 8
      BY <3>1, SMT
    <3>3. Power[n + 1] = ByteValues * Power[n] /\ Power[n] \in Nat \ {0}
      BY <1>4, <2>2, <3>2
    <3> QED
      BY <1>5, <3>3, SMT
  <2>3. \A n \in Nat : n \in T
    <3> HIDE DEF T
    <3> QED
      BY <2>1, <2>2, AllNaturals
  <2> QED
    BY <2>3
<1>7. ASSUME NEW n \in 1..8
      PROVE  \E h \in Nat \ {0} : Power[n] = 2 * h /\ Power[n] \div 2 = h
  <2>1. n - 1 \in 0..7 /\ n - 1 \in 0..8 /\ (n - 1) + 1 = n
    BY SMT
  <2> DEFINE p == Power[n - 1]
             h == b * p
  <2>2. p \in Nat \ {0} /\ Power[n] = ByteValues * p
    <3>1. Power[(n - 1) + 1] = ByteValues * p
      BY <1>4, <2>1
    <3> QED
      BY <1>6, <2>1, <3>1
  <2> HIDE DEF p
  <2>3. h \in Nat \ {0} /\ Power[n] = 2 * h + 0
    BY <1>5, <2>2, SMT
  <2> HIDE DEF h
  <2>4. Power[n] \in Int /\ 2 \in Nat \ {0} /\ h \in Int /\ 0 \in 0..(2 - 1) /\ Power[n] = 2 * h
    BY <2>3, SMT
  <2>5. Power[n] \div 2 = h
    BY <2>3, <2>4, QuotientIs
  <2> QED
    BY <2>3, <2>4, <2>5
<1>8. ASSUME NEW n \in 0..7
      PROVE  Power[n + 1] >= 2 * Power[n]
  <2> DEFINE p == Power[n]
             q == Power[n + 1]
  <2>1. n \in 0..8
    BY SMT
  <2>2. p \in Nat \ {0} /\ q = (2 * b) * p
    BY <1>4, <1>5, <1>6, <2>1
  <2> HIDE DEF p, q
  <2>3. p * b >= p
    BY <1>5, <2>2, AtLeast
  <2>4. q >= 2 * p
    BY <1>5, <2>2, <2>3, SMT
  <2> QED
    BY <2>4 DEF p, q
<1> QED
  BY <1>3, <1>4, <1>6, <1>7, <1>8

\* A number's remainder with a sign is the one number between the halves that differs from it by a
\* multiple of the power.
LEMMA WrapIs ==
    ASSUME NEW n \in 1..8, NEW x \in Int, NEW k \in Int, NEW y \in Int,
           x = Power[n] * k + y, -Power[n] =< 2 * y, 2 * y < Power[n]
    PROVE  SignedWrap(x, n) = y
<1> PICK h \in Nat \ {0} : Power[n] = 2 * h /\ Power[n] \div 2 = h
  BY PowerFacts
<1> DEFINE p == Power[n]
<1>1. p \in Nat \ {0} /\ p = 2 * h /\ x = p * k + y
  BY SMT
<1>2. SignedWrap(x, n) = ((x + h) % p) - h
  BY DEF SignedWrap
<1>3. -p =< 2 * y /\ 2 * y < p
  OBVIOUS
<1> HIDE DEF p
<1>4. x + h \in Int /\ y + h \in 0..(p - 1) /\ x + h = p * k + (y + h)
  BY <1>1, <1>3, SMT
<1>5. (x + h) % p = y + h
  <2> DEFINE a == x + h
             r == y + h
  <2>1. a \in Int /\ r \in 0..(p - 1) /\ a = p * k + r
    BY <1>4
  <2> HIDE DEF a, r
  <2>2. a % p = r
    BY <1>1, <2>1, QuotientIs
  <2> QED
    BY <2>2 DEF a, r
<1> QED
  BY <1>2, <1>5, SMT

\* What SignedWrap makes of a number is a number that n bytes hold with a sign.
LEMMA WrapRange ==
    ASSUME NEW n \in 1..8, NEW x \in Int
    PROVE  \E k \in Int, y \in Int : /\ SignedWrap(x, n) = y /\ x = Power[n] * k + y
                                     /\ -Power[n] =< 2 * y /\ 2 * y < Power[n]
<1> PICK h \in Nat \ {0} : Power[n] = 2 * h /\ Power[n] \div 2 = h
  BY PowerFacts
<1> DEFINE p == Power[n]
           a == x + h
           k == a \div p
           y == (a % p) - h
<1>1. p \in Nat \ {0} /\ p = 2 * h /\ a \in Int
  BY SMT
<1>2. a \div p \in Int /\ a % p \in 0..(p - 1) /\ a = p * (a \div p) + (a % p)
  <2> HIDE DEF p, a
  <2> QED
    BY <1>1, Quotient
<1>3. SignedWrap(x, n) = y
  BY DEF SignedWrap
<1>4. k \in Int /\ y \in Int /\ x = p * k + y /\ -p =< 2 * y /\ 2 * y < p
  <2> DEFINE q == a \div p
             r == a % p
  <2>1. q \in Int /\ r \in 0..(p - 1) /\ x + h = p * q + r
    BY <1>2
  <2> HIDE DEF p, q, r
  <2>2. x = p * q + (r - h) /\ -p =< 2 * (r - h) /\ 2 * (r - h) < p /\ r - h \in Int
    BY <1>1, <2>1, SMT
  <2> QED
    BY <2>1, <2>2 DEF q, r
<1> QED
  BY <1>3, <1>4

\* Cutting a number to n bytes does not change what they hold, with or without a sign.
LEMMA WrapCut ==
    ASSUME NEW n \in 1..8, NEW x \in Int
    PROVE  /\ SignedWrap(x % Power[n], n) = SignedWrap(x, n)
           /\ SignedWrap(x, n) % Power[n] = x % Power[n]
           /\ x % Power[n] \in 0..(Power[n] - 1) /\ SignedWrap(x, n) \in Int
<1> DEFINE p == Power[n]
           r == x % p
           q == x \div p
<1>1. p \in Nat \ {0}
  BY PowerFacts, SMT
<1>2. q \in Int /\ r \in 0..(p - 1) /\ x = p * q + r
  <2> HIDE DEF p
  <2> QED
    BY <1>1, Quotient
<1>3. PICK k \in Int, y \in Int : SignedWrap(x, n) = y /\ x = p * k + y /\ -p =< 2 * y /\ 2 * y < p
  BY WrapRange
<1> HIDE DEF r, q
<1>4. SignedWrap(r, n) = y
  <2>1. r \in Int /\ k - q \in Int /\ r = p * (k - q) + y
    <3> HIDE DEF p
    <3> QED
      BY <1>1, <1>2, <1>3, SMT
  <2> DEFINE d == k - q
  <2>2. d \in Int /\ r = p * d + y
    BY <2>1
  <2> HIDE DEF d
  <2> QED
    BY <1>3, <2>1, <2>2, WrapIs
<1>5. y % p = r
  <2> DEFINE d == q - k
  <2>1. d \in Int /\ y = p * d + r
    <3> HIDE DEF p
    <3>1. q - k \in Int /\ y = p * (q - k) + r
      BY <1>1, <1>2, <1>3, SMT
    <3> QED
      BY <3>1
  <2> HIDE DEF d, p
  <2> QED
    BY <1>1, <1>2, <1>3, <2>1, QuotientIs
<1> QED
  BY <1>2, <1>3, <1>4, <1>5 DEF r

\* strtol and atoll return a number of the width that they read.
LEMMA NearestIs ==
    ASSUME NEW n \in 1..8, NEW x \in Int
    PROVE  /\ Nearest(x, n) \in Int
           /\ -Power[n] =< 2 * x /\ 2 * x < Power[n] => Nearest(x, n) = x
<1> PICK h \in Nat \ {0} : Power[n] = 2 * h /\ Power[n] \div 2 = h
  BY PowerFacts
<1>1. \A a, b \in Int : Min({a, b}) = IF a =< b THEN a ELSE b
  <2> TAKE a, b \in Int
  <2> DEFINE Least(m) == m \in {a, b} /\ \A y \in {a, b} : m =< y
             l == IF a =< b THEN a ELSE b
  <2>1. Least(l) /\ \A m : Least(m) => m = l
    BY SMT
  <2>2. Min({a, b}) = CHOOSE m : Least(m)
    BY DEF Min
  <2> HIDE DEF Least, l
  <2>3. Min({a, b}) = l
    BY <2>1, <2>2
  <2> QED
    BY <2>3 DEF l
<1>2. \A a, b \in Int : Max({a, b}) = IF a >= b THEN a ELSE b
  <2> TAKE a, b \in Int
  <2> DEFINE Greatest(m) == m \in {a, b} /\ \A y \in {a, b} : m >= y
             l == IF a >= b THEN a ELSE b
  <2>1. Greatest(l) /\ \A m : Greatest(m) => m = l
    BY SMT
  <2>2. Max({a, b}) = CHOOSE m : Greatest(m)
    BY DEF Max
  <2> HIDE DEF Greatest, l
  <2>3. Max({a, b}) = l
    BY <2>1, <2>2
  <2> QED
    BY <2>3 DEF l
<1> DEFINE b == Min({x, h - 1})
<1>3. b = IF x =< h - 1 THEN x ELSE h - 1
  BY <1>1, SMT
<1>4. b \in Int
  BY <1>3, SMT
<1>5. Nearest(x, n) = Max({-h, b})
  BY DEF Nearest
<1> HIDE DEF b
<1>6. Nearest(x, n) = IF -h >= b THEN -h ELSE b
  BY <1>2, <1>4, <1>5, SMT
<1> QED
  BY <1>3, <1>4, <1>6, SMT

-------------------------------------------------------------------------------
(* The bytes of a number                                                   *)

ByteArrays == [1..8 -> 0..(ByteValues - 1)]

\* Load and Stored, of any eight bytes.
LoadOf(c, n) == SumFunctionOnSet([k \in 1..8 |-> c[k] * Power[k - 1]], 1..n)
StoredOf(c, t) ==
    CASE t = "bool"   -> IF c[1] = 0 THEN 0 ELSE 1
      [] t \in Signed -> SignedWrap(LoadOf(c, Width(t)), Width(t))
      [] OTHER        -> LoadOf(c, Width(t))

\* The first n + 1 bytes hold what the first n hold, and the next byte as often as it counts.
LEMMA LoadByByte ==
    ASSUME NEW c \in ByteArrays
    PROVE  /\ LoadOf(c, 0) = 0
           /\ \A n \in 0..8 : LoadOf(c, n) \in Nat
           /\ \A n \in 0..7 : LoadOf(c, n + 1) = LoadOf(c, n) + c[n + 1] * Power[n]
<1> DEFINE f == [k \in 1..8 |-> c[k] * Power[k - 1]]
<1>1. \A k \in 1..8 : f[k] \in Nat
  <2> TAKE k \in 1..8
  <2>1. k - 1 \in 0..8 /\ ByteValues \in Nat
    BY VarCellAssumption, SMT
  <2>2. c[k] \in 0..(ByteValues - 1) /\ Power[k - 1] \in Nat
    BY <2>1, PowerFacts DEF ByteArrays
  <2> DEFINE a == c[k]
             b == Power[k - 1]
  <2>3. a \in Nat /\ b \in Nat
    BY <2>1, <2>2, SMT
  <2> HIDE DEF a, b
  <2>4. a * b \in Nat
    BY <2>3, SMT
  <2> QED
    BY <2>4 DEF a, b
<1>2. \A k \in 1..8 : f[k] = c[k] * Power[k - 1]
  OBVIOUS
<1>3. \A n : LoadOf(c, n) = SumFunctionOnSet(f, 1..n)
  BY DEF LoadOf
<1> HIDE DEF f
<1>4. \A n \in 0..8 : IsFiniteSet(1..n) /\ \A k \in 1..n : k \in 1..8
  <2> TAKE n \in 0..8
  <2>1. 1 \in Int /\ n \in Int /\ \A k \in 1..n : k \in 1..8
    BY SMT
  <2> QED
    BY <2>1, FS_Interval
<1>5. LoadOf(c, 0) = 0
  <2>1. 1..0 = {} /\ 0 \in 0..8
    BY SMT
  <2>2. SumFunctionOnSet(f, 1..0) = 0
    BY <1>4, <2>1, SumStep
  <2> QED
    BY <1>3, <2>2
<1>6. ASSUME NEW n \in 0..8
      PROVE  LoadOf(c, n) \in Nat
  <2> DEFINE S == 1..n
  <2>1. IsFiniteSet(S) /\ \A k \in S : f[k] \in Nat
    BY <1>1, <1>4
  <2>2. LoadOf(c, n) = SumFunctionOnSet(f, S)
    BY <1>3
  <2> HIDE DEF S
  <2> QED
    BY <2>1, <2>2, SumOfNaturals
<1>7. ASSUME NEW n \in 0..7
      PROVE  LoadOf(c, n + 1) = LoadOf(c, n) + c[n + 1] * Power[n]
  <2> DEFINE S == 1..(n + 1)
  <2>1. n + 1 \in 0..8 /\ n + 1 \in S /\ S \ {n + 1} = 1..n /\ n + 1 \in 1..8 /\ (n + 1) - 1 = n /\ n \in 0..8
    BY SMT
  <2>2. IsFiniteSet(S) /\ \A k \in S : f[k] \in Nat
    BY <1>1, <1>4, <2>1
  <2>3. LoadOf(c, n + 1) = SumFunctionOnSet(f, S)
    BY <1>3
  <2> HIDE DEF S
  <2>4. SumFunctionOnSet(f, S) = f[n + 1] + SumFunctionOnSet(f, S \ {n + 1})
    BY <2>1, <2>2, SumOfNaturals
  <2>5. LoadOf(c, n + 1) = c[n + 1] * Power[n] + LoadOf(c, n)
    BY <1>2, <1>3, <2>1, <2>3, <2>4
  <2> DEFINE a == c[n + 1] * Power[n]
             l == LoadOf(c, n)
  <2>6. a \in Nat /\ l \in Nat
    <3>1. f[n + 1] = a
      BY <1>2, <2>1
    <3> HIDE DEF a
    <3> QED
      BY <1>1, <1>6, <2>1, <3>1
  <2>7. LoadOf(c, n + 1) = a + l
    BY <2>5
  <2> HIDE DEF a, l
  <2>8. LoadOf(c, n + 1) = l + a
    BY <2>6, <2>7, SMT
  <2> QED
    BY <2>8 DEF a, l
<1> QED
  BY <1>5, <1>6, <1>7

\* The digits of x, the lower ones first.
LEMMA NextDigit ==
    ASSUME NEW x \in Int, NEW p \in Nat \ {0}, NEW b \in Nat \ {0}
    PROVE  x % (b * p) = (x % p) + ((x \div p) % b) * p
<1> DEFINE q == x \div p
           r == x % p
           s == q \div b
           d == q % b
<1>1. q \in Int /\ r \in 0..(p - 1) /\ x = p * q + r
  BY Quotient
<1>2. s \in Int /\ d \in 0..(b - 1) /\ q = b * s + d
  <2> HIDE DEF q
  <2> QED
    BY <1>1, Quotient
<1> HIDE DEF q, r, s, d
<1> DEFINE m == b * p
           e == r + d * p
<1>3. m \in Nat \ {0}
  BY SMT
<1>4. x = m * s + e
  <2>1. x = p * (b * s + d) + r
    BY <1>1, <1>2
  <2>2. p * (b * s + d) = (b * p) * s + d * p
    BY <1>2, SMT
  <2> QED
    BY <1>1, <1>2, <2>1, <2>2, SMT
<1>5. e \in 0..(m - 1)
  <2>1. d * p >= 0
    BY <1>2, SMT
  <2>2. p * (b - d) >= p
    BY <1>2, AtLeast, SMT
  <2>3. p * (b - d) = b * p - d * p /\ d * p \in Int /\ b * p \in Int
    BY <1>2, SMT
  <2> QED
    BY <1>1, <2>1, <2>2, <2>3, SMT
<1>6. x % m = e
  <2> HIDE DEF m, e
  <2> QED
    BY <1>2, <1>3, <1>4, <1>5, QuotientIs
<1> QED
  BY <1>6 DEF q, r, d

\* What n bytes hold after a number was stored in them.
LEMMA LoadOfStore ==
    ASSUME NEW x \in Int, NEW n \in 1..8, NEW c \in ByteArrays,
           \A k \in 1..n : c[k] = (x \div Power[k - 1]) % ByteValues
    PROVE  LoadOf(c, n) = x % Power[n]
<1> DEFINE T == {m \in Nat : m =< n => LoadOf(c, m) = x % Power[m]}
<1>1. 0 \in T
  <2>1. x = 1 * x + 0 /\ 0 \in 0..(1 - 1) /\ 1 \in Nat \ {0}
    BY SMT
  <2>2. x % 1 = 0
    BY <2>1, QuotientIs
  <2> QED
    BY <2>2, LoadByByte, PowerFacts
<1>2. ASSUME NEW m \in Nat, m \in T
      PROVE  m + 1 \in T
  <2>1. SUFFICES ASSUME m + 1 =< n
                 PROVE  LoadOf(c, m + 1) = x % Power[m + 1]
    OBVIOUS
  <2>2. m \in 0..7 /\ m =< n /\ m + 1 \in 1..n /\ (m + 1) - 1 = m /\ m \in 0..8
    BY <2>1, SMT
  <2>3. LoadOf(c, m) = x % Power[m]
    BY <1>2, <2>2
  <2>4. c[m + 1] = (x \div Power[m]) % ByteValues
    BY <2>2
  <2>5. Power[m + 1] = ByteValues * Power[m] /\ Power[m] \in Nat \ {0}
    BY <2>2, PowerFacts
  <2>6. x % (ByteValues * Power[m]) = (x % Power[m]) + ((x \div Power[m]) % ByteValues) * Power[m]
    BY <2>5, NextDigit, VarCellAssumption
  <2>7. LoadOf(c, m + 1) = LoadOf(c, m) + c[m + 1] * Power[m]
    BY <2>2, LoadByByte
  <2> QED
    BY <2>3, <2>4, <2>5, <2>6, <2>7
<1>3. \A m \in Nat : m \in T
  <2> HIDE DEF T
  <2> QED
    BY <1>1, <1>2, AllNaturals
<1>4. n \in Nat /\ n =< n
  BY SMT
<1> QED
  BY <1>3, <1>4

-------------------------------------------------------------------------------
(* The value of a variable                                                 *)

NumberTypes == {"bool", "int8", "uint8", "int16", "uint16", "int32", "uint32", "float32", "float64",
                "datetime"}

\* The powers of the widths that there are.
LEMMA Widths ==
    /\ \A n \in {1, 2, 4, 8} : n \in 1..8 /\ Power[n] \in Nat \ {0}
    /\ Power[1] = ByteValues /\ Power[1] >= 2
    /\ 2 * Power[1] =< Power[2] /\ 2 * Power[2] =< Power[4]
    /\ \A l \in 4..8 : l \in 1..8 /\ Power[l] \in Nat /\ Power[4] =< Power[l]
                       /\ (l # 4 => 2 * Power[4] =< Power[l])
    /\ \A t \in NumberTypes :
          /\ Width(t) \in {1, 2, 4, 8}
          /\ t \notin {"float64", "datetime"} => Width(t) \in {1, 2, 4}
          /\ t \in {"uint8", "uint16"} => Width(t) \in {1, 2}
    /\ Width("bool") = 1 /\ Width("uint32") = 4 /\ Width("datetime") = 8
<1>1. \A n \in 0..8 : Power[n] \in Nat \ {0}
  BY PowerFacts
<1>2. /\ Power[0 + 1] = ByteValues * Power[0] /\ Power[0 + 1] >= 2 * Power[0] /\ Power[1 + 1] >= 2 * Power[1]
      /\ Power[2 + 1] >= 2 * Power[2] /\ Power[3 + 1] >= 2 * Power[3] /\ Power[4 + 1] >= 2 * Power[4]
      /\ Power[5 + 1] >= 2 * Power[5] /\ Power[6 + 1] >= 2 * Power[6] /\ Power[7 + 1] >= 2 * Power[7]
      /\ Power[0] = 1
  <2>1. 0 \in 0..7 /\ 1 \in 0..7 /\ 2 \in 0..7 /\ 3 \in 0..7 /\ 4 \in 0..7 /\ 5 \in 0..7 /\ 6 \in 0..7 /\ 7 \in 0..7
    BY SMT
  <2> QED
    BY <2>1, PowerFacts
<1>3. 0 + 1 = 1 /\ 1 + 1 = 2 /\ 2 + 1 = 3 /\ 3 + 1 = 4 /\ 4 + 1 = 5 /\ 5 + 1 = 6 /\ 6 + 1 = 7 /\ 7 + 1 = 8
  BY SMT
<1>4. /\ Power[1] = ByteValues * 1 /\ Power[1] >= 2 * 1 /\ Power[2] >= 2 * Power[1]
      /\ Power[3] >= 2 * Power[2] /\ Power[4] >= 2 * Power[3] /\ Power[5] >= 2 * Power[4]
      /\ Power[6] >= 2 * Power[5] /\ Power[7] >= 2 * Power[6] /\ Power[8] >= 2 * Power[7]
  BY <1>2, <1>3
<1>5. \A n \in {1, 2, 4, 8} : n \in 1..8 /\ Power[n] \in Nat \ {0}
  BY <1>1, SMT
<1>6. /\ Power[1] \in Nat /\ Power[2] \in Nat /\ Power[3] \in Nat /\ Power[4] \in Nat
      /\ Power[5] \in Nat /\ Power[6] \in Nat /\ Power[7] \in Nat /\ Power[8] \in Nat
  BY <1>1, SMT
<1>7. Power[1] = ByteValues /\ Power[1] >= 2 /\ 2 * Power[1] =< Power[2] /\ 2 * Power[2] =< Power[4]
  BY <1>4, <1>6, VarCellAssumption, SMT
<1>8. ASSUME NEW l \in 4..8
      PROVE  l \in 1..8 /\ Power[l] \in Nat /\ Power[4] =< Power[l] /\ (l # 4 => 2 * Power[4] =< Power[l])
  <2>1. /\ Power[4] =< Power[5] /\ 2 * Power[4] =< Power[5] /\ Power[4] =< Power[6] /\ 2 * Power[4] =< Power[6]
        /\ Power[4] =< Power[7] /\ 2 * Power[4] =< Power[7] /\ Power[4] =< Power[8] /\ 2 * Power[4] =< Power[8]
        /\ Power[4] =< Power[4]
    BY <1>4, <1>6, SMT
  <2>2. l \in {4, 5, 6, 7, 8}
    BY SMT
  <2>3. l \in 1..8
    BY SMT
  <2> QED
    BY <1>6, <2>1, <2>2, <2>3
<1>9. \A t \in NumberTypes :
         /\ Width(t) \in {1, 2, 4, 8}
         /\ t \notin {"float64", "datetime"} => Width(t) \in {1, 2, 4}
         /\ t \in {"uint8", "uint16"} => Width(t) \in {1, 2}
  BY DEF NumberTypes, Width
<1>10. Width("bool") = 1 /\ Width("uint32") = 4 /\ Width("datetime") = 8
  BY DEF Width
<1> QED
  BY <1>5, <1>7, <1>8, <1>9, <1>10

\* What is read after a number was stored in the bytes of the type.
LEMMA StoredNumber ==
    ASSUME bytes \in ByteArrays, NEW x \in Int, NEW t \in NumberTypes, NEW c, c = Store(x, Width(t))
    PROVE  /\ c \in ByteArrays
           /\ t = "bool" /\ x \in {0, 1} => StoredOf(c, t) = x
           /\ t \in Signed => StoredOf(c, t) = SignedWrap(x, Width(t))
           /\ t # "bool" /\ t \notin Signed => StoredOf(c, t) = x % Power[Width(t)]
<1> DEFINE w == Width(t)
<1>1. w \in 1..8 /\ \A k \in 1..w : k \in 1..8 /\ k =< w
  <2>1. w \in {1, 2, 4, 8}
    BY Widths
  <2> HIDE DEF w
  <2> QED
    BY <2>1, SMT
<1>2. c = [k \in 1..8 |-> IF k =< w THEN (x \div Power[k - 1]) % ByteValues ELSE bytes[k]]
  BY DEF Store
<1>3. ByteValues \in Nat \ {0}
  BY VarCellAssumption
<1>4. ASSUME NEW k \in 1..8
      PROVE  (x \div Power[k - 1]) % ByteValues \in 0..(ByteValues - 1)
  <2>1. Power[k - 1] \in Nat \ {0}
    <3>1. k - 1 \in 0..8
      BY SMT
    <3> QED
      BY <3>1, PowerFacts
  <2>2. x \div Power[k - 1] \in Int
    BY <2>1, Quotient
  <2> QED
    BY <1>3, <2>2, Quotient
<1> HIDE DEF w
<1>5. c \in ByteArrays
  BY <1>2, <1>4 DEF ByteArrays
<1>6. \A k \in 1..w : c[k] = (x \div Power[k - 1]) % ByteValues
  BY <1>1, <1>2
<1>7. LoadOf(c, w) = x % Power[w]
  BY <1>1, <1>5, <1>6, LoadOfStore
<1>8. t = "bool" /\ x \in {0, 1} => StoredOf(c, t) = x
  <2> SUFFICES ASSUME t = "bool", x \in {0, 1}
               PROVE  StoredOf(c, t) = x
    OBVIOUS
  <2>1. w = 1
    BY Widths DEF w
  <2>2. 0 \in 0..7 /\ 0 + 1 = 1
    BY SMT
  <2>3. LoadOf(c, 1) = 0 + c[1] * 1
    BY <1>5, <2>2, LoadByByte, PowerFacts
  <2>4. c[1] \in Nat
    <3>1. c[1] \in 0..(ByteValues - 1)
      BY <1>5 DEF ByteArrays
    <3> QED
      BY <1>3, <3>1, SMT
  <2>5. LoadOf(c, 1) = c[1]
    BY <2>3, <2>4, SMT
  <2>6. x % Power[1] = x
    <3> DEFINE p == Power[1]
    <3>1. p \in Nat \ {0} /\ p >= 2
      BY Widths
    <3> HIDE DEF p
    <3>2. x = p * 0 + x /\ x \in 0..(p - 1) /\ 0 \in Int
      BY <3>1, SMT
    <3>3. x % p = x
      BY <3>1, <3>2, QuotientIs
    <3> QED
      BY <3>3 DEF p
  <2>7. c[1] = x
    BY <1>7, <2>1, <2>5, <2>6
  <2>8. StoredOf(c, t) = IF c[1] = 0 THEN 0 ELSE 1
    BY DEF StoredOf, Signed
  <2> QED
    BY <2>7, <2>8
<1>9. t \in Signed => StoredOf(c, t) = SignedWrap(x, w)
  <2> SUFFICES ASSUME t \in Signed
               PROVE  StoredOf(c, t) = SignedWrap(x, w)
    OBVIOUS
  <2>1. StoredOf(c, t) = SignedWrap(LoadOf(c, w), w)
    BY DEF StoredOf, Signed, w
  <2> QED
    BY <1>1, <1>7, <2>1, WrapCut
<1>10. t # "bool" /\ t \notin Signed => StoredOf(c, t) = x % Power[w]
  BY <1>7 DEF StoredOf, w
<1> QED
  BY <1>5, <1>8, <1>9, <1>10 DEF w

\* The numbers of a type fit between the ends of its bytes.
LEMMA Ranges ==
    ASSUME NEW t \in NumberTypes, NEW x \in Int, InRange(t, x)
    PROVE  /\ t = "bool" => x \in {0, 1}
           /\ t \in Signed => x = SignedWrap(x, Width(t)) /\ -Power[Width(t)] =< 2 * x /\ 2 * x < Power[Width(t)]
           /\ t # "bool" /\ t \notin Signed =>
                 x = x % Power[Width(t)] /\ x \in 0..(Power[Width(t)] - 1)
<1>1. Width(t) \in 1..8
  BY Widths
<1>2. CASE t = "bool"
  BY <1>2 DEF InRange, Signed
<1>3. CASE t \in Signed
  <2>1. x = SignedWrap(x, Width(t)) /\ t # "bool"
    BY <1>3 DEF InRange, Signed
  <2>2. PICK k \in Int, y \in Int : SignedWrap(x, Width(t)) = y /\ -Power[Width(t)] =< 2 * y /\ 2 * y < Power[Width(t)]
    BY <1>1, WrapRange
  <2> QED
    BY <1>3, <2>1, <2>2
<1>4. CASE t # "bool" /\ t \notin Signed
  <2>1. x = x % Power[Width(t)]
    BY <1>4 DEF InRange
  <2> QED
    BY <1>1, <1>4, <2>1, WrapCut
<1> QED
  BY <1>2, <1>3, <1>4

\* What the parser makes of a text fills the type's bytes with the number that the text spells.
LEMMA ParsedNumber ==
    ASSUME type \in NumberTypes, long \in 4..8, NEW x \in Int
    PROVE  /\ NumberOf(x) \in Int
           /\ type = "bool" => NumberOf(x) = x
           /\ Parses(x) /\ type \in Signed => NumberOf(x) = x
           /\ Parses(x) /\ type # "bool" /\ type \notin Signed =>
                 NumberOf(x) % Power[Width(type)] = x
<1> DEFINE w == Width(type)
           y == Nearest(x, long)
<1>1. /\ w \in {1, 2, 4, 8} /\ w \in 1..8 /\ long \in 1..8 /\ 4 \in 1..8 /\ 8 \in 1..8 /\ Power[w] \in Nat \ {0}
      /\ Power[4] \in Nat \ {0} /\ Power[long] \in Nat /\ Power[4] =< Power[long]
  BY Widths
<1>2. y \in Int /\ Nearest(x, 8) \in Int
  BY <1>1, NearestIs
<1>3. Atoi(x) = SignedWrap(y, 4) /\ Atoi(x) \in Int /\ Atoi(x) % Power[4] = y % Power[4]
  <2>1. Atoi(x) = SignedWrap(y, 4)
    BY DEF Atoi
  <2> HIDE DEF y
  <2> QED
    BY <1>1, <1>2, <2>1, WrapCut
<1>4. NumberOf(x) = IF type = "datetime" THEN Nearest(x, 8)
                    ELSE IF type \in Floats \union {"bool"} THEN x ELSE Atoi(x)
  BY DEF NumberOf, Floats
<1> HIDE DEF y
<1>5. NumberOf(x) \in Int /\ (type = "bool" => NumberOf(x) = x)
  BY <1>2, <1>3, <1>4
<1>6. ASSUME Parses(x), type \in Signed
      PROVE  NumberOf(x) = x
  <2>1. -Power[w] =< 2 * x /\ 2 * x < Power[w]
    BY <1>6, Ranges DEF Parses
  <2>2. Power[w] =< Power[4]
    <3>1. w \in {1, 2, 4}
      BY <1>6, Widths DEF Signed
    <3>2. Power[1] \in Nat /\ Power[2] \in Nat /\ 2 * Power[1] =< Power[2] /\ 2 * Power[2] =< Power[4]
      BY Widths
    <3> HIDE DEF w
    <3> QED
      BY <1>1, <3>1, <3>2, SMT
  <2> HIDE DEF w
  <2>3. -Power[long] =< 2 * x /\ 2 * x < Power[long] /\ -Power[4] =< 2 * x /\ 2 * x < Power[4]
    BY <1>1, <2>1, <2>2, SMT
  <2>4. y = x
    BY <1>1, <2>3, NearestIs DEF y
  <2>5. x = Power[4] * 0 + x /\ 0 \in Int
    BY <1>1, SMT
  <2>6. SignedWrap(x, 4) = x
    BY <1>1, <2>3, <2>5, WrapIs
  <2>7. NumberOf(x) = Atoi(x)
    BY <1>4, <1>6 DEF Signed, Floats
  <2> QED
    BY <1>3, <2>4, <2>6, <2>7
<1>7. ASSUME Parses(x), type # "bool", type \notin Signed
      PROVE  NumberOf(x) % Power[w] = x
  <2>1. x = x % Power[w] /\ x \in 0..(Power[w] - 1)
    BY <1>7, Ranges DEF Parses
  <2>2. CASE type = "datetime"
    <3>1. w = 8 /\ 2 * x < Power[8] /\ NumberOf(x) = Nearest(x, 8)
      BY <1>4, <1>7, <2>2, Widths DEF Parses, w
    <3>2. -Power[8] =< 2 * x
      BY <1>1, <2>1, <3>1, SMT
    <3>3. Nearest(x, 8) = x
      BY <1>1, <3>1, <3>2, NearestIs
    <3> QED
      BY <2>1, <3>1, <3>3
  <2>3. CASE type \in Floats
    <3>1. NumberOf(x) = x
      BY <1>4, <2>3 DEF Floats
    <3> QED
      BY <2>1, <3>1
  <2>4. CASE type \in {"uint8", "uint16"}
    <3>1. w \in {1, 2} /\ 2 * Power[1] =< Power[2] /\ 2 * Power[2] =< Power[4] /\ Power[1] \in Nat /\ Power[2] \in Nat
      BY <2>4, Widths DEF w
    <3>2. NumberOf(x) = Atoi(x)
      BY <1>4, <2>4 DEF Floats
    <3> HIDE DEF w
    <3>3. 2 * Power[w] =< Power[4]
      BY <1>1, <3>1, SMT
    <3>4. -Power[4] =< 2 * x /\ 2 * x < Power[4] /\ -Power[long] =< 2 * x /\ 2 * x < Power[long]
      BY <1>1, <2>1, <3>3, SMT
    <3>5. y = x
      BY <1>1, <3>4, NearestIs DEF y
    <3>6. x = Power[4] * 0 + x /\ 0 \in Int
      BY <1>1, SMT
    <3>7. SignedWrap(x, 4) = x
      BY <1>1, <3>4, <3>6, WrapIs
    <3> QED
      BY <1>3, <2>1, <3>2, <3>5, <3>7
  <2>5. CASE type = "uint32"
    <3>1. w = 4
      BY <2>5, Widths DEF w
    <3>2. NumberOf(x) = Atoi(x)
      BY <1>4, <2>5 DEF Floats
    <3>3. long = 4 => 2 * x < Power[4]
      BY <1>7, <2>5 DEF Parses
    <3>4. long # 4 => 2 * Power[4] =< Power[long]
      BY Widths
    <3>5. -Power[long] =< 2 * x /\ 2 * x < Power[long]
      <4> HIDE DEF w
      <4> QED
        BY <1>1, <2>1, <3>1, <3>3, <3>4, SMT
    <3>6. y = x
      BY <1>1, <3>5, NearestIs DEF y
    <3> QED
      BY <1>3, <2>1, <3>1, <3>2, <3>6
  <2> QED
    BY <1>7, <2>2, <2>3, <2>4, <2>5 DEF NumberTypes, Signed, Floats
<1> QED
  BY <1>5, <1>6, <1>7

\* The invariant of a number: its two properties and the types say all that there is to keep.
CellInv == CellTypeOK /\ NumberReadsBack /\ NumberAgrees

\* What the steps of a number use of the invariant.
LEMMA CellFacts ==
    ASSUME CellTypeOK
    PROVE  /\ type \in NumberTypes /\ long \in 4..8 /\ bytes \in ByteArrays /\ Stored = StoredOf(bytes, type)
           /\ Stored' = StoredOf(bytes', type')
           /\ Stored \in Int /\ TextOf(Stored) \in Int
<1>1. type \in NumberTypes /\ long \in 4..8 /\ bytes \in ByteArrays
  BY VarCellAssumption DEF CellTypeOK, NumberTypes, ByteArrays
<1>2. Stored = StoredOf(bytes, type) /\ Stored' = StoredOf(bytes', type')
  BY DEF Stored, StoredOf, Load, LoadOf
<1>3. Stored \in Int
  <2> DEFINE w == Width(type)
             l == LoadOf(bytes, w)
  <2>1. w \in 1..8 /\ w \in 0..8
    <3>1. w \in 1..8
      BY <1>1, Widths
    <3> HIDE DEF w
    <3> QED
      BY <3>1, SMT
  <2>2. l \in Int
    <3> HIDE DEF w
    <3>1. l \in Nat
      BY <1>1, <2>1, LoadByByte
    <3> HIDE DEF l
    <3> QED
      BY <3>1, SMT
  <2>3. SignedWrap(l, w) \in Int
    <3> HIDE DEF w, l
    <3> QED
      BY <2>1, <2>2, WrapCut
  <2>4. StoredOf(bytes, type) \in {0, 1, SignedWrap(l, w), l}
    BY DEF StoredOf
  <2> HIDE DEF w, l
  <2> QED
    BY <1>2, <2>2, <2>3, <2>4, SMT
<1>4. TextOf(Stored) \in Int
  <2>1. PICK x \in Int : x = Stored
    BY <1>3
  <2>2. x % 2 \in 0..(2 - 1)
    BY SMT
  <2>3. x - (x % 2) \in Int
    BY <2>2, SMT
  <2> QED
    BY <2>1, <2>3 DEF TextOf
<1> QED
  BY <1>1, <1>2, <1>3, <1>4

\* A text is printed the same again.
LEMMA TextAgain ==
    ASSUME NEW x \in Int
    PROVE  TextOf(TextOf(x)) = TextOf(x)
<1> DEFINE y == x - (x % 2)
<1>1. y % 2 = 0 /\ y \in Int /\ y - 0 = y
  <2>1. x \div 2 \in Int /\ x % 2 \in 0..(2 - 1) /\ x = 2 * (x \div 2) + (x % 2)
    <3>1. 2 \in Nat \ {0}
      BY SMT
    <3> QED
      BY <3>1, Quotient
  <2> DEFINE q == x \div 2
             r == x % 2
  <2>2. q \in Int /\ r \in 0..(2 - 1) /\ x = 2 * q + r /\ y = x - r
    BY <2>1
  <2> HIDE DEF q, r, y
  <2>3. y = 2 * q + 0 /\ y \in Int /\ 0 \in 0..(2 - 1) /\ 2 \in Nat \ {0} /\ y - 0 = y
    BY <2>2, SMT
  <2> QED
    BY <2>2, <2>3, QuotientIs
<1>2. TextOf(x) = IF type \in Floats THEN y ELSE x
  BY DEF TextOf
<1>3. TextOf(y) = IF type \in Floats THEN y - (y % 2) ELSE y
  BY DEF TextOf
<1> HIDE DEF y
<1> QED
  BY <1>1, <1>2, <1>3

\* The parser stores what the server holds.
LEMMA ParseReadsBack ==
    ASSUME CellTypeOK, ParseValue
    PROVE  bytes' \in ByteArrays /\ (Parses(held) => Stored' = held)
<1>1. type \in NumberTypes /\ long \in 4..8 /\ bytes \in ByteArrays /\ held \in Int
  BY CellFacts DEF CellTypeOK
<1>2. PICK c, y : c = bytes' /\ y = NumberOf(held)
  OBVIOUS
<1>3. c = Store(y, Width(type)) /\ type' = type /\ (type = "bool" => held \in {0, 1})
  BY <1>2 DEF ParseValue
<1>4. y \in Int
  BY <1>1, <1>2, ParsedNumber
<1>5. /\ c \in ByteArrays
      /\ type = "bool" /\ y \in {0, 1} => StoredOf(c, type) = y
      /\ type \in Signed => StoredOf(c, type) = SignedWrap(y, Width(type))
      /\ type # "bool" /\ type \notin Signed => StoredOf(c, type) = y % Power[Width(type)]
  BY <1>1, <1>3, <1>4, StoredNumber
<1>6. Stored' = StoredOf(c, type)
  BY <1>2, <1>3, CellFacts
<1>7. ASSUME Parses(held)
      PROVE  StoredOf(c, type) = held
  <2>1. CASE type = "bool"
    BY <1>1, <1>2, <1>3, <1>5, <2>1, ParsedNumber
  <2>2. CASE type \in Signed
    <3>1. y = held
      BY <1>1, <1>2, <1>7, <2>2, ParsedNumber
    <3>2. held = SignedWrap(held, Width(type))
      BY <1>1, <1>7, <2>2, Ranges DEF Parses
    <3> QED
      BY <1>5, <2>2, <3>1, <3>2
  <2>3. CASE type # "bool" /\ type \notin Signed
    BY <1>1, <1>2, <1>5, <1>7, <2>3, ParsedNumber
  <2> QED
    BY <2>1, <2>2, <2>3
<1> QED
  BY <1>2, <1>5, <1>6, <1>7

\* The setter stores its argument, canopy_var_set_uint32 as far as it can.
LEMMA SetReadsBack ==
    ASSUME CellTypeOK, NEW x \in AppNumbers(type), SetValue(x)
    PROVE  /\ bytes' \in ByteArrays
           /\ (type = "uint32" => x \in {0, 1} /\ Stored' < ByteValues) => Stored' = x
<1>1. /\ type \in NumberTypes /\ bytes \in ByteArrays /\ type \in CellTypes
      /\ x \in Int /\ InRange(type, x)
  BY CellFacts, AppNumbersAssumption DEF CellTypeOK
<1>2. PICK c : c = bytes' /\ type' = type /\ c = Store(Assigned(type, x).number, Assigned(type, x).to)
  BY DEF SetValue
<1>3. Stored' = StoredOf(c, type)
  BY <1>2, CellFacts
<1>4. CASE type # "uint32"
  <2>1. c = Store(x, Width(type))
    BY <1>2, <1>4 DEF Assigned
  <2>2. /\ c \in ByteArrays
        /\ type = "bool" /\ x \in {0, 1} => StoredOf(c, type) = x
        /\ type \in Signed => StoredOf(c, type) = SignedWrap(x, Width(type))
        /\ type # "bool" /\ type \notin Signed => StoredOf(c, type) = x % Power[Width(type)]
    BY <1>1, <2>1, StoredNumber
  <2>3. /\ type = "bool" => x \in {0, 1}
        /\ type \in Signed => x = SignedWrap(x, Width(type))
        /\ type # "bool" /\ type \notin Signed => x = x % Power[Width(type)]
    BY <1>1, Ranges
  <2> QED
    BY <1>2, <1>3, <2>2, <2>3
<1>5. CASE type = "uint32"
  <2> DEFINE b == IF x = 0 THEN 0 ELSE 1
  <2>1. c = Store(b, Width("bool")) /\ Width(type) = 4
    <3>1. Assigned(type, x) = [to |-> 1, number |-> b]
      BY <1>5 DEF Assigned
    <3> HIDE DEF b
    <3>2. c = Store(b, 1)
      BY <1>2, <3>1
    <3>3. Width("bool") = 1 /\ Width("uint32") = 4
      BY <1>1, Widths
    <3> QED
      BY <1>5, <3>2, <3>3
  <2>2. b \in {0, 1} /\ b \in Int /\ "bool" \in NumberTypes /\ (x \in {0, 1} => b = x)
    BY DEF NumberTypes
  <2> HIDE DEF b
  <2>3. c \in ByteArrays /\ StoredOf(c, "bool") = b
    BY <1>1, <2>1, <2>2, StoredNumber
  <2>4. StoredOf(c, "bool") = IF c[1] = 0 THEN 0 ELSE 1
    BY DEF StoredOf, Signed
  <2>5. StoredOf(c, type) = LoadOf(c, 4)
    <3>1. type # "bool" /\ type \notin Signed
      BY <1>5 DEF Signed
    <3> QED
      BY <2>1, <3>1 DEF StoredOf
  <2>6. c[1] = b
    <3>1. c = [k \in 1..8 |-> IF k =< 1 THEN (b \div Power[k - 1]) % ByteValues ELSE bytes[k]]
      BY <2>1, Widths DEF Store, NumberTypes
    <3>2. 1 \in 1..8 /\ 1 =< 1 /\ 1 - 1 = 0
      BY SMT
    <3>3. c[1] = (b \div 1) % ByteValues
      BY <3>1, <3>2, PowerFacts
    <3> DEFINE v == ByteValues
    <3>4. v \in Nat \ {0} /\ v >= 2
      BY Widths
    <3> HIDE DEF v
    <3>5. b = 1 * b + 0 /\ 0 \in 0..(1 - 1) /\ 1 \in Nat \ {0} /\ b = v * 0 + b /\ b \in 0..(v - 1) /\ 0 \in Int
      BY <2>2, <3>4, SMT
    <3>6. b \div 1 = b
      BY <2>2, <3>5, QuotientIs
    <3>7. b % v = b
      BY <2>2, <3>4, <3>5, QuotientIs
    <3> QED
      BY <3>3, <3>6, <3>7 DEF v
  <2>7. ASSUME LoadOf(c, 4) < ByteValues
        PROVE  LoadOf(c, 4) = c[1]
    <3>1. /\ 0 \in 0..7 /\ 1 \in 0..7 /\ 2 \in 0..7 /\ 3 \in 0..7 /\ 0 + 1 = 1 /\ 1 + 1 = 2 /\ 2 + 1 = 3 /\ 3 + 1 = 4
          /\ 1 \in 1..8 /\ 2 \in 1..8 /\ 3 \in 1..8 /\ 4 \in 1..8 /\ 1 \in 0..8 /\ 2 \in 0..8 /\ 3 \in 0..8
      BY SMT
    <3>2. /\ LoadOf(c, 1) = 0 + c[1] * 1 /\ LoadOf(c, 2) = LoadOf(c, 1) + c[2] * Power[1]
          /\ LoadOf(c, 3) = LoadOf(c, 2) + c[3] * Power[2] /\ LoadOf(c, 4) = LoadOf(c, 3) + c[4] * Power[3]
      <4>1. Power[0] = 1 /\ LoadOf(c, 0) = 0
        BY <2>3, LoadByByte, PowerFacts
      <4>2. \A n \in 0..7 : LoadOf(c, n + 1) = LoadOf(c, n) + c[n + 1] * Power[n]
        BY <2>3, LoadByByte
      <4>3. LoadOf(c, 0 + 1) = LoadOf(c, 0) + c[0 + 1] * Power[0]
        BY <3>1, <4>2
      <4>4. LoadOf(c, 1 + 1) = LoadOf(c, 1) + c[1 + 1] * Power[1]
        BY <3>1, <4>2
      <4>5. LoadOf(c, 2 + 1) = LoadOf(c, 2) + c[2 + 1] * Power[2]
        BY <3>1, <4>2
      <4>6. LoadOf(c, 3 + 1) = LoadOf(c, 3) + c[3 + 1] * Power[3]
        BY <3>1, <4>2
      <4> QED
        BY <3>1, <4>1, <4>3, <4>4, <4>5, <4>6
    <3>3. /\ c[1] \in Nat /\ c[2] \in Nat /\ c[3] \in Nat /\ c[4] \in Nat
      <4>1. \A k \in 1..8 : c[k] \in 0..(ByteValues - 1)
        BY <2>3 DEF ByteArrays
      <4>2. 0..(ByteValues - 1) \subseteq Nat
        BY VarCellAssumption, SMT
      <4> QED
        BY <3>1, <4>1, <4>2
    <3>4. /\ Power[1] \in Nat /\ Power[2] \in Nat /\ Power[3] \in Nat /\ Power[1] = ByteValues
          /\ Power[2] >= Power[1] /\ Power[3] >= Power[2]
      <4>1. Power[1 + 1] >= 2 * Power[1] /\ Power[2 + 1] >= 2 * Power[2]
        BY <3>1, PowerFacts
      <4>2. Power[2] >= 2 * Power[1] /\ Power[3] >= 2 * Power[2]
        BY <3>1, <4>1
      <4>3. Power[1] \in Nat /\ Power[2] \in Nat /\ Power[3] \in Nat
        BY <3>1, PowerFacts
      <4> QED
        BY <4>2, <4>3, Widths, SMT
    <3> DEFINE c1 == c[1]
               c2 == c[2]
               c3 == c[3]
               c4 == c[4]
               p1 == Power[1]
               p2 == Power[2]
               p3 == Power[3]
               l == LoadOf(c, 4)
    <3>5. l = ((c1 + c2 * p1) + c3 * p2) + c4 * p3 /\ l < p1
      <4>1. 0 + c[1] * 1 = c[1]
        BY <3>3, SMT
      <4> QED
        BY <2>7, <3>2, <3>4, <4>1
    <3>6. c1 \in Nat /\ c2 \in Nat /\ c3 \in Nat /\ c4 \in Nat
      BY <3>3
    <3>7. p1 \in Nat /\ p2 \in Nat /\ p3 \in Nat /\ p2 >= p1 /\ p3 >= p2
      BY <3>4
    <3> HIDE DEF c1, c2, c3, c4, p1, p2, p3, l
    <3>8. ASSUME NEW m \in Nat, NEW p \in Nat, p >= p1, m # 0
          PROVE  m * p >= p1 /\ m * p \in Nat
      <4>1. PICK d \in Nat : m = d + 1
        <5>1. m - 1 \in Nat /\ m = (m - 1) + 1
          BY <3>8, SMT
        <5> QED
          BY <5>1
      <4>2. d * p \in Nat
        BY SMT
      <4>3. m * p = d * p + p
        BY <4>1, SMT
      <4> QED
        BY <3>7, <3>8, <4>2, <4>3, SMT
    <3>9. ASSUME NEW m \in Nat, NEW p \in Nat
          PROVE  m * p \in Nat
      BY SMT
    <3>10. p1 >= p1 /\ p2 >= p1 /\ p3 >= p1
      BY <3>7, SMT
    <3>11. c2 * p1 \in Nat /\ c3 * p2 \in Nat /\ c4 * p3 \in Nat
      BY <3>6, <3>7, <3>9
    <3>12. /\ c2 # 0 => c2 * p1 >= p1
           /\ c3 # 0 => c3 * p2 >= p1
           /\ c4 # 0 => c4 * p3 >= p1
      BY <3>6, <3>7, <3>8, <3>10
    <3>13. c2 = 0 /\ c3 = 0 /\ c4 = 0
      <4> DEFINE a == c2 * p1
                 e == c3 * p2
                 f == c4 * p3
      <4>1. a \in Nat /\ e \in Nat /\ f \in Nat /\ l = ((c1 + a) + e) + f
        BY <3>5, <3>11
      <4>2. (c2 # 0 => a >= p1) /\ (c3 # 0 => e >= p1) /\ (c4 # 0 => f >= p1)
        BY <3>12
      <4> HIDE DEF a, e, f
      <4> QED
        BY <3>5, <3>6, <3>7, <4>1, <4>2, SMT
    <3>14. l = c1
      BY <3>5, <3>6, <3>7, <3>13, SMT
    <3> QED
      BY <3>14 DEF l, c1
  <2> QED
    BY <1>2, <1>3, <1>5, <2>2, <2>3, <2>5, <2>6, <2>7
<1> QED
  BY <1>4, <1>5

\* Each step of a variable keeps it.
LEMMA CellStep ==
    ASSUME CellInv, [CellNext]_cell
    PROVE  CellInv'
<1>1. CellTypeOK /\ NumberReadsBack /\ NumberAgrees
  BY DEF CellInv
<1>2. CASE UNCHANGED cell
  <2>1. Stored' = Stored /\ (Parses(put))' = Parses(put) /\ (Parses(held))' = Parses(held)
        /\ (Takes(put))' = Takes(put) /\ (TextOf(Stored))' = TextOf(Stored) /\ (TextOf(held))' = TextOf(held)
    BY <1>2 DEF cell, Stored, Load, Parses, Takes, TextOf
  <2> QED
    BY <1>1, <1>2, <2>1 DEF cell, CellInv, CellTypeOK, NumberReadsBack, NumberAgrees
<1>3. ASSUME NEW x \in AppNumbers(type), SetValue(x)
      PROVE  CellInv'
  <2>1. /\ set' = TRUE /\ dirty' = TRUE /\ put' = x /\ by' = "application"
        /\ UNCHANGED <<long, type, held, stale>>
    BY <1>3 DEF SetValue
  <2>2. /\ bytes' \in ByteArrays
        /\ (type = "uint32" => x \in {0, 1} /\ Stored' < ByteValues) => Stored' = x
    BY <1>1, <1>3, SetReadsBack
  <2>3. x \in Int
    BY <1>1, AppNumbersAssumption DEF CellTypeOK
  <2>4. CellTypeOK'
    BY <1>1, <2>1, <2>2, <2>3 DEF CellTypeOK, ByteArrays
  <2>5. NumberReadsBack'
    BY <2>1, <2>2 DEF NumberReadsBack, Takes
  <2>6. NumberAgrees'
    BY <2>1 DEF NumberAgrees
  <2> QED
    BY <2>4, <2>5, <2>6 DEF CellInv
<1>4. CASE EmitValue \/ EmitFails \/ \E x \in SentNumbers : Elsewhere(x)
  <2>1. UNCHANGED <<long, type, set, bytes, put, by>>
    BY <1>4 DEF EmitValue, EmitFails, Elsewhere
  <2>2. /\ Stored' = Stored /\ (Parses(put))' = Parses(put) /\ (Takes(put))' = Takes(put)
    BY <2>1 DEF Stored, Load, Parses, Takes
  <2>3. NumberReadsBack'
    BY <1>1, <2>1, <2>2 DEF NumberReadsBack
  <2>4. CellTypeOK'
    BY <1>1, <1>4, <2>1, CellFacts, VarCellAssumption DEF CellTypeOK, EmitValue, EmitFails, Elsewhere
  <2>5. NumberAgrees'
    <3>1. CASE EmitValue
      <4>1. held' = TextOf(Stored) /\ type' = type
        BY <3>1 DEF EmitValue
      <4>2. (TextOf(held))' = TextOf(TextOf(Stored)) /\ (TextOf(Stored))' = TextOf(Stored)
        BY <2>2, <4>1 DEF TextOf
      <4>3. TextOf(TextOf(Stored)) = TextOf(Stored)
        <5>1. PICK x \in Int : x = Stored
          BY <1>1, CellFacts
        <5> QED
          BY <5>1, TextAgain
      <4> QED
        BY <4>2, <4>3 DEF NumberAgrees
    <3>2. CASE EmitFails \/ \E x \in SentNumbers : Elsewhere(x)
      <4>1. stale' = TRUE
        BY <3>2 DEF EmitFails, Elsewhere
      <4> QED
        BY <4>1 DEF NumberAgrees
    <3> QED
      BY <1>4, <3>1, <3>2
  <2> QED
    BY <2>3, <2>4, <2>5 DEF CellInv
<1>5. CASE ParseValue
  <2>1. set' = TRUE /\ put' = held /\ by' = "parser" /\ stale' = FALSE /\ UNCHANGED <<long, type, dirty, held>>
    BY <1>5 DEF ParseValue
  <2>2. bytes' \in ByteArrays /\ (Parses(held) => Stored' = held)
    BY <1>1, <1>5, ParseReadsBack
  <2>3. CellTypeOK'
    BY <1>1, <2>1, <2>2 DEF CellTypeOK, ByteArrays
  <2>4. (Parses(put))' = Parses(held) /\ (Parses(held))' = Parses(held)
    BY <2>1 DEF Parses
  <2>5. NumberReadsBack'
    BY <2>1, <2>2, <2>4 DEF NumberReadsBack
  <2>6. NumberAgrees'
    BY <2>1, <2>2, <2>4 DEF NumberAgrees, TextOf
  <2> QED
    BY <2>3, <2>5, <2>6 DEF CellInv
<1> QED
  BY <1>2, <1>3, <1>4, <1>5 DEF CellNext

\* No value is in the cell.
LEMMA CellStarts == CellInit => CellInv
<1> SUFFICES ASSUME CellInit
             PROVE  CellInv
  OBVIOUS
<1>1. 0 \in 0..(ByteValues - 1) /\ 0 \in Int
  BY VarCellAssumption, SMT
<1>2. bytes \in [1..8 -> 0..(ByteValues - 1)]
  BY <1>1 DEF CellInit
<1> QED
  BY <1>1, <1>2 DEF CellInit, CellInv, CellTypeOK, NumberReadsBack, NumberAgrees

-------------------------------------------------------------------------------
(* Strings                                                                 *)

\* The recursion by which FlattenSeq joins sequences, up to the nth.
Joined(g, seqs, n) == g = [i \in 1..n |-> IF i = 1 THEN seqs[i] ELSE g[i - 1] \o seqs[i]]

\* The recursion that joins N sequences, as FlattenSeq does, has a solution.
LEMMA JoinedExists ==
    ASSUME NEW S, NEW seqs, NEW N \in Nat, \A i \in 1..N : seqs[i] \in Seq(S)
    PROVE  \E g : Joined(g, seqs, N) /\ \A i \in 1..N : g[i] \in Seq(S)
<1> DEFINE Fine(n) == \E g : Joined(g, seqs, n) /\ \A i \in 1..n : g[i] \in Seq(S)
           T == {n \in Nat : n =< N => Fine(n)}
<1>1. 0 \in T
  <2> DEFINE g == [i \in 1..0 |-> IF i = 1 THEN seqs[i] ELSE seqs[i]]
  <2>1. \A i : i \notin 1..0
    BY SMT
  <2>2. Joined(g, seqs, 0) /\ \A i \in 1..0 : g[i] \in Seq(S)
    BY <2>1 DEF Joined
  <2>3. Fine(0)
    BY <2>2
  <2> HIDE DEF Fine
  <2> QED
    BY <2>3
<1>2. ASSUME NEW n \in Nat, n \in T
      PROVE  n + 1 \in T
  <2>1. SUFFICES ASSUME n + 1 =< N
                 PROVE  Fine(n + 1)
    <3> HIDE DEF Fine
    <3> QED
      OBVIOUS
  <2>2. n =< N
    BY <2>1, SMT
  <2>3. Fine(n)
    <3> HIDE DEF Fine
    <3> QED
      BY <1>2, <2>2
  <2>4. PICK g : Joined(g, seqs, n) /\ \A i \in 1..n : g[i] \in Seq(S)
    BY <2>3
  <2> DEFINE last == IF n + 1 = 1 THEN seqs[n + 1] ELSE g[n] \o seqs[n + 1]
             h == [i \in 1..(n + 1) |-> IF i = n + 1 THEN last ELSE g[i]]
  <2>5. last \in Seq(S)
    <3>1. n + 1 \in 1..N /\ (n + 1 # 1 => n \in 1..n)
      BY <2>1, SMT
    <3>2. seqs[n + 1] \in Seq(S) /\ (n + 1 # 1 => g[n] \in Seq(S))
      BY <2>4, <3>1
    <3>3. \A u, v \in Seq(S) : u \o v \in Seq(S)
      BY ConcatProperties
    <3> QED
      BY <3>2, <3>3
  <2>6. ASSUME NEW i \in 1..(n + 1)
        PROVE  h[i] = (IF i = 1 THEN seqs[i] ELSE h[i - 1] \o seqs[i]) /\ h[i] \in Seq(S)
    <3>1. CASE i = n + 1
      <4>1. n + 1 # 1 => n \in 1..(n + 1) /\ n # n + 1 /\ (n + 1) - 1 = n
        BY SMT
      <4>2. h[i] = last
        BY <3>1
      <4>3. n + 1 # 1 => h[(n + 1) - 1] = g[n]
        BY <4>1
      <4>4. last = IF i = 1 THEN seqs[i] ELSE h[i - 1] \o seqs[i]
        <5> HIDE DEF h
        <5> QED
          BY <3>1, <4>3
      <4> HIDE DEF last, h
      <4> QED
        BY <2>5, <4>2, <4>4
    <3>2. CASE i # n + 1
      <4>1. i \in 1..n /\ (i # 1 => i - 1 \in 1..(n + 1) /\ i - 1 # n + 1)
        BY <3>2, SMT
      <4>2. h[i] = g[i] /\ (i # 1 => h[i - 1] = g[i - 1])
        <5> HIDE DEF last
        <5> QED
          BY <3>2, <4>1
      <4>3. g[i] = IF i = 1 THEN seqs[i] ELSE g[i - 1] \o seqs[i]
        BY <2>4, <4>1 DEF Joined
      <4> HIDE DEF h
      <4> QED
        BY <2>4, <4>1, <4>2, <4>3
    <3> QED
      BY <3>1, <3>2
  <2>7. h = [i \in 1..(n + 1) |-> h[i]]
    <3> HIDE DEF last
    <3> QED
      OBVIOUS
  <2> HIDE DEF h, last
  <2>8. Joined(h, seqs, n + 1)
    BY <2>6, <2>7 DEF Joined
  <2> QED
    BY <2>6, <2>8
<1>3. \A n \in Nat : n \in T
  <2> HIDE DEF T
  <2> QED
    BY <1>1, <1>2, AllNaturals
<1>4. Fine(N)
  <2> HIDE DEF Fine
  <2> QED
    BY <1>3, SMT
<1> QED
  BY <1>4

\* The joined sequence has the elements of the parts.
LEMMA FlattenedType ==
    ASSUME NEW S, NEW seqs \in Seq(Seq(S))
    PROVE  FlattenSeq(seqs) \in Seq(S)
<1> DEFINE N == Len(seqs)
           f == CHOOSE g : Joined(g, seqs, N)
<1>1. N \in Nat /\ \A i \in 1..N : seqs[i] \in Seq(S)
  BY SMT
<1>2. FlattenSeq(seqs) = IF N = 0 THEN seqs ELSE f[N]
  BY DEF FlattenSeq, Joined
<1>3. CASE N = 0
  <2>1. seqs = << >>
    BY <1>3, EmptySeq
  <2> QED
    BY <1>2, <1>3, <2>1, EmptySeq
<1>4. CASE N # 0
  <2> HIDE DEF N
  <2>1. PICK g : Joined(g, seqs, N) /\ \A i \in 1..N : g[i] \in Seq(S)
    BY <1>1, JoinedExists
  <2>2. Joined(f, seqs, N)
    BY <2>1
  <2>3. N \in 1..N
    BY <1>1, <1>4, SMT
  <2>4. \A i \in 1..N : f[i] \in Seq(S)
    <3> HIDE DEF f
    <3> DEFINE T == {n \in Nat : n \in 1..N => f[n] \in Seq(S)}
    <3>1. 0 \in T
      BY SMT
    <3>2. ASSUME NEW n \in Nat, n \in T
          PROVE  n + 1 \in T
      <4>1. SUFFICES ASSUME n + 1 \in 1..N
                     PROVE  f[n + 1] \in Seq(S)
        OBVIOUS
      <4>2. seqs[n + 1] \in Seq(S) /\ f[n + 1] = IF n + 1 = 1 THEN seqs[n + 1] ELSE f[(n + 1) - 1] \o seqs[n + 1]
        BY <1>1, <2>2, <4>1 DEF Joined
      <4>3. (n + 1) - 1 = n /\ (n + 1 # 1 => n \in 1..N)
        BY <1>1, <4>1, SMT
      <4>4. n + 1 # 1 => f[n] \in Seq(S)
        BY <3>2, <4>3
      <4>5. \A u, v \in Seq(S) : u \o v \in Seq(S)
        BY ConcatProperties
      <4> QED
        BY <4>2, <4>3, <4>4, <4>5
    <3>3. \A n \in Nat : n \in T
      <4> HIDE DEF T
      <4> QED
        BY <3>1, <3>2, AllNaturals
    <3> QED
      BY <3>3, SMT
  <2> QED
    BY <1>2, <1>4, <2>3, <2>4
<1> QED
  BY <1>3, <1>4

\* JSON's way to write a string is a string.
LEMMA EscapedType ==
    ASSUME NEW s \in Seq(Characters)
    PROVE  Escaped(s) \in Seq(Characters)
<1> DEFINE e == [k \in DOMAIN s |-> IF s[k] \in {Quote, Backslash} THEN <<Backslash, s[k]>> ELSE <<s[k]>>]
<1>1. DOMAIN s = 1..Len(s) /\ Len(s) \in Nat /\ \A k \in 1..Len(s) : s[k] \in Characters
  BY SMT
<1>2. Backslash \in Characters
  BY DEF Characters
<1>3. ASSUME NEW c \in Characters
      PROVE  <<Backslash, c>> \in Seq(Characters) /\ <<c>> \in Seq(Characters)
  <2> HIDE DEF e
  <2> DEFINE S == Characters
             b == Backslash
  <2>1. b \in S /\ c \in S
    BY <1>2
  <2> HIDE DEF S, b
  <2>2. <<b, c>> \in Seq(S) /\ <<c>> \in Seq(S)
    BY <2>1, SMT
  <2> QED
    BY <2>2 DEF S, b
<1>4. e \in Seq(Seq(Characters))
  <2>1. e = [k \in 1..Len(s) |-> e[k]] /\ \A k \in 1..Len(s) : e[k] \in Seq(Characters)
    BY <1>1, <1>3
  <2> HIDE DEF e
  <2> QED
    BY <1>1, <2>1, SMT
<1>5. Escaped(s) = FlattenSeq(e)
  BY DEF Escaped
<1> HIDE DEF e
<1> QED
  BY <1>4, <1>5, FlattenedType

\* The string in an array of n characters is what comes before its end.
LEMMA StringBefore ==
    ASSUME NEW n \in Nat, NEW s \in Seq(Characters), Len(s) < n,
           NEW a \in [1..n -> Characters \union {Nul}],
           \A k \in 1..n : k =< Len(s) => a[k] = s[k], \A k \in 1..n : k = Len(s) + 1 => a[k] = Nul
    PROVE  BeforeNul(a) = s /\ HasNul(a)
<1> DEFINE ends == {k \in DOMAIN a : a[k] = Nul}
           e == Len(s) + 1
           C == Characters \union {Nul}
<1>1. e \in 1..n /\ Len(s) \in Nat /\ e - 1 = Len(s) /\ \A k \in 1..n : k < e => k \in 1..Len(s) /\ k =< Len(s)
  BY SMT
<1>2. \A k \in 1..Len(s) : s[k] \in Characters
  BY SMT
<1>3. \A c \in Characters : c # Nul
  BY DEF Characters, Nul, Quote, Backslash
<1>4. e \in ends /\ \A k \in ends : k >= e
  <2>1. e \in ends
    BY <1>1
  <2>2. ASSUME NEW k \in ends, k < e
        PROVE  FALSE
    <3>1. k \in 1..n /\ a[k] = Nul
      OBVIOUS
    <3>2. k \in 1..Len(s) /\ a[k] = s[k]
      BY <1>1, <2>2, <3>1
    <3> QED
      BY <1>2, <1>3, <3>1, <3>2
  <2>3. \A k \in ends : k \in Int
    BY SMT
  <2> HIDE DEF ends
  <2> QED
    BY <1>1, <2>1, <2>2, <2>3, SMT
<1>5. Min(ends) = e
  <2> DEFINE Least(m) == m \in ends /\ \A y \in ends : m =< y
  <2>1. \A k \in ends : k \in Int
    BY SMT
  <2> HIDE DEF ends
  <2>2. Least(e) /\ \A m : Least(m) => m = e
    BY <1>1, <1>4, <2>1, SMT
  <2>3. Min(ends) = CHOOSE m : Least(m)
    BY DEF Min
  <2> HIDE DEF Least
  <2> QED
    BY <2>2, <2>3
<1>6. ends # {} /\ HasNul(a)
  BY <1>4 DEF HasNul
<1>7. BeforeNul(a) = SubSeq(a, 1, Len(s))
  <2>1. BeforeNul(a) = IF ends = {} THEN a ELSE SubSeq(a, 1, Min(ends) - 1)
    BY DEF BeforeNul
  <2> HIDE DEF ends
  <2> QED
    BY <1>1, <1>5, <1>6, <2>1
<1>8. SubSeq(a, 1, Len(s)) = s
  <2> DEFINE b == SubSeq(a, 1, Len(s))
  <2>1. a \in Seq(C) /\ Len(a) = n /\ s \in Seq(C)
    BY SMT
  <2> HIDE DEF C
  <2>2. b \in Seq(C) /\ Len(b) = Len(s) /\ \A k \in 1..Len(s) : b[k] = a[k]
    BY <1>1, <2>1, SMT
  <2> HIDE DEF b
  <2>3. \A k \in 1..Len(s) : b[k] = s[k]
    BY <1>1, <2>2, SMT
  <2>4. b = s
    BY <2>1, <2>2, <2>3, SMT
  <2> QED
    BY <2>4 DEF b
<1> QED
  BY <1>6, <1>7, <1>8

\* What strncpy does to an array.
LEMMA CopiedInto ==
    ASSUME NEW m \in Nat, NEW n \in Nat, NEW old \in [1..m -> Characters \union {Nul}], NEW s \in Seq(Characters)
    PROVE  /\ CopiedTo(old, s, n) \in [1..m -> Characters \union {Nul}]
           /\ \A k \in 1..m : CopiedTo(old, s, n)[k] = IF k > n THEN old[k] ELSE IF k =< Len(s) THEN s[k] ELSE Nul
<1> DEFINE c == CopiedTo(old, s, n)
<1>1. c = [k \in 1..m |-> IF k > n THEN old[k] ELSE IF k =< Len(s) THEN s[k] ELSE Nul]
  BY DEF CopiedTo
<1>2. \A k \in 1..m : k =< Len(s) => s[k] \in Characters
  BY SMT
<1> HIDE DEF c
<1> QED
  BY <1>1, <1>2 DEF c

\* The array holds what was last put into it, and nothing else.
Filled ==
    \A k \in 1..StringMax : val_string[k] = IF k =< Len(wanted) THEN wanted[k] ELSE Nul

StringInv == StringTypeOK /\ Filled /\ StringAgrees

\* An array holds the string up to a NUL, or has no NUL and holds as much of it as there is room.
LEMMA StringRead ==
    ASSUME StringTypeOK, Filled
    PROVE  /\ Len(wanted) < StringMax => BeforeNul(val_string) = wanted /\ HasNul(val_string) /\ Prints = {wanted}
           /\ ~(Len(wanted) < StringMax) => val_string = SubSeq(wanted, 1, StringMax) /\ ~HasNul(val_string)
<1>1. /\ StringMax \in Nat \ {0} /\ wanted \in Seq(Characters) /\ Len(wanted) \in Nat
      /\ val_string \in [1..StringMax -> Characters \union {Nul}]
  BY VarStringAssumption, SMT DEF StringTypeOK
<1>2. ASSUME Len(wanted) < StringMax
      PROVE  BeforeNul(val_string) = wanted /\ HasNul(val_string) /\ Prints = {wanted}
  <2>1. /\ \A k \in 1..StringMax : k =< Len(wanted) => val_string[k] = wanted[k]
        /\ \A k \in 1..StringMax : k = Len(wanted) + 1 => ~(k =< Len(wanted))
    BY <1>1, SMT DEF Filled
  <2>2. \A k \in 1..StringMax : k = Len(wanted) + 1 => val_string[k] = Nul
    BY <2>1 DEF Filled
  <2>3. BeforeNul(val_string) = wanted /\ HasNul(val_string)
    <3>1. StringMax \in Nat
      BY <1>1
    <3> QED
      BY <1>1, <1>2, <2>1, <2>2, <3>1, StringBefore
  <2> QED
    BY <2>3 DEF Prints
<1>3. ASSUME ~(Len(wanted) < StringMax)
      PROVE  val_string = SubSeq(wanted, 1, StringMax) /\ ~HasNul(val_string)
  <2>1. \A k \in 1..StringMax : k =< Len(wanted) /\ k \in 1..Len(wanted)
    BY <1>1, <1>3, SMT
  <2>2. \A k \in 1..StringMax : val_string[k] = wanted[k]
    BY <2>1 DEF Filled
  <2>3. \A k \in 1..Len(wanted) : wanted[k] \in Characters
    BY <1>1, SMT
  <2>4. \A c \in Characters : c # Nul
    BY DEF Characters, Nul, Quote, Backslash
  <2>5. ~HasNul(val_string)
    <3>1. DOMAIN val_string = 1..StringMax
      BY <1>1
    <3> QED
      BY <2>1, <2>2, <2>3, <2>4, <3>1 DEF HasNul
  <2>6. val_string = SubSeq(wanted, 1, StringMax)
    <3> DEFINE C == Characters \union {Nul}
               b == SubSeq(wanted, 1, StringMax)
    <3>1. val_string \in Seq(C) /\ Len(val_string) = StringMax /\ wanted \in Seq(C)
      BY <1>1, SMT
    <3> HIDE DEF C
    <3>2. b \in Seq(C) /\ Len(b) = StringMax /\ \A k \in 1..StringMax : b[k] = wanted[k]
      BY <1>1, <1>3, <3>1, SMT
    <3> HIDE DEF b
    <3>3. val_string = b
      BY <2>2, <3>1, <3>2, SMT
    <3> QED
      BY <3>3 DEF b
  <2> QED
    BY <2>5, <2>6
<1> QED
  BY <1>2, <1>3

\* What canopy_var_get_string leaves in a buffer.
LEMMA StringGot ==
    ASSUME StringTypeOK, Filled, NEW n \in 1..(StringMax + 1), NEW got, got = GetsString(Uncleared(n))
    PROVE  Len(wanted) < n /\ Len(wanted) < StringMax => BeforeNul(got) = wanted /\ HasNul(got)
<1> DEFINE d == IF n < StringMax THEN n ELSE StringMax
           u == Uncleared(n)
           b == BeforeNul(val_string)
           C == Characters \union {Nul}
<1>1. /\ StringMax \in Nat \ {0} /\ wanted \in Seq(Characters) /\ Len(wanted) \in Nat /\ n \in Nat
      /\ val_string \in [1..StringMax -> C]
  BY VarStringAssumption, SMT DEF StringTypeOK
<1>2. u \in [1..n -> C] /\ \A k \in 1..n : u[k] = "a"
  BY DEF Uncleared, Characters
<1>3. d \in Nat /\ d =< n /\ d =< StringMax /\ (d = n \/ d = StringMax)
  BY <1>1, SMT
<1>4. got = CopiedTo(u, b, d)
  <2>1. Len(u) = n
    BY <1>1, <1>2, SMT
  <2> HIDE DEF u, b
  <2>2. got = CopiedTo(u, b, IF Len(u) < StringMax THEN Len(u) ELSE StringMax)
    BY DEF GetsString, u, b
  <2> QED
    BY <2>1, <2>2
<1> HIDE DEF u, d
<1>5. ASSUME b \in Seq(Characters)
      PROVE  /\ got \in [1..n -> C]
             /\ \A k \in 1..n : got[k] = IF k > d THEN "a" ELSE IF k =< Len(b) THEN b[k] ELSE Nul
  <2> HIDE DEF b
  <2> QED
    BY <1>1, <1>2, <1>3, <1>4, <1>5, CopiedInto
<1>8. ASSUME Len(wanted) < n, Len(wanted) < StringMax
      PROVE  BeforeNul(got) = wanted /\ HasNul(got)
  <2>1. b = wanted
    BY <1>8, StringRead
  <2>2. /\ got \in [1..n -> C]
        /\ \A k \in 1..n : got[k] = IF k > d THEN "a" ELSE IF k =< Len(wanted) THEN wanted[k] ELSE Nul
    BY <1>1, <1>5, <2>1
  <2>3. \A k \in 1..n : k =< Len(wanted) + 1 => ~(k > d)
    BY <1>1, <1>3, <1>8, SMT
  <2>4. \A k \in 1..n : k =< Len(wanted) => k =< Len(wanted) + 1
    BY <1>1, SMT
  <2>5. \A k \in 1..n : k = Len(wanted) + 1 => k =< Len(wanted) + 1 /\ ~(k =< Len(wanted))
    BY <1>1, SMT
  <2>6. \A k \in 1..n : k =< Len(wanted) => got[k] = wanted[k]
    BY <2>2, <2>3, <2>4
  <2>7. \A k \in 1..n : k = Len(wanted) + 1 => got[k] = Nul
    BY <2>2, <2>3, <2>5
  <2> HIDE DEF b
  <2> QED
    BY <1>1, <1>8, <2>2, <2>6, <2>7, StringBefore
<1> QED
  BY <1>8

\* Once set, a string is read as it was put.
LEMMA StringReadFollows == StringInv => StringReadsBack
<1> SUFFICES ASSUME StringInv
             PROVE  StringReadsBack
  OBVIOUS
<1>1. StringTypeOK /\ Filled /\ Len(wanted) \in Nat /\ StringMax \in Nat
  BY VarStringAssumption, SMT DEF StringInv, StringTypeOK
<1>2. /\ Len(wanted) < StringMax => BeforeNul(val_string) = wanted /\ Prints = {wanted}
      /\ Len(wanted) >= StringMax => val_string = SubSeq(wanted, 1, StringMax)
  <2>1. Len(wanted) >= StringMax => ~(Len(wanted) < StringMax)
    BY <1>1, SMT
  <2> QED
    BY <1>1, <2>1, StringRead
<1>3. ASSUME NEW n \in 1..(StringMax + 1)
      PROVE  LET got == GetsString(Uncleared(n))
             IN  Len(wanted) < n /\ Len(wanted) < StringMax => BeforeNul(got) = wanted /\ HasNul(got)
  <2> DEFINE got == GetsString(Uncleared(n))
  <2>1. PICK g : g = got
    OBVIOUS
  <2> HIDE DEF got
  <2>2. Len(wanted) < n /\ Len(wanted) < StringMax => BeforeNul(g) = wanted /\ HasNul(g)
    BY <1>1, <2>1, StringGot DEF got
  <2> QED
    BY <2>1, <2>2 DEF got
<1> QED
  BY <1>2, <1>3 DEF StringReadsBack

\* Copying a string into the array.
LEMMA StoresString ==
    ASSUME StringTypeOK, NEW s \in Seq(Characters), NEW v, v = StoredString(s)
    PROVE  /\ v \in [1..StringMax -> Characters \union {Nul}]
           /\ \A k \in 1..StringMax : v[k] = IF k =< Len(s) THEN s[k] ELSE Nul
<1>1. StringMax \in Nat /\ val_string \in [1..StringMax -> Characters \union {Nul}]
  BY VarStringAssumption DEF StringTypeOK
<1>2. v = CopiedTo(val_string, s, StringMax)
  BY DEF StoredString
<1>3. \A k \in 1..StringMax : ~(k > StringMax)
  BY <1>1, SMT
<1> QED
  BY <1>1, <1>2, <1>3, CopiedInto

\* Each step of a string variable keeps it.
LEMMA StringStep ==
    ASSUME StringInv, [StringNext]_string
    PROVE  StringInv'
<1>1. StringTypeOK /\ Filled /\ StringAgrees
  BY DEF StringInv
<1>2. ASSUME NEW s \in Seq(Characters), val_string' = StoredString(s), wanted' = s
      PROVE  val_string' \in [1..StringMax -> Characters \union {Nul}] /\ Filled'
  <2>1. PICK v : v = val_string'
    OBVIOUS
  <2>2. /\ v \in [1..StringMax -> Characters \union {Nul}]
        /\ \A k \in 1..StringMax : v[k] = IF k =< Len(s) THEN s[k] ELSE Nul
    BY <1>1, <1>2, <2>1, StoresString
  <2> QED
    BY <1>2, <2>1, <2>2 DEF Filled
<1>3. CASE UNCHANGED string
  <2>1. (BeforeNul(val_string))' = BeforeNul(val_string) /\ (Escaped(remote_held))' = Escaped(remote_held)
    BY <1>3 DEF string, BeforeNul, Escaped
  <2> QED
    BY <1>1, <1>3, <2>1 DEF string, StringInv, StringTypeOK, Filled, StringAgrees
<1>4. ASSUME NEW s \in Strings, SetString(s)
      PROVE  StringInv'
  <2>1. s \in Seq(Characters)
    BY VarStringAssumption
  <2>2. /\ val_string' = StoredString(s) /\ wanted' = s /\ val_set' = TRUE /\ val_dirty' = TRUE
        /\ UNCHANGED <<remote_held, differ>>
    BY <1>4 DEF SetString
  <2>3. val_string' \in [1..StringMax -> Characters \union {Nul}] /\ Filled'
    BY <1>2, <2>1, <2>2
  <2> QED
    BY <1>1, <2>1, <2>2, <2>3 DEF StringInv, StringTypeOK, StringAgrees
<1>5. ASSUME NEW s \in Strings, StringElsewhere(s)
      PROVE  StringInv'
  <2>1. s \in Seq(Characters)
    BY VarStringAssumption
  <2> QED
    BY <1>1, <1>5, <2>1 DEF StringElsewhere, StringInv, StringTypeOK, Filled, StringAgrees
<1>6. CASE EmitStringFails
  BY <1>1, <1>6 DEF EmitStringFails, StringInv, StringTypeOK, Filled, StringAgrees
<1>7. CASE EmitString
  <2>1. PICK raw \in Prints : \E s \in Spells(raw) : remote_held' = s
    BY <1>7 DEF EmitString
  <2>2. PICK s \in Spells(raw) : remote_held' = s
    BY <2>1
  <2>3. Escaped(s) = raw /\ s \in UNION {[1..n -> Characters] : n \in 0..Len(raw)}
    BY DEF Spells
  <2>4. s \in Seq(Characters)
    <3>1. PICK n \in 0..Len(raw) : s \in [1..n -> Characters]
      BY <2>3
    <3>2. CASE n \in Nat
      BY <3>1, <3>2, SMT
    <3>3. n \in Nat
      <4>1. \A m : n \in 0..m => n \in Nat
        BY SMT
      <4> QED
        BY <4>1
    <3> QED
      BY <3>2, <3>3
  <2>5. UNCHANGED <<val_string, val_set, wanted>> /\ val_dirty' = FALSE /\ differ' = FALSE
    BY <1>7 DEF EmitString
  <2>6. StringTypeOK' /\ Filled'
    BY <1>1, <2>2, <2>4, <2>5 DEF StringTypeOK, Filled
  <2>7. StringAgrees'
    <3>1. ASSUME Len(wanted) < StringMax
          PROVE  Escaped(s) = BeforeNul(val_string)
      <4>1. Prints = {wanted} /\ BeforeNul(val_string) = wanted
        BY <1>1, <3>1, StringRead
      <4> QED
        BY <2>3, <4>1
    <3>2. (Escaped(remote_held))' = Escaped(s) /\ (BeforeNul(val_string))' = BeforeNul(val_string)
      BY <2>2, <2>5 DEF Escaped, BeforeNul
    <3> QED
      BY <2>5, <3>1, <3>2 DEF StringAgrees
  <2> QED
    BY <2>6, <2>7 DEF StringInv
<1>8. CASE ParseString
  <2>1. /\ val_string' = StoredString(TokenText) /\ wanted' = TokenText /\ val_set' = TRUE /\ differ' = FALSE
        /\ UNCHANGED <<val_dirty, remote_held>> /\ TokenText = Escaped(remote_held)
    BY <1>8 DEF ParseString, TokenText
  <2>2. TokenText \in Seq(Characters)
    <3>1. Escaped(remote_held) \in Seq(Characters)
      BY <1>1, EscapedType DEF StringTypeOK
    <3> QED
      BY <2>1, <3>1
  <2>3. val_string' \in [1..StringMax -> Characters \union {Nul}] /\ Filled'
    BY <1>2, <2>1, <2>2
  <2>4. StringTypeOK'
    BY <1>1, <2>1, <2>2, <2>3 DEF StringTypeOK
  <2>5. ASSUME Len(wanted') < StringMax
        PROVE  (BeforeNul(val_string))' = wanted'
    <3>1. PICK v, w : v = val_string' /\ w = wanted'
      OBVIOUS
    <3>2. /\ v \in [1..StringMax -> Characters \union {Nul}] /\ w \in Seq(Characters)
          /\ \A k \in 1..StringMax : v[k] = IF k =< Len(w) THEN w[k] ELSE Nul
      BY <2>1, <2>2, <2>3, <3>1 DEF Filled
    <3>3. Len(w) < StringMax /\ StringMax \in Nat /\ \A k \in 1..StringMax : k = Len(w) + 1 => ~(k =< Len(w))
      BY <2>5, <3>1, <3>2, VarStringAssumption, SMT
    <3>4. BeforeNul(v) = w
      BY <3>2, <3>3, StringBefore
    <3> QED
      BY <3>1, <3>4 DEF BeforeNul
  <2>6. (Escaped(remote_held))' = Escaped(remote_held)
    BY <2>1 DEF Escaped
  <2>7. StringAgrees'
    BY <2>1, <2>5, <2>6 DEF StringAgrees
  <2> QED
    BY <2>3, <2>4, <2>7 DEF StringInv
<1> QED
  BY <1>3, <1>4, <1>5, <1>6, <1>7, <1>8 DEF StringNext

\* The array is cleared and nothing has been put in.
LEMMA StringStarts == StringInit => StringInv
<1> SUFFICES ASSUME StringInit
             PROVE  StringInv
  OBVIOUS
<1>1. StringMax \in Nat \ {0} /\ <<>> \in Seq(Characters) /\ Len(<<>>) = 0 /\ \A k \in 1..StringMax : ~(k =< 0)
  BY VarStringAssumption, SMT
<1> QED
  BY <1>1 DEF StringInit, StringInv, StringTypeOK, Filled, StringAgrees

-------------------------------------------------------------------------------
(* All kinds of storage in a device                                        *)

CellSpec == CellInit /\ [][CellNext]_cell
StringSpec == StringInit /\ [][StringNext]_string

\* A behaviour of the device is one of each of its parts.
LEMMA PartsOfDevice == LocalSpec => CellSpec /\ StringSpec /\ TextsSpec /\ NamesSpec
<1>1. LocalInit => CellInit /\ StringInit /\ TextsInit /\ NamesInit
  BY DEF LocalInit
<1>2. [LocalNext]_localVars =>
         [CellNext]_cell /\ [StringNext]_string /\ [TextsNext]_texts /\ [NamesNext]_names
  BY DEF LocalNext, localVars
<1> QED
  BY <1>1, <1>2, PTL DEF LocalSpec, CellSpec, StringSpec, TextsSpec, NamesSpec

\* From the cleared union on, and from the cleared array.
LEMMA CellInvariance == CellSpec => []CellInv
BY CellStarts, CellStep, PTL DEF CellSpec

LEMMA StringInvariance == StringSpec => []StringInv
BY StringStarts, StringStep, PTL DEF StringSpec

\* The bytes of a number are bytes, the characters of a string characters, no text has a NUL in
\* it, each flag is 0 or 1, and the application's handles are of structs in the list.
THEOREM CellsKeepTypes == LocalSpec => []TypeOK
<1>1. CellInv /\ StringInv /\ TextsTypeOK /\ NamesTypeOK => TypeOK
  BY DEF CellInv, StringInv, TypeOK
<1> QED
  BY <1>1, PartsOfDevice, CellInvariance, StringInvariance, TextsInvariance, NamesTypesInvariance, PTL

\* For bytes of any even number of values, longs of any size from four to eight bytes and strings
\* of any length: what canopy_var_set_* or c_json_parse_vars put into a variable is what its getter
\* returns and what is sent, whatever the union or the array held before, but for the numbers that
\* atoi, atoll and canopy_var_set_uint32 do not reach and the strings that fill their array.
THEOREM ValuesReadBack == LocalSpec => []ReadsBack
<1>1. CellInv /\ StringInv => ReadsBack
  BY StringReadFollows DEF CellInv, ReadsBack
<1> QED
  BY <1>1, PartsOfDevice, CellInvariance, StringInvariance, PTL

\* With the same generality: c_json_emit_vars and c_json_parse_vars undo each other, so that device
\* and server agree on a variable that is not dirty unless another client wrote or an exchange
\* failed, although %e keeps too few digits and neither side knows JSON's escapes.
THEOREM CleanValuesAgree == LocalSpec => []CleanAgrees
<1>1. CellInv /\ StringInv => CleanAgrees
  BY DEF CellInv, StringInv, CleanAgrees
<1> QED
  BY <1>1, PartsOfDevice, CellInvariance, StringInvariance, PTL

===============================================================================
