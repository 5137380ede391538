-------------------------- MODULE HttpReceiveProofs ---------------------------
(***************************************************************************)
(* The receive buffer, for every set of bytes and every buffer size: the   *)
(* handler stays in the buffer, keeps the body in order, reports exactly   *)
(* whether it fitted, and what strlen makes of each length of a body.      *)
(***************************************************************************)
EXTENDS HttpReceive, Inductions

\* Between two chunks the byte that the handler cleared last is still clear.  It
\* is the one behind the byte that follows the body.
NulAhead ==
    /\ phase = "transfer" /\ filled \in 1..(Size - 1) => buffer[filled + 1] = NUL
    /\ Returned("SUCCESS") =>
          /\ filled = rcv_end
          /\ rcv_end \in 1..(Size - 1) => buffer[rcv_end + 1] = NUL

\* Until the handler gets the first byte of a body, the buffer is as it was.
NothingYet ==
    (phase = "transfer" /\ filled = 0) \/ (Returned("SUCCESS") /\ Len(body) = 0) => StrLen = stale

IInv == ReceiveTypeOK /\ BodyAtFront /\ OutcomeIsExact /\ NulAhead /\ NothingYet

\* strlen finds the first terminator in the buffer or in the byte behind it, or none.
LEMMA StrLenFound ==
    /\ StrLen \in 0..(Size + 1)
    /\ StrLen \in Cells => buffer[StrLen] = NUL /\ \A j \in 0..(StrLen - 1) : buffer[j] # NUL
    /\ StrLen \notin Cells => \A i \in Cells : buffer[i] # NUL
<1> USE HttpReceiveAssumption
<1> DEFINE T == {i \in Cells : buffer[i] = NUL}
           First(i) == buffer[i] = NUL /\ \A j \in 0..(i - 1) : buffer[j] # NUL
<1>1. CASE T = {}
  <2>1. StrLen = Size + 1
    BY <1>1 DEF StrLen
  <2> QED
    BY <1>1, <2>1 DEF Cells
<1>2. CASE T # {}
  <2>1. T \subseteq Nat
    BY DEF Cells
  <2>2. PICK n \in T : \A m \in T : n =< m
    BY <1>2, <2>1, LeastNatural
  <2>3. n \in Cells /\ First(n)
    <3>1. ASSUME NEW j \in 0..(n - 1)
          PROVE  j \in Cells /\ ~(n =< j)
      BY <2>2 DEF Cells
    <3> QED
      BY <2>2, <3>1
  <2>4. StrLen \in Cells /\ First(StrLen)
    BY <2>3 DEF StrLen
  <2> QED
    BY <2>4 DEF Cells
<1> QED
  BY <1>1, <1>2

\* A body is a sequence of bytes.
LEMMA BodyIsSeq == \A b \in Bodies : b \in Seq(Bytes) /\ Len(b) \in Nat
BY DEF Bodies

LEMMA IInvInit == ReceiveInit => IInv
<1>1. ASSUME ReceiveInit PROVE IInv
  <2>. USE <1>1, HttpReceiveAssumption DEF ReceiveInit
  <2>1. ReceiveTypeOK
    BY StrLenFound DEF ReceiveTypeOK
  <2>2. BodyAtFront
    BY DEF BodyAtFront
  <2>3. OutcomeIsExact
    BY DEF OutcomeIsExact, Returned
  <2>4. NulAhead /\ NothingYet
    BY DEF NulAhead, NothingYet, Returned
  <2>. QED
    BY <2>1, <2>2, <2>3, <2>4 DEF IInv
<1>. QED
  BY <1>1

\* What one call of _curl_write_handler does to the buffer.
LEMMA HandlerStep ==
    ASSUME IInv, NEW k \in 1..(Len(body) - delivered), WriteHandler(k)
    PROVE  IInv'
<1>. DEFINE n == Copied(k)
<1>. USE HttpReceiveAssumption
<1>1. /\ buffer \in [Cells -> Bytes \union {NUL}] /\ filled \in 0..Size
      /\ body \in Seq(Bytes) /\ Len(body) \in Nat
      /\ delivered \in 0..Len(body) /\ delivered = filled
      /\ phase = "transfer" /\ k \in Nat \ {0} /\ delivered + k =< Len(body)
      /\ rcv_end \in 0..Size
      /\ outcome \in {"SUCCESS", "NETWORK", "OUT_OF_MEMORY", "NOT_IMPLEMENTED"}
  BY DEF IInv, ReceiveTypeOK, BodyAtFront, WriteHandler
<1>2. /\ n \in 0..k /\ filled + n \in 0..Size
      /\ n # k => filled + n = Size
  BY <1>1 DEF Copied, Remaining
<1>3. \A j \in 1..Len(body) : body[j] \in Bytes
  BY <1>1
<1>4. /\ Copy(n) \in [Cells -> Bytes \union {NUL}]
      /\ \A i \in 0..(filled + n - 1) : Copy(n)[i] = body[i + 1]
  <2>1. \A i \in Cells : i >= filled /\ i < filled + n
           => /\ delivered + (i - filled) + 1 \in 1..Len(body)
              /\ delivered + (i - filled) + 1 = i + 1
    BY <1>1, <1>2 DEF Cells
  <2>2. Copy(n) \in [Cells -> Bytes \union {NUL}]
    BY <1>1, <1>3, <2>1 DEF Copy
  <2>3. \A i \in 0..(filled - 1) : buffer[i] = body[i + 1]
    BY DEF IInv, BodyAtFront
  <2>4. \A i \in 0..(filled + n - 1) : Copy(n)[i] = body[i + 1]
    <3>1. ASSUME NEW i \in 0..(filled + n - 1) PROVE Copy(n)[i] = body[i + 1]
      <4>1. i \in Cells
        BY <1>1, <1>2 DEF Cells
      <4>2. CASE i < filled
        BY <4>1, <4>2, <2>3, <1>1 DEF Copy
      <4>3. CASE i >= filled
        BY <4>1, <4>3, <2>1, <1>1, <1>2 DEF Copy
      <4>. QED
        BY <4>2, <4>3, <1>1
    <3>. QED
      BY <3>1
  <2>. QED
    BY <2>2, <2>4
<1>5. /\ buffer' \in [Cells -> Bytes \union {NUL}]
      /\ \A i \in 0..(filled + n - 1) : buffer'[i] = body[i + 1]
      /\ filled + n < Size => buffer'[filled + n + 1] = NUL
  <2>1. buffer' = Terminated(Copy(n), filled + n)
    BY DEF WriteHandler
  <2>. QED
    BY <1>1, <1>2, <1>4, <2>1 DEF Terminated, Cells
<1>6. /\ filled' = filled + n /\ body' = body /\ rcv_end' = rcv_end
      /\ stale' = stale /\ stale \in 0..(Size + 1)
  BY DEF WriteHandler, IInv, ReceiveTypeOK
<1>9. filled' \in Nat \ {0} /\ Len(body) # 0
  BY <1>1, <1>2, <1>6 DEF Copied, Remaining
<1>7. CASE n = k
  <2>1. delivered' = delivered + k /\ phase' = phase /\ outcome' = outcome
    BY <1>7 DEF WriteHandler
  <2>2. ReceiveTypeOK'
    BY <1>1, <1>2, <1>5, <1>6, <1>7, <2>1 DEF ReceiveTypeOK
  <2>3. BodyAtFront'
    BY <1>1, <1>2, <1>5, <1>6, <1>7, <2>1 DEF BodyAtFront
  <2>4. OutcomeIsExact'
    BY <1>1, <2>1 DEF OutcomeIsExact, Returned
  <2>5. NulAhead' /\ NothingYet'
    BY <1>1, <1>2, <1>5, <1>6, <1>9, <2>1 DEF NulAhead, NothingYet, Returned
  <2>. QED
    BY <2>2, <2>3, <2>4, <2>5 DEF IInv
<1>8. CASE n # k
  <2>1. delivered' = delivered /\ phase' = "done" /\ outcome' = "OUT_OF_MEMORY"
    BY <1>8 DEF WriteHandler
  <2>2. ReceiveTypeOK'
    BY <1>1, <1>2, <1>5, <1>6, <2>1 DEF ReceiveTypeOK
  <2>3. BodyAtFront'
    BY <1>1, <1>2, <1>5, <1>6, <2>1 DEF BodyAtFront
  <2>4. OutcomeIsExact'
    BY <1>1, <1>2, <1>6, <1>8, <2>1 DEF OutcomeIsExact, Returned
  <2>5. NulAhead' /\ NothingYet'
    BY <2>1 DEF NulAhead, NothingYet, Returned
  <2>. QED
    BY <2>2, <2>3, <2>4, <2>5 DEF IInv
<1>. QED
  BY <1>7, <1>8

LEMMA IInvStep == IInv /\ [ReceiveNext]_receiveVars => IInv'
<1>. SUFFICES ASSUME IInv, [ReceiveNext]_receiveVars PROVE IInv'
  OBVIOUS
<1>. USE HttpReceiveAssumption
<1>1. CASE Refused
  BY <1>1 DEF Refused, IInv, ReceiveTypeOK, BodyAtFront, OutcomeIsExact, NulAhead, NothingYet, Returned
<1>2. ASSUME NEW b \in Bodies, Begin(b) PROVE IInv'
  <2>1. b \in Seq(Bytes) /\ Len(b) \in Nat
    BY BodyIsSeq
  <2>2. ReceiveTypeOK'
    BY <1>2, <2>1, StrLenFound DEF Begin, IInv, ReceiveTypeOK
  <2>3. BodyAtFront' /\ OutcomeIsExact' /\ NulAhead'
    BY <1>2, <2>1 DEF Begin, BodyAtFront, OutcomeIsExact, NulAhead, Returned
  <2>4. NothingYet'
    <3>1. stale' = StrLen /\ UNCHANGED buffer
      BY <1>2 DEF Begin
    <3>2. StrLen' = StrLen
      BY <3>1 DEF StrLen
    <3> QED
      BY <3>1, <3>2 DEF NothingYet
  <2>. QED
    BY <2>2, <2>3, <2>4 DEF IInv
<1>3. ASSUME NEW k \in 1..(Len(body) - delivered), WriteHandler(k) PROVE IInv'
  BY <1>3, HandlerStep
<1>4. CASE TransferBreaks
  BY <1>4 DEF TransferBreaks, IInv, ReceiveTypeOK, BodyAtFront, OutcomeIsExact, NulAhead, NothingYet, Returned
<1>5. CASE TransferEnds
  <2>1. Len(body) = filled /\ filled \in 0..Size
    BY <1>5 DEF TransferEnds, IInv, ReceiveTypeOK, BodyAtFront
  <2>2. ReceiveTypeOK' /\ BodyAtFront' /\ OutcomeIsExact' /\ NulAhead'
    BY <1>5, <2>1 DEF TransferEnds, IInv, ReceiveTypeOK, BodyAtFront, OutcomeIsExact, NulAhead, Returned
  <2>3. NothingYet'
    <3>1. StrLen' = StrLen
      BY <1>5 DEF TransferEnds, StrLen
    <3> QED
      BY <1>5, <2>1, <3>1 DEF TransferEnds, IInv, NothingYet
  <2>. QED
    BY <2>2, <2>3 DEF IInv
<1>6. CASE UNCHANGED receiveVars
  <2>1. StrLen' = StrLen
    BY <1>6 DEF receiveVars, StrLen
  <2>. QED
    BY <1>6, <2>1 DEF receiveVars, IInv, ReceiveTypeOK, BodyAtFront, OutcomeIsExact, NulAhead, NothingYet, Returned, Cells
<1>. QED
  BY <1>1, <1>2, <1>3, <1>4, <1>5, <1>6 DEF ReceiveNext

LEMMA IInvHolds == ReceiveSpec => []IInv
<1>1. ReceiveInit => IInv
  BY IInvInit
<1>2. IInv /\ [ReceiveNext]_receiveVars => IInv'
  BY IInvStep
<1>. QED
  BY <1>1, <1>2, PTL DEF ReceiveSpec

\* _curl_write_handler never leaves the buffer, for any buffer size and any way
\* curl cuts the bodies into chunks.
THEOREM OffsetInBuffer == ReceiveSpec => []ReceiveTypeOK
<1>1. IInv => ReceiveTypeOK
  BY DEF IInv
<1>. QED
  BY <1>1, IInvHolds, PTL

\* The chunks are put together in order: the buffer starts with what has been
\* handed over of the body.
THEOREM BodyIsAtFront == ReceiveSpec => []BodyAtFront
<1>1. IInv => BodyAtFront
  BY DEF IInv
<1>. QED
  BY <1>1, IInvHolds, PTL

\* canopy_http_perform reports OUT_OF_MEMORY only for a body longer than the
\* buffer, and SUCCESS only for one that is not.
THEOREM OutcomeExact == ReceiveSpec => []OutcomeIsExact
<1>1. IInv => OutcomeIsExact
  BY DEF IInv
<1>. QED
  BY <1>1, IInvHolds, PTL

\* After SUCCESS strlen in canopy_device.c counts, for each length of the body and whatever the
\* buffer held: for the empty body, all of what an earlier exchange had left; for a body that leaves
\* room, one byte at most that is not of the body, although the terminator is put one cell too far;
\* for one that fills the buffer, at least the whole buffer.
THEOREM StrLenOfEachBody == ReceiveSpec => []StrLenOfBody
<1>1. IInv => StrLenOfBody
  <2>. SUFFICES ASSUME IInv, Returned("SUCCESS")
                PROVE  /\ Len(body) = 0 => StrLen = stale
                       /\ Len(body) \in 1..(Size - 1) => StrLen \in {Len(body), Len(body) + 1}
                       /\ Len(body) = Size => StrLen >= Size
    BY DEF StrLenOfBody
  <2>. DEFINE n == Len(body)
  <2>1. Size \in Nat /\ n \in Nat /\ n =< Size /\ n = rcv_end
    BY HttpReceiveAssumption DEF IInv, OutcomeIsExact, ReceiveTypeOK
  <2>2. n = filled
    BY <2>1 DEF IInv, NulAhead
  <2>3. \A i \in 0..(n - 1) : buffer[i] # NUL
    <3>1. \A i \in 0..(n - 1) : buffer[i] = body[i + 1] /\ body[i + 1] \in Bytes
      BY <2>1, <2>2 DEF IInv, BodyAtFront, ReceiveTypeOK
    <3>. QED
      BY <3>1, HttpReceiveAssumption
  <2>4. n =< StrLen
    BY <2>1, <2>3, StrLenFound DEF Cells
  <2>5. CASE n \in 1..(Size - 1)
    <3>1. buffer[n + 1] = NUL /\ n + 1 \in Cells
      BY <2>1, <2>5 DEF IInv, NulAhead, Cells
    <3>2. StrLen =< n + 1
      BY <2>1, <3>1, StrLenFound DEF Cells
    <3>. QED
      BY <2>1, <2>4, <2>5, <3>2, StrLenFound
  <2>6. CASE n = 0
    BY <2>1, <2>6, HttpReceiveAssumption DEF IInv, NothingYet
  <2>7. CASE n = Size
    BY <2>1, <2>4, <2>7, HttpReceiveAssumption
  <2>. QED
    BY <2>1, <2>5, <2>6, <2>7
<1>. QED
  BY <1>1, IInvHolds, PTL

===============================================================================
