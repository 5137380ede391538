----------------------------- MODULE HttpReceive ------------------------------
(***************************************************************************)
(* One HTTP exchange after another into the remote's receive buffer        *)
(* (linux/linux_communication.c).  curl hands the body over in chunks;     *)
(* _curl_write_handler appends each to the buffer.  The buffer belongs to  *)
(* the application and is never cleared: every exchange starts over what   *)
(* the one before it left.  The callers read the body back as a C string   *)
(* (strlen in canopy_device.c).                                            *)
(***************************************************************************)
EXTENDS Integers, Sequences

CONSTANTS
    Bytes,    \* bytes a body is made of
    NUL,      \* the terminator
    Size,     \* rcv_buffer_size
    MaxBody   \* bound: length of the longest body a server sends

ASSUME HttpReceiveAssumption ==
    /\ NUL \notin Bytes
    /\ Size \in Nat \ {0}
    /\ MaxBody \in Nat

VARIABLES
    buffer,     \* rcv_buffer; cell Size is the byte behind it
    filled,     \* private.offset
    body,       \* the body the server sends in this exchange
    delivered,  \* how much of it curl has handed to the handler in full
    phase,      \* "idle", "transfer" or "done"
    outcome,    \* what canopy_http_perform returned
    rcv_end,    \* where it says the body ends
    stale       \* history: what strlen(rcv_buffer) was when the exchange began

receiveVars == <<buffer, filled, body, delivered, phase, outcome, rcv_end, stale>>

Cells == 0..Size

Bodies == UNION {[1..n -> Bytes] : n \in 0..MaxBody}

\* strlen(rcv_buffer), as the callers compute it: Size + 1 if it runs on behind the byte
\* that follows the buffer.
StrLen == IF \E i \in Cells : buffer[i] = NUL
          THEN CHOOSE i \in Cells : buffer[i] = NUL /\ \A j \in 0..(i - 1) : buffer[j] # NUL
          ELSE Size + 1

-------------------------------------------------------------------------------
(* _curl_write_handler                                                     *)

\* MUTANT: room is kept for the terminator.
RemainingLessOne == Size - filled - 1

\* buffer_remaining: not leaving room for the terminator.
Remaining == Size - filled

\* MUTANT: the whole chunk is copied, room or not.
CopiedWhole(k) == k

\* LOCAL_MIN(chunk_size, buffer_remaining)
Copied(k) == IF k < Remaining THEN k ELSE Remaining

\* MUTANT: every chunk goes to the front of the buffer.
CopyToFront(n) ==
    [i \in Cells |-> IF i < n THEN body[delivered + i + 1] ELSE buffer[i]]

\* memcpy of the next n bytes of the body.
Copy(n) ==
    [i \in Cells |-> IF i >= filled /\ i < filled + n
                     THEN body[delivered + (i - filled) + 1] ELSE buffer[i]]

\* MUTANT: no terminator at all.
NotTerminated(b, end) == b

\* The terminator goes one cell behind the end of the body, and nowhere if the
\* buffer is full.
Terminated(b, end) == IF Size > end THEN [b EXCEPT ![end + 1] = NUL] ELSE b

\* curl hands over the next k bytes.  If fewer are taken it gives up, and
\* canopy_http_perform returns OUT_OF_MEMORY.
WriteHandler(k) ==
    /\ phase = "transfer"
    /\ LET n == Copied(k)
       IN  /\ buffer' = Terminated(Copy(n), filled + n)
           /\ filled' = filled + n
           /\ IF n = k
              THEN /\ delivered' = delivered + k
                   /\ UNCHANGED <<phase, outcome>>
              ELSE /\ phase' = "done"
                   /\ outcome' = "OUT_OF_MEMORY"
                   /\ UNCHANGED delivered
    /\ UNCHANGED <<body, rcv_end, stale>>

-------------------------------------------------------------------------------
(* canopy_http_perform                                                     *)

\* A barrier was passed, or curl could not be initialised.
Refused ==
    /\ phase # "transfer"
    /\ phase' = "done"
    /\ outcome' \in {"NOT_IMPLEMENTED", "NETWORK"}
    /\ UNCHANGED <<buffer, filled, body, delivered, rcv_end, stale>>

Begin(b) ==
    /\ phase # "transfer"
    /\ phase' = "transfer"
    /\ body' = b
    /\ filled' = 0
    /\ delivered' = 0
    /\ stale' = StrLen
    /\ UNCHANGED <<buffer, outcome, rcv_end>>

TransferBreaks ==
    /\ phase = "transfer"
    /\ phase' = "done"
    /\ outcome' = "NETWORK"
    /\ UNCHANGED <<buffer, filled, body, delivered, rcv_end, stale>>

TransferEnds ==
    /\ phase = "transfer"
    /\ delivered = Len(body)
    /\ phase' = "done"
    /\ outcome' = "SUCCESS"
    /\ rcv_end' = filled
    /\ UNCHANGED <<buffer, filled, body, delivered, stale>>

ReceiveInit ==
    /\ buffer \in [Cells -> Bytes \union {NUL}]
    /\ filled = 0
    /\ body = <<>>
    /\ delivered = 0
    /\ phase = "idle"
    /\ outcome = "NETWORK"
    /\ rcv_end = 0
    /\ stale = StrLen

ReceiveNext ==
    \/ Refused
    \/ \E b \in Bodies : Begin(b)
    \/ \E k \in 1..(Len(body) - delivered) : WriteHandler(k)
    \/ TransferBreaks
    \/ TransferEnds

ReceiveSpec == ReceiveInit /\ [][ReceiveNext]_receiveVars

-------------------------------------------------------------------------------

\* Every variable has the values its declaration in C allows, and filled stays
\* in the buffer, as the assertion in _curl_write_handler says.
ReceiveTypeOK ==
    /\ buffer \in [Cells -> Bytes \union {NUL}]
    /\ filled \in 0..Size
    /\ body \in Seq(Bytes)
    /\ delivered \in 0..Len(body)
    /\ phase \in {"idle", "transfer", "done"}
    /\ outcome \in {"SUCCESS", "NETWORK", "OUT_OF_MEMORY", "NOT_IMPLEMENTED"}
    /\ rcv_end \in 0..Size
    /\ stale \in 0..(Size + 1)

\* Whatever the chunks were, the buffer starts with the part of the body that
\* has been handed over, and no chunk is lost while there is room.
BodyAtFront ==
    /\ delivered =< filled /\ filled =< Len(body)
    /\ phase = "transfer" => filled = delivered
    /\ \A i \in 0..(filled - 1) : buffer[i] = body[i + 1]

\* canopy_http_perform returned for the exchange this module calls body.
Returned(r) == phase = "done" /\ outcome = r

\* The code tells the caller exactly whether the body fitted: OUT_OF_MEMORY
\* only for a body longer than the buffer, SUCCESS only for one that is not, and
\* then rcv_end is its length.
OutcomeIsExact ==
    /\ Returned("OUT_OF_MEMORY") => Len(body) > Size
    /\ Returned("SUCCESS") => Len(body) =< Size /\ rcv_end = Len(body)

\* What the callers take for the length of the body, after any series of exchanges.  The
\* empty body never reaches the handler: all that was there is read again.  One that leaves
\* room is read with at most one stale byte behind it.  For one that fills the buffer there
\* is no end in it.
StrLenOfBody ==
    Returned("SUCCESS") =>
       /\ Len(body) = 0 => StrLen = stale
       /\ Len(body) \in 1..(Size - 1) => StrLen \in {Len(body), Len(body) + 1}
       /\ Len(body) = Size => StrLen >= Size

\* linux_communication.c:47-50: "If the payload fits in the provided buffer, we
\* append a NULL character": what the callers read is the body.
ReadIsBody == Returned("SUCCESS") /\ Len(body) \in 1..(Size - 1) => StrLen = Len(body)

===============================================================================
