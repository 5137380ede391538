------------------------------ MODULE DeviceTexts ------------------------------
(***************************************************************************)
(* friendly_name and location_note as the bytes of struct canopy_device,   *)
(* with the flags that lie behind them: the setters, the getters, the      *)
(* parsers of their tags, the payload of a push and _clear_dirty_flags.    *)
(***************************************************************************)
EXTENDS Integers, SequencesExt

CONSTANTS
    NameMax,   \* CANOPY_FRIENDLY_NAME_MAX_LENGTH, 128
    NoteMax,   \* CANOPY_NOTE_MAX_LENGTH, 1024
    Given,     \* the texts that the application sets
    Answered   \* the texts that the server sends

\* Neither of them has a NUL in it, and the server's fit in the parser's buffer.
ASSUME DeviceTextsAssumption ==
    /\ NameMax \in Nat \ {0} /\ NoteMax \in Nat \ {0}
    /\ Given \subseteq Seq(Nat \ {0})
    /\ Answered \subseteq {s \in Seq(Nat \ {0}) : Len(s) =< NoteMax}

VARIABLES
    mem,       \* the bytes from friendly_name[0] to ws_connected
    in_push,   \* a push has sent its payload and has not returned
    sent,      \* the texts in that payload
    latest,    \* history: each text as it was last put in
    unsent     \* history: the application put it in, and no push has succeeded since

texts == <<mem, in_push, sent, latest, unsent>>

-------------------------------------------------------------------------------
(* The layout of the struct, and strings in it                             *)

TextFields == {"friendly_name", "location_note"}
MaxLength == [friendly_name |-> NameMax, location_note |-> NoteMax]
Start == [friendly_name |-> 1, location_note |-> NameMax + 2]

\* The flag lies behind the text, ws_connected behind the last flag.  It is never set.
Flag(f) == Start[f] + MaxLength[f]
Size == NameMax + NoteMax + 3

\* The C string that starts at a byte of m.
CString(m, at) ==
    LET nul == CHOOSE k \in at..Size : m[k] = 0 /\ \A j \in at..(k - 1) : m[j] # 0
    IN  SubSeq(m, at, nul - 1)

Shorter(a, b) == IF a < b THEN a ELSE b

\* m with s from a byte on.
Over(m, at, s) == [k \in 1..Size |-> IF k \in at..(at + Len(s) - 1) THEN s[k - at + 1] ELSE m[k]]

\* strncpy: the rest of the n bytes is filled up with NULs, if there is one.
Copied(s, n) == [k \in 1..n |-> IF k =< Len(s) THEN s[k] ELSE 0]

Dirty(f) == mem[Flag(f)] # 0

-------------------------------------------------------------------------------

\* MUTANT: the limit is taken to be that of a text with its terminator.
AllowsOneMore(f, s) == Len(s) =< MaxLength[f] + 1

\* MUTANT: there is no check.
AllowsAll(f, s) == TRUE

\* The setters' check.
Allows(f, s) == Len(s) =< MaxLength[f]

\* MUTANT: memcpy.
SetWithoutNul(s) == s

\* strcpy takes the terminator along.
SetInto(s) == Append(s, 0)

\* canopy_device_set_friendly_name, canopy_device_set_location_note.  The terminator of a
\* text that fills its array lies on the flag, until the flag is set.
SetText(f, s) ==
    /\ ~in_push
    /\ Allows(f, s)
    /\ mem' = Over(Over(mem, Start[f], SetInto(s)), Flag(f), <<1>>)
    /\ latest' = [latest EXCEPT ![f] = s]
    /\ unsent' = [unsent EXCEPT ![f] = TRUE]
    /\ UNCHANGED <<in_push, sent>>

\* A push prints the texts that are dirty with "%s".
SendTexts ==
    /\ ~in_push
    /\ in_push' = TRUE
    /\ sent' = [f \in TextFields |-> IF Dirty(f) THEN CString(mem, Start[f]) ELSE <<>>]
    /\ UNCHANGED <<mem, latest, unsent>>

\* What the parser copies.
ParsedInto(f, s) == Copied(s, MaxLength[f])

\* The tag of the text in the answer, in c_json_parse_device.
ParseText(f, s) ==
    /\ in_push
    /\ mem' = Over(Over(mem, Start[f], ParsedInto(f, s)), Flag(f), <<0>>)
    /\ latest' = [latest EXCEPT ![f] = SubSeq(s, 1, Shorter(Len(s), MaxLength[f]))]
    /\ unsent' = [unsent EXCEPT ![f] = FALSE]
    /\ UNCHANGED <<in_push, sent>>

\* _clear_dirty_flags, at the end of a call that succeeded.
ClearFlags ==
    /\ in_push
    /\ mem' = [mem EXCEPT ![Flag("friendly_name")] = 0, ![Flag("location_note")] = 0]
    /\ in_push' = FALSE
    /\ sent' = [f \in TextFields |-> <<>>]
    /\ unsent' = [f \in TextFields |-> FALSE]
    /\ UNCHANGED latest

\* The other ways out of the call.
PushFails ==
    /\ in_push
    /\ in_push' = FALSE
    /\ sent' = [f \in TextFields |-> <<>>]
    /\ UNCHANGED <<mem, latest, unsent>>

TextsInit ==
    /\ mem = [k \in 1..Size |-> 0]
    /\ in_push = FALSE
    /\ sent = [f \in TextFields |-> <<>>]
    /\ latest = [f \in TextFields |-> <<>>]
    /\ unsent = [f \in TextFields |-> FALSE]

TextsNext ==
    \/ \E f \in TextFields : \/ \E s \in Given : SetText(f, s)
                             \/ \E s \in Answered : ParseText(f, s)
    \/ SendTexts
    \/ ClearFlags
    \/ PushFails

-------------------------------------------------------------------------------
(* The getters change nothing.                                             *)

\* MUTANT: the text is measured without its array's limit.
MeasuredFreely(f) == Len(CString(mem, Start[f]))

\* strnlen
Measured(f) == Shorter(Len(CString(mem, Start[f])), MaxLength[f])

\* canopy_device_get_friendly_name, canopy_device_get_location_note: what they leave in a
\* buffer of n bytes, as a C string.
Gets(f, n) ==
    IF Measured(f) > n THEN [err |-> "BUFFER_TOO_SMALL", got |-> <<>>]
    ELSE [err |-> "SUCCESS", got |-> SubSeq(CString(mem, Start[f]), 1, Shorter(n - 1, Len(CString(mem, Start[f]))))]

-------------------------------------------------------------------------------

TextsTypeOK ==
    /\ mem \in [1..Size -> Nat] /\ mem[Size] = 0
    /\ \A f \in TextFields : mem[Flag(f)] \in {0, 1}
    /\ in_push \in BOOLEAN
    /\ sent \in [TextFields -> Seq(Nat \ {0})] /\ latest \in [TextFields -> Seq(Nat \ {0})]
    /\ unsent \in [TextFields -> BOOLEAN]

\* Each text stays as it was last put in, and its flag tells whether that is still to be
\* sent, whatever is put into the array and the flag next to it: one text never reaches
\* the other, a terminator never outlives on a flag.
TextsKeep ==
    \A f \in TextFields :
       /\ SubSeq(mem, Start[f], Start[f] + Len(latest[f]) - 1) = latest[f]
       /\ Len(latest[f]) < MaxLength[f] => mem[Start[f] + Len(latest[f])] = 0
       /\ Dirty(f) <=> unsent[f]

\* What a push sends is the text, if it is shorter than its array.  If it fills the array,
\* the flag that has it sent is sent as a part of it.
SentIsText ==
    in_push => \A f \in TextFields :
       sent[f] # <<>> /\ unsent[f] =>
          IF Len(latest[f]) < MaxLength[f] THEN sent[f] = latest[f]
          ELSE Len(sent[f]) > Len(latest[f])

\* A getter returns the text if there is a byte more in the buffer than in the text, and a
\* byte more in the array; it refuses a buffer that is shorter than the text, and none that
\* is longer.
GotIsText ==
    \A f \in TextFields, n \in 0..(NoteMax + 1) :
       LET length == Len(latest[f])
           gets == Gets(f, n)
       IN  /\ n > length /\ length < MaxLength[f] => gets = [err |-> "SUCCESS", got |-> latest[f]]
           /\ n > length => gets.err = "SUCCESS"
           /\ n < length => gets.err = "BUFFER_TOO_SMALL"

\* "Returns the error CANOPY_ERROR_BUFFER_TOO_SMALL if <len> is not large enough to hold the
\* result" (canopy_min.h:880-881, 893-894): what is returned with SUCCESS is the whole text.
TooSmallIsSaid ==
    \A f \in TextFields, n \in 0..(NoteMax + 1) :
       Len(latest[f]) < MaxLength[f] =>
          Gets(f, n).err = "BUFFER_TOO_SMALL" \/ Gets(f, n).got = latest[f]

===============================================================================
