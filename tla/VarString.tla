-------------------------------- MODULE VarString -------------------------------
(***************************************************************************)
(* The value of one string variable: val_string in struct canopy_var_value *)
(* and what crosses the network for it.  The emitter puts quotes around    *)
(* the characters and the parser takes those between the quotes: neither   *)
(* of them knows the escapes of JSON, with which the server reads and      *)
(* writes.                                                                 *)
(***************************************************************************)
EXTENDS Integers, SequencesExt

CONSTANTS
    StringMax,    \* CANOPY_VAR_VALUE_MAX_LENGTH, 128
    Strings,      \* the strings that the application and other clients set
    Behind        \* what a string without its NUL is read on with, behind the struct

\* Characters are one-letter words; NUL is none of them.
Quote == "quote"
Backslash == "backslash"
Nul == "NUL"
Characters == {"a", Quote, Backslash}

ASSUME VarStringAssumption ==
    /\ StringMax \in Nat \ {0}
    /\ Strings \subseteq Seq(Characters)
    /\ Behind \subseteq Seq(Characters)

VARIABLES
    val_string,   \* the array
    val_set,      \* var->set
    val_dirty,    \* var->dirty
    remote_held,  \* the string that the server holds
    wanted,       \* history: the characters that were last put into the array
    differ        \* history: since the last exchange another client wrote, or one failed

string == <<val_string, val_set, val_dirty, remote_held, wanted, differ>>

-------------------------------------------------------------------------------

\* JSON's way to write a string, between the quotes.
Escaped(s) == FlattenSeq([k \in DOMAIN s |->
                  IF s[k] \in {Quote, Backslash} THEN <<Backslash, s[k]>> ELSE <<s[k]>>])

\* The strings that are written so: one or, if the characters are no JSON, none.
Spells(raw) == {s \in UNION {[1..n -> Characters] : n \in 0..Len(raw)} : Escaped(s) = raw}

\* strncpy to an array of n characters that holds old.
CopiedTo(old, s, n) == [k \in DOMAIN old |-> IF k > n THEN old[k] ELSE IF k =< Len(s) THEN s[k] ELSE Nul]

\* The characters in front of the first NUL of an array; all of them if there is none.
BeforeNul(array) ==
    LET ends == {k \in DOMAIN array : array[k] = Nul}
    IN  IF ends = {} THEN array ELSE SubSeq(array, 1, Min(ends) - 1)

HasNul(array) == \E k \in DOMAIN array : array[k] = Nul

\* What "%s" prints of it.
Prints == IF HasNul(val_string) THEN {BeforeNul(val_string)}
          ELSE {val_string \o more : more \in Behind}

\* The strncpy of canopy_var_set_string, which ignores its length, and of c_json_parse_vars.
StoredString(s) == CopiedTo(val_string, s, StringMax)

\* canopy_var_set_string
SetString(s) ==
    /\ val_string' = StoredString(s)
    /\ val_set' = TRUE /\ val_dirty' = TRUE
    /\ wanted' = s
    /\ UNCHANGED <<remote_held, differ>>

\* c_json_emit_vars, and the server takes what it reads between the quotes.
EmitString ==
    /\ val_set /\ val_dirty
    /\ \E raw \in Prints : \E s \in Spells(raw) : remote_held' = s
    /\ val_dirty' = FALSE
    /\ differ' = FALSE
    /\ UNCHANGED <<val_string, val_set, wanted>>

\* The push fails: always, if what is printed is not JSON.
EmitStringFails ==
    /\ val_set /\ val_dirty
    /\ val_dirty' = FALSE
    /\ differ' = TRUE
    /\ UNCHANGED <<val_string, val_set, remote_held, wanted>>

\* Another client writes.
StringElsewhere(s) ==
    /\ remote_held' = s
    /\ differ' = TRUE
    /\ UNCHANGED <<val_string, val_set, val_dirty, wanted>>

\* MUTANT: the parser undoes the escapes.
TokenUnescaped == remote_held

\* The text of the token: jsmn leaves the escapes in it.
TokenText == Escaped(remote_held)

\* c_json_parse_vars, the entry of the variable.  The parser's own array is as long as
\* the variable's, and the text is not measured: a longer one is beyond this model.
ParseString ==
    /\ Len(TokenText) =< StringMax
    /\ val_string' = StoredString(TokenText)
    /\ val_set' = TRUE
    /\ wanted' = TokenText
    /\ differ' = FALSE
    /\ UNCHANGED <<val_dirty, remote_held>>

StringInit ==
    /\ val_string = [k \in 1..StringMax |-> Nul]
    /\ val_set = FALSE /\ val_dirty = FALSE
    /\ remote_held = <<>> /\ wanted = <<>> /\ differ = TRUE

StringNext ==
    \/ \E s \in Strings : SetString(s) \/ StringElsewhere(s)
    \/ EmitString
    \/ EmitStringFails
    \/ ParseString

-------------------------------------------------------------------------------

\* canopy_var_get_string, into a buffer: SUCCESS, whatever the length of the string.
GetsString(buf) ==
    CopiedTo(buf, BeforeNul(val_string), IF Len(buf) < StringMax THEN Len(buf) ELSE StringMax)

\* A buffer that the application has not cleared.
Uncleared(n) == [k \in 1..n |-> "a"]

-------------------------------------------------------------------------------

StringTypeOK ==
    /\ val_string \in [1..StringMax -> Characters \union {Nul}]
    /\ val_set \in BOOLEAN /\ val_dirty \in BOOLEAN /\ differ \in BOOLEAN
    /\ remote_held \in Seq(Characters) /\ wanted \in Seq(Characters)

\* A string that is shorter than the array is the one that is read and printed, whatever was
\* in the array; a longer one is cut.  A buffer that is longer than the string gets it with
\* its end, whatever was in the buffer.
StringReadsBack ==
    /\ Len(wanted) < StringMax => BeforeNul(val_string) = wanted /\ Prints = {wanted}
    /\ Len(wanted) >= StringMax => val_string = SubSeq(wanted, 1, StringMax)
    /\ \A n \in 1..(StringMax + 1) :
          LET got == GetsString(Uncleared(n))
          IN  Len(wanted) < n /\ Len(wanted) < StringMax => BeforeNul(got) = wanted /\ HasNul(got)

\* "buf is null terminated" (canopy_min.h:1304): canopy_var_get_string says SUCCESS, and there
\* is an end in the caller's buffer.
GotStringEnds ==
    val_set => \A n \in 1..(StringMax + 1) : HasNul(GetsString(Uncleared(n)))

\* A clean string and the server's agree, as JSON writes them, although neither side of the
\* library knows how JSON writes: what comes in with its escapes goes out with them.
StringAgrees ==
    val_set /\ ~val_dirty /\ ~differ /\ Len(wanted) < StringMax =>
       Escaped(remote_held) = BeforeNul(val_string)

===============================================================================
