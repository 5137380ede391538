------------------------------ MODULE MCLocalCells -----------------------------
(* The kinds of storage in a device object, which share nothing: a behaviour is about one
   of them, the others stay as they are. *)
EXTENDS VarCell, VarString, DeviceTexts, VarNames

VARIABLE part

localVars == <<cell, string, texts, names, part>>

LocalInit ==
    /\ CellInit /\ StringInit /\ TextsInit /\ NamesInit
    /\ part \in {"number", "string", "texts", "names"}
    /\ part # "number" => type = "bool" /\ long = 8

LocalNext ==
    /\ \/ part = "number" /\ CellNext /\ UNCHANGED <<string, texts, names>>
       \/ part = "string" /\ StringNext /\ UNCHANGED <<cell, texts, names>>
       \/ part = "texts" /\ TextsNext /\ UNCHANGED <<cell, string, names>>
       \/ part = "names" /\ NamesNext /\ UNCHANGED <<cell, string, texts>>
    /\ UNCHANGED part

LocalSpec == LocalInit /\ [][LocalNext]_localVars

TypeOK == CellTypeOK /\ StringTypeOK /\ TextsTypeOK /\ NamesTypeOK

\* The value of a variable is the one that was put into it last, for the emitter and for the
\* getters, if a caller's buffer has room for a string and its end, whatever the array or the union held before (c_json_parse_vars, canopy_var_set_*).
ReadsBack == NumberReadsBack /\ StringReadsBack

\* Device and server agree on a variable that is not dirty, unless another client wrote or
\* an exchange failed: c_json_emit_vars and c_json_parse_vars undo each other.
CleanAgrees == NumberAgrees /\ StringAgrees

\* With four values a byte, an int8 goes from -2 to 1, an int32 from -128 to 127: the ends of
\* each type, the values next to them, and some that no type but the longest has.
MCSentNumbers == {-129, -128, -9, -8, -3, -2, -1, 0, 1, 2, 3, 4, 7, 8, 15, 16, 127, 128, 255, 256,
                  32767, 32768, 65535}

MCAppNumbers(t) == {x \in MCSentNumbers : InRange(t, x)}

MCCellTypes == {"bool", "int8", "uint8", "int16", "uint16", "int32", "uint32", "float32", "float64",
                "datetime"}

\* Texts of every length that an array can hold, and more.  1 is TRUE's byte.
MCGiven == {[k \in 1..n |-> c] : n \in 0..6, c \in {2, 3}}
MCAnswered == {[k \in 1..n |-> 4] : n \in 0..4}

\* Strings of every length up to one more than fits, with the characters that JSON escapes.
MCStrings == UNION {[1..n -> Characters] : n \in 0..3} \union [1..4 -> {"a"}]
MCBehind == {<<>>, <<"a">>, <<Quote>>}

MCSpellings == {<<"a">>, <<"a", "b">>, <<"a", "b", "c">>, <<"a", "b", "d">>, <<"b", "b">>}

===============================================================================
