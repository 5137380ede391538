-------------------------------- MODULE VarCell --------------------------------
(***************************************************************************)
(* The value of one Cloud Variable as the bytes of the union in            *)
(* struct canopy_var_value: written by the setters and by the parser of    *)
(* the tag vars, read by the getters and by the emitter, and held by the   *)
(* server as the text it was sent.  A text stands for the number it spells *)
(* (1 for the word "true", 0 for "false").  The time of a value, which the *)
(* setters leave as it is, is in TokenWalk, strings in VarString.           *)
(***************************************************************************)
EXTENDS Integers, FiniteSetsExt, Functions

CONSTANTS
    ByteValues,    \* how many values a byte has: 256 in the code
    LongSizes,     \* sizeof(long) in the builds to look at
    CellTypes,     \* the types of variables to look at
    AppNumbers(_), \* what the application sets a variable of a type to
    SentNumbers    \* what other clients leave with the server

\* Half of a byte's values are negative.  A long is never smaller than an int.
ASSUME VarCellAssumption ==
    /\ ByteValues \in Nat \ {0} /\ ByteValues % 2 = 0
    /\ LongSizes \subseteq 4..8
    /\ CellTypes \subseteq {"bool", "int8", "uint8", "int16", "uint16", "int32", "uint32", "float32",
                            "float64", "datetime"}
    /\ SentNumbers \subseteq Int

VARIABLES
    long,    \* sizeof(long)
    type,    \* var->type
    set,     \* var->set
    dirty,   \* var->dirty
    bytes,   \* var->val.value, the eight bytes that its numbers share
    held,    \* what the server holds
    put,     \* history: the number that was last put into the variable,
    by,      \*   and who put it there, the application or the parser
    stale    \* history: since the last exchange another client has written, or one failed

cell == <<long, type, set, dirty, bytes, held, put, by, stale>>

-------------------------------------------------------------------------------
(* Bytes and numbers                                                       *)

Signed == {"int8", "int16", "int32"}
Floats == {"float32", "float64"}

\* sizeof the member of the union.
Width(t) ==
    CASE t \in {"bool", "int8", "uint8"}      -> 1
      [] t \in {"int16", "uint16"}            -> 2
      [] t \in {"int32", "uint32", "float32"} -> 4
      [] OTHER                                -> 8

\* What a byte counts that has n others below it.
Power[n \in 0..8] == IF n = 0 THEN 1 ELSE ByteValues * Power[n - 1]

\* The number that n bytes hold, with a sign.
SignedWrap(x, n) == ((x + Power[n] \div 2) % Power[n]) - (Power[n] \div 2)

\* The numbers of a type.  A floating point number stands for its place among those
\* of its type.
InRange(t, x) ==
    CASE t = "bool"   -> x \in {0, 1}
      [] t \in Signed -> x = SignedWrap(x, Width(t))
      [] OTHER        -> x = x % Power[Width(t)]

\* A setter's argument has the type of the variable.
ASSUME AppNumbersAssumption ==
    \A t \in CellTypes : \A x \in AppNumbers(t) : x \in Int /\ InRange(t, x)

\* x in the first n bytes; the others keep what they hold.
Store(x, n) == [k \in 1..8 |-> IF k =< n THEN (x \div Power[k - 1]) % ByteValues ELSE bytes[k]]

Load(n) == SumFunctionOnSet([k \in 1..8 |-> bytes[k] * Power[k - 1]], 1..n)

\* What the getters and the emitter read.  canopy_var_get_int32 hands it on through an
\* unsigned pointer, as the same bytes.
Stored ==
    CASE type = "bool"   -> IF bytes[1] = 0 THEN 0 ELSE 1
      [] type \in Signed -> SignedWrap(Load(Width(type)), Width(type))
      [] OTHER           -> Load(Width(type))

\* The switch of c_json_emit_vars.  %e keeps seven digits, with which it cannot tell some
\* neighbours apart, here every two; what it prints is read as the first of them, and
\* printed the same again.
TextOf(x) == IF type \in Floats THEN x - (x % 2) ELSE x

\* atoll and strtol end at the nearest number of n bytes.
Nearest(x, n) == Max({-(Power[n] \div 2), Min({x, Power[n] \div 2 - 1})})

\* atoi converts what strtol returns, a long, to an int.
Atoi(x) == SignedWrap(Nearest(x, long), 4)

\* The switch of c_json_parse_vars, before the number is cut to the member's width.
NumberOf(x) ==
    CASE type = "datetime"               -> Nearest(x, 8)
      [] type \in Floats \union {"bool"} -> x
      [] OTHER                           -> Atoi(x)

-------------------------------------------------------------------------------

\* MUTANT: canopy_var_set_int16 assigns to val_int8.
AssignedNarrow(t, x) ==
    CASE t = "uint32" -> [to |-> 1, number |-> IF x = 0 THEN 0 ELSE 1]
      [] t = "int16"  -> [to |-> 1, number |-> x]
      [] OTHER        -> [to |-> Width(t), number |-> x]

\* The bytes and the number of the assignment in a setter.  canopy_var_set_uint32 assigns
\* to val_bool.
Assigned(t, x) ==
    IF t = "uint32" THEN [to |-> 1, number |-> IF x = 0 THEN 0 ELSE 1]
    ELSE [to |-> Width(t), number |-> x]

\* canopy_var_set_bool and its likes; those of other types return BAD_PARAM.
SetValue(x) ==
    /\ bytes' = Store(Assigned(type, x).number, Assigned(type, x).to)
    /\ set' = TRUE /\ dirty' = TRUE
    /\ put' = x /\ by' = "application"
    /\ UNCHANGED <<long, type, held, stale>>

\* c_json_emit_vars finds the variable due, and the server takes what it sends.
EmitValue ==
    /\ set /\ dirty
    /\ held' = TextOf(Stored)
    /\ dirty' = FALSE
    /\ stale' = FALSE
    /\ UNCHANGED <<long, type, set, bytes, put, by>>

\* Or the server does not; the flag is gone all the same.
EmitFails ==
    /\ set /\ dirty
    /\ dirty' = FALSE
    /\ stale' = TRUE
    /\ UNCHANGED <<long, type, set, bytes, held, put, by>>

\* Another client writes.
Elsewhere(x) ==
    /\ held' = x
    /\ stale' = TRUE
    /\ UNCHANGED <<long, type, set, dirty, bytes, put, by>>

\* c_json_parse_vars, the entry of the variable.  It leaves the dirty flag alone.  A bool
\* takes two texts, everything else is an error before anything is stored.
ParseValue ==
    /\ type = "bool" => held \in {0, 1}
    /\ bytes' = Store(NumberOf(held), Width(type))
    /\ set' = TRUE
    /\ put' = held /\ by' = "parser"
    /\ stale' = FALSE
    /\ UNCHANGED <<long, type, dirty, held>>

CellInit ==
    /\ long \in LongSizes
    /\ type \in CellTypes
    /\ set = FALSE /\ dirty = FALSE
    /\ bytes = [k \in 1..8 |-> 0]
    /\ held = 0 /\ stale = TRUE
    /\ put = 0 /\ by = "application"

CellNext ==
    \/ \E x \in AppNumbers(type) : SetValue(x)
    \/ EmitValue
    \/ EmitFails
    \/ \E x \in SentNumbers : Elsewhere(x)
    \/ ParseValue

-------------------------------------------------------------------------------

CellTypeOK ==
    /\ long \in LongSizes /\ type \in CellTypes
    /\ set \in BOOLEAN /\ dirty \in BOOLEAN /\ stale \in BOOLEAN
    /\ bytes \in [1..8 -> 0..(ByteValues - 1)]
    /\ held \in Int /\ put \in Int /\ by \in {"application", "parser"}

\* A text of x comes back as x: it is a number of the variable's type, and none of those
\* that atoi and atoll do not reach.
Parses(x) ==
    /\ InRange(type, x)
    /\ type = "uint32" => x = x % Power[4] /\ (long = 4 => 2 * x < Power[4])
    /\ type = "datetime" => 2 * x < Power[8]

\* The application's setter has stored x.  Unless it is canopy_var_set_uint32: that one can
\* store 0 and 1, if the number before was a small one.
Takes(x) == type = "uint32" => x \in {0, 1} /\ Stored < ByteValues

\* What was put into a variable is what its getter returns and what is sent, whoever put it
\* there, over whatever was there.
NumberReadsBack ==
    set /\ (IF by = "parser" THEN Parses(put) ELSE Takes(put)) => Stored = put

\* Device and server agree on the value of a variable that is not dirty, unless another
\* client has written since or the exchange failed: reading back what was sent changes nothing, however often and
\* in whichever order values are set, sent and read.
NumberAgrees ==
    set /\ ~dirty /\ ~stale /\ Parses(held) => TextOf(Stored) = TextOf(held)

===============================================================================
