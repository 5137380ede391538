------------------------------- MODULE NameTables ------------------------------
(***************************************************************************)
(* The name tables of canopy_min.h.  A name is printed by indexing a table *)
(* with the enum's number, and read by a search along the table, which     *)
(* compares no more characters than a pointer has bytes: eight, or four in *)
(* the build that Makefile.arm-linux-gnueabi makes.                        *)
(***************************************************************************)
EXTENDS Integers, Sequences

\* canopy_var_direction_table.  The number of each entry's enum, and its name.
Directions ==
    <<<<0, "INVALID">>, <<1, "out">>, <<2, "in">>, <<3, "inout">>>>

\* canopy_var_datatype_table
Datatypes ==
    <<<<0, "invalid">>, <<1, "void">>, <<2, "string">>, <<3, "bool">>, <<4, "int8">>,
      <<5, "uint8">>, <<6, "int16">>, <<7, "uint16">>, <<8, "int32">>, <<9, "uint32">>,
      <<10, "float32">>, <<11, "float64">>, <<12, "datetime">>, <<13, "struct">>,
      <<14, "array">>>>

\* activity_status_table.  CANOPY_ACTIVE_STATUS_DONT_CARE is CANOPY_ACTIVE_STATUS_INVALID
\* by another name, and has an entry of its own.
ActivityStatuses ==
    <<<<0, "status_invalid">>, <<0, "status_dont_care">>, <<1, "status_newly_created">>,
      <<2, "status_inactive">>, <<3, "status_active">>>>

\* ws_connection_status_table, with the same repetition.
WsStatuses ==
    <<<<0, "ws_connection_status_invalid">>, <<0, "ws_connection_status_dont_care">>,
      <<1, "ws_connection_status_ws_not_used">>, <<2, "ws_connection_status_never_connected">>,
      <<3, "ws_connection_status_disconnected">>, <<4, "ws_connection_status_connected">>>>

\* The words that cannot be told from others by their first n characters, n being the
\* size of a pointer.  Every other word is its own.
Alike(n) ==
    IF n = 8
    THEN {{"status_invalid", "status_inactive"}, {WsStatuses[k][2] : k \in DOMAIN WsStatuses}}
    ELSE {{"uint8", "uint16", "uint32"}, {"float32", "float64"},
          {ActivityStatuses[k][2] : k \in DOMAIN ActivityStatuses},
          {WsStatuses[k][2] : k \in DOMAIN WsStatuses}}

Same(u, w, n) == u = w \/ \E A \in Alike(n) : {u, w} \subseteq A

\* The enums of a table, and the name of an enum: canopy_var_direction_string,
\* canopy_var_datatype_string, activity_status_string, ws_connection_status_string.
Enums(table) == {table[k][1] : k \in DOMAIN table}

NameOf(table, e) == table[e + 1][2]

\* The entries that a search for w stops at.
Hits(table, w, n) == {k \in DOMAIN table : Same(table[k][2], w, n)}

\* The enums that direction_from_string and its likes can return for w.  The loops
\* are bounded by the table's bytes, not its entries: for a word that no entry
\* matches they read on behind the table, and whatever they meet there counts.
FromName(table, w, n) ==
    LET hits == Hits(table, w, n)
    IN  IF hits = {} THEN Enums(table)
        ELSE {table[k][1] : k \in {j \in hits : \A i \in hits : j =< i}}

\* Every enum is read back from the name it is printed with.
NamesReadBack(table, n) ==
    \A e \in Enums(table) : FromName(table, NameOf(table, e), n) = {e}

===============================================================================
