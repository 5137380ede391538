------------------------------ MODULE MCTokenWalk -----------------------------
(* ResponseDocs over every small answer. *)
EXTENDS ResponseDocs

MCWords == STRING

MCNumbers == (<<"1">> :> 1) @@ (<<"2">> :> 2) @@ (<<"5">> :> 5)

MCAfterTrue == {"up"}

\* Before the array, in it and behind it.
MCStray == -1..28

Var(v, t, x) == Member(<<v>>, Obj(<<Member(<<"t">>, Prim(<<t>>)), Member(<<"v">>, x)>>))
Decl1(d, t, v) == Member(<<d, t, v>>, Obj(<<>>))

\* What the members of an answer can be, by tag.
Options == [
    result        |-> {Str(<<"ok">>), Str(<<"error">>), Str(<<"fine">>)},
    device_id     |-> {Str(<<"uuid">>)},
    friendly_name |-> {Str(<<"toaster">>)},
    location_note |-> {Str(<<>>)},
    notifs        |-> {Arr, Str(<<"x">>), Prim(<<"1">>), Obj(<<>>),
                       Obj(<<Member(<<"x">>, Prim(<<"1">>)), Member(<<"y">>, Arr)>>),
                       Obj(<<Member(<<"x">>, Obj(<<Member(<<"y">>, Prim(<<"1">>))>>))>>),
                       Obj(<<Member(<<"friendly_name">>, Str(<<"fan">>)), Member(<<"x">>, Obj(<<>>)),
                             Member(<<"y">>, Prim(<<"1">>))>>),
                       Obj(<<Member(<<"vars">>, Obj(<<Var("a", "2", Prim(<<"true">>))>>)),
                             Member(<<"x">>, Prim(<<"1">>))>>)},
    status        |-> {Obj(<<>>),
                       Obj(<<Member(<<"last_activity_time">>, Prim(<<"5">>)),
                             Member(<<"ws_connected">>, Prim(<<"true">>)),
                             Member(<<"active_status">>, Str(<<"status_active">>))>>),
                       Obj(<<Member(<<"ws_connected">>, Prim(<<"up">>)),
                             Member(<<"active_status">>, Str(<<"active">>))>>),
                       Obj(<<Member(<<"uptime">>, Prim(<<"5">>)),
                             Member(<<"ws_connected">>, Prim(<<"false">>))>>)},
    var_decls     |-> {Obj(<<>>), Obj(<<Decl1("out", "bool", "a")>>),
                       Obj(<<Decl1("inout", "int8", "b"), Decl1("in", "void", "a")>>),
                       Obj(<<Decl1("out", "int8", "b"), Decl1("INVALID", "int8", "a")>>),
                       Obj(<<Decl1("out", "integer", "b")>>)},
    vars          |-> {Obj(<<>>), Obj(<<Var("a", "1", Prim(<<"true">>))>>),
                       Obj(<<Var("b", "2", Str(<<"5">>))>>),
                       Obj(<<Var("b", "2", Prim(<<"5">>)), Var("a", "1", Prim(<<"false">>))>>),
                       Obj(<<Var("a", "2", Prim(<<"5">>)), Var("b", "1", Prim(<<"5">>))>>)}]

Tags == DOMAIN Options

\* The members with the tags of order, one after the other.
RECURSIVE MembersOf(_)
MembersOf(order) ==
    IF order = <<>> THEN {<<>>}
    ELSE {<<Member(<<Head(order)>>, v)>> \o more : v \in Options[Head(order)], more \in MembersOf(Tail(order))}

DocsOf(order) == {Obj(m) : m \in MembersOf(order)}

\* Every answer of up to two members, and what the server sends, in its order, with more.
Orders == UNION {{o \in [1..n -> Tags] : \A j, k \in 1..n : j # k => o[j] # o[k]} : n \in 0..2}
          \union {<<"status", "var_decls", "vars">>, <<"status", "vars", "var_decls">>,
                  <<"friendly_name", "location_note", "var_decls", "vars">>,
                  <<"notifs", "location_note", "friendly_name", "var_decls", "vars">>}

MCDocs == UNION {DocsOf(o) : o \in Orders}

\* Neither what stays behind a document nor its commas depend on how many members it has.
MCTails(d) == IF Len(d.members) = 1
              THEN {Prim(<<"x">>), Mark("}"), Mark("{"), Mark(","), Mark(":")} ELSE {}
MCCommas(d) == IF Len(d.members) \in {1, 4} THEN BOOLEAN ELSE {FALSE}

Lexemes == {Mark("{"), Mark("}"), Mark("["), Mark("]"), Mark(":"), Mark(","), Mark("bad"),
            Mark("open string"), Str(<<"s">>), Prim(<<"1">>)}
MCNoise == UNION {[1..n -> Lexemes] : n \in 0..3}

MCStartLists == {<<>>, <<"a">>}

===============================================================================
