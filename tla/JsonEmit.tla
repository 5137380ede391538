------------------------------- MODULE JsonEmit -------------------------------
(***************************************************************************)
(* The payload of a push, written element by element into                  *)
(* request_payload: _construct_device_sync_payload (canopy_device.c), the  *)
(* loops c_json_emit_vardcl and c_json_emit_vars (canopy_variables.c) and  *)
(* the emitter under them (canopy_json.c).                                 *)
(*                                                                         *)
(* An element is what one emitter call prints: a brace with its name, or a *)
(* name with its value.  What it prints is its kind, whether a separator   *)
(* is put before it, and a length; snprintf cuts it at the end of the      *)
(* buffer and nobody looks at what snprintf returns.  DeviceSync takes the *)
(* whole of this for one step.                                             *)
(***************************************************************************)
EXTENDS Integers, Sequences, FiniteSets

CONSTANTS
    BufferLen,  \* buffer_len, sizeof(request_payload)
    Sizes,      \* lengths an element can have
    MaxVars,    \* bound: variables on the device's list
    MaxStack,   \* MAX_JSON_STACK_DEPTH
    Indents     \* entries of indent_spaces

ASSUME JsonEmitAssumption ==
    /\ BufferLen \in Nat \ {0}
    /\ Sizes \subseteq Nat \ {0}
    /\ MaxVars \in Nat
    /\ MaxStack \in Nat /\ MaxStack > 3
    /\ Indents \in Nat /\ Indents > 3

Fields == {"friendly_name", "location_note"}

VARIABLES
    pending,   \* by position on the device's list: the variable is set and dirty
    dirty,     \* the texts with their dirty flag set
    pc,        \* the emitter call that is next
    at,        \* var: the position the loop is at
    cleared,   \* positions whose dirty flag has been cleared
    emitted,   \* texts that have been emitted
    offset,    \* state.offset: where the \0 is
    indent,    \* state.indent
    depth,     \* state.stack_depth
    prepend,   \* state.prepend_separator
    payload,   \* the elements in the buffer
    result     \* what _construct_device_sync_payload returns

device == <<pending, dirty>>
state == <<offset, indent, depth, prepend, payload>>
emitVars == <<pending, dirty, pc, at, cleared, emitted, state, result>>

-------------------------------------------------------------------------------
(* The emitter                                                             *)
(*                                                                         *)
(* What an element is of: the tag it carries, and for a variable and its   *)
(* declaration the position on the list.                                   *)

\* MUTANT: only a buffer that has overflowed is refused.
FullTooLate == offset > BufferLen - 1

\* check_buffer_length: nothing can be put behind what is there.
Full == offset >= BufferLen - 1

Element(what, of, sep, cut) == [what |-> what, of |-> of, sep |-> sep, cut |-> cut]

\* MUTANT: the offset moves by what snprintf returns, the length it wanted.
PutAll(what, of, sep, n) ==
    /\ payload' = Append(payload, Element(what, of, sep, n > BufferLen - 1 - offset))
    /\ offset' = offset + n

\* snprintf puts an element of length n behind the text, as far as there is
\* room for it and the \0.
Put(what, of, sep, n) ==
    LET room == BufferLen - 1 - offset
    IN  /\ payload' = Append(payload, Element(what, of, sep, n > room))
        /\ offset' = offset + (IF n > room THEN room ELSE n)

\* c_json_emit_open_object, c_json_emit_name_and_object
Open(of, n) ==
    /\ Put("open", of, prepend[depth], n)
    /\ indent' = indent + 1
    /\ depth' = depth + 1
    /\ prepend' = [prepend EXCEPT ![depth + 1] = FALSE]

\* MUTANT: the flag of the closed object is set, not that of the one around it.
CloseInside(of, n) ==
    /\ Put("close", of, FALSE, n)
    /\ indent' = indent - 1
    /\ depth' = depth - 1
    /\ prepend' = [prepend EXCEPT ![depth] = TRUE]

\* c_json_emit_close_object
Close(of, n) ==
    /\ Put("close", of, FALSE, n)
    /\ indent' = indent - 1
    /\ depth' = depth - 1
    /\ prepend' = [prepend EXCEPT ![depth - 1] = TRUE]

\* c_json_emit_name_and_value
NameAndValue(of, n) ==
    /\ Put("value", of, prepend[depth], n)
    /\ prepend' = [prepend EXCEPT ![depth] = TRUE]
    /\ UNCHANGED <<indent, depth>>

\* The buffer is full: the caller of the emitter returns err, and so does its.
Fails(err) ==
    /\ Full
    /\ pc' = "done"
    /\ result' = err
    /\ UNCHANGED <<device, at, emitted, state>>

-------------------------------------------------------------------------------
(* _construct_device_sync_payload up to c_json_emit_vardcl                 *)

\* A call of the emitter that leads to the one that follows.
Emits(step, following) ==
    /\ ~Full
    /\ step
    /\ pc' = following
    /\ UNCHANGED <<device, result>>

OpenPayload(n) ==
    /\ pc = "payload"
    /\ \/ Emits(Open(<<"payload", 0>>, n), "var_decls")
       \/ Fails("NETWORK")
    /\ UNCHANGED <<at, cleared, emitted>>

-------------------------------------------------------------------------------
(* c_json_emit_vardcl: every variable on the list, whatever its flags      *)

OpenDecls(n) ==
    /\ pc = "var_decls"
    /\ \/ Emits(Open(<<"var_decls", 0>>, n), "decl") /\ at' = 1
       \/ Fails("JSON")
    /\ UNCHANGED <<cleared, emitted>>

OpenDecl(n) ==
    /\ pc = "decl" /\ at =< Len(pending)
    /\ \/ Emits(Open(<<"decl", at>>, n), "decl end")
       \/ Fails("JSON")
    /\ UNCHANGED <<at, cleared, emitted>>

CloseDecl(n) ==
    /\ pc = "decl end"
    /\ \/ Emits(Close(<<"decl", at>>, n), "decl") /\ at' = at + 1
       \/ Fails("JSON")
    /\ UNCHANGED <<cleared, emitted>>

CloseDecls(n) ==
    /\ pc = "decl" /\ at > Len(pending)
    /\ \/ Emits(Close(<<"var_decls", 0>>, n), "vars")
       \/ Fails("JSON")
    /\ UNCHANGED <<at, cleared, emitted>>

-------------------------------------------------------------------------------
(* c_json_emit_vars, with clear_dirty                                      *)

OpenVars(n) ==
    /\ pc = "vars"
    /\ \/ Emits(Open(<<"vars", 0>>, n), "var") /\ at' = 1
       \/ Fails("JSON")
    /\ UNCHANGED <<cleared, emitted>>

\* Not set, or not dirty.
SkipVar ==
    /\ pc = "var" /\ at =< Len(pending)
    /\ ~pending[at]
    /\ at' = at + 1
    /\ UNCHANGED <<device, pc, cleared, emitted, state, result>>

\* MUTANT: the flag is not cleared.
NoneCleared == cleared

\* The flag goes before the emitter is called.
ClearedNow == cleared \union {at}

EmitVar(n) ==
    /\ pc = "var" /\ at =< Len(pending)
    /\ pending[at]
    /\ cleared' = ClearedNow
    /\ \/ Emits(NameAndValue(<<"var", at>>, n), "var") /\ at' = at + 1
       \/ Fails("JSON")
    /\ UNCHANGED emitted

CloseVars(n) ==
    /\ pc = "var" /\ at > Len(pending)
    /\ \/ Emits(Close(<<"vars", 0>>, n), "texts")
       \/ Fails("JSON")
    /\ UNCHANGED <<at, cleared, emitted>>

-------------------------------------------------------------------------------
(* The rest of _construct_device_sync_payload                              *)

\* friendly_name before location_note.  The emitter's code 1 is returned as it
\* is: CANOPY_ERROR_UNKNOWN.
EmitText(f, n) ==
    /\ pc = "texts"
    /\ f \in dirty \ emitted
    /\ f = "location_note" => "friendly_name" \notin dirty \ emitted
    /\ \/ Emits(NameAndValue(<<f, 0>>, n), "texts") /\ emitted' = emitted \union {f}
       \/ Fails("UNKNOWN")
    /\ UNCHANGED <<at, cleared>>

ClosePayload(n) ==
    /\ pc = "texts" /\ dirty = emitted
    /\ \/ /\ ~Full
          /\ Close(<<"payload", 0>>, n)
          /\ pc' = "done"
          /\ result' = "SUCCESS"
          /\ UNCHANGED device
       \/ Fails("NETWORK")
    /\ UNCHANGED <<at, cleared, emitted>>

-------------------------------------------------------------------------------

\* c_json_buffer_init, on a device with any list and any flags.
EmitInit ==
    /\ pending \in UNION {[1..n -> BOOLEAN] : n \in 0..MaxVars}
    /\ dirty \in SUBSET Fields
    /\ pc = "payload"
    /\ at = 1
    /\ cleared = {}
    /\ emitted = {}
    /\ offset = 0
    /\ indent = 0
    /\ depth = 0
    /\ prepend = [d \in 0..(MaxStack - 1) |-> FALSE]
    /\ payload = <<>>
    /\ result = "NONE"

Calls(n) ==
    \/ OpenPayload(n)
    \/ OpenDecls(n)
    \/ OpenDecl(n)
    \/ CloseDecl(n)
    \/ CloseDecls(n)
    \/ OpenVars(n)
    \/ EmitVar(n)
    \/ CloseVars(n)
    \/ \E f \in Fields : EmitText(f, n)
    \/ ClosePayload(n)

EmitNext == SkipVar \/ \E n \in Sizes : Calls(n)

EmitSpec == EmitInit /\ [][EmitNext]_emitVars

-------------------------------------------------------------------------------

Elements ==
    [what : {"open", "close", "value"},
     of   : ({"payload", "var_decls", "decl", "vars", "var"} \union Fields) \X Nat,
     sep  : BOOLEAN,
     cut  : BOOLEAN]

\* Every variable has the values its declaration in C allows, the \0 stays in
\* the buffer, and the two arrays that the nesting indexes, indent_spaces and
\* prepend_separator, are never indexed outside.
EmitTypeOK ==
    /\ pending \in Seq(BOOLEAN)
    /\ dirty \subseteq Fields
    /\ pc \in {"payload", "var_decls", "decl", "decl end", "vars", "var", "texts", "done"}
    /\ at \in 1..(Len(pending) + 1)
    /\ cleared \subseteq DOMAIN pending
    /\ emitted \subseteq dirty
    /\ offset \in 0..(BufferLen - 1)
    /\ indent \in 0..(Indents - 1)
    /\ depth \in 0..(MaxStack - 1)
    /\ prepend \in [0..(MaxStack - 1) -> BOOLEAN]
    /\ payload \in Seq(Elements)
    /\ result \in {"NONE", "SUCCESS", "JSON", "UNKNOWN", "NETWORK"}

\* The flags on the stack put a separator exactly where JSON wants one: before a
\* member that follows another member or the end of one, never before the first
\* and never before a closing brace.
SeparatorsRight ==
    \A k \in DOMAIN payload :
        payload[k].sep <=> /\ payload[k].what # "close"
                           /\ k > 1 /\ payload[k - 1].what # "open"

\* Although nobody looks at what snprintf returns, no element is put behind a
\* cut one: only the last can be cut, and then the buffer is full.
OnlyLastCut ==
    \A k \in DOMAIN payload :
        payload[k].cut => k = Len(payload) /\ offset = BufferLen - 1

Whole(x) == \E k \in DOMAIN payload : payload[k].of = x /\ ~payload[k].cut

Count(what) == Cardinality({k \in DOMAIN payload : payload[k].what = what})

\* A payload that is reported complete holds every dirty variable and text,
\* uncut, and closes what it opened; at most its last brace is cut.
\* (What DeviceSync assumes of a payload that is sent.)
SuccessIsComplete ==
    result = "SUCCESS" =>
        /\ \A i \in DOMAIN pending : pending[i] <=> Whole(<<"var", i>>)
        /\ \A f \in Fields : f \in dirty <=> Whole(<<f, 0>>)
        /\ Count("open") = Count("close") /\ depth = 0
        /\ \A k \in DOMAIN payload : payload[k].cut => payload[k].of = <<"payload", 0>>

InPayload(i) == \E k \in DOMAIN payload : payload[k].of = <<"var", i>>

\* A variable's dirty flag is clear exactly when its value is in the payload,
\* except for the one whose value found the buffer full.
ClearedIsEmitted ==
    /\ \A i \in DOMAIN pending : InPayload(i) => i \in cleared
    /\ \A i \in cleared : InPayload(i) \/ (result = "JSON" /\ i = at /\ Full)

===============================================================================
