------------------------------ MODULE DeviceSync ------------------------------
(***************************************************************************)
(* A canopy device object and its exchanges with the remote server.        *)
(*                                                                         *)
(* The application owns one canopy_device_t: a list of Cloud Variables     *)
(* (canopy_variables.c) and two text fields (canopy_device.c).  It edits   *)
(* them locally and calls one of four blocking routines that exchange      *)
(* state with the server over HTTP.  While a call is blocked the library   *)
(* runs nothing else, but the server and its other clients do: an exchange *)
(* is three steps here (the call, the server's turn, the return).          *)
(*                                                                         *)
(* The server is not in this repository.  It is modelled from how the code *)
(* uses it: it takes a well-formed POST whole or refuses it whole, stamps  *)
(* what changed with its clock, and answers with everything it holds.      *)
(***************************************************************************)
EXTENDS Integers, Sequences, FiniteSets

CONSTANTS
    Vars,        \* names of Cloud Variables, all shorter than find_name compares
    Values,      \* what a variable's value can be, as written on the wire
    BoolValues,  \* the Values that are "true" or "false"
    NoValue,     \* no value: absent from a message, or never set
    Types,       \* datatypes, by what parsing does with a value: "bool" takes "true"
                 \* and "false", "void" (VOID, STRUCT, ARRAY) nothing, "string"
                 \* (the others) anything
    NoType,      \* no type: not declared
    Texts,       \* contents of friendly_name and location_note
    AppTexts,    \* the Texts that the application passes to the setters
    Empty,       \* the empty text
    JsonTexts,   \* Texts that are JSON as they stand: the caller put the quotes
    Unquote,     \* the text a JSON reader gets from each of JsonTexts
    PayloadCap,  \* declarations, values and texts that are begun before
                 \* request_payload[2048] is full; the last may be cut short
    Legacy,      \* what the server can know of the variables from earlier runs
    MaxEdits     \* bound: local edits and writes of other clients, together

ASSUME DeviceSyncAssumption ==
    /\ IsFiniteSet(Vars)
    /\ Vars \intersect {"friendly_name", "location_note"} = {}
    /\ NoValue \notin Values
    /\ BoolValues \subseteq Values
    /\ Types \subseteq {"bool", "string", "void"}
    /\ NoType \notin {"bool", "string", "void"}
    /\ Empty \in Texts \ JsonTexts
    /\ JsonTexts \subseteq Texts
    /\ AppTexts \subseteq Texts
    /\ Unquote \in [JsonTexts -> Texts \ JsonTexts]
    /\ PayloadCap \in Nat
    /\ Legacy \subseteq [Vars -> Types \union {NoType}]
    /\ MaxEdits \in Nat

Fields == {"friendly_name", "location_note"}

Calls == {"get_self", "from_remote", "to_remote", "sync"}

Results == {"SUCCESS", "UNKNOWN", "NETWORK", "OUT_OF_MEMORY", "JSON", "FATAL",
            "VAR_NOT_FOUND", "TOKENS"}

VARIABLES
    list,     \* device->vars, front (newest) first
    var,      \* the variable structs on the list, by name
    text,     \* friendly_name and location_note with their dirty flags
    call,     \* the library call in progress, or "idle"
    net,      \* the HTTP message in flight
    result,   \* the canopy_error of the last exchange, "SUCCESS" after an edit
    server,   \* what the server holds
    edits,    \* edits made so far, up to MaxEdits
    reached,  \* history: items whose present local value the server has held
    owed      \* history: items that were dirty when the push in progress began

device == <<list, var, text>>
history == <<reached, owed>>
vars == <<list, var, text, call, net, result, server, edits, reached, owed>>

-------------------------------------------------------------------------------
(* The device object                                                       *)

Declared == {list[i] : i \in DOMAIN list}

\* MUTANT: create_variable() without its memset: the time is garbage.
FreshUncleared(t) == [type |-> t, set |-> FALSE, dirty |-> FALSE, last |-> -1, val |-> NoValue]

Fresh(t) == [type |-> t, set |-> FALSE, dirty |-> FALSE, last |-> 0, val |-> NoValue]

NoVar == Fresh(NoType)

BlankText == [f \in Fields |-> [val |-> Empty, dirty |-> FALSE]]

\* MUTANT: find_name() compares with the first variable only.
FindFirst(v) == list # <<>> /\ list[1] = v

Find(v) == v \in Declared

-------------------------------------------------------------------------------
(* The request: _construct_device_sync_payload                             *)

\* c_json_emit_vars visits the variables that are set and dirty.
Pending == {v \in Declared : var[v].set /\ var[v].dirty}

DirtyText == {f \in Fields : text[f].dirty}

Before(u, v) == \E i, j \in DOMAIN list : i < j /\ list[i] = u /\ list[j] = v

\* Pending variables that the loop meets before v.
Ahead(v) == Cardinality({u \in Pending : Before(u, v)})

\* What var_decls leaves of the buffer; every listed variable is declared anew.
Room == PayloadCap - Cardinality(Declared)

\* The loop clears a variable's flag, then writes its value: the one that no
\* longer fits has been cleared too.  Nothing is visited if var_decls failed.
Visited == {v \in Pending : Ahead(v) =< Room}

VarsFit == \A v \in Pending : Ahead(v) < Room

PayloadSize == Cardinality(Declared) + Cardinality(Pending) + Cardinality(DirtyText)

TextsFit == PayloadSize =< PayloadCap

\* MUTANT: the flags are cleared in a first pass, so the second finds none set.
SentAfterClearing(v) == var[v].set /\ var[v].dirty /\ v \notin Visited

Sent(v) == v \in Pending

\* The tag a text goes out under: friendly_name uses TAG_FRIENDLY_NAMES.
EmitTag(f) == IF f = "friendly_name" THEN "friendly_names" ELSE f

\* Texts are written without quotes, so the payload is JSON only if the caller
\* quoted them.  A payload that fills the buffer may have lost its last brace:
\* snprintf truncates it and the emitter reports success.
WellFormed(whole) ==
    /\ \A f \in DirtyText : text[f].val \in JsonTexts
    /\ PayloadSize < PayloadCap \/ whole

NoMsg == [tag |-> "none"]

\* A GET carries nothing: it is the empty request.
GetRequest ==
    [tag |-> "request", json |-> TRUE,
     type |-> [v \in Vars |-> NoType], val |-> [v \in Vars |-> NoValue], text |-> {}]

PostRequest(whole) ==
    [tag |-> "request", json |-> WellFormed(whole),
     type |-> [v \in Vars |-> IF v \in Declared THEN var[v].type ELSE NoType],
     val  |-> [v \in Vars |-> IF Sent(v) THEN var[v].val ELSE NoValue],
     text |-> {<<EmitTag(f), text[f].val>> : f \in DirtyText}]

-------------------------------------------------------------------------------
(* The response: c_json_parse_device, tags in the order of the response    *)

Accepts(t, x) == t = "string" \/ (t = "bool" /\ x \in BoolValues)

\* MUTANT: c_json_parse_vardcl logs an unknown variable and does not create it.
NewVarsIgnored(body) == {}

NewVars(body) == {v \in Vars : body.type[v] # NoType /\ ~Find(v)}

\* The orders in which the response can list the members of S.
Orders(S) == {o \in [1..Cardinality(S) -> S] : \A x \in S : \E i \in DOMAIN o : o[i] = x}

Present(body) == {v \in Vars : body.val[v] # NoValue}

\* The variable structs after var_decls has been parsed.
AfterDecls(body) ==
    [v \in Vars |-> IF v \in NewVars(body) THEN Fresh(body.type[v]) ELSE var[v]]

\* The values c_json_parse_vars gives up at.
Unusable(body) ==
    {v \in Present(body) : \/ v \notin Declared \union NewVars(body)
                           \/ ~Accepts(AfterDecls(body)[v].type, body.val[v])}

\* MUTANT: a variable that has a local value keeps it, with the new time.
TakenIfUnset(rec, body, v) ==
    [rec[v] EXCEPT !.last = body.time[v],
                   !.val = IF rec[v].set THEN @ ELSE body.val[v],
                   !.set = TRUE]

\* The server's time and value replace the local ones, whatever they are.
Taken(rec, body, v) ==
    [rec[v] EXCEPT !.last = body.time[v], !.set = TRUE, !.val = body.val[v]]

\* done were taken before the loop stopped at stop, which has its time only.
AfterVars(body, done, stop) ==
    LET rec == AfterDecls(body)
    IN  [v \in Vars |->
            IF v \in done THEN Taken(rec, body, v)
            ELSE IF v \in stop \intersect (Declared \union NewVars(body))
                 THEN [rec[v] EXCEPT !.last = body.time[v]]
                 ELSE rec[v]]

ParseDevice(body) ==
    /\ text' = [f \in Fields |-> [val |-> body.text[f], dirty |-> FALSE]]
    /\ \E order \in Orders(NewVars(body)) : list' = order \o list
    /\ \/ /\ Unusable(body) = {}
          /\ var' = AfterVars(body, Present(body), {})
          /\ reached' = reached \union Fields \union Present(body)
          /\ result' = "SUCCESS"
       \/ \E stop \in Unusable(body), done \in SUBSET (Present(body) \ Unusable(body)) :
             /\ var' = AfterVars(body, done, {stop})
             /\ reached' = reached \union Fields \union done
             /\ result' = IF stop \in Declared \union NewVars(body)
                          THEN "FATAL" ELSE "VAR_NOT_FOUND"

-------------------------------------------------------------------------------
(* The application's local calls                                           *)

Idle == call = "idle"

\* canopy_device_var_declare: the existing variable, whatever type is asked
\* for, or a new one at the front.
Declare(v, t) ==
    /\ Idle
    /\ IF Find(v) THEN UNCHANGED <<list, var, reached>>
       ELSE /\ list' = <<v>> \o list
            /\ var' = [var EXCEPT ![v] = Fresh(t)]
            /\ reached' = reached \ {v}
    /\ result' = "SUCCESS"
    /\ UNCHANGED <<text, call, net, server, edits, owed>>

\* MUTANT: a setter that forgets the dirty flag.
SetClean(r, x) == [r EXCEPT !.set = TRUE, !.val = x]

SetTo(r, x) == [r EXCEPT !.set = TRUE, !.dirty = TRUE, !.val = x]

\* canopy_var_set_bool and canopy_var_set_string through the pointer that
\* canopy_device_var_declare returned.  The setter of another type changes
\* nothing, and neither does a setter on a struct that is not on the list.
SetVar(v, t, x) ==
    /\ Idle
    /\ Find(v)
    /\ var[v].type = t
    /\ edits < MaxEdits
    /\ edits' = edits + 1
    /\ var' = [var EXCEPT ![v] = SetTo(@, x)]
    /\ reached' = reached \ {v}
    /\ result' = "SUCCESS"
    /\ UNCHANGED <<list, text, call, net, server, owed>>

\* canopy_device_set_friendly_name, canopy_device_set_location_note.
SetText(f, t) ==
    /\ Idle
    /\ edits < MaxEdits
    /\ edits' = edits + 1
    /\ text' = [text EXCEPT ![f] = [val |-> t, dirty |-> TRUE]]
    /\ reached' = reached \ {f}
    /\ result' = "SUCCESS"
    /\ UNCHANGED <<list, var, call, net, server, owed>>

-------------------------------------------------------------------------------
(* The calls that talk to the server                                       *)

\* canopy_get_self_device up to the GET, on a remote with device credentials
\* (it does nothing on another).  canopy_device_init zeroes the device: the
\* application's pointers now lead to structs that are on no list.
GetSelfDevice ==
    /\ Idle
    /\ call' = "get_self"
    /\ list' = <<>>
    /\ var' = [v \in Vars |-> NoVar]
    /\ text' = BlankText
    /\ net' = GetRequest
    /\ reached' = {}
    /\ result' = "SUCCESS"
    /\ UNCHANGED <<server, edits, owed>>

\* canopy_device_update_from_remote up to the GET.
UpdateFromRemote ==
    /\ Idle
    /\ call' = "from_remote"
    /\ net' = GetRequest
    /\ result' = "SUCCESS"
    /\ UNCHANGED <<device, server, edits, history>>

\* c_json_emit_vars has cleared the flags of the variables it visited.
FlagsCleared == [v \in Vars |-> IF v \in Visited THEN [var[v] EXCEPT !.dirty = FALSE] ELSE var[v]]

\* canopy_device_update_to_remote and canopy_device_sync_with_remote, up to
\* the POST.
Push(c) ==
    /\ Idle
    /\ VarsFit /\ TextsFit
    /\ call' = c
    /\ var' = FlagsCleared
    /\ \E whole \in BOOLEAN : net' = PostRequest(whole)
    /\ owed' = Pending \union DirtyText
    /\ result' = "SUCCESS"
    /\ UNCHANGED <<list, text, server, edits, reached>>

\* The payload does not fit the buffer: the call returns before the POST, with
\* the code of whichever emitter noticed.  An emitter notices only that the one
\* before it has filled the buffer, so the closing braces can fail too.
PushTooLarge ==
    /\ Idle
    /\ PayloadSize >= PayloadCap
    /\ var' \in {FlagsCleared} \union (IF Room = 0 THEN {var} ELSE {})
    /\ result' \in IF VarsFit THEN {"JSON", "UNKNOWN", "NETWORK"} ELSE {"JSON"}
    /\ UNCHANGED <<list, text, call, net, server, edits, history>>

-------------------------------------------------------------------------------
(* The server and its other clients                                        *)

Stored(t) == IF t \in JsonTexts THEN Unquote[t] ELSE t

\* What the server holds after it took request r.
Merged(r) ==
    LET news == {v \in Vars : r.val[v] # NoValue}
        now  == IF news = {} THEN server.clock ELSE server.clock + 1
    IN  [type  |-> [v \in Vars |-> IF server.type[v] = NoType THEN r.type[v] ELSE server.type[v]],
         val   |-> [v \in Vars |-> IF v \in news THEN r.val[v] ELSE server.val[v]],
         time  |-> [v \in Vars |-> IF v \in news THEN now ELSE server.time[v]],
         text  |-> [f \in Fields |-> IF \E t \in Texts : <<f, t>> \in r.text
                                     THEN Stored(CHOOSE t \in Texts : <<f, t>> \in r.text)
                                     ELSE server.text[f]],
         clock |-> now]

ServerTakes ==
    /\ net.tag = "request"
    /\ net.json
    /\ server' = Merged(net)
    /\ net' = [tag |-> "answer", status |-> 200, body |-> server']
    /\ reached' = reached \union {v \in Vars : net.val[v] # NoValue}
                          \union {f \in Fields : \E t \in Texts : <<f, t>> \in net.text}
    /\ UNCHANGED <<device, call, result, edits, owed>>

\* A payload that is not JSON, or any other reason not to answer 200.
ServerRefuses ==
    /\ net.tag = "request"
    /\ net' = [tag |-> "answer", status |-> 400, body |-> server]
    /\ UNCHANGED <<device, call, result, server, edits, history>>

RemoteWrite(v, x) ==
    /\ edits < MaxEdits
    /\ Accepts(server.type[v], x)
    /\ edits' = edits + 1
    /\ server' = [server EXCEPT !.val[v] = x, !.time[v] = server.clock + 1, !.clock = @ + 1]
    /\ UNCHANGED <<device, call, net, result, history>>

RemoteText(f, t) ==
    /\ edits < MaxEdits
    /\ edits' = edits + 1
    /\ server' = [server EXCEPT !.text[f] = t]
    /\ UNCHANGED <<device, call, net, result, history>>

-------------------------------------------------------------------------------
(* The return of a call                                                    *)

\* MUTANT: the status code is not looked at.
AnyStatus(status) == TRUE

HttpOk(status) == status = 200

Return ==
    /\ call' = "idle"
    /\ net' = NoMsg
    /\ owed' = {}
    /\ UNCHANGED <<server, edits>>

\* The transfer fails before or after the server's turn, or the answer does
\* not fit rcv_buffer.
TransferFails ==
    /\ ~Idle
    /\ result' \in {"NETWORK", "OUT_OF_MEMORY"}
    /\ Return
    /\ UNCHANGED <<list, var, text, reached>>

StatusNotOk ==
    /\ net.tag = "answer"
    /\ ~HttpOk(net.status)
    /\ result' = "UNKNOWN"
    /\ Return
    /\ UNCHANGED <<list, var, text, reached>>

\* c_json_parse_string gives up: more tokens than the array, or a body cut by
\* the transport.
TokenizerFails ==
    /\ net.tag = "answer"
    /\ HttpOk(net.status)
    /\ call # "to_remote"
    /\ result' = "TOKENS"
    /\ Return
    /\ UNCHANGED <<list, var, text, reached>>

TextFlagsCleared == [f \in Fields |-> [text[f] EXCEPT !.dirty = FALSE]]

\* canopy_device_update_to_remote ignores the body.
ReturnToRemote ==
    /\ net.tag = "answer"
    /\ HttpOk(net.status)
    /\ call = "to_remote"
    /\ text' = TextFlagsCleared
    /\ result' = "SUCCESS"
    /\ Return
    /\ UNCHANGED <<list, var, reached>>

\* The other three parse the body into the device.  (sync_with_remote then
\* clears the text flags, which the body's two texts have already cleared.)
ReturnParsed ==
    /\ net.tag = "answer"
    /\ HttpOk(net.status)
    /\ call \in {"get_self", "from_remote", "sync"}
    /\ ParseDevice(net.body)
    /\ Return

-------------------------------------------------------------------------------

InitServer ==
    [type  : Legacy,
     val   : [Vars -> Values \union {NoValue}],
     time  : {[v \in Vars |-> 1]},
     text  : [Fields -> {Empty}],
     clock : {1}]

\* A device that canopy_device_init has just cleared, and a server that holds
\* what an earlier run of the device left there.
Init ==
    /\ list = <<>>
    /\ var = [v \in Vars |-> NoVar]
    /\ text = BlankText
    /\ call = "idle"
    /\ net = NoMsg
    /\ result = "SUCCESS"
    /\ server \in InitServer
    /\ \A v \in Vars : server.val[v] # NoValue => Accepts(server.type[v], server.val[v])
    /\ edits = 0
    /\ reached = {}
    /\ owed = {}

AppEdits ==
    \/ \E v \in Vars, t \in Types : Declare(v, t)
    \/ \E v \in Vars, x \in Values : SetVar(v, "string", x)
    \/ \E v \in Vars, x \in BoolValues : SetVar(v, "bool", x)
    \/ \E f \in Fields, t \in AppTexts : SetText(f, t)

AppCalls ==
    \/ GetSelfDevice
    \/ UpdateFromRemote
    \/ Push("to_remote")
    \/ Push("sync")
    \/ PushTooLarge

Remote ==
    \/ ServerTakes
    \/ ServerRefuses
    \/ \E v \in Vars, x \in Values : RemoteWrite(v, x)
    \/ \E f \in Fields, t \in Texts \ JsonTexts : RemoteText(f, t)

Returns ==
    \/ TransferFails
    \/ StatusNotOk
    \/ TokenizerFails
    \/ ReturnToRemote
    \/ ReturnParsed

Next == AppEdits \/ AppCalls \/ Remote \/ Returns

Spec == Init /\ [][Next]_vars

-------------------------------------------------------------------------------
(* Invariants                                                              *)

VarStruct ==
    [type : Types \union {NoType}, set : BOOLEAN, dirty : BOOLEAN,
     last : Nat, val : Values \union {NoValue}]

ServerState ==
    [type  : [Vars -> Types \union {NoType}],
     val   : [Vars -> Values \union {NoValue}],
     time  : [Vars -> Nat],
     text  : [Fields -> Texts \ JsonTexts],
     clock : Nat]

Message ==
    {NoMsg}
    \union [tag : {"request"}, json : BOOLEAN,
            type : [Vars -> Types \union {NoType}],
            val : [Vars -> Values \union {NoValue}],
            text : SUBSET ((Fields \union {"friendly_names"}) \X Texts)]
    \union [tag : {"answer"}, status : {200, 400}, body : ServerState]

\* Every variable has the values its declaration in C allows.
TypeOK ==
    /\ list \in Seq(Vars)
    /\ var \in [Vars -> VarStruct]
    /\ text \in [Fields -> [val : Texts, dirty : BOOLEAN]]
    /\ call \in Calls \union {"idle"}
    /\ net \in Message
    /\ result \in Results
    /\ server \in ServerState
    /\ edits \in Nat
    /\ reached \subseteq Vars \union Fields
    /\ owed \subseteq Vars \union Fields

NoDuplicates == \A i, j \in DOMAIN list : list[i] = list[j] => i = j

DirtyIsSet == \A v \in Vars : var[v].dirty => var[v].set /\ v \in Declared

SetIsTyped ==
    \A v \in Vars : var[v].set => var[v].val \in Values /\ Accepts(var[v].type, var[v].val)

\* The list the declarations, the responses and canopy_device_init build
\* together: one struct per name however a variable came to be known, no dirty
\* flag that the "set" test of c_json_emit_vars would hide, and never a set
\* variable of a type c_json_emit_vars cannot write (its FATAL branch).
ListConsistent == NoDuplicates /\ DirtyIsSet /\ SetIsTyped

-------------------------------------------------------------------------------
(* What a push may do to the items that were dirty when it began           *)

\* friendly_name goes out under a tag the response does not use: see the
\* README.  The other fields go out under the name they come back under.
SameTag == {f \in Fields : EmitTag(f) = f}

Succeeds(c) == call = c /\ call' = "idle" /\ result' = "SUCCESS"

\* A push that returns SUCCESS has delivered everything that was dirty when it
\* was called: the server has held the value of every such variable and text.
\* (canopy_device_update_to_remote, canopy_device_sync_with_remote)
PushDelivers ==
    [][Succeeds("to_remote") \/ Succeeds("sync")
       => owed \intersect (Vars \union SameTag) \subseteq reached']_vars

Pushing == call \in {"to_remote", "sync"}

Carries(r, x) ==
    IF x \in Vars THEN r.val[x] # NoValue ELSE \E t \in Texts : <<x, t>> \in r.text

\* While a push is under way nothing that was dirty is between the two sides: it
\* is in the request, and once the server has answered 200, with the server.
\* (The inductive invariant behind PushDelivers.)
OwedInTransit ==
    Pushing =>
        \A x \in owed \intersect (Vars \union SameTag) :
            /\ net.tag = "request" /\ net.json => Carries(net, x)
            /\ net.tag = "answer" /\ net.status = 200 => x \in reached

\* A variable that is set and clean although the server never held its value:
\* no later push will send it.
Forgotten(v) == Idle /\ var[v].set /\ ~var[v].dirty /\ v \notin reached

\* A call that returns SUCCESS never leaves a local value behind: only a push
\* that reported an error can.
ForgetsOnlyOnFailure ==
    [][\A v \in Vars : ~Forgotten(v) /\ Forgotten(v)'
          => \/ result' # "SUCCESS"
             \/ call \in Calls /\ v \notin owed]_vars

\* A sync that returns SUCCESS leaves nothing to send, keeps every local value
\* that was dirty when it began, and otherwise leaves the device with exactly
\* what the server held when it answered.
SyncSettles ==
    [][Succeeds("sync") =>
         /\ Pending' = {} /\ DirtyText' = {}
         /\ \A v \in owed \intersect Vars : var'[v].val = var[v].val
         /\ \A v \in Vars : net.body.val[v] # NoValue =>
               v \in Declared' /\ var'[v].val = net.body.val[v]
         /\ \A f \in Fields : text'[f].val = net.body.text[f]]_vars

-------------------------------------------------------------------------------
(* location_note as a mirrored field                                       *)

Note == "location_note"

NoteField == INSTANCE MirroredField WITH
    Contents <- Texts \ JsonTexts,
    local    <- Stored(text[Note].val),
    dirty    <- text[Note].dirty,
    held     <- Note \in reached,
    remote   <- server.text[Note],
    snapshot <- IF net.tag = "answer" /\ net.status = 200 THEN {net.body.text[Note]} ELSE {}

\* location_note keeps the promise of a mirrored field, whatever is lost or
\* refused: its flag outlives every failed push.
NoteMirrored == NoteField!Spec

-------------------------------------------------------------------------------
(* Liveness                                                                *)

\* The application keeps calling sync, and of sync calls made over and over some
\* get through both ways.  The library has no scheduler and sets no timeout on a
\* transfer, so both are the application's and the network's part; that a call
\* with an answer at hand returns is the library's.
Fairness ==
    /\ SF_vars(Push("sync"))
    /\ SF_vars(call = "sync" /\ ServerTakes)
    /\ SF_vars(call = "sync" /\ ReturnParsed)
    /\ WF_vars(Returns)

FairSpec == Spec /\ Fairness

Agree ==
    /\ \A v \in Vars : /\ var[v].set /\ ~Forgotten(v) => var[v].val = server.val[v]
                       /\ server.val[v] # NoValue => var[v].set /\ ~Forgotten(v)
    /\ \A f \in Fields : Stored(text[f].val) = server.text[f]

\* Once the edits stop, a device that keeps calling sync agrees with the server
\* again and again, whatever was lost or refused on the way; the one thing it may
\* keep to itself is a value of a variable the server holds none for, forgotten
\* by a failed push.
Converges == []<>Agree

\* Every variable that needs to be sent is dirty (canopy_min.h:1223): between
\* calls, a set variable whose value the server never held is marked.
NothingForgotten == \A v \in Vars : ~Forgotten(v)

\* canopy_min.h:918-920 and canopy_variables.c:50-53: a remote value replaces a
\* local one only if its time is more recent than the variable's last change.
OlderNeverReplaces ==
    [][\A v \in Vars : call = "from_remote" /\ var[v].set /\ var'[v].val # var[v].val
          => net.body.time[v] > var[v].last]_vars

===============================================================================
