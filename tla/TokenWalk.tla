------------------------------ MODULE TokenWalk -------------------------------
(***************************************************************************)
(* The walk over the answer of the server, from the tokenizer to the       *)
(* device: c_json_parse_string, then c_json_parse_device and the parsers   *)
(* of the tags status, var_decls and vars.  Each of them holds an index    *)
(* into the token array, and asserts what it expects there.  A token that  *)
(* the tokenizer did not fill is whatever the stack held: reading one ends *)
(* a behaviour as "undefined", a failed assertion as "aborted".            *)
(*                                                                         *)
(* token[k] of the code is tokens[k + 1]; a name or a value is the         *)
(* sequence of its words.                                                  *)
(***************************************************************************)
EXTENDS Tokenizer, NameTables

CONSTANTS
    PtrBytes,    \* the size of a pointer
    Numbers,     \* what atoll() makes of the texts that are numbers
    AfterTrue,   \* words that strncmp() finds greater than "true"
    Stray,       \* what an index that was never set can be
    StartLists   \* device->vars before the call

ASSUME TokenWalkAssumption ==
    /\ PtrBytes \in {4, 8}
    /\ \A w \in DOMAIN Numbers : Numbers[w] \in Int
    /\ "true" \notin AfterTrue
    /\ Stray \subseteq Int
    /\ StartLists \subseteq Seq(Words)
    /\ {"", "old", "true", "no value"} \subseteq Words

VARIABLES
    pc,          \* the loop that runs, or how the call ended
    offset,      \* c_json_parse_device: the next token,
    left,        \*   turns of its loop that are left,
    next_token,  \*   what the last successful parser returned, 0 if none has,
    err,         \*   and the error it will return
    at,          \* the parser that runs: its offset
    rest,        \*   and the turns of its loop that are left
    list,        \* device->vars, by name
    var,         \* the structs on it
    text,        \* friendly_name and location_note with their dirty flags
    ids,         \* device_id and secret_key
    remote,      \* what the remote keeps of the tag status
    taken,       \* history: the items taken from the answer
    lost,        \* history: next_token was used before it was set
    was          \* history: the device before the call

loops == <<offset, left, next_token, err, at, rest>>
object == <<list, var, text, ids, remote, taken>>
history == <<lost, was>>
walk == <<pc, offset, left, next_token, err, at, rest, list, var, text, ids, remote, taken, lost, was>>
vars == <<js, pos, tokens, super, rc, pc, offset, left, next_token, err, at, rest,
          list, var, text, ids, remote, taken, lost, was>>

Loops == {"tokenize", "tag", "status", "decls", "vars"}
Ends == {"returned", "aborted", "undefined"}

-------------------------------------------------------------------------------
(* What the code asserts of the tokens it meets                            *)

\* A token is expected to be of one of some types and sizes and, if a tag is given, to
\* be that tag: strncmp over the token's own length, so the empty text is any tag.
AnySize == 0..NumTokens
Is(types, sizes) == [kinds |-> types \X sizes, tag |-> ""]
IsTag(w) == [kinds |-> {<<"string", 1>>}, tag |-> w]

Text(t) == js[t.start].text

Fits(t, s) ==
    /\ <<t.type, t.size>> \in s.kinds
    /\ s.tag # "" => Text(t) \in {<<>>, <<s.tag>>}

\* Where the loop that runs is.
Cursor == IF pc = "tokenize" THEN 1 ELSE IF pc = "tag" THEN offset ELSE at

\* The text of the token there: the name of a member, once it is known to be a string.
Name == IF Cursor \in DOMAIN tokens THEN Text(tokens[Cursor]) ELSE <<>>

Value == Text(tokens[Cursor + 1])

Parsed == {<<"status">>, <<"var_decls">>, <<"vars">>}
Ids == {"device_id", "secret_key"}
Fields == {"friendly_name", "location_note"}
Known == Parsed \union {<<"result">>} \union {<<f>> : f \in Ids \union Fields}

\* The value of a member, by its tag.
TagValue ==
    CASE Name \in Parsed     -> Is({"object"}, AnySize)
      [] Name = <<"result">> -> Is({"object", "array", "string", "primitive"}, AnySize)
      [] Name \in Known      -> Is({"string"}, {0})
      [] OTHER -> [kinds |-> ({"string", "array", "primitive"} \X {0}) \union ({"object"} \X AnySize),
                   tag |-> ""]

StatusTags == {<<"ws_connected">>, <<"active_status">>, <<"last_activity_time">>}

StatusValue ==
    CASE Name = <<"ws_connected">>       -> <<Is({"primitive"}, {0})>>
      [] Name = <<"active_status">>      -> <<Is({"string"}, AnySize)>>
      [] Name = <<"last_activity_time">> -> <<Is({"primitive"}, AnySize)>>
      [] OTHER                           -> <<>>

\* sscanf("%s %s %s"): a word that is not there leaves the buffer empty.
Word(k) == IF k \in DOMAIN Name THEN Name[k] ELSE ""
DeclDirections == FromName(Directions, Word(1), PtrBytes)
DeclTypes == FromName(Datatypes, Word(2), PtrBytes)

\* What this turn of the loop asserts, token by token.
Required ==
    CASE pc = "tokenize" -> <<Is({"object"}, AnySize)>>
      [] pc = "tag"    -> <<Is({"string"}, IF Name \in Parsed THEN {1} ELSE AnySize), TagValue>>
      [] pc = "status" -> <<Is({"string"}, AnySize)>> \o StatusValue
      [] pc = "decls"  -> <<Is({"string"}, {1})>>
                          \o IF {0} \in {DeclDirections, DeclTypes} THEN <<>>
                             ELSE <<Is({"object"}, {0})>>
      [] pc = "vars"   -> <<Is({"string"}, {1}), Is({"object"}, {2}), IsTag("t"),
                            Is({"primitive"}, {0}), IsTag("v"),
                            Is({"primitive", "string"}, {0})>>

Wrong == {k \in DOMAIN Required :
             Cursor + k - 1 \notin DOMAIN tokens \/ ~Fits(tokens[Cursor + k - 1], Required[k])}

\* A loop has a turn to do, for one of these names, and the tokens are as it expects them.
HasTurn(loop) ==
    /\ pc = loop
    /\ CASE loop = "tokenize" -> rc = "ok"
         [] loop = "tag"      -> left > 0
         [] OTHER             -> rest > 0

Turn(loop, names) == HasTurn(loop) /\ Name \in names /\ Wrong = {}

AssertFails ==
    /\ \E loop \in Loops : HasTurn(loop)
    /\ Wrong # {}
    /\ pc' = IF Cursor + Min(Wrong) - 1 \in DOMAIN tokens THEN "aborted" ELSE "undefined"
    /\ UNCHANGED <<loops, object, history, tokenizer>>

-------------------------------------------------------------------------------
(* c_json_parse_string and c_json_parse_device                             *)

Tokenize ==
    /\ pc = "tokenize"
    /\ TokenizerNext
    /\ UNCHANGED walk

\* The caller returns jsmn's error as it is.
TokenizerFails ==
    /\ pc = "tokenize"
    /\ rc \notin {"running", "ok"}
    /\ pc' = "returned"
    /\ err' = "TOKENS"
    /\ UNCHANGED <<offset, left, next_token, at, rest, object, history, tokenizer>>

Enter ==
    /\ HasTurn("tokenize") /\ Wrong = {}
    /\ pc' = "tag"
    /\ offset' = 2
    /\ left' = tokens[1].size
    /\ UNCHANGED <<next_token, err, at, rest, object, history, tokenizer>>

\* The end of the loop.
Return ==
    /\ pc = "tag"
    /\ left = 0
    /\ pc' = "returned"
    /\ UNCHANGED <<loops, object, history, tokenizer>>

Loop(name) == CASE name = <<"status">> -> "status" [] name = <<"vars">> -> "vars" [] OTHER -> "decls"

CallParser ==
    /\ Turn("tag", Parsed)
    /\ pc' = Loop(Name)
    /\ at' = offset + 2
    /\ rest' = tokens[offset + 1].size
    /\ UNCHANGED <<offset, left, next_token, err, object, history, tokenizer>>

\* MUTANT: the size of an object is taken to count names and values, as it did in
\* earlier versions of jsmn.
MemberOfTwo(n) ==
    /\ offset' = offset + n
    /\ left' = left - 2

\* A member of n tokens has been dealt with.
MemberDone(n) ==
    /\ offset' = offset + n
    /\ left' = left - 1

\* The caller reads *result_code from this, and no caller looks at it.
ResultTag ==
    /\ Turn("tag", {<<"result">>})
    /\ IF Value \in {<<>>, <<"ok">>, <<"error">>}
       THEN MemberDone(2) /\ UNCHANGED <<pc, err>>
       ELSE pc' = "returned" /\ err' = "FATAL" /\ UNCHANGED <<offset, left>>
    /\ UNCHANGED <<next_token, at, rest, object, history, tokenizer>>

IdTag(f) ==
    /\ Turn("tag", {<<f>>})
    /\ ids' = [ids EXCEPT ![f] = Value]
    /\ taken' = taken \union {f}
    /\ MemberDone(2)
    /\ UNCHANGED <<pc, next_token, err, at, rest, list, var, text, remote, history, tokenizer>>

TextTaken(f) == [val |-> Value, dirty |-> FALSE]

TextTag(f) ==
    /\ Turn("tag", {<<f>>})
    /\ text' = [text EXCEPT ![f] = TextTaken(f)]
    /\ taken' = taken \union {f}
    /\ MemberDone(2)
    /\ UNCHANGED <<pc, next_token, err, at, rest, list, var, ids, remote, history, tokenizer>>

\* MUTANT: the value is not skipped.
NameOnly(k) == 1

\* MUTANT: the inner loop reads the size of the object once.
SizeOnce(k) == IF tokens[k].type = "object" THEN 1 + tokens[k].size ELSE 2

\* How far an unknown member moves the loop on, whose value is token k.  For an object the
\* inner loop compares its turns with the size of the token that it has come to: an empty
\* object keeps it where it is, any other one of a document lets go at the first name.
UnknownLength(k) ==
    IF tokens[k].type = "object"
    THEN 1 + Min({d \in 0..(Len(tokens) - k) : tokens[k + d].size =< d})
    ELSE 2

UnknownTag ==
    /\ HasTurn("tag") /\ Name \notin Known /\ Wrong = {}
    /\ MemberDone(UnknownLength(offset + 1))
    /\ UNCHANGED <<pc, next_token, err, at, rest, object, history, tokenizer>>

\* MUTANT: a parser does not set it.
NextTokenUnset == next_token

NextToken == at

\* The end of a parser's loop: its caller goes on behind the member.
ParserReturns ==
    /\ pc \in {"status", "decls", "vars"}
    /\ rest = 0
    /\ pc' = "tag"
    /\ next_token' = NextToken
    /\ offset' = NextToken
    /\ left' = left - 1
    /\ err' = "SUCCESS"
    /\ UNCHANGED <<at, rest, object, history, tokenizer>>

\* MUTANT: the caller goes on behind the entry that failed.
ParserFailsForward(e) ==
    /\ pc' = "tag"
    /\ offset' = at + 2
    /\ left' = left - 1
    /\ err' = e
    /\ lost' = (lost \/ next_token = 0)
    /\ UNCHANGED <<next_token, at, rest, was, tokenizer>>

\* A parser that fails leaves next_token as it was, and its caller goes on there: behind
\* the last member that a parser has taken, or, if there was none, where the stack says.
ParserFails(e) ==
    /\ pc' = "tag"
    /\ offset' \in IF next_token # 0 THEN {next_token} ELSE Stray
    /\ left' = left - 1
    /\ err' = e
    /\ lost' = (lost \/ next_token = 0)
    /\ UNCHANGED <<next_token, at, rest, was, tokenizer>>

\* MUTANT: a loop over the tokens, not over the entries.
EntryUncounted(n) ==
    /\ at' = at + n
    /\ UNCHANGED <<pc, offset, left, next_token, err, rest, history, tokenizer>>

\* Another turn of the parser's loop, n tokens on.
EntryDone(n) ==
    /\ at' = at + n
    /\ rest' = rest - 1
    /\ UNCHANGED <<pc, offset, left, next_token, err, history, tokenizer>>

-------------------------------------------------------------------------------
(* c_json_parse_remote_status                                              *)

Atoll(w) == IF w \in DOMAIN Numbers THEN Numbers[w] ELSE 0

\* ws_connected is t == 1 for the difference t to "true": 0 for "true", negative for
\* "false", a number or null, and for a word behind "true" 1 or more, as the library has it.
\* A primitive is never empty: the branch for a difference of 0 to both is never taken.
WsConnected ==
    /\ Turn("status", {<<"ws_connected">>})
    /\ \E b \in IF Value # <<>> /\ Value[1] \in AfterTrue THEN BOOLEAN ELSE {FALSE} :
          remote' = [remote EXCEPT !.ws_connected = b]
    /\ EntryDone(2)
    /\ UNCHANGED <<list, var, text, ids, taken>>

ActiveStatus ==
    /\ Turn("status", {<<"active_status">>})
    /\ \E s \in FromName(ActivityStatuses, IF Value = <<>> THEN "" ELSE Value[1], PtrBytes) :
          remote' = [remote EXCEPT !.active_status = s]
    /\ EntryDone(2)
    /\ UNCHANGED <<list, var, text, ids, taken>>

LastActivity ==
    /\ Turn("status", {<<"last_activity_time">>})
    /\ remote' = [remote EXCEPT !.last_activity = Atoll(Value)]
    /\ EntryDone(2)
    /\ UNCHANGED <<list, var, text, ids, taken>>

\* There is no branch for another name: it stays where it is.
UnknownStatus ==
    /\ HasTurn("status") /\ Name \notin StatusTags /\ Wrong = {}
    /\ EntryDone(0)
    /\ UNCHANGED object

\* A search for a word that no entry matches can also leave the program's memory.
SearchRunsOff ==
    /\ \/ /\ Turn("status", {<<"active_status">>})
          /\ Hits(ActivityStatuses, IF Value = <<>> THEN "" ELSE Value[1], PtrBytes) = {}
       \/ /\ HasTurn("decls") /\ 1 \notin Wrong
          /\ \/ Hits(Directions, Word(1), PtrBytes) = {}
             \/ Hits(Datatypes, Word(2), PtrBytes) = {}
    /\ pc' = "undefined"
    /\ UNCHANGED <<loops, object, history, tokenizer>>

-------------------------------------------------------------------------------
(* c_json_parse_vardcl                                                     *)

Listed == {list[k] : k \in DOMAIN list}

NoValue == <<"no value">>

Fresh(t) == [type |-> t, set |-> FALSE, dirty |-> FALSE, last |-> 0, val |-> NoValue]

\* INVALID is 0 among the directions and among the datatypes.
DeclFails ==
    /\ HasTurn("decls") /\ 1 \notin Wrong
    /\ 0 \in DeclDirections \union DeclTypes
    /\ ParserFails("JSON")
    /\ UNCHANGED object

Decl ==
    /\ HasTurn("decls") /\ Wrong = {}
    /\ DeclDirections # {0}
    /\ \E t \in DeclTypes \ {0} :
          IF Word(3) \in Listed THEN UNCHANGED <<list, var>>
          ELSE /\ list' = <<Word(3)>> \o list
               /\ var' = [v \in DOMAIN var \union {Word(3)} |->
                             IF v = Word(3) THEN Fresh(t) ELSE var[v]]
    /\ EntryDone(2)
    /\ UNCHANGED <<text, ids, remote, taken>>

-------------------------------------------------------------------------------
(* c_json_parse_vars                                                       *)

EntryTime == Atoll(Text(tokens[at + 3]))
EntryValue == Text(tokens[at + 5])

\* MUTANT: a bool takes any word, for false.
AcceptsAnyBool(t) == t \notin {1, 13, 14}

\* Void, struct and array variables take no value, bool ones only two.
Accepts(t) ==
    CASE t \in {1, 13, 14} -> FALSE
      [] t = 3             -> EntryValue \in {<<"true">>, <<"false">>}
      [] OTHER             -> TRUE

VarTaken ==
    /\ Turn("vars", {<<v>> : v \in Listed})
    /\ Accepts(var[Name[1]].type)
    /\ var' = [var EXCEPT ![Name[1]].last = EntryTime, ![Name[1]].val = EntryValue,
                          ![Name[1]].set = TRUE]
    /\ taken' = taken \union {Name[1]}
    /\ EntryDone(6)
    /\ UNCHANGED <<list, text, ids, remote>>

\* The time has been stored when the value turns out to be of no use.
VarUnusable ==
    /\ Turn("vars", {<<v>> : v \in Listed})
    /\ ~Accepts(var[Name[1]].type)
    /\ var' = [var EXCEPT ![Name[1]].last = EntryTime]
    /\ ParserFails("FATAL")
    /\ UNCHANGED <<list, text, ids, remote, taken>>

VarNotFound ==
    /\ HasTurn("vars") /\ Name \notin {<<v>> : v \in Listed} /\ Wrong = {}
    /\ ParserFails("VAR_NOT_FOUND")
    /\ UNCHANGED object

-------------------------------------------------------------------------------

Init ==
    /\ TokenizerInit
    /\ pc = "tokenize"
    /\ offset = 1 /\ left = 0 /\ next_token = 0 /\ err = "SUCCESS"
    /\ at = 1 /\ rest = 0
    /\ list \in StartLists
    /\ var = [v \in Listed |-> [Fresh(3) EXCEPT !.set = TRUE, !.dirty = TRUE, !.val = <<"true">>]]
    /\ text = [f \in Fields |-> [val |-> <<"old">>, dirty |-> TRUE]]
    /\ ids = [f \in Ids |-> <<"old">>]
    /\ remote = [ws_connected |-> FALSE, active_status |-> 0, last_activity |-> 0]
    /\ taken = {}
    /\ lost = FALSE
    /\ was = [list |-> list, var |-> var, text |-> text]

Next ==
    \/ Tokenize
    \/ TokenizerFails
    \/ AssertFails
    \/ Enter
    \/ Return
    \/ CallParser
    \/ ResultTag
    \/ \E f \in Ids : IdTag(f)
    \/ \E f \in Fields : TextTag(f)
    \/ UnknownTag
    \/ ParserReturns
    \/ WsConnected
    \/ ActiveStatus
    \/ LastActivity
    \/ UnknownStatus
    \/ SearchRunsOff
    \/ DeclFails
    \/ Decl
    \/ VarTaken
    \/ VarUnusable
    \/ VarNotFound

\* The call runs on until it ends.
Spec == Init /\ [][Next]_vars /\ WF_vars(Next)

-------------------------------------------------------------------------------

Structs == [type : Enums(Datatypes) \ {0}, set : BOOLEAN, dirty : BOOLEAN, last : Int,
            val : Seq(Words)]

\* No loop has set the offset, a parser that failed has left it: an error is noted, and
\* the call ends, or reads a token that is not there.
OffsetStray ==
    /\ offset \in Int
    /\ lost /\ next_token = 0 /\ err # "SUCCESS"
    /\ pc \in {"tag", "returned", "undefined"}

\* Positions and counters of the loops stay in the token array or just behind it, unless
\* the first parser that is called fails; the device is a list of structs, whatever the
\* answer was.
TypeOK ==
    /\ TokenizerTypeOK
    /\ pc \in Loops \union Ends
    /\ offset \in 1..(NumTokens + 1) \/ OffsetStray
    /\ at \in 1..(NumTokens + 1) /\ next_token \in 0..(NumTokens + 1)
    /\ left \in 0..NumTokens /\ rest \in 0..NumTokens
    /\ err \in {"SUCCESS", "TOKENS", "JSON", "FATAL", "VAR_NOT_FOUND"}
    /\ list \in Seq(Words) /\ var \in [Listed -> Structs]
    /\ text \in [Fields -> [val : Seq(Words), dirty : BOOLEAN]]
    /\ ids \in [Ids -> Seq(Words)]
    /\ remote \in [ws_connected : BOOLEAN, active_status : Enums(ActivityStatuses),
                   last_activity : Int]

\* The call ends: wherever the offsets of the loops jump to, each of them has only as many
\* turns as its object has members.
WalkEnds == <>(pc \in Ends)

===============================================================================
