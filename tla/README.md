# Canopy minimal C library: specifications and proofs

TLA+ specifications of the canopy_c_minimal library (the code under `src/`), with
TLC runs that check them on small instances and TLAPS proofs about them for every
value of their constants. Paths of source files below are relative to the
repository.

## 1. The system

The library lets a program on a small device keep *Cloud Variables* and a few
texts in step with a server. It is single threaded: every call blocks until its
HTTP exchange is over, there are no callbacks, and nothing is persisted. What is
concurrent is the rest of the world: the server, its other clients, and a network
that loses requests or answers at any point.

| Component | State | Operations | Talks to | In the model |
|---|---|---|---|---|
| Device object, `canopy_device.c` | `struct canopy_device`: texts `friendly_name`, `location_note` with dirty flags, list head `vars` | `canopy_get_self_device`, `canopy_device_update_from_remote`, `_update_to_remote`, `_sync_with_remote`, setters, getters | variables, JSON, transport | `DeviceSync`; bytes of the texts and getters: `DeviceTexts` |
| Cloud Variables, `canopy_variables.c` | one `struct canopy_var` per variable (`set`, `dirty`, `last`, value union) on the list | declare, find, set, get, emit (`var_decls`, `vars`), parse | device, JSON | `DeviceSync` (list and flags), `VarNames` (names), `VarCell` and `VarString` (bytes of the values) |
| JSON emitter, `canopy_json.c` | `struct c_json_state`: buffer, offset, indentation, separators | open, close, name and value, tokenize | jsmn | `JsonEmit`; in `DeviceSync` as `PayloadCap` and `WellFormed` |
| Tokenizer, `jsmn.c` | `pos`, `toksuper`, the token array | tokenize a body | JSON | `Tokenizer` |
| Token walk, `c_json_parse_device` and the parsers below it | token index, `err`, `next_token` | parse by tag | variables, remotes | `TokenWalk`, `ResponseDocs`; its effect in `DeviceSync` is `ParseDevice` |
| HTTP transport, `linux_communication.c` | receive buffer, `offset`, `rcv_end` | perform, get, post, delete, write callback | curl, remote | `HttpReceive` |
| Remotes, `canopy_remotes.c` | list of remotes on the context, status of a remote | init, status tag; clock and shutdown are stubs | context, device | `RemoteRegistry` (list), `TokenWalk` (status tag) |
| Filters, `canopy_filters.c` | chain with head and tail | append five kinds | none yet | `FilterList` |
| Context and barriers, `canopy_system.c` | list head, update period | init, shutdown; the rest returns `NOT_IMPLEMENTED` | remotes | in `RemoteRegistry` |
| Enum name tables, `canopy_min.h` | constant tables | to and from strings | parsers | `NameTables` |
| OS layer, `linux_os.c` | none | wrappers | | no |

How they interact: a push (`update_to_remote`, `sync_with_remote`) walks the
variable list through the emitter into `request_payload[2048]`, posts it through the
transport into the remote's receive buffer, and (sync only) tokenizes that buffer and
walks the tokens back into the device and its variables. A pull (`get_self`,
`update_from_remote`) does the second half only; `get_self` zeroes the device first.

What is hard:

* an exchange can fail at seven places (emitter, transfer before or after the server's
  turn, receive buffer, status, tokenizer, a value in the answer), and each leaves a
  different mix of flags and values behind;
* the flags of variables are cleared while the payload is built, those of the texts
  after the answer: two disciplines in one call;
* other clients write between the steps of an exchange;
* a variable can become known by declaration or by an answer, in any order, and
  `get_self` forgets all of them;
* buffers are filled by `snprintf`, which truncates and reports nothing;
* the walk over an answer keeps a bare index into the token array: each member moves it on
  in a way of its own, and a parser that fails leaves its caller with the index and the
  error of whatever came before;
* numbers share eight bytes of a union, texts lie in front of their flags, names are cut:
  a store that is one byte wide or long reaches what lies next to it.

What makes each part correct:

* device: a push that reports success has delivered what was dirty; nothing changed
  locally is lost in silence; after a sync both sides agree; once failures stop they
  agree again;
* variable list: one struct per name, flags that the emitter cannot miss, only values
  it can write;
* transport: the body in order, never beyond the buffer, an outcome that tells exactly
  whether it fitted;
* emitter: what it reports as complete holds all it should, with commas where JSON wants
  them;
* tokenizer: the sizes in the token array are the numbers of members, whatever the nesting;
* token walk: every member of the answer is processed or an error is returned, and the walk
  comes to an end on any body;
* value, texts, names: what is put in is what is read and sent, up to the last length and the
  last number for which that is true, and those are known;
* remotes, filters: the pointer structure is the sequence of what was added.

## 2. The modules

| Module | What it is |
|---|---|
| `DeviceSync` | the device, its variables, the four exchanges, the server |
| `MirroredField` | abstract: one field that two sides edit, and its dirty mark |
| `MCDeviceSync` | constants of the small instances of `DeviceSync` |
| `DeviceSyncProofs` | proofs about `DeviceSync` |
| `HttpReceive` | the receive buffer over a series of exchanges |
| `HttpReceiveProofs` | proofs about `HttpReceive` |
| `JsonEmit` | the payload of a push, one emitter call after the other |
| `JsonEmitProofs` | proofs about `JsonEmit` |
| `FilterList` | the chain of filters of a query |
| `FilterListProofs` | proofs about `FilterList` |
| `RemoteRegistry` | the list of remotes of a context |
| `RemoteRegistryProofs` | proofs about `RemoteRegistry` |
| `MCBuffersLists` | one small instance of `JsonEmit`, `HttpReceive`, `RemoteRegistry` and `FilterList`, which share nothing |
| `Tokenizer` | jsmn over a body of lexemes |
| `NameTables` | the enum tables, printing and searching |
| `TokenWalk` | `c_json_parse_string`, `c_json_parse_device` and the parsers below it; extends both |
| `ResponseDocs` | answers as documents, what the walk should come to, and the walk as an implementation of `DeviceSync`'s `ParseDevice` |
| `MCTokenWalk` | its small instance |
| `TokenWalkProofs` | proofs about `Tokenizer` and `TokenWalk` |
| `VarCell` | the value of a numeric variable as bytes |
| `VarString` | the value of a string variable, and the quotes around it |
| `DeviceTexts` | the two texts as bytes, with their flags |
| `VarNames` | the names of the variables at their limit |
| `MCLocalCells` | one small instance of all four, which share nothing |
| `LocalCellsProofs` | proofs about all four |
| `Inductions` | induction on natural numbers and sums over finite sets, for the proofs |

### DeviceSync

State and code:

| Variable | In the code |
|---|---|
| `list` | `device->vars` and the `next` pointers, newest first |
| `var` | the listed structs by name: `type`, `set`, `dirty`, `last`, `val` |
| `text` | `friendly_name`, `location_note` with their `_dirty` flags |
| `call` | which library call is blocked in its HTTP exchange |
| `net` | the request, or the answer, in flight |
| `result` | the `canopy_error` of the last exchange; `"TOKENS"` is jsmn's negative code, which `c_json_parse_string` returns as it is |
| `server` | what the server holds, with the time of each variable's last change |
| `edits` | counts local edits and writes of other clients, for the bound |
| `reached`, `owed` | history: items whose present local value the server has held; items that were dirty when the push in progress began |

A call is cut where other parties can act. `GetSelfDevice`, `UpdateFromRemote` and
`Push` are the code up to the HTTP exchange (for a push that includes clearing the
variables' flags). `ServerTakes` and `ServerRefuses` are the server's turn.
`TransferFails`, `StatusNotOk`, `TokenizerFails`, `ReturnToRemote` and `ReturnParsed`
are the code after the exchange, one action per way out; `TransferFails` is possible
both before and after the server's turn, so that a lost request and a lost answer are
both there. `PushTooLarge` is a push that gives up in the emitter.

`ParseDevice` follows the order of tags in the answer, which the server sorts by name
(`tests/test_json.c:528-548`): the texts are taken before the variables, so an error
among the variables finds the texts already taken. `NewVars`/`Orders` are
`c_json_parse_vardcl` (each unknown name is pushed to the front, in the order of the
answer, which is any order), `Taken`/`AfterVars` are `c_json_parse_vars`, which stops
at the first value it cannot use and has then already stored its time.

Abstractions: names are model values shorter than `find_name` compares; datatypes are
classes by what parsing does with a value (`Types`); a text is a model value that is or
is not JSON as it stands (`JsonTexts`), and `Unquote` is what a JSON reader makes of
it; the payload buffer holds `PayloadCap` elements, of which the last may be cut.
Directions of variables are left out: the code logs and ignores them.

The server is not in the repository. It is modelled from how the code uses it: it
takes a POST whole or not at all, and answers with all it holds. Everything said below
is about the library as long as the server does that.

`friendly_name` goes out as `friendly_names` (`canopy_min_internal.h:47`, `EmitTag`) and
comes back as `friendly_name`. What the server does with the plural is not to be seen
in the repository; the model's server knows only the singular, and the properties of
pushes leave the field out (`SameTag`) rather than assume either.

The parse of an answer is one step here, `ParseDevice`. `TokenWalk` takes the code's own
steps, and `ResponseDocs` checks that together they are a `ParseDevice` step (below).

### MirroredField

What the comment at `canopy_device.c:84-92` promises of a field with a dirty flag: the
mark of a local edit goes only when the remote has held it or its content has replaced
the local one. `DeviceSync` implements it for `location_note`, under the refinement
mapping `NoteField` (the abstract answer `snapshot` is the set of the text in an answer of
status 200, empty if there is no such answer, and the local content is compared as the
server stores it, without quotes).

### HttpReceive

`buffer`, `filled` are `rcv_buffer` and `private.offset`; cell `Size` stands for the byte
behind the buffer, which line 58 of `linux_communication.c` can write. The buffer is the
application's and never cleared, so each exchange starts over what the last one left, and
the first over anything. `WriteHandler(k)` is `_curl_write_handler` for a chunk of `k`
bytes; when it takes fewer, curl gives up (`CURLE_WRITE_ERROR`) and the call returns
`OUT_OF_MEMORY`. `TransferBreaks` is any other failure, at any time. A barrier or a
failed curl initialisation returns before the transfer (`Refused`). `StrLen` is the
`strlen` with which `canopy_device.c` finds the end of the body; `stale` is history, what it
would have counted when the exchange began.

### JsonEmit

What `DeviceSync` takes for one step, `_construct_device_sync_payload` with the two loops
below it, here goes one emitter call at a time: `pc` is the call that is next, `at` the
position on the variable list. `offset`, `indent`, `depth` and `prepend` are
`struct c_json_state`; `payload` is what has been printed, as elements with their kind,
whether a separator was put before them, and whether `snprintf` cut them. An element's
length is any of `Sizes`. `cleared` and `emitted` record the flags cleared by
`c_json_emit_vars` and the texts emitted. Every call has a way on (`Emits`) and a way out
(`Fails`), with the error that its caller makes of it. `emit_obj` is false in both calls of
the library, and the array calls are never made: both are left out.

### Tokenizer, NameTables, TokenWalk

A body is a sequence of lexemes (`js`), each with its kind and, for a string or primitive,
its text as a sequence of words (`Words`). What spells a lexeme is left out; a string that never
ends and a character that fits nowhere are kinds of their own. `pos`, `super`, `tokens` are
the fields of `jsmn_parser` and the array; a token's `end` is 0 where the code has -1. There
is one action per case of the switch in `jsmn_parse`, and one per way out.

`TokenWalk` has the loops by name in `pc` (`tag` is that of `c_json_parse_device`, `status`,
`decls` and `vars` are the parsers'), and their locals: `offset`, `next_token`, `err`, `at`,
and `left` and `rest` for the turns still to do. `Required` lists what a turn asserts of the
tokens in front of it; `AssertFails` ends the call as `"aborted"`, or as `"undefined"` if it
reads a token that the tokenizer did not fill, which on the caller's stack can be anything.
`ParserFails` leaves `next_token` as it was: the walk goes on behind what the last successful
parser took. If there was none, `next_token` was never set and holds what the stack held: the walk
goes on at any index in `Stray`, which lies in the array or outside of it (`lost`). `UnknownLength`
is how far an unknown tag moves on. For an object the code's inner loop compares its turns with the size of the
token that it has come to (`canopy_device.c:592`), not with that of the object: it ends at the
first token whose size is no more than the turns made. In a document that is the first name inside the
object, whose size is 1, or the object itself if it is empty; the outer loop then goes on there,
with the turns that it has left. `WsConnected` stores whether `strncmp` returned exactly 1: never for `true` and `false`, and as
the C library has it for a word that sorts behind `true` (`AfterTrue`). `SearchRunsOff` and
the sets in `FromName` are the searches that find no entry and read on behind the table.

`NameTables` has the four tables entry by entry. A search compares as many characters as a
pointer has bytes (`sizeof` of a `char *`), so which names cannot be told apart depends on the
build: `Alike(8)` and `Alike(4)` list them. Printing goes by index, searching by the number
in the entry: the two differ where the enum has two names for zero.

### ResponseDocs

The reference for the walk: an answer is a document (objects with named members), `Written`
prints it as lexemes, `Listing` is the token list that it should give, `Position` the token
at which a member starts. A body is a document, or a document with one lexeme behind it
(what a longer earlier body leaves in the receive buffer, see `HttpReceive`), or noise that is
no document. A foreign object is the value of a tag that this version of the library does not know.
As the loop goes on inside it, the members that it meets are not those of the answer but `Met`: as
many as the answer has, of the sequence in which each foreign object is followed by its own members
(`Spliced`). `Plain` and `Complete` say of which documents a property speaks. `Plain` allows foreign
objects with members of any shape, as long as none of those that are met is empty before the last turn, and asks
that `status` has no member the library does not know. `Complete`, for the refinement, has
no foreign objects, and both texts before the variables as the server sends them.

`ParsesAsAbstract` maps the walk to `DeviceSync` with an `INSTANCE` in which `list`, `var`,
`text` and `result` change when the call returns: from the tag loop to `"returned"` is one
`ParseDevice(Body)` step, where `Body` is the document as `DeviceSync` has its answers.

### VarCell, VarString, DeviceTexts, VarNames

`VarCell`: `bytes` are the eight bytes of the union, and `Power` says what each counts. A setter or the parser stores a number in
as many of them as the member it assigns to has (`Store`), a getter and the emitter read as
many as theirs has (`Stored`). `held` is what the server holds. `Atoi`, `Nearest` and
`TextOf` are what `atoi`, `atoll`, `strtol` and `%e` do at their limits, for both sizes of
`long`.

`VarString`: `val_string` is the array, without its NUL when a string fills it; then `"%s"` reads
on into whatever follows the struct (`Behind`). The emitter puts quotes around the characters
as they are, the parser takes the characters between the quotes as they are; the server
reads and writes JSON's escapes (`Escaped`, `Spells`). A payload that spells nothing fails.

`DeviceTexts`: `mem` is `struct canopy_device` from `friendly_name[0]` to `ws_connected`, in
the struct's order: text, flag, text, flag, and the byte behind. The setters' `strcpy`, the
parser's `strncpy` and the flags' assignments are stores into it (`Over`), the payload and the
getters read C strings from it (`CString`), which end where the next NUL is.

`VarNames`: `chain` is the list as `DeviceSync` has it, with the names as the structs keep
them (`Kept`, two characters short of the array), looked for with one character more
(`Compares`). `handle` is the struct that the application was given.

### FilterList and RemoteRegistry

Pointers (`link`, `next`) as functions from nodes to nodes or `NULL`, first holding whatever memory holds.
`chain` and `order` are history: what was added, in order. Filters are linked at the tail; the
model lets the caller append a filter that is on the chain, which nothing in the code
forbids. Remotes are linked at the end of a walk, of which each step is an action.
`canopy_remote_shutdown` takes nothing off the list, so the model also initialises remotes
that are on it (`again`).

## 3. The runs

| Run | Module, configuration | Checks | Shows |
|---|---|---|---|
| `device` | `MCDeviceSync`, `DeviceSync.cfg` | `TypeOK`, `ListConsistent`, `OwedInTransit`, `PushDelivers`, `ForgetsOnlyOnFailure`, `SyncSettles`, `NoteMirrored` | the safety of the exchanges, and the refinement |
| `converges` | `MCDeviceSync`, `Converges.cfg` | `Converges` | agreement again and again under fairness |
| `buffers_and_lists` | `MCBuffersLists`, `BuffersLists.cfg` | `EmitTypeOK`, `SeparatorsRight`, `OnlyLastCut`, `SuccessIsComplete`, `ClearedIsEmitted`; `ReceiveTypeOK`, `BodyAtFront`, `OutcomeIsExact`, `StrLenOfBody`; `RegistryTypeOK`, `ListIsOrder`, `EndlessIfAgain`, `InitReturns`; `ChainTypeOK`, `ChainIsOrder` | the payload, the receive buffer, the list of remotes, the chain of filters |
| `token_walk` | `MCTokenWalk`, `TokenWalk.cfg` | `TypeOK`, `TokensNest`, `SizesAddUp`, `TokensList`, `Aligned`, `NeverStuck`, `SuccessTakesAll`, `ErrorSticks`, `ParsesAsAbstract`, `WalkEnds` | tokenizer and walk, and the refinement of `ParseDevice` |
| `local_cells` | `MCLocalCells`, `LocalCells.cfg` | `TypeOK`, `ReadsBack`, `CleanAgrees`, `TextsKeep`, `SentIsText`, `GotIsText`, `StructPerName` | values, texts and names at their limits |
| `nothing_forgotten` | `MCDeviceSync`, `NothingForgotten.cfg` | `NothingForgotten` | violated: finding 1 |
| `older_never_replaces` | `MCDeviceSync`, `OlderNeverReplaces.cfg` | `OlderNeverReplaces` | violated: finding 2 |
| `plain_text_stalls` | `MCDeviceSync`, `PlainTextStalls.cfg` | `Converges` | violated: finding 3 |
| `read_is_body` | `MCBuffersLists`, `ReadIsBody.cfg` | `ReadIsBody` | violated: finding 4 |
| `connected_is_read` | `MCTokenWalk`, `ConnectedIsRead.cfg` | `ConnectedIsRead` | violated: finding 5 |
| `too_small_is_said` | `MCLocalCells`, `TooSmallIsSaid.cfg` | `TooSmallIsSaid` | violated: finding 6 |
| `got_string_ends` | `MCLocalCells`, `GotStringEnds.cfg` | `GotStringEnds` | violated: finding 7 |

Bounds, and why they are enough:

* `Vars` has two names: two for one struct per name, for a pass over the list that stops
  between two variables, and for an answer that lists them in either order. The server
  knows neither, or one of them from an earlier run (`Legacy`), so that types agree and
  disagree.
* `Values` has a boolean and a value that is not one, so that `c_json_parse_vars` meets
  values it cannot use. `Texts` has the empty text, a text that is not JSON and one that
  is.
* `PayloadCap = 3` lets two declarations and one value in, and cuts or refuses the rest,
  at each of the places where the emitter can stop. In the liveness runs it is 9: the
  application does not fill the buffer.
* `MaxEdits = 2` counts local edits and other clients' writes together: enough for an
  edit on each side of one exchange, and for two local edits with a failed push between.
  Exchanges are not bounded.
* The liveness runs have one variable and one or two texts: the tableau is the limit.
* `HttpReceive` has a buffer of three bytes, bodies of up to four, two byte values: a body
  that leaves two, one or no byte free, and one that does not fit, in every split, after
  every earlier exchange. Exchanges are not bounded.

* `JsonEmit` has up to two variables in every mix of flags and both texts, elements of one
  to three bytes and a buffer of 18: the shortest full payload has 14 elements, the longest
  42 bytes, so the buffer ends at every call, in front of, in, and behind its element.
* `FilterList` and `RemoteRegistry` have three nodes each: one added again at the front, in
  the middle and at the end.
* `TokenWalk`: documents are every pair of members in either order (`Orders`), each with every
  value in `Options`: known and unknown tags, values that fail in the first or the second
  entry; and the server's own orders with three to five
  members. The unknown tag `notifs` is an array, a string, a primitive, an empty object, an object with one
  member that is an object, and objects with two and three members, some of them with names
  that the library knows (`friendly_name`, `vars`) and with values of every kind. `NumTokens = 26` is less than the
  longest of the answers needs, so the array also fills up. The lexeme behind a document is tried for documents of one
  member, the comma behind the last member (which jsmn takes) for those of one and of four. Noise is every
  sequence of up to three lexemes of all ten kinds. `PtrBytes` is 8. `Stray` is -1 to 28: in front of the
  array, every place in it, and behind it. `AfterTrue` has one word, `up`.
* `VarCell` has four values to a byte, so that an `int32` goes from -128 to 127 and eight bytes
  to 65535; `MCSentNumbers` has the ends of each type and their neighbours on both sides,
  and a `long` has four or eight bytes. The number of a floating point value is its
  place among the values of its type.
* `VarString` has an array of three characters, strings of up to four, made of a plain
  character and the two that JSON escapes. Strings whose escaped form is longer than the
  parser's own array are not sent to the device.
* `DeviceTexts` has arrays of three and four bytes, set to texts of every length from none to
  two too many, by two different bytes, and answered with a third.
* `VarNames` has arrays of four characters: names of one (kept), two (kept whole, the longest),
  and three (cut), two of which are cut to the same, and to a name that is in use. `MaxVars = 5`
  leaves room for one struct per name; a name that is too long adds one with each declaration.

Deadlock is checked in every run but `buffers_and_lists`, `token_walk` and those of findings 4 and 5: the application can always
make another call. `JsonEmit` and `TokenWalk` are each a single call, which returns.

Fairness. In `RemoteRegistry` the loop of `canopy_remote_init` runs on (`WF`), as its
thread does, and in `TokenWalk` the call runs on until it ends (`WF` on `Next`). In `DeviceSync`,
for `Converges` only: the library has no scheduler and sets no timeout, so progress is the application's and the network's. `Fairness` assumes that the application
keeps calling sync (`SF` on `Push("sync")`), that of syncs repeated forever some are
taken by the server and some answers arrive and are parsed (`SF` on the server's turn and
on `ReturnParsed`, both for sync only), and that a call returns (`WF` on `Returns`).
Nothing is assumed of a request that is not JSON: the server never takes it, which is
finding 3. Strong fairness is needed because each of these is disabled again whenever an
exchange fails.

### What the properties say

* `PushDelivers`: when `update_to_remote` or `sync_with_remote` returns `SUCCESS`, the
  server has held the value of everything that was dirty when it was called.
* `OwedInTransit`: while a push is under way, what was dirty is in the request, and after a
  200 with the server. It is the induction behind `PushDelivers`.
* `ForgetsOnlyOnFailure`: only a push that reported an error can leave a local value
  unmarked that the server never held.
* `SyncSettles`: after a successful sync nothing is dirty, what was dirty kept its value,
  and the rest is what the server answered.
* `ListConsistent`: one struct per name, no dirty flag the emitter's `set` test would
  hide, no set variable of a type the emitter cannot write.
* `NoteMirrored`: `location_note` implements `MirroredField`.
* `Converges`: with edits at an end, device and server agree infinitely often, apart from
  values forgotten by failed pushes (finding 1).
* `BodyAtFront`, `OutcomeIsExact`: the buffer starts with the part
  of the body handed over; `OUT_OF_MEMORY` and `SUCCESS` tell exactly whether the body
  fitted.
* `StrLenOfBody`: what `strlen` counts after a success, by the length of the body. At most one byte
  too many if the body leaves room; all that an earlier body left if it is empty, as the handler
  is then never called; and at least the whole buffer if the body fills it.

* `SeparatorsRight`: the flags per depth put a comma before exactly the elements that follow
  another member.
* `OnlyLastCut`, `SuccessIsComplete`: the emitter stops at the first element it cut, so a
  payload that is reported complete holds everything that was dirty, uncut, apart from its
  last brace, which can be cut and is not noticed.
* `ClearedIsEmitted`: the flags that the emitter clears are those of the values in the
  payload, and of the one value that found it full. `DeviceSync`'s `Visited` and `Sent`
  assume the same.
* `ChainIsOrder`: the chain is the sequence of the calls; a filter appended again becomes its
  end and loses those that followed, but the chain never closes on itself.
* `ListIsOrder`, `InitReturns`: the same for remotes, as long as none is initialised while it
  is on the list. `EndlessIfAgain`: then the list closes on itself at once, whatever place
  the remote had, and stays so until the context is initialised again.

* `TokensNest`, `SizesAddUp`: on any body at all jsmn's tokens nest, what is accepted is closed by
  the right bracket, and the sizes never add up to more than there is to walk.
* `TokensList`: the tokens of a document are its `Listing`, with every size the number of
  members. A lexeme left behind by an earlier body is refused, or adds one token at the end.
* `Aligned`: at each turn of the tag loop the index is that of the next member that the loop meets, which
  is one of the answer's own unless it has come by a foreign object.
* `NeverStuck`: no assertion fails, not even when a parser gives up in the
  middle or a foreign object has led the loop away from the level it began on. `Plain` leaves out what does
  fail one: an empty foreign object, on which the next turn finds no name, and an unknown
  entry of `status`, which the parser does not move on from.
* `SuccessTakesAll`: if the call returns `SUCCESS`, every member that the loop has met is in the device. These
  are all members of the answer if none of them is a foreign object; each foreign object costs one turn
  for every name met inside it, and as many members at the end of the answer are not
  taken (see below the findings).
* `ErrorSticks`: an error is never replaced by a later parser's `SUCCESS`. It looks as if it
  could be (`err` is assigned by each), but the index goes back to the last success, and
  the turns run out on the tag that failed. `lost` excepts an error that comes before any
  success, which the code leaves to what the stack holds.
* `ParsesAsAbstract`: the walk over a complete answer is `DeviceSync`'s `ParseDevice`.
* `WalkEnds`: whatever the body, the call returns, or an assertion or an undefined read ends it.

* `ReadsBack`: a value put into a variable, by a setter or the parser, is what the getter
  returns and the emitter sends, whatever was there before. Not so, and
  excepted: a string that fills its array, of which the emitter does not find the
  end; a string that is no shorter than the caller's buffer, of which the getter leaves the end
  away (finding 7); `canopy_var_set_uint32` for anything but 0 and 1 over a small number, a
  `uint32` in the upper half of its range that is parsed where `long` has four bytes, a
  `datetime` above `LLONG_MAX`.
* `CleanAgrees`: device and server agree on the value of a clean variable, up to the digits that
  `%e` keeps and the escapes of a string (which the device keeps as they came, and
  sends back as they were), as long as nobody else wrote and no exchange failed.
* `TextsKeep`: no store into a text, a terminator or a flag reaches another text or flag.
* `SentIsText`: what is sent is the text; one that fills its array is sent together with its flag
  and what follows.
* `GotIsText`: a getter returns the text if its buffer is longer than the text and the array too, and
  refuses a buffer that is shorter. A buffer of exactly the text's length is finding 6.
* `StructPerName`: a name has one struct, and the application's pointer is the one that parsers
  find. A name of more than 126 characters is never found again, so that the same name can be
  declared twice without `VAR_IN_USE` or the existing variable (`canopy_min.h:1240`).

### Findings

1. `c_json_emit_vars` clears a variable's dirty flag before the payload is sent
   (`canopy_variables.c:584-586`). If the exchange fails, the variable is never sent
   again, although `canopy_min.h:1223` says of the flag "Variable needs to be sent to
   remote". The texts are handled the other way round, as `NoteMirrored` shows.
2. `canopy_min.h:918-920` and `canopy_variables.c:50-53` say that only values with a more
   recent time are taken from the remote. `c_json_parse_vars` stores the time and takes
   every value (`canopy_variables.c:851`).
3. Texts are emitted without quotes (`canopy_device.c:61`, `canopy_json.c:185`), while
   `tests/test_http.c:91` posts the same field quoted. A text that is not JSON by itself
   spoils this push and, as its flag stays, every later one.
4. `linux_communication.c:47-50` says that a NULL is appended to a payload that fits.
   Line 58 writes it one byte too far, so one stale byte follows the body.
5. `ws_connected` is "currently connection WS" (`canopy_min.h:490`), and `canopy_remotes.c:223` expects a boolean
   for it. The code stores `t == 1` for the `strncmp` with `true`, which is 0 for `true`
   (`canopy_remotes.c:247-250`): a connected device is recorded as not connected.
6. `canopy_min.h:880-881` and `:893-894` promise `CANOPY_ERROR_BUFFER_TOO_SMALL` for a buffer that is
   not large enough. The getters compare with `>` (`canopy_device.c:362`, `:381`), so that a buffer of exactly the text's
   length gets the text without its last character, and `SUCCESS`.
7. `canopy_min.h:1304` says of the buffer of `canopy_var_get_string` "buf is null terminated". The
   code copies with `strncpy` and puts no NUL (`canopy_variables.c:1229-1230`), so that a string no shorter than
   the buffer comes without an end.

Seen, and without a run of its own:

* `canopy_device.c:475` says of the turns of the loop over the answer "The parse says that there
  are 'count' first level tags". Of an unknown tag with an object for its value only the name and the
  opening of the object are passed (line 592; the comment above it says "This isn't right"), so
  the next turn is for a name inside that object. Members at the end of the answer are then left out
  with `SUCCESS`, and what is inside the object is taken for the device's if its name is a known
  one. `Aligned` and `SuccessTakesAll` say exactly which members these are.
* `canopy_min.h:1240` promises `VAR_IN_USE` for a variable that exists;
  `canopy_device_var_declare` returns it with `SUCCESS`, or another struct of that name if the
  name is longer than 126 characters.
* A `result` of `"error"` is recorded where nobody looks, and the call returns `SUCCESS`.
* The status `"active"` that `tests/test_json.c:57` has in its answer is in no table; the
  search runs on behind the table. Where a pointer has four bytes, `"uint16"` and
  `"uint32"` are read as `uint8`, `"float64"` as `float32`, and every activity status as
  invalid. `activity_status_string` prints status 3, active, as `"status_inactive"`.
* A string variable with a quote or a backslash in it spoils the payload of its push, and its
  flag is gone as after any failure (`VarString`, and finding 1).
* `canopy_var_set_uint32` assigns to `val_bool` (`canopy_variables.c:1023`), and
  `canopy_var_set_uint8` records the value's type as bool, which nothing reads.
* The exceptions in `SentIsText`, `StructPerName` (but for the line above) and `NeverStuck`, and those of numbers
  in `ReadsBack`.

## 4. The proofs

`DeviceSyncProofs` (from `DeviceSyncAssumption` alone):

* `TypeCorrect`: `Spec => []TypeOK`. One lemma per value that actions build: requests,
  the server's merge, the parsed device (`RequestType`, `MergedType`, `ParseType`).
* `ListIsConsistent`: `Spec => []ListConsistent`, with `TypeOK` as the strengthening. The
  list is a sequence without repetitions: `OrderProperties` (the order of an answer is
  one, by the library's theorem that a surjection between finite sets of the same size is
  an injection) and `PrependProperties` (such a sequence of new names in front of the
  list leaves one).
* `PushesDeliver`: `Spec => PushDelivers`. `PushDelivers` is not inductive: it talks of
  the last step of a push. `OwedInTransit` carries it through the exchange, and needs the
  types; `RequestCarries` is where the emitter's single pass over flag and value matters.
  `OwedStaysInTransit` states it as a theorem of its own.
* `SyncsSettle`: `Spec => SyncSettles`, and `ForgetsOnFailureOnly`: `Spec => ForgetsOnlyOnFailure`.
  Both are about the step in which a call returns, and rest on what the call and its message
  say of each other until then, `ExchangeConsistent`: a push has left no variable dirty, and the
  values it owes are still those of the device, in the request and then in the answer. The device
  does not change in between (`ExchangeKept`), so one lemma for the start of a call
  (`ExchangeBegins`) and one for the server's turn (`ExchangeAnswered`) carry it. `ParsedWhole` is
  what the parser makes of an answer that it takes to the end.
* `NoteIsMirrored`: `Spec => NoteMirrored`, the refinement. `MirrorInit` maps the initial states,
  and `MirrorEdits`, `MirrorCalls`, `MirrorRemote` and `MirrorReturns` map the steps of the application, the
  start of a call, the world outside and the end of a call each to a step of `MirroredField` or a
  stutter. The abstract `Acknowledge` asks that the remote has held what was dirty: that is
  `OwedInTransit` and the part of `ExchangeConsistent` about `location_note`.

`HttpReceiveProofs` (from `HttpReceiveAssumption` alone): `OffsetInBuffer`,
`BodyIsAtFront`, `OutcomeExact` and `StrLenOfEachBody`, for every buffer size, set of
bytes and bound on bodies. The inductive invariant `IInv` is `ReceiveTypeOK`, `BodyAtFront`,
`OutcomeIsExact` and two parts that no chunk alone shows: `NulAhead`, the byte behind the next one is clear, for a body that
leaves room, and `NothingYet`, the buffer is as it was until the first chunk comes, for the empty
body. `StrLenFound` says what `strlen` is: the first NUL, or none.

`JsonEmitProofs` (from `JsonEmitAssumption` alone): all five properties of `JsonEmit`, for
every buffer length, set of element lengths and list. `IInv` has two halves. `EmitterInv`
is kept by each emitter call by itself (`OpenKeeps`, `CloseKeeps`, `ValueKeeps`): the flag
on top of the stack tells whether the last element wants a separator (`FlagFits`), and the
braces not yet closed are those on the stack (`OpenOnes`). `WalkInv`, `Nesting` and
`Progress` tie the loops to it: how deep the emitter is at each call, and that the flags
cleared so far are those of the positions passed. `SuccessIsComplete` needs both: at the
last brace the buffer was not full, so nothing before it is cut.

`FilterListProofs` (from `FilterListAssumption` alone): `ChainFollowsOrder`, with a lemma for
a new filter and one for a filter that is on the chain.

`LocalCellsProofs`, texts (from `DeviceTextsAssumption` alone): `TextsStay`, `TextsAreSent` and
`TextsAreGot`, which are `TextsKeep`, `SentIsText` and `GotIsText` for arrays of every length and
all texts without a NUL that the application and the server can send; the run has arrays of three
and four bytes. The invariant `IInv` is `TextsKeep` byte by byte with the lengths of the texts:
without them a text could reach into the next array. `Layout` says that no array or flag overlaps
another, `StoreText` that a text of exactly the maximum length writes its terminator on its own
flag before that is set, `Untouched` that the other text keeps its bytes, and `StoreKeeps` puts the
three together for the setters and the parsers alike. What is read needs one byte more:
`EndStays` shows that nothing reaches `ws_connected`, so that a NUL is found from every byte on
(`CStringEnds`). `CStringOfText` is then the whole of both properties: the string found is the
text, or a longer one if the text fills its array and its flag is set.

`LocalCellsProofs`, names (from `VarNamesAssumption` alone): `OneStructPerName`, `NamesSpec =>
[]StructPerName`, for arrays and lists of every length. `NamesInv` adds that every name in the
list is the beginning of a declared one: a name that stands `Alone` and is found is therefore one
that was declared before. `Cuts` is the arithmetic of the two lengths, `Finds` what `find_name` returns.

`RemoteRegistryProofs` (from the module's assumption alone): `TypeCorrect`, `ListFollowsOrder`, and
`EndlessOnlyIfAgain`, for any number of remotes. While a call is under way the list may be open, so
`EndlessIfAgain` is not inductive: `LoopTrapped` says that once a remote has been initialised
again there is a set of remotes that the running loop does not leave, unless it is at the one that
is being initialised. The other direction is `OrderEnds`: a list without repetitions has an
end. `Endless` is stated with such a set rather than as a walk of so many steps: the set is what an
invariant can carry from one step of the loop to the next.

`TokenWalkProofs` (from the assumptions of `Tokenizer` and `TokenWalk` alone): `TokensAlwaysNest`,
`Spec => []TokensNest`, for bodies and token arrays of every length; the run has an array of 26
tokens, documents of up to five members and every noise of up to three lexemes. Nesting alone is not
inductive, as a bracket closes the last open token: `TokenizerInv` adds that all tokens lie in the part of the body that has been read
and open and close on brackets of their kind (`TokensInBody`), and that nothing is open where there
is no superior token (`NothingOpen`). `InnermostIsLast` says that `Innermost`, which jsmn finds by a
loop down the array, is the last open token, and `TokenAdded` and `TokenClosed` are the two ways
in which the array changes.
`LoopsStayInArray`, `Spec => []TypeOK`: whatever the sizes and the errors in the answer, no index of
the walk passes the array by more than one and no counter falls below zero. There is one exception, which the theorem
states: if the first parser that is called fails, `next_token` was never set, and the offset of
`c_json_parse_device` can be any int (`OffsetStray`, for any set `Stray`); then an error is noted, and
the call returns it or ends as it reads a token that is not there. `StopsInArray` is about the inner loop over an unknown
object: the last token has size 0, so the loop ends in the array or just behind it, although it
counts by the sizes of tokens that are not its object. `WalkInv` rests on a
bound that `TokensInBody` gives, that a token's size is no more than the number of tokens behind it
(`CountedTokens`), and on a parser never being entered without a turn of the tag loop to come
back to (`pc \in Parsers => left > 0`).

`SizesStayBounded`, `Spec => []SizesAddUp`: what `TokenizerInv` adds is that the token which is counted
(`super`) comes before the one that is added. From any place in the array on, a new token then
adds one at most to the sizes and one to the tokens (`OneMoreCounted`); all other cases leave the
sizes as they are (`SizesKept`).
`SizesCountMembers`: the part of `TokensList` about sizes, for bodies of any length and depth rather than
the documents of the run. It asks of a body only what JSON has around colons (`Punctuated`: a name before
each, and a comma or closing bracket behind a string or primitive that is a value); the brackets need
not match and the parse may break off. Then a container's size is the cardinality of its members,
which the loops of the parsers take for the number of their turns, and a name in one has size 1 and a
value 0, which `COS_ASSERT` says of them (`canopy_device.c:534`, `canopy_variables.c:427`, `:464`). jsmn has no
parent links, so all rests on where `super` is: `SuperPlaced` says that it is the name until its value
has been read, and else the innermost open container, or a leaf that lies in none. `MemberInv` is
that with the property; `OneMoreMember` counts a new token, `AddPlaces`, `MarkPlaces` and
`CloseKept` move the superior token. The documents that `ResponseDocs` prints are such bodies.
`EveryStepCounts`, `Spec => [](StepsLeft \in Nat) /\ [][StepsLeft' < StepsLeft]_vars`: the variant of the
walk. A lexeme counts one, a turn of the tag loop `NumTokens + 2`, a turn of a parser's loop one; that
an object has no more entries than there are tokens (`WalkInv`) is what makes the share of a member
enough. `WalkEnds` needs fairness and stays with TLC; this is the part of it that does not: a call
takes at most as many steps as a number that the lengths of the body and of the array fix.

`LocalCellsProofs`, values (from `VarCellAssumption`, `AppNumbersAssumption`, `VarStringAssumption`):
`ValuesReadBack`, `LocalSpec => []ReadsBack`, and `CleanValuesAgree`, `LocalSpec => []CleanAgrees`. The run
has four values to a byte and strings of up to four characters; the theorems hold for bytes of any even
number of values (256 in the code), a `long` of any size from four to eight bytes, all numbers that the
server may hold and strings and arrays of every length. `VarCellAssumption` asks for an even number
because half of it is the sign; `AppNumbersAssumption` says that a setter's argument
has the type of its variable, as C converts it. The argument for numbers:

* `PowersExist`, `PowerFacts`: `Power` is the recursion it looks like, and divisible as its use asks.
* `NextDigit`, `LoadOfStore`: the bytes that `Store` writes are the digits of the number, so what `Load`
  adds up from n of them is the remainder by `Power[n]`, and `SignedWrap` of it the number with its sign
  (`StoredNumber`), if it is one of the type. `LoadByByte` does the sum byte by byte.
* `ParsedNumber`: what `atoi`, `strtol` and `atoll` make of a number of the type is the number, except
  where `ReadsBack` says so; this is where the sizes of `long` and of the union's member meet.
* `ParseReadsBack`, `SetReadsBack`: the two ways to put a number into a variable, whatever was in the
  eight bytes before; the case of `canopy_var_set_uint32` is left to the exception.
* `TextAgain`: what `%e` prints is read and printed the same again, which is why a value that
  came from the server agrees with it.

`CellInv` is `CellTypeOK` with both properties: agreement needs that what is stored was put there.
For strings `StringInv` adds `Filled`, the array cell by cell: a string, then NULs, as `strncpy`
leaves them, as far as there is room. `StringBefore` gets from it what ends at the first NUL.

`LocalCellsProofs`, types: `CellsKeepTypes`, `LocalSpec => []TypeOK`, for all four kinds of storage.
`RestTyped` with `PushInv` is the invariant for the texts: each flag is 0 or 1 although terminators
are written on it (`FlagStep`), and a text in a payload has no NUL (`CStringType`). `EscapedType` (an escaped
string is a string) is an induction over its characters (`FlattenedType`). The four parts share no variable, so
`PartsOfDevice` takes a behaviour of the whole for one of each.

`Inductions` is what takes the place of induction over lists, loops and data in these proofs. The induction
theorems of the library take an operator, which the provers cannot instantiate; here induction is a fact
about sets. Every set of natural numbers has a least element (`LeastNatural`, from the library's theorem that `<` is
well founded), a greatest one if it is bounded, and is all of them if it has 0 and every successor
(`AllNaturals`). With it a recursive function is shown to be one: the set of the numbers up to which
a solution exists is all of them, and two solutions agree. `SumsExist`, `SumsAgree` and `SumStep` do so for
the fold behind `SumFunctionOnSet`: a sum may be taken apart at any element. `SumOfNaturals` and `SumOfSame` are
the bounds and equalities that the proofs above use.

Only model-checked:

* `Converges`, `InitReturns` and `WalkEnds`: liveness under fairness is out of the prover's reach.
* `TokensList`, `Aligned`, `NeverStuck`, `SuccessTakesAll`, `ErrorSticks` and the refinement
  `ParsesAsAbstract`: they compare the walk with documents of any nesting, and the operators that print
  and list a document are RECURSIVE (`Written`, `Listing` of `ResponseDocs`), which
  leaves the provers without their arithmetic. What is proved of the walk (`TokensNest`,
  `SizesAddUp`, `TypeOK`, `EveryStepCounts`) is what can be said of it on any body at all, without a
  document; `SizesCountMembers` says what the sizes are wherever colons stand as JSON has them.

## 5. Composition, and what is not modelled

`JsonEmit` and `TokenWalk` stand on the two sides of `DeviceSync`'s messages. `DeviceSync`
takes each of them for one step; `ParsesAsAbstract` checks that the walk is that step, and
`ClearedIsEmitted`, `OnlyLastCut` and `SuccessIsComplete` are what `DeviceSync` assumes of the
payload (`Visited`, `Sent`, the cut last brace). `HttpReceive` supplies the tails that
`ResponseDocs` puts behind a document. `VarCell`, `VarString`, `DeviceTexts` and `VarNames` are the
storage that `DeviceSync` takes for ideal: what their properties except is where it is not.
`DeviceSync` takes an answer of status 200 to have a body, of members the library knows: what an empty body
leads to is in `StrLenOfBody`, what unknown members lead to in `Aligned` and `SuccessTakesAll`.

Not modelled:

* the copy that `canopy_device_get_var_by_name` hands out, which is the application's;
* `device_id` and `secret_key`, apart from what the walk stores: nothing reads them;
* `c_json_get_result_key` and the emitter's array calls, which the library never makes;
* `linux_os.c` (wrappers), barriers and logging options (they return `NOT_IMPLEMENTED` and
  change nothing), TLS, credentials and URLs (curl's, and `snprintf` into fixed buffers);
* the counting mode of jsmn, and its strict mode, which the build does not switch on.
