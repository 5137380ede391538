----------------------------- MODULE ResponseDocs -----------------------------
(***************************************************************************)
(* Answers as documents: what the walk over the tokens of a printed        *)
(* document should come to, and the walk as an implementation of the step  *)
(* that DeviceSync takes for it.  The recursion on documents is for the    *)
(* model checker.                                                          *)
(***************************************************************************)
EXTENDS TokenWalk

CONSTANTS
    Docs,      \* the documents
    Commas(_), \* whether a comma stands behind the last member of its objects
    Tails(_),  \* what can follow a document: the byte that an earlier body left there
    Noise,     \* bodies that are not from a document
    NoDoc

VARIABLE doc   \* the document that the body was printed from

docVars == <<js, pos, tokens, super, rc, pc, offset, left, next_token, err, at, rest,
             list, var, text, ids, remote, taken, lost, was, doc>>

-------------------------------------------------------------------------------
(* Documents                                                               *)

Mark(k) == [kind |-> k, text |-> <<k>>]
Str(w) == [kind |-> "string", text |-> w]
Prim(w) == [kind |-> "primitive", text |-> w]
Obj(members) == [kind |-> "object", members |-> members]
Arr == [kind |-> "array"]
Member(w, value) == [name |-> w, value |-> value]

\* The lexemes of a document, with a comma behind the last member or without.
RECURSIVE Written(_, _)
Written(n, comma) ==
    CASE n.kind = "array"  -> <<Mark("["), Mark("]")>>
      [] n.kind = "object" ->
            LET last == Len(n.members)
            IN  <<Mark("{")>>
                \o FlattenSeq([k \in 1..last |->
                      <<Str(n.members[k].name), Mark(":")>> \o Written(n.members[k].value, comma)
                      \o IF k < last \/ comma THEN <<Mark(",")>> ELSE <<>>])
                \o <<Mark("}")>>
      [] OTHER -> <<n>>

\* The tokens of a document, by their types and sizes.
RECURSIVE Listing(_)
Listing(n) ==
    CASE n.kind = "array"  -> <<<<"array", 0>>>>
      [] n.kind = "object" ->
            <<<<"object", Len(n.members)>>>>
            \o FlattenSeq([k \in DOMAIN n.members |->
                  <<<<"string", 1>>>> \o Listing(n.members[k].value)])
      [] OTHER -> <<<<n.kind, 0>>>>

\* A member that this version of the library does not know, with an object for a value.
Foreign(m) == m.name \notin Known /\ m.value.kind = "object"

\* The members in the order of their tokens, with those of a foreign object behind it.
RECURSIVE Spliced(_)
Spliced(members) ==
    FlattenSeq([k \in DOMAIN members |->
       <<members[k]>> \o IF Foreign(members[k]) THEN Spliced(members[k].value.members) ELSE <<>>])

\* Where the tag behind these members is, if each one of them is taken with length tokens.
Behind(members, length(_)) == FoldLeft(LAMBDA k, m : k + length(m), 2, members)

\* The tokens of a member, and those that the loop takes it for: a foreign object ends for
\* it at the first name inside, an empty one at its own bracket.
Whole(m) == 1 + Len(Listing(m.value))
Passed(m) == IF ~Foreign(m) THEN Whole(m) ELSE IF m.value.members = <<>> THEN 1 ELSE 2

Prints(d) == {Written(d, comma) : comma \in Commas(d)}
BodiesOf(d) == Prints(d) \union {Append(b, t) : b \in Prints(d), t \in Tails(d)}

DocsInit ==
    /\ doc \in Docs \union {NoDoc}
    /\ js \in IF doc = NoDoc THEN Noise ELSE BodiesOf(doc)
    /\ Init

DocsSpec == DocsInit /\ [][Next /\ UNCHANGED doc]_docVars /\ WF_vars(Next)

-------------------------------------------------------------------------------
(* What the properties ask of a document                                   *)

\* The members that the loop meets: as many as the answer has, of those that are spliced.
Met == SubSeq(Spliced(doc.members), 1, Len(doc.members))

\* The value that the last member of a name has, or none.
ValuesOf(w) ==
    LET named == {k \in DOMAIN Met : Met[k].name = <<w>>}
    IN  IF named = {} THEN {} ELSE {Met[Max(named)].value}

Entries(w) == UNION {{v.members[k] : k \in DOMAIN v.members} : v \in ValuesOf(w)}

\* Every word that is looked up has an entry.
WordsListed ==
    /\ doc # NoDoc
    /\ \A e \in Entries("var_decls") :
          Hits(Directions, e.name[1], PtrBytes) # {} /\ Hits(Datatypes, e.name[2], PtrBytes) # {}
    /\ \A e \in Entries("status") : e.name = <<"active_status">> =>
          Hits(ActivityStatuses, e.value.text[1], PtrBytes) # {}

\* The status has the members that this version of the library knows, and an empty foreign
\* object, which holds the loop where it is, is met last or not at all.
Plain ==
    /\ WordsListed
    /\ \A k \in 1..(Len(Met) - 1) : Foreign(Met[k]) => Met[k].value.members # <<>>
    /\ \A e \in Entries("status") :
          e.name \in {<<"ws_connected">>, <<"active_status">>, <<"last_activity_time">>}

\* As DeviceSync takes it: without foreign objects, with both texts and, last, what is known of the variables.
Complete ==
    /\ Plain
    /\ Met = doc.members
    /\ \A f \in Fields : ValuesOf(f) # {}
    /\ ValuesOf("var_decls") # {}
    /\ doc.members[Len(doc.members)].name = <<"vars">>
    /\ \A v \in ValuesOf("result") : v.text \in {<<"ok">>, <<"error">>}
    /\ \A e \in Entries("var_decls") : e.name[1] # "INVALID" /\ e.name[2] # "invalid"

-------------------------------------------------------------------------------
(* Properties                                                              *)

\* jsmn_parse lists the names and values of a document in order, each object with the
\* number of its members: the walk depends on every one of these sizes.  What an earlier,
\* longer body left behind this one is refused, or adds nothing but a token behind them.
TokensList ==
    pc = "tokenize" /\ rc = "ok" /\ doc # NoDoc =>
       LET listing == Listing(doc)
       IN  /\ Len(tokens) \in {Len(listing), Len(listing) + 1}
           /\ \A k \in DOMAIN listing : <<tokens[k].type, tokens[k].size>> = listing[k]

\* The members of the answer that the loop has taken a turn for.
Turns == Len(doc.members) - left

\* At the head of the loop of c_json_parse_device the offset is that of the next member to
\* meet, after any mix of members, each with its own way of moving on.
Aligned ==
    pc = "tag" /\ err = "SUCCESS" /\ ~lost /\ Plain =>
       offset = Behind(SubSeq(Met, 1, Turns), Passed)

\* Such a document never makes an assertion fail, or the walk read a token that is not
\* there: not even when a parser gives up in the middle of its object and the walk resumes
\* behind the last member that one has taken, or when the walk has left the level that it
\* began on for a foreign object.  Unless no parser had taken a member when the first failed.
NeverStuck == pc \in {"aborted", "undefined"} => lost \/ ~Plain

\* SUCCESS means that every member that the loop has met has been taken.
SuccessTakesAll ==
    pc = "returned" /\ err = "SUCCESS" /\ ~lost /\ Plain =>
       /\ \A f \in Fields : \A v \in ValuesOf(f) : text[f] = [val |-> v.text, dirty |-> FALSE]
       /\ \A f \in Ids : \A v \in ValuesOf(f) : ids[f] = v.text
       /\ \A e \in Entries("var_decls") : e.name[3] \in Listed
       /\ \A e \in Entries("vars") :
             LET r == var[e.name[1]]
             IN  r.set /\ r.last = Atoll(e.value.members[1].value.text)
                 /\ r.val = e.value.members[2].value.text
       /\ \A e \in Entries("status") : e.name = <<"last_activity_time">> =>
             remote.last_activity = Atoll(e.value.text)

\* ws_connected is "a primitive that's a boolean" (canopy_remotes.c:223), and what the remote
\* keeps of it, "currently connection WS" (canopy_min.h:490), is that boolean.
ConnectedIsRead ==
    pc = "returned" /\ err = "SUCCESS" /\ ~lost /\ Plain =>
       \A e \in Entries("status") :
          e.name = <<"ws_connected">> /\ e.value.text \in {<<"true">>, <<"false">>} =>
             remote.ws_connected = (e.value.text = <<"true">>)

\* The error of a parser is what the call returns, although each later parser overwrites
\* it: the walk goes back to the tag that failed until no turn is left.  Only a failure
\* before the first success is forgotten.
ErrorSticks ==
    [][err # "SUCCESS" /\ ~lost /\ err' # err => ~WordsListed]_docVars

\* The parsers, step by step, are the ParseDevice that DeviceSync takes for one step.
Class(t) == CASE t = 3 -> "bool" [] t \in {1, 13, 14} -> "void" [] OTHER -> "string"

Names == {"a", "b"}

AbstractVar(structs) ==
    [v \in Names |-> IF v \in DOMAIN structs
                     THEN [structs[v] EXCEPT !.type = Class(@)]
                     ELSE [Fresh(1) EXCEPT !.type = "no type"]]

Device ==
    INSTANCE DeviceSync WITH
       Vars <- Names, Values <- {<<"true">>, <<"false">>},
       BoolValues <- {<<"true">>, <<"false">>}, Types <- {"bool", "string", "void"},
       NoType <- "no type", Texts <- {<<>>}, AppTexts <- {}, Empty <- <<>>, JsonTexts <- {}, Unquote <- <<>>,
       PayloadCap <- 0, Legacy <- {}, MaxEdits <- 0,
       call <- "sync", net <- {}, server <- {}, edits <- 0, owed <- {},
       list <- IF pc = "returned" THEN list ELSE was.list,
       var <- AbstractVar(IF pc = "returned" THEN var ELSE was.var),
       text <- IF pc = "returned" THEN text ELSE was.text,
       result <- IF pc = "returned" THEN err ELSE "none",
       reached <- IF pc = "returned" THEN taken \ Ids ELSE {}

Announced(v) == {e \in Entries("var_decls") : e.name[3] = v}
Reported(v) == {e \in Entries("vars") : e.name = <<v>>}

Body ==
    [type |-> [v \in Names |-> IF Announced(v) = {} THEN "no type"
                               ELSE Class((CHOOSE k \in DOMAIN Datatypes :
                                      \E e \in Announced(v) : Datatypes[k][2] = e.name[2]) - 1)],
     time |-> [v \in Names |-> IF Reported(v) = {} THEN 0
                               ELSE Atoll((CHOOSE e \in Reported(v) : TRUE).value.members[1].value.text)],
     val  |-> [v \in Names |-> IF Reported(v) = {} THEN NoValue
                               ELSE (CHOOSE e \in Reported(v) : TRUE).value.members[2].value.text],
     text |-> [f \in Fields |-> (CHOOSE v \in ValuesOf(f) : TRUE).text]]

ParsesAsAbstract ==
    [][pc = "tag" /\ pc' = "returned" /\ Complete => Device!ParseDevice(Body)]_docVars

===============================================================================
