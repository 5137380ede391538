------------------------------- MODULE Tokenizer -------------------------------
(***************************************************************************)
(* jsmn_parse, as c_json_parse_string calls it: on a whole body, with an   *)
(* array of NumTokens tokens and without parent links.  The body is a      *)
(* sequence of lexemes; a position is the number of a lexeme.  Strings and *)
(* primitives are scanned in one go, as jsmn does.                         *)
(***************************************************************************)
EXTENDS Integers, SequencesExt

CONSTANTS
    NumTokens, \* length of the token array, 512 in canopy_device.c
    Words      \* what the texts of strings and primitives are made of

\* A lexeme has a kind and, if it is a string or a primitive, a text.  "open string"
\* never ends, "bad" is a character that jsmn does not take in a string or primitive.
Kinds == {"{", "}", "[", "]", ":", ",", "string", "primitive", "open string", "bad"}

Bodies == Seq([kind : Kinds, text : Seq(Words)])

ASSUME TokenizerAssumption == NumTokens \in Nat \ {0}

VARIABLES
    js,      \* the body
    pos,     \* parser->pos
    tokens,  \* the tokens filled so far; token[k] of the code is tokens[k + 1]
    super,   \* parser->toksuper, 0 for none
    rc       \* "running", then what jsmn_parse returns: "ok" for a count

tokenizer == <<js, pos, tokens, super, rc>>

-------------------------------------------------------------------------------

Running == rc = "running"

Here(kinds) == Running /\ pos =< Len(js) /\ js[pos].kind \in kinds

\* MUTANT: the outermost one.
Outermost(toks) == SelectInSeq(toks, LAMBDA t : t.end = 0)

\* The innermost container that is not closed: its end is still -1, here 0.
Innermost(toks) == SelectLastInSeq(toks, LAMBDA t : t.end = 0)

\* MUTANT: jsmn_alloc_token does not clear the size.
TokenUncleared(type, end) == [type |-> type, start |-> pos, end |-> end, size |-> 1]

Token(type, end) == [type |-> type, start |-> pos, end |-> end, size |-> 0]

\* tokens[parser->toksuper].size++
Counted == IF super = 0 THEN tokens ELSE [tokens EXCEPT ![super].size = @ + 1]

\* jsmn_alloc_token finds the array full.
NoToken ==
    /\ Here({"{", "[", "string", "primitive"})
    /\ Len(tokens) = NumTokens
    /\ rc' = "NOMEM"
    /\ UNCHANGED <<js, pos, tokens, super>>

\* case '{': case '['
OpenContainer ==
    /\ Here({"{", "["})
    /\ Len(tokens) < NumTokens
    /\ tokens' = Append(Counted, Token(IF js[pos].kind = "{" THEN "object" ELSE "array", 0))
    /\ super' = Len(tokens) + 1
    /\ pos' = pos + 1
    /\ UNCHANGED <<js, rc>>

\* The bracket here is of the kind of the innermost container that is open.
Matching ==
    /\ Innermost(tokens) # 0
    /\ tokens[Innermost(tokens)].type = IF js[pos].kind = "}" THEN "object" ELSE "array"

\* case '}': case ']'
CloseContainer ==
    /\ Here({"}", "]"})
    /\ Matching
    /\ tokens' = [tokens EXCEPT ![Innermost(tokens)].end = pos]
    /\ super' = Innermost(tokens')
    /\ pos' = pos + 1
    /\ UNCHANGED <<js, rc>>

CloseMismatch ==
    /\ Here({"}", "]"})
    /\ ~Matching
    /\ rc' = "INVAL"
    /\ UNCHANGED <<js, pos, tokens, super>>

\* jsmn_parse_string, jsmn_parse_primitive
Leaf ==
    /\ Here({"string", "primitive"})
    /\ Len(tokens) < NumTokens
    /\ tokens' = Append(Counted, Token(js[pos].kind, pos))
    /\ pos' = pos + 1
    /\ UNCHANGED <<js, super, rc>>

\* The ways out of both.
BadLeaf ==
    /\ Here({"open string", "bad"})
    /\ rc' = IF js[pos].kind = "bad" THEN "INVAL" ELSE "PART"
    /\ UNCHANGED <<js, pos, tokens, super>>

\* case ':'
Colon ==
    /\ Here({":"})
    /\ super' = Len(tokens)
    /\ pos' = pos + 1
    /\ UNCHANGED <<js, tokens, rc>>

\* MUTANT: a comma leaves the superior token as it is.
AfterCommaSame == super

\* case ',': back to the container that is open, unless the superior is a container.
\* Without a superior the code reads in front of the array; whatever type it finds,
\* nothing is open then and the superior stays.
AfterComma ==
    IF Innermost(tokens) = 0 \/ (super # 0 /\ tokens[super].type \in {"object", "array"})
    THEN super ELSE Innermost(tokens)

Comma ==
    /\ Here({","})
    /\ super' = AfterComma
    /\ pos' = pos + 1
    /\ UNCHANGED <<js, tokens, rc>>

\* The end of the body.
End ==
    /\ Running
    /\ pos > Len(js)
    /\ rc' = IF Innermost(tokens) = 0 THEN "ok" ELSE "PART"
    /\ UNCHANGED <<js, pos, tokens, super>>

TokenizerInit ==
    /\ js \in Bodies
    /\ pos = 1
    /\ tokens = <<>>
    /\ super = 0
    /\ rc = "running"

TokenizerNext ==
    \/ NoToken
    \/ OpenContainer
    \/ CloseContainer
    \/ CloseMismatch
    \/ Leaf
    \/ BadLeaf
    \/ Colon
    \/ Comma
    \/ End

-------------------------------------------------------------------------------

TokenizerTypeOK ==
    /\ js \in Bodies
    /\ pos \in 1..(Len(js) + 1)
    /\ tokens \in Seq([type : {"object", "array", "string", "primitive"},
                       start : Nat \ {0}, end : Nat, size : Nat])
    /\ Len(tokens) =< NumTokens
    /\ super \in 0..Len(tokens)
    /\ rc \in {"running", "ok", "NOMEM", "INVAL", "PART"}

\* Two tokens share no lexeme, or one holds the other.
Apart(s, t) == s.end # 0 /\ s.end < t.start
Holds(s, t) == s.start < t.start /\ (s.end = 0 \/ (t.end # 0 /\ t.end < s.end))

\* Whatever is thrown at it, jsmn_parse fills the array with tokens in the order in
\* which they start, each apart from those before it or inside of them; what is open is
\* a chain of containers, of which the superior token is never outside: it is nothing
\* only when nothing is open.  A body is accepted only if each container was closed, by
\* the bracket of its kind.
TokensNest ==
    /\ \A j, k \in DOMAIN tokens : j < k => Apart(tokens[j], tokens[k]) \/ Holds(tokens[j], tokens[k])
    /\ super = 0 => Innermost(tokens) = 0
    /\ rc = "ok" =>
          \A k \in DOMAIN tokens :
             /\ tokens[k].end >= tokens[k].start
             /\ tokens[k].type = "object" =>
                   js[tokens[k].start].kind = "{" /\ js[tokens[k].end].kind = "}"
             /\ tokens[k].type = "array" =>
                   js[tokens[k].start].kind = "[" /\ js[tokens[k].end].kind = "]"

Sizes == [k \in DOMAIN tokens |-> tokens[k].size]

\* Each token is counted by one other at most, one that comes before it: the sizes are
\* never more than the tokens there are to walk.
SizesAddUp ==
    \A n \in DOMAIN tokens : SumFunctionOnSet(Sizes, n..Len(tokens)) =< Len(tokens) - n

===============================================================================
