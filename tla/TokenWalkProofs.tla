---------------------------- MODULE TokenWalkProofs ----------------------------
(***************************************************************************)
(* jsmn_parse and the walk over its tokens, for bodies of every length and *)
(* token arrays of every size: the tokens nest whatever the body is, their *)
(* sizes add up to no more than there are, no loop of the walk leaves the  *)
(* array, and there is a bound on its steps.                               *)
(***************************************************************************)
EXTENDS TokenWalk, Inductions

-------------------------------------------------------------------------------
(* The tokenizer                                                           *)

TokenTypes == {"object", "array", "string", "primitive"}
TokenRecord == [type : TokenTypes, start : Nat \ {0}, end : Nat, size : Nat]

\* The brackets, by names that the provers can read.
ObjectOpens(body, p) == body[p].kind = "{"
ObjectCloses(body, p) == body[p].kind = "}"
ArrayOpens(body, p) == body[p].kind = "["
ArrayCloses(body, p) == body[p].kind = "]"

\* The tokens that are not closed.
Open(toks) == {k \in 1..Len(toks) : toks[k].end = 0}

\* The innermost container is the last token that is open.
LEMMA InnermostIsLast ==
    ASSUME NEW toks, Len(toks) \in Nat
    PROVE  /\ Open(toks) = {} => Innermost(toks) = 0
           /\ Open(toks) # {} => /\ Innermost(toks) \in Open(toks)
                                 /\ \A k \in Open(toks) : k =< Innermost(toks)
<1>1. Innermost(toks) = IF Open(toks) # {} THEN Max(Open(toks)) ELSE 0
  BY DEF Innermost, SelectLastInSeq, Open
<1>2. ASSUME Open(toks) # {}
      PROVE  Max(Open(toks)) \in Open(toks) /\ \A k \in Open(toks) : k =< Max(Open(toks))
  <2>1. Open(toks) \subseteq Nat /\ \A k \in Open(toks) : k =< Len(toks)
    BY DEF Open
  <2>2. \E m \in Open(toks) : \A k \in Open(toks) : k =< m
    BY <1>2, <2>1, GreatestNatural
  <2>3. \E m \in Open(toks) : \A k \in Open(toks) : m >= k
    BY <2>1, <2>2
  <2>4. Max(Open(toks)) \in Open(toks) /\ \A k \in Open(toks) : Max(Open(toks)) >= k
    BY <2>3 DEF Max
  <2> QED
    BY <2>1, <2>4
<1> QED
  BY <1>1, <1>2

\* Each token lies in the part of the body that has been read, opens and closes on brackets of its
\* kind, and counts no more tokens than there are behind it.
TokensInBody ==
    \A k \in 1..Len(tokens) :
       /\ tokens[k].start < pos /\ tokens[k].end < pos
       /\ tokens[k].end # 0 => tokens[k].end >= tokens[k].start
       /\ tokens[k].size =< Len(tokens) - k
       /\ tokens[k].type = "object" =>
             ObjectOpens(js, tokens[k].start) /\ (tokens[k].end # 0 => ObjectCloses(js, tokens[k].end))
       /\ tokens[k].type = "array" =>
             ArrayOpens(js, tokens[k].start) /\ (tokens[k].end # 0 => ArrayCloses(js, tokens[k].end))

TokensApart ==
    \A j, k \in 1..Len(tokens) : j < k => Apart(tokens[j], tokens[k]) \/ Holds(tokens[j], tokens[k])

\* Without a superior token nothing is open, and a body is accepted when nothing is.
NothingOpen == super = 0 \/ rc = "ok" => Open(tokens) = {}

TokenizerInv == TokenizerTypeOK /\ TokensInBody /\ TokensApart /\ NothingOpen

\* The types of the tokenizer's variables, as its steps use them.
LEMMA TokenizerTypes ==
    ASSUME TokenizerTypeOK
    PROVE  /\ js \in Bodies /\ Len(js) \in Nat /\ pos \in Nat /\ pos >= 1 /\ pos =< Len(js) + 1
           /\ tokens \in Seq(TokenRecord) /\ Len(tokens) \in Nat /\ Len(tokens) =< NumTokens
           /\ NumTokens \in Nat /\ super \in 0..Len(tokens)
           /\ \A k \in 1..Len(tokens) : /\ tokens[k] \in TokenRecord
                                        /\ tokens[k].start \in Nat \ {0} /\ tokens[k].end \in Nat
                                        /\ tokens[k].size \in Nat
<1>1. /\ js \in Bodies /\ pos \in 1..(Len(js) + 1) /\ tokens \in Seq(TokenRecord)
      /\ Len(tokens) =< NumTokens /\ super \in 0..Len(tokens)
  BY DEF TokenizerTypeOK, TokenRecord, TokenTypes
<1>2. Len(js) \in Nat /\ Len(tokens) \in Nat /\ NumTokens \in Nat
  BY <1>1, TokenizerAssumption DEF Bodies
<1>3. ASSUME NEW k \in 1..Len(tokens)
      PROVE  /\ tokens[k] \in TokenRecord /\ tokens[k].start \in Nat \ {0}
             /\ tokens[k].end \in Nat /\ tokens[k].size \in Nat
  <2>1. tokens[k] \in TokenRecord
    BY <1>1
  <2> QED
    BY <2>1 DEF TokenRecord
<1> QED
  BY <1>1, <1>2, <1>3

\* tokens[parser->toksuper].size++ changes a size, nothing else.
LEMMA CountedTokens ==
    ASSUME TokenizerTypeOK
    PROVE  /\ Counted \in Seq(TokenRecord) /\ Len(Counted) = Len(tokens)
           /\ \A k \in 1..Len(tokens) :
                 /\ Counted[k].type = tokens[k].type
                 /\ Counted[k].start = tokens[k].start
                 /\ Counted[k].end = tokens[k].end
                 /\ Counted[k].size = IF k = super THEN tokens[k].size + 1 ELSE tokens[k].size
<1>1. tokens \in Seq(TokenRecord) /\ Len(tokens) \in Nat /\ super \in 0..Len(tokens)
  BY DEF TokenizerTypeOK, TokenRecord, TokenTypes
<1>2. \A k \in 1..Len(tokens) : tokens[k] \in TokenRecord
  BY <1>1
<1>3. CASE super = 0
  BY <1>1, <1>3 DEF Counted
<1>4. CASE super # 0
  <2> DEFINE t == [tokens[super] EXCEPT !.size = @ + 1]
  <2>1. super \in 1..Len(tokens)
    BY <1>1, <1>4
  <2>2. Counted = [tokens EXCEPT ![super] = t]
    BY <1>4 DEF Counted
  <2>3. tokens[super] \in TokenRecord
    BY <1>2, <2>1
  <2>4. /\ t \in TokenRecord /\ t.type = tokens[super].type /\ t.start = tokens[super].start
        /\ t.end = tokens[super].end /\ t.size = tokens[super].size + 1
    BY <2>3 DEF TokenRecord
  <2> HIDE DEF t
  <2>5. Counted \in Seq(TokenRecord) /\ Len(Counted) = Len(tokens)
    BY <1>1, <2>1, <2>2, <2>4
  <2>6. \A k \in 1..Len(tokens) : Counted[k] = IF k = super THEN t ELSE tokens[k]
    BY <1>1, <2>1, <2>2
  <2> QED
    BY <2>4, <2>5, <2>6
<1> QED
  BY <1>3, <1>4

\* jsmn_alloc_token and what is filled into the token.
Adds(ty, stop) == tokens' = Append(Counted, Token(ty, stop))

\* A new token starts where the parser is: what is open holds it, what is closed lies before it.
LEMMA TokenAdded ==
    ASSUME TokenizerInv, Running, pos =< Len(js), Len(tokens) < NumTokens,
           NEW ty \in TokenTypes, NEW stop \in Nat, stop = 0 \/ stop = pos,
           ty = "object" => stop = 0 /\ ObjectOpens(js, pos),
           ty = "array" => stop = 0 /\ ArrayOpens(js, pos),
           Adds(ty, stop), pos' = pos + 1,
           super' \in 0..(Len(tokens) + 1), super' = 0 => super = 0 /\ stop = pos,
           UNCHANGED <<js, rc>>
    PROVE  TokenizerInv'
<1> DEFINE n == Len(tokens)
           c == Counted
           t == Token(ty, stop)
<1>1. /\ js \in Bodies /\ pos \in Nat /\ pos >= 1 /\ n \in Nat /\ n < NumTokens /\ NumTokens \in Nat
      /\ super \in 0..n /\ tokens \in Seq(TokenRecord) /\ Len(js) \in Nat /\ pos =< Len(js) /\ rc = "running"
  BY TokenizerTypes DEF TokenizerInv, Running
<1>2. /\ c \in Seq(TokenRecord) /\ Len(c) = n
      /\ \A k \in 1..n : /\ c[k].type = tokens[k].type /\ c[k].start = tokens[k].start
                         /\ c[k].end = tokens[k].end
                         /\ c[k].size = IF k = super THEN tokens[k].size + 1 ELSE tokens[k].size
  BY CountedTokens DEF TokenizerInv
<1>3. t \in TokenRecord /\ t.type = ty /\ t.start = pos /\ t.end = stop /\ t.size = 0
  BY <1>1 DEF Token, TokenRecord, TokenTypes
<1> HIDE DEF c, t
<1>4. tokens' = Append(c, t)
  BY DEF c, t, Adds
<1>5. /\ tokens' \in Seq(TokenRecord) /\ Len(tokens') = n + 1 /\ tokens'[n + 1] = t
      /\ \A k \in 1..n : tokens'[k] = c[k]
  BY <1>1, <1>2, <1>3, <1>4
<1>6. \A k \in 1..n : tokens[k] \in TokenRecord
  BY TokenizerTypes DEF TokenizerInv
<1>7. \A k \in 1..(n + 1) : k \in 1..n \/ k = n + 1
  BY <1>1
<1> HIDE DEF n
<1>8. TokenizerTypeOK'
  BY <1>1, <1>5 DEF TokenizerTypeOK, TokenRecord, TokenTypes, n
<1>9. TokensInBody'
  <2>1. ASSUME NEW k \in 1..n
        PROVE  /\ tokens'[k].start < pos + 1 /\ tokens'[k].end < pos + 1
               /\ tokens'[k].end # 0 => tokens'[k].end >= tokens'[k].start
               /\ tokens'[k].size =< (n + 1) - k
    <3>1. /\ tokens[k].start < pos /\ tokens[k].end < pos
          /\ tokens[k].end # 0 => tokens[k].end >= tokens[k].start
          /\ tokens[k].size =< n - k
      BY DEF TokenizerInv, TokensInBody, n
    <3>2. tokens[k].start \in Nat /\ tokens[k].end \in Nat /\ tokens[k].size \in Nat
      BY <1>6 DEF TokenRecord
    <3>3. /\ tokens'[k].start = tokens[k].start /\ tokens'[k].end = tokens[k].end
          /\ tokens'[k].size \in {tokens[k].size, tokens[k].size + 1}
      BY <1>2, <1>5
    <3> DEFINE a == tokens[k].start
               b == tokens[k].end
               z == tokens[k].size
               y == tokens'[k].size
    <3>4. a \in Nat /\ b \in Nat /\ z \in Nat /\ y \in {z, z + 1}
      BY <3>2, <3>3
    <3>5. a < pos /\ b < pos /\ (b # 0 => b >= a) /\ z =< n - k
      BY <3>1
    <3> HIDE DEF a, b, z, y
    <3>6. a < pos + 1 /\ b < pos + 1 /\ (b # 0 => b >= a) /\ y =< (n + 1) - k
      BY <1>1, <3>4, <3>5, SMT
    <3> QED
      BY <3>3, <3>6 DEF a, b, y
  <2>2. ASSUME NEW k \in 1..n
        PROVE  /\ tokens'[k].type = "object" =>
                     ObjectOpens(js, tokens'[k].start) /\ (tokens'[k].end # 0 => ObjectCloses(js, tokens'[k].end))
               /\ tokens'[k].type = "array" =>
                     ArrayOpens(js, tokens'[k].start) /\ (tokens'[k].end # 0 => ArrayCloses(js, tokens'[k].end))
    BY <1>2, <1>5 DEF TokenizerInv, TokensInBody, n
  <2>3. /\ t.start < pos + 1 /\ t.end < pos + 1 /\ (t.end # 0 => t.end >= t.start)
        /\ t.size =< (n + 1) - (n + 1)
    BY <1>1, <1>3
  <2>4. /\ t.type = "object" => ObjectOpens(js, t.start) /\ (t.end # 0 => ObjectCloses(js, t.end))
        /\ t.type = "array" => ArrayOpens(js, t.start) /\ (t.end # 0 => ArrayCloses(js, t.end))
    BY <1>1, <1>3
  <2>5. ASSUME NEW k \in 1..(n + 1)
        PROVE  /\ tokens'[k].start < pos + 1 /\ tokens'[k].end < pos + 1
               /\ tokens'[k].end # 0 => tokens'[k].end >= tokens'[k].start
               /\ tokens'[k].size =< (n + 1) - k
               /\ tokens'[k].type = "object" =>
                     ObjectOpens(js, tokens'[k].start) /\ (tokens'[k].end # 0 => ObjectCloses(js, tokens'[k].end))
               /\ tokens'[k].type = "array" =>
                     ArrayOpens(js, tokens'[k].start) /\ (tokens'[k].end # 0 => ArrayCloses(js, tokens'[k].end))
    <3>1. CASE k \in 1..n
      BY <2>1, <2>2, <3>1
    <3>2. CASE k = n + 1
      BY <1>5, <2>3, <2>4, <3>2
    <3> QED
      BY <1>7, <3>1, <3>2
  <2>6. Len(tokens') = n + 1 /\ js' = js /\ pos' = pos + 1
    BY <1>5
  <2> QED
    BY <2>5, <2>6 DEF TokensInBody
<1>10. TokensApart'
  <2>1. ASSUME NEW j \in 1..n, NEW k \in 1..n, j < k
        PROVE  Apart(tokens'[j], tokens'[k]) \/ Holds(tokens'[j], tokens'[k])
    <3>1. Apart(tokens[j], tokens[k]) \/ Holds(tokens[j], tokens[k])
      BY <2>1 DEF TokenizerInv, TokensApart, n
    <3>2. /\ tokens'[j].start = tokens[j].start /\ tokens'[j].end = tokens[j].end
          /\ tokens'[k].start = tokens[k].start /\ tokens'[k].end = tokens[k].end
      BY <1>2, <1>5
    <3> QED
      BY <3>1, <3>2, Zenon DEF Apart, Holds
  <2>2. ASSUME NEW j \in 1..n
        PROVE  Apart(tokens'[j], t) \/ Holds(tokens'[j], t)
    <3>1. tokens[j].start < pos /\ tokens[j].end < pos
      BY DEF TokenizerInv, TokensInBody, n
    <3> QED
      BY <1>2, <1>3, <1>5, <3>1 DEF Apart, Holds
  <2>3. ASSUME NEW j \in 1..(n + 1), NEW k \in 1..(n + 1), j < k
        PROVE  Apart(tokens'[j], tokens'[k]) \/ Holds(tokens'[j], tokens'[k])
    <3>1. j \in 1..n /\ (k \in 1..n \/ k = n + 1)
      BY <1>1, <2>3
    <3> QED
      BY <1>5, <2>1, <2>2, <2>3, <3>1
  <2> QED
    BY <1>5, <2>3 DEF TokensApart
<1>11. NothingOpen'
  <2>1. ASSUME super' = 0
        PROVE  Open(tokens') = {}
    <3>1. \A k \in 1..n : tokens[k].end # 0
      BY <2>1 DEF TokenizerInv, NothingOpen, Open, n
    <3>2. \A k \in 1..(n + 1) : tokens'[k].end # 0
      BY <1>1, <1>2, <1>3, <1>5, <1>7, <2>1, <3>1
    <3> QED
      BY <1>5, <3>2 DEF Open
  <2> QED
    BY <1>1, <2>1 DEF NothingOpen
<1> QED
  BY <1>8, <1>9, <1>10, <1>11 DEF TokenizerInv

\* A bracket closes the innermost container that is open: what lies behind it is closed and inside,
\* what is open lies around it.
LEMMA TokenClosed ==
    ASSUME TokenizerInv, CloseContainer
    PROVE  TokenizerInv'
<1> DEFINE n == Len(tokens)
           i == Innermost(tokens)
           t == [tokens[i] EXCEPT !.end = pos]
<1>1. /\ js \in Bodies /\ pos \in Nat /\ pos >= 1 /\ n \in Nat /\ n =< NumTokens
      /\ super \in 0..n /\ tokens \in Seq(TokenRecord) /\ Len(js) \in Nat /\ rc = "running"
      /\ pos =< Len(js) /\ UNCHANGED <<js, rc>> /\ pos' = pos + 1 /\ super' = Innermost(tokens')
  BY TokenizerTypes DEF TokenizerInv, CloseContainer, Here, Running
<1>2. i \in Open(tokens) /\ \A k \in Open(tokens) : k =< i
  BY <1>1, InnermostIsLast DEF CloseContainer, Matching
<1>3. i \in 1..n /\ tokens[i].end = 0 /\ \A k \in 1..n : k > i => tokens[k].end # 0
  <2> HIDE DEF i
  <2>1. i \in 1..n /\ tokens[i].end = 0
    BY <1>2 DEF Open
  <2>2. ASSUME NEW k \in 1..n, k > i
        PROVE  tokens[k].end # 0
    BY <1>1, <1>2, <2>1, <2>2 DEF Open
  <2> QED
    BY <2>1, <2>2
<1>4. \A k \in 1..n : tokens[k] \in TokenRecord
  BY TokenizerTypes DEF TokenizerInv
<1>5. /\ t \in TokenRecord /\ t.type = tokens[i].type /\ t.start = tokens[i].start
      /\ t.size = tokens[i].size /\ t.end = pos
  <2> HIDE DEF i
  <2> QED
    BY <1>1, <1>3, <1>4 DEF TokenRecord
<1>6. tokens' = [tokens EXCEPT ![i] = t]
  BY DEF CloseContainer
<1>7. /\ tokens[i].type = "object" => ObjectCloses(js, pos)
      /\ tokens[i].type = "array" => ArrayCloses(js, pos)
  <2>1. /\ tokens[i].type = IF js[pos].kind = "}" THEN "object" ELSE "array"
        /\ js[pos].kind \in {"}", "]"}
    BY Zenon DEF CloseContainer, Matching, Here
  <2>2. "object" # "array"
    OBVIOUS
  <2> QED
    BY <2>1, <2>2, Zenon DEF ObjectCloses, ArrayCloses
<1> HIDE DEF i, t
<1>8. /\ tokens' \in Seq(TokenRecord) /\ Len(tokens') = n
      /\ \A k \in 1..n : tokens'[k] = IF k = i THEN t ELSE tokens[k]
  BY <1>1, <1>3, <1>5, <1>6
<1> HIDE DEF n
<1>9. super' \in 0..n /\ (super' = 0 => Open(tokens') = {})
  <2>1. Len(tokens') \in Nat
    BY <1>1, <1>8
  <2>2. CASE Open(tokens') = {}
    BY <1>1, <2>1, <2>2, InnermostIsLast
  <2>3. CASE Open(tokens') # {}
    <3>1. super' \in Open(tokens')
      BY <1>1, <2>1, <2>3, InnermostIsLast
    <3> QED
      BY <1>1, <1>8, <3>1 DEF Open
  <2> QED
    BY <2>2, <2>3
<1>10. TokenizerTypeOK'
  BY <1>1, <1>8, <1>9 DEF TokenizerTypeOK, TokenRecord, TokenTypes, n
<1>11. \A k \in 1..n : /\ tokens[k].start < pos /\ tokens[k].end < pos /\ tokens[k].size =< n - k
                       /\ tokens[k].end # 0 => tokens[k].end >= tokens[k].start
                       /\ tokens[k].start \in Nat /\ tokens[k].end \in Nat
  BY <1>4 DEF TokenizerInv, TokensInBody, TokenRecord, n
<1>12. TokensInBody'
  <2>1. ASSUME NEW k \in 1..n
        PROVE  /\ tokens'[k].start < pos + 1 /\ tokens'[k].end < pos + 1
               /\ tokens'[k].end # 0 => tokens'[k].end >= tokens'[k].start
               /\ tokens'[k].size =< n - k
    <3>1. CASE k = i
      <4>1. tokens'[k] = t /\ t.start = tokens[k].start /\ t.end = pos /\ t.size = tokens[k].size
        BY <1>5, <1>8, <3>1
      <4>2. pos \in Nat /\ pos < pos + 1 /\ tokens[k].start < pos + 1 /\ pos >= tokens[k].start
        BY <1>1, <1>11, SMT
      <4> QED
        BY <1>11, <4>1, <4>2
    <3>2. CASE k # i
      <4>1. tokens'[k] = tokens[k]
        BY <1>8, <3>2
      <4>2. tokens[k].start < pos + 1 /\ tokens[k].end < pos + 1
        BY <1>1, <1>11, SMT
      <4> QED
        BY <1>11, <4>1, <4>2
    <3> QED
      BY <3>1, <3>2
  <2>2. ASSUME NEW k \in 1..n
        PROVE  /\ tokens'[k].type = "object" =>
                     ObjectOpens(js, tokens'[k].start) /\ (tokens'[k].end # 0 => ObjectCloses(js, tokens'[k].end))
               /\ tokens'[k].type = "array" =>
                     ArrayOpens(js, tokens'[k].start) /\ (tokens'[k].end # 0 => ArrayCloses(js, tokens'[k].end))
    <3>1. CASE k = i
      BY <1>3, <1>5, <1>7, <1>8, <3>1 DEF TokenizerInv, TokensInBody, n
    <3>2. CASE k # i
      BY <1>8, <3>2 DEF TokenizerInv, TokensInBody, n
    <3> QED
      BY <3>1, <3>2
  <2> QED
    BY <1>1, <1>8, <2>1, <2>2 DEF TokensInBody
<1>13. TokensApart'
  <2>1. ASSUME NEW j \in 1..n, NEW k \in 1..n, j < k
        PROVE  Apart(tokens'[j], tokens'[k]) \/ Holds(tokens'[j], tokens'[k])
    <3>1. Apart(tokens[j], tokens[k]) \/ Holds(tokens[j], tokens[k])
      BY <2>1 DEF TokenizerInv, TokensApart, n
    <3>2. CASE k = i
      BY <1>1, <1>3, <1>5, <1>8, <1>11, <2>1, <3>1, <3>2 DEF Apart, Holds
    <3>3. CASE j = i
      BY <1>1, <1>3, <1>5, <1>8, <1>11, <2>1, <3>1, <3>3 DEF Apart, Holds
    <3>4. CASE j # i /\ k # i
      BY <1>8, <3>1, <3>4
    <3> QED
      BY <3>2, <3>3, <3>4
  <2> QED
    BY <1>8, <2>1 DEF TokensApart
<1>14. NothingOpen'
  BY <1>1, <1>9 DEF NothingOpen
<1> QED
  BY <1>10, <1>12, <1>13, <1>14 DEF TokenizerInv

\* Nothing has been read.
LEMMA TokenizerStarts == TokenizerInit => TokenizerInv
<1> SUFFICES ASSUME TokenizerInit
             PROVE  TokenizerInv
  OBVIOUS
<1>1. /\ js \in Bodies /\ Len(js) \in Nat /\ pos = 1 /\ tokens = <<>> /\ super = 0 /\ rc = "running"
      /\ Len(tokens) = 0 /\ 1..0 = {} /\ tokens \in Seq(TokenRecord) /\ NumTokens \in Nat
  BY TokenizerAssumption DEF TokenizerInit, Bodies
<1>2. TokenizerTypeOK
  BY <1>1 DEF TokenizerTypeOK, TokenRecord, TokenTypes
<1> QED
  BY <1>1, <1>2 DEF TokenizerInv, TokensInBody, TokensApart, NothingOpen, Open

\* Every character, and the end of the body, keeps the tokens nested.
LEMMA TokenizerStep ==
    ASSUME TokenizerInv, TokenizerNext
    PROVE  TokenizerInv'
<1>1. /\ js \in Bodies /\ pos \in Nat /\ pos >= 1 /\ Len(js) \in Nat /\ Len(tokens) \in Nat
      /\ super \in 0..Len(tokens) /\ tokens \in Seq(TokenRecord)
  BY TokenizerTypes DEF TokenizerInv
<1>2. CASE OpenContainer
  <2> DEFINE ty == IF ObjectOpens(js, pos) THEN "object" ELSE "array"
             stop == 0
  <2>1. /\ Running /\ pos =< Len(js) /\ Len(tokens) < NumTokens
        /\ ObjectOpens(js, pos) \/ ArrayOpens(js, pos)
        /\ Adds(ty, stop) /\ pos' = pos + 1
        /\ super' = Len(tokens) + 1 /\ UNCHANGED <<js, rc>>
    BY <1>2, Zenon DEF OpenContainer, Here, ObjectOpens, ArrayOpens, Adds
  <2>2. /\ ty \in TokenTypes /\ stop \in Nat /\ (stop = 0 \/ stop = pos)
        /\ ty = "object" => stop = 0 /\ ObjectOpens(js, pos)
        /\ ty = "array" => stop = 0 /\ ArrayOpens(js, pos)
    BY <2>1 DEF TokenTypes
  <2>3. super' \in 0..(Len(tokens) + 1) /\ super' # 0
    BY <1>1, <2>1
  <2> HIDE DEF ty, stop
  <2> QED
    BY <2>1, <2>2, <2>3, TokenAdded
<1>3. CASE Leaf
  <2> DEFINE ty == js[pos].kind
             stop == pos
  <2>1. /\ Running /\ pos =< Len(js) /\ Len(tokens) < NumTokens /\ ty \in {"string", "primitive"}
        /\ Adds(ty, stop) /\ pos' = pos + 1 /\ UNCHANGED <<js, super, rc>>
    BY <1>3, Zenon DEF Leaf, Here, Adds
  <2>2. /\ ty \in TokenTypes /\ stop \in Nat /\ (stop = 0 \/ stop = pos) /\ stop = pos /\ ty # "object" /\ ty # "array"
        /\ super' \in 0..(Len(tokens) + 1) /\ (super' = 0 => super = 0)
    BY <1>1, <2>1 DEF TokenTypes
  <2> HIDE DEF ty, stop
  <2> QED
    BY <2>1, <2>2, TokenAdded
<1>4. CASE CloseContainer
  BY <1>4, TokenClosed
<1>5. CASE NoToken \/ CloseMismatch \/ BadLeaf \/ End
  <2>1. rc' \in {"NOMEM", "INVAL", "PART", "ok"} /\ UNCHANGED <<js, pos, tokens, super>>
    BY <1>5 DEF NoToken, CloseMismatch, BadLeaf, End
  <2>2. rc' = "ok" => Open(tokens) = {}
    BY <1>1, <1>5, InnermostIsLast DEF NoToken, CloseMismatch, BadLeaf, End, Open
  <2> QED
    BY <2>1, <2>2 DEF TokenizerInv, TokenizerTypeOK, TokensInBody, TokensApart, NothingOpen, Open
<1>6. CASE Colon \/ Comma
  <2>1. Running /\ pos =< Len(js) /\ pos' = pos + 1 /\ UNCHANGED <<js, tokens, rc>>
    BY <1>6, Zenon DEF Colon, Comma, Here
  <2>2. super' \in 0..Len(tokens) /\ (super' = 0 => Open(tokens) = {})
    <3>1. CASE Colon
      <4>1. super' = Len(tokens)
        BY <3>1 DEF Colon
      <4> QED
        BY <1>1, <4>1 DEF Open
    <3>2. CASE Comma
      <4>1. super' \in {super, Innermost(tokens)} /\ (super' = 0 => super = 0 \/ Innermost(tokens) = 0)
        BY <3>2 DEF Comma, AfterComma
      <4>2. Innermost(tokens) \in 0..Len(tokens) /\ (Innermost(tokens) = 0 => Open(tokens) = {})
        BY <1>1, InnermostIsLast DEF Open
      <4> QED
        BY <1>1, <4>1, <4>2 DEF TokenizerInv, NothingOpen
    <3> QED
      BY <1>6, <3>1, <3>2
  <2>3. TokensInBody'
    <3>1. ASSUME NEW k \in 1..Len(tokens)
          PROVE  tokens[k].start < pos + 1 /\ tokens[k].end < pos + 1
      <4>1. tokens[k].start \in Nat /\ tokens[k].end \in Nat
        BY TokenizerTypes DEF TokenizerInv
      <4>2. tokens[k].start < pos /\ tokens[k].end < pos
        BY DEF TokenizerInv, TokensInBody
      <4> QED
        BY <1>1, <4>1, <4>2
    <3> QED
      BY <2>1, <3>1 DEF TokenizerInv, TokensInBody
  <2>4. TokenizerTypeOK'
    BY <1>1, <2>1, <2>2 DEF TokenizerInv, TokenizerTypeOK
  <2> QED
    BY <2>1, <2>2, <2>3, <2>4 DEF TokenizerInv, TokensApart, NothingOpen, Open, Running
<1> QED
  BY <1>2, <1>3, <1>4, <1>5, <1>6 DEF TokenizerNext

\* The invariant is more than the nesting of the tokens.
LEMMA NestFollows == TokenizerInv => TokensNest
<1> SUFFICES ASSUME TokenizerInv
             PROVE  TokensNest
  OBVIOUS
<1>1. Len(tokens) \in Nat /\ DOMAIN tokens = 1..Len(tokens)
  BY DEF TokenizerInv, TokenizerTypeOK
<1>2. super = 0 => Innermost(tokens) = 0
  BY <1>1, InnermostIsLast DEF TokenizerInv, NothingOpen
<1>3. rc = "ok" => \A k \in 1..Len(tokens) : tokens[k].end # 0
  BY DEF TokenizerInv, NothingOpen, Open
<1> QED
  <2>1. ASSUME rc = "ok", NEW k \in DOMAIN tokens
        PROVE  /\ tokens[k].end >= tokens[k].start
               /\ tokens[k].type = "object" =>
                     ObjectOpens(js, tokens[k].start) /\ ObjectCloses(js, tokens[k].end)
               /\ tokens[k].type = "array" =>
                     ArrayOpens(js, tokens[k].start) /\ ArrayCloses(js, tokens[k].end)
    BY <1>1, <1>3, <2>1 DEF TokenizerInv, TokensInBody
  <2>2. \A j, k \in DOMAIN tokens : j < k => Apart(tokens[j], tokens[k]) \/ Holds(tokens[j], tokens[k])
    BY <1>1 DEF TokenizerInv, TokensApart
  <2> QED
    BY <1>2, <2>1, <2>2, Zenon DEF TokensNest, ObjectOpens, ObjectCloses, ArrayOpens, ArrayCloses

-------------------------------------------------------------------------------
(* The sizes of the tokens                                                 *)

\* A token more, counted by at most one of those before it: the sum from any token on grows by
\* one at most.
LEMMA OneMoreCounted ==
    ASSUME NEW L \in Nat, NEW f, NEW g, NEW i \in 0..L, \A k \in 1..L : f[k] \in Nat,
           \A k \in 1..L : g[k] = IF k = i THEN f[k] + 1 ELSE f[k], g[L + 1] = 0,
           \A n \in 1..L : SumFunctionOnSet(f, n..L) =< L - n
    PROVE  \A n \in 1..(L + 1) : SumFunctionOnSet(g, n..(L + 1)) =< (L + 1) - n
<1> SUFFICES ASSUME NEW n \in 1..(L + 1)
             PROVE  SumFunctionOnSet(g, n..(L + 1)) =< (L + 1) - n
  OBVIOUS
<1> DEFINE S == n..(L + 1)
           R == n..L
           Total(h, T) == SumFunctionOnSet(h, T)
<1>1. IsFiniteSet(S) /\ IsFiniteSet(R) /\ L + 1 \in S /\ S \ {L + 1} = R /\ R \subseteq 1..L
  <2>1. n \in Int /\ L + 1 \in Int /\ L \in Int
    BY SMT
  <2>2. L + 1 \in S /\ S \ {L + 1} = R /\ R \subseteq 1..L
    BY SMT
  <2>3. IsFiniteSet(S) /\ IsFiniteSet(R)
    BY <2>1, FS_Interval
  <2> HIDE DEF S, R
  <2> QED
    BY <2>2, <2>3
<1>2. \A k \in 1..L : g[k] \in Nat
  BY SMT
<1>3. \A k \in S : g[k] \in Nat
  <2>1. \A k \in S : k \in 1..L \/ k = L + 1
    BY SMT
  <2> QED
    BY <1>2, <2>1
<1> HIDE DEF S, R
<1>4. Total(g, S) = Total(g, R) /\ Total(g, R) \in Nat
  <2>1. Total(g, S) = g[L + 1] + Total(g, S \ {L + 1})
    BY <1>1, <1>3, SumOfNaturals
  <2>2. Total(g, R) \in Nat
    BY <1>1, <1>2, SumOfNaturals
  <2>3. Total(g, S) = 0 + Total(g, R)
    BY <1>1, <2>1
  <2> HIDE DEF Total
  <2> QED
    BY <2>2, <2>3, SMT
<1>5. Total(f, R) \in Nat
  BY <1>1, SumOfNaturals
<1>6. CASE R = {}
  <2>1. Total(g, R) = 0
    BY <1>6, <1>1, SumStep
  <2>2. (L + 1) - n >= 0
    BY SMT
  <2> HIDE DEF Total
  <2>3. Total(g, S) =< (L + 1) - n
    BY <1>4, <2>1, <2>2, SMT
  <2> QED
    BY <2>3 DEF Total, S
<1>7. CASE R # {}
  <2>1. n \in 1..L
    BY <1>7, SMT DEF R
  <2>2. Total(f, R) =< L - n
    BY <2>1 DEF R
  <2>3. Total(g, R) =< Total(f, R) + 1
    <3>1. CASE i \in R
      <4> DEFINE Q == R \ {i}
      <4>1. IsFiniteSet(Q) /\ \A k \in Q : f[k] = g[k]
        BY <1>1, FS_Subset
      <4>2. Total(f, Q) = Total(g, Q)
        <5> HIDE DEF Q
        <5> QED
          BY <4>1, SumOfSame
      <4>3. Total(f, R) = f[i] + Total(f, Q) /\ Total(g, R) = g[i] + Total(g, Q)
        BY <1>1, <1>2, <3>1, SumOfNaturals
      <4>4. g[i] = f[i] + 1 /\ f[i] \in Nat
        BY <1>1, <3>1
      <4>5. Total(f, Q) \in Nat
        <5>1. \A k \in Q : f[k] \in Nat
          BY <1>1
        <5> HIDE DEF Q
        <5> QED
          BY <4>1, <5>1, SumOfNaturals
      <4> HIDE DEF Q, Total
      <4> QED
        BY <4>2, <4>3, <4>4, <4>5, SMT
    <3>2. CASE i \notin R
      <4>1. \A k \in R : f[k] = g[k]
        BY <1>1, <3>2
      <4>2. Total(f, R) = Total(g, R)
        BY <1>1, <4>1, SumOfSame
      <4> HIDE DEF Total
      <4> QED
        BY <1>5, <4>2, SMT
    <3> QED
      BY <3>1, <3>2
  <2> HIDE DEF Total
  <2>4. Total(g, S) =< (L + 1) - n
    BY <1>4, <1>5, <2>2, <2>3, SMT
  <2> QED
    BY <2>4 DEF Total, S
<1> QED
  BY <1>6, <1>7

\* The sum of what did not change did not.
LEMMA SizesKept ==
    ASSUME Len(tokens) \in Nat, DOMAIN tokens = 1..Len(tokens), DOMAIN tokens' = 1..Len(tokens),
           Len(tokens') = Len(tokens), \A k \in 1..Len(tokens) : tokens'[k].size = tokens[k].size
    PROVE  SizesAddUp => SizesAddUp'
<1>1. Sizes' = Sizes
  BY DEF Sizes
<1> QED
  BY <1>1 DEF SizesAddUp

\* Every character, and the end of the body, keeps the sizes within bounds.
LEMMA SizesStep ==
    ASSUME TokenizerInv, SizesAddUp, TokenizerNext
    PROVE  SizesAddUp'
<1>1. /\ Len(tokens) \in Nat /\ DOMAIN tokens = 1..Len(tokens) /\ super \in 0..Len(tokens)
      /\ pos \in Nat /\ tokens \in Seq(TokenRecord) /\ \A k \in 1..Len(tokens) : tokens[k].size \in Nat
  BY TokenizerTypes DEF TokenizerInv
<1>2. ASSUME NEW ty, NEW stop, Adds(ty, stop)
      PROVE  SizesAddUp'
  <2> DEFINE L == Len(tokens)
             f == Sizes
             g == [k \in 1..(L + 1) |-> tokens'[k].size]
             c == Counted
             t == Token(ty, stop)
  <2>1. /\ c \in Seq(TokenRecord) /\ Len(c) = L
        /\ \A k \in 1..L : c[k].size = IF k = super THEN tokens[k].size + 1 ELSE tokens[k].size
    BY CountedTokens DEF TokenizerInv
  <2>2. t.size = 0
    BY DEF Token
  <2> HIDE DEF c, t
  <2>3. tokens' = Append(c, t)
    BY <1>2 DEF Adds, c, t
  <2>4. /\ Len(tokens') = L + 1 /\ DOMAIN tokens' = 1..(L + 1) /\ tokens'[L + 1] = t
        /\ \A k \in 1..L : tokens'[k] = c[k]
    BY <1>1, <2>1, <2>3
  <2>5. Sizes' = g
    BY <2>4 DEF Sizes
  <2>6. \A k \in 1..L : f[k] = tokens[k].size
    BY <1>1 DEF Sizes
  <2>7. L + 1 \in 1..(L + 1) /\ \A k \in 1..L : k \in 1..(L + 1)
    BY <1>1
  <2>8. \A k \in 1..L : f[k] \in Nat
    BY <1>1, <2>6
  <2>9. g[L + 1] = 0 /\ \A k \in 1..L : g[k] = IF k = super THEN f[k] + 1 ELSE f[k]
    BY <2>1, <2>2, <2>4, <2>6, <2>7
  <2>10. \A n \in 1..L : SumFunctionOnSet(f, n..L) =< L - n
    BY <1>1 DEF SizesAddUp
  <2> HIDE DEF f, g, L
  <2>11. \A n \in 1..(L + 1) : SumFunctionOnSet(g, n..(L + 1)) =< (L + 1) - n
    <3>1. L \in Nat /\ super \in 0..L
      BY <1>1 DEF L
    <3> QED
      BY <2>8, <2>9, <2>10, <3>1, OneMoreCounted
  <2> QED
    BY <2>4, <2>5, <2>11 DEF SizesAddUp
<1>3. CASE OpenContainer
  <2>1. \E ty : Adds(ty, 0)
    BY <1>3, Zenon DEF OpenContainer, Adds
  <2> QED
    BY <1>2, <2>1
<1>4. CASE Leaf
  <2>1. Adds(js[pos].kind, pos)
    BY <1>4, Zenon DEF Leaf, Adds
  <2> QED
    BY <1>2, <2>1
<1>5. CASE CloseContainer
  <2> DEFINE i == Innermost(tokens)
             t == [tokens[i] EXCEPT !.end = pos]
  <2>1. tokens' = [tokens EXCEPT ![i] = t]
    BY <1>5 DEF CloseContainer
  <2>2. i \in 1..Len(tokens)
    <3>1. i \in Open(tokens)
      BY <1>1, <1>5, InnermostIsLast DEF CloseContainer, Matching
    <3> QED
      BY <3>1 DEF Open
  <2>3. t.size = tokens[i].size
    <3> HIDE DEF i
    <3>1. tokens[i] \in TokenRecord
      BY <1>1, <2>2
    <3> QED
      BY <3>1 DEF TokenRecord
  <2> HIDE DEF i, t
  <2>4. /\ DOMAIN tokens' = 1..Len(tokens) /\ Len(tokens') = Len(tokens)
        /\ \A k \in 1..Len(tokens) : tokens'[k] = IF k = i THEN t ELSE tokens[k]
    <3>1. tokens' = [k \in 1..Len(tokens) |-> IF k = i THEN t ELSE tokens[k]]
      BY <1>1, <2>1, <2>2
    <3> HIDE DEF i, t
    <3> QED
      BY <1>1, <3>1
  <2>5. \A k \in 1..Len(tokens) : tokens'[k].size = tokens[k].size
    BY <2>3, <2>4
  <2> QED
    BY <1>1, <2>4, <2>5, SizesKept
<1>6. CASE NoToken \/ CloseMismatch \/ BadLeaf \/ End \/ Colon \/ Comma
  <2>1. UNCHANGED tokens
    BY <1>6 DEF NoToken, CloseMismatch, BadLeaf, End, Colon, Comma
  <2> QED
    BY <2>1 DEF SizesAddUp, Sizes
<1> QED
  BY <1>3, <1>4, <1>5, <1>6 DEF TokenizerNext

\* The steps of the walk are the tokenizer's or leave the tokens alone.
LEMMA NextOfTokenizer == Next => TokenizerNext \/ UNCHANGED tokenizer
  BY Zenon DEF Next, Tokenize, TokenizerFails, AssertFails, Enter, Return, CallParser, ResultTag, IdTag,
     TextTag, UnknownTag, ParserReturns, WsConnected, ActiveStatus, LastActivity, UnknownStatus,
     SearchRunsOff, DeclFails, Decl, VarTaken, VarUnusable, VarNotFound, ParserFails, EntryDone, tokenizer

\* So they keep what the tokenizer's steps keep.
LEMMA TokenizerKept ==
    ASSUME TokenizerInv, Next \/ UNCHANGED tokenizer
    PROVE  TokenizerInv' /\ (SizesAddUp => SizesAddUp')
<1>1. ASSUME UNCHANGED tokenizer
      PROVE  TokenizerInv' /\ (SizesAddUp => SizesAddUp')
  <2>1. TokenizerInv'
    BY <1>1 DEF tokenizer, TokenizerInv, TokenizerTypeOK, TokensInBody, TokensApart, NothingOpen
  <2>2. SizesAddUp => SizesAddUp'
    BY <1>1 DEF tokenizer, SizesAddUp, Sizes
  <2> QED
    BY <2>1, <2>2
<1> QED
  BY <1>1, NextOfTokenizer, TokenizerStep, SizesStep

\* Whatever the body is, jsmn_parse fills its array with tokens that nest, each counted in the
\* order in which it starts, and accepts a body only if each bracket has its match: for a body and an
\* array of every length.
THEOREM TokensAlwaysNest == Spec => []TokensNest
<1>1. Init => TokenizerInv
  BY TokenizerStarts DEF Init
<1>2. TokenizerInv /\ [Next]_vars => TokenizerInv'
  BY TokenizerKept DEF vars, tokenizer
<1> QED
  BY <1>1, <1>2, NestFollows, PTL DEF Spec

\* The counts of the tokens from any one on add up to no more than the tokens behind it, so that a
\* walk that goes on by a token for each count stays in the array: for a body and an array of every
\* length, where a colon or a comma may move the count to any earlier token.
THEOREM SizesStayBounded == Spec => []SizesAddUp
<1> DEFINE I == TokenizerInv /\ SizesAddUp
<1>1. Init => I
  <2>1. Init => tokens = <<>> /\ DOMAIN <<>> = {}
    BY DEF Init, TokenizerInit
  <2>2. Init => SizesAddUp
    BY <2>1 DEF SizesAddUp
  <2> QED
    BY <2>2, TokenizerStarts DEF Init
<1>2. I /\ [Next]_vars => I'
  BY TokenizerKept DEF vars, tokenizer
<1>3. I => SizesAddUp
  OBVIOUS
<1> HIDE DEF I
<1> QED
  BY <1>1, <1>2, <1>3, PTL DEF Spec

-------------------------------------------------------------------------------
(* The members that the sizes count                                        *)

StringAt(body, p) == body[p].kind = "string"
LeafAt(body, p) == body[p].kind \in {"string", "primitive"}
ColonAt(body, p) == body[p].kind = ":"
EndsValue(body, p) == body[p].kind \in {",", "}", "]"}

\* As JSON has it, a colon stands behind a name, and a string or primitive that it gives to
\* the name is followed by a comma or a bracket that closes.  Nothing else is asked of the body.
Punctuated(body) ==
    \A q \in 1..Len(body) : ColonAt(body, q) =>
       /\ q > 1 /\ StringAt(body, q - 1)
       /\ q + 2 =< Len(body) /\ LeafAt(body, q + 1) => EndsValue(body, q + 2)

Containers == {"object", "array"}
Leaves == {"string", "primitive"}

\* Token k is the innermost one around token j.
Around(toks, k, j) ==
    /\ k < j
    /\ Holds(toks[k], toks[j])
    /\ \A m \in (k + 1)..(j - 1) : ~Holds(toks[m], toks[j])

\* Token j is what a name has behind its colon.
IsValue(toks, body, j) == toks[j].start > 1 /\ ColonAt(body, toks[j].start - 1)

Members(toks, body, k) == {j \in 1..Len(toks) : Around(toks, k, j) /\ ~IsValue(toks, body, j)}

InContainer(toks, k) == \E m \in 1..(k - 1) : Holds(toks[m], toks[k])

\* The size of a container is the number of its members, that of what is in one is one for a name
\* and none for anything else.
MembersCounted(toks, body) ==
    \A k \in 1..Len(toks) :
       /\ toks[k].type \in Containers => toks[k].size = Cardinality(Members(toks, body, k))
       /\ toks[k].type \in Leaves /\ InContainer(toks, k) =>
             toks[k].size = IF k < Len(toks) /\ IsValue(toks, body, k + 1) THEN 1 ELSE 0

\* Tokens of the same places, types and sizes, one inside of the other as before.
SameNest(toks, toks2, n) ==
    /\ \A k \in 1..n : toks2[k].type = toks[k].type /\ toks2[k].start = toks[k].start
    /\ \A j, k \in 1..n : j < k => (Holds(toks2[j], toks2[k]) <=> Holds(toks[j], toks[k]))

\* Then the containers around each are the same, and so are the values.
LEMMA SameAround ==
    ASSUME NEW toks, NEW toks2, NEW n \in Nat, SameNest(toks, toks2, n), NEW body,
           NEW k \in 1..n, NEW j \in 1..n
    PROVE  /\ Around(toks2, k, j) <=> Around(toks, k, j)
           /\ IsValue(toks2, body, j) <=> IsValue(toks, body, j)
           /\ InContainer(toks2, k) <=> InContainer(toks, k)
<1>1. \A m \in (k + 1)..(j - 1) : m \in 1..n /\ m < j
  OBVIOUS
<1>2. \A m \in 1..(k - 1) : m \in 1..n /\ m < k
  OBVIOUS
<1>3. Around(toks2, k, j) <=> Around(toks, k, j)
  BY <1>1 DEF Around, SameNest
<1>4. IsValue(toks2, body, j) <=> IsValue(toks, body, j)
  BY Zenon DEF IsValue, SameNest
<1>5. InContainer(toks2, k) <=> InContainer(toks, k)
  BY <1>2 DEF InContainer, SameNest
<1> QED
  BY <1>3, <1>4, <1>5

\* Where nothing is added, nothing is to be counted.
LEMMA CountsKept ==
    ASSUME NEW toks, NEW toks2, NEW n \in Nat, Len(toks) = n, Len(toks2) = n, SameNest(toks, toks2, n),
           \A k \in 1..n : toks2[k].size = toks[k].size, NEW body, MembersCounted(toks, body)
    PROVE  MembersCounted(toks2, body)
<1>1. ASSUME NEW k \in 1..n
      PROVE  Members(toks2, body, k) = Members(toks, body, k)
  BY SameAround DEF Members
<1>2. ASSUME NEW k \in 1..n, k < n
      PROVE  IsValue(toks2, body, k + 1) <=> IsValue(toks, body, k + 1)
  <2>1. k + 1 \in 1..n
    BY <1>2
  <2> QED
    BY <2>1, SameAround
<1>3. ASSUME NEW k \in 1..n
      PROVE  InContainer(toks2, k) <=> InContainer(toks, k)
  BY SameAround
<1>4. \A k \in 1..n : toks2[k].type = toks[k].type
  BY DEF SameNest
<1> QED
  BY <1>1, <1>2, <1>3, <1>4 DEF MembersCounted

\* With a token more, the innermost container around it or its name is the superior.
TokenMore(toks, toks2, n, body, sup, inner, named) ==
    /\ Len(toks) = n /\ Len(toks2) = n + 1 /\ SameNest(toks, toks2, n)
    /\ \A k \in 1..n : toks[k].size \in Nat
    /\ \A k \in 1..n : toks2[k].size = IF k = sup THEN toks[k].size + 1 ELSE toks[k].size
    /\ toks2[n + 1].size = 0
    /\ \A k \in 1..n : Around(toks2, k, n + 1) <=> k = inner
    /\ IsValue(toks2, body, n + 1) <=> named
    /\ \A k \in 1..n : toks[k].type \in Containers => (k = sup <=> k = inner /\ ~named)
    /\ \A k \in 1..n : toks[k].type \in Leaves /\ InContainer(toks, k) => (k = sup <=> k = n /\ named)

\* Then it is counted where it belongs.
LEMMA OneMoreMember ==
    ASSUME NEW toks, NEW toks2, NEW n \in Nat, NEW body, NEW sup, NEW inner, NEW named \in BOOLEAN,
           TokenMore(toks, toks2, n, body, sup, inner, named), MembersCounted(toks, body)
    PROVE  MembersCounted(toks2, body)
<1> USE DEF TokenMore
<1>1. ASSUME NEW k \in 1..n, toks2[k].type \in Containers
      PROVE  toks2[k].size = Cardinality(Members(toks2, body, k))
  <2> DEFINE M == Members(toks, body, k)
             N == Members(toks2, body, k)
  <2>1. toks[k].type \in Containers
    BY <1>1 DEF SameNest
  <2>2. toks[k].size = Cardinality(M) /\ toks[k].size \in Nat
    BY <2>1 DEF MembersCounted
  <2>3. N = IF k = inner /\ ~named THEN M \union {n + 1} ELSE M
    <3>1. ASSUME NEW j \in 1..(n + 1)
          PROVE  j \in N <=> j \in M \/ (j = n + 1 /\ k = inner /\ ~named)
      <4>1. CASE j \in 1..n
        <5>1. j # n + 1
          BY <4>1
        <5> QED
          BY <4>1, <5>1, SameAround DEF Members
      <4>2. CASE j = n + 1
        <5>1. j \notin 1..n
          BY <4>2
        <5> QED
          BY <4>2, <5>1 DEF Members
      <4> QED
        BY <4>1, <4>2
    <3>2. N \subseteq 1..(n + 1) /\ M \subseteq 1..(n + 1) /\ n + 1 \in 1..(n + 1)
      BY DEF Members
    <3> HIDE DEF M, N
    <3> QED
      BY <3>1, <3>2
  <2>4. IsFiniteSet(M) /\ n + 1 \notin M
    <3>1. M \subseteq 1..n /\ IsFiniteSet(1..n) /\ n + 1 \notin 1..n
      BY FS_Interval DEF Members
    <3> HIDE DEF M
    <3> QED
      BY <3>1, FS_Subset
  <2> HIDE DEF M, N
  <2>5. Cardinality(M \union {n + 1}) = Cardinality(M) + 1
    BY <2>4, FS_AddElement
  <2>6. k = sup <=> k = inner /\ ~named
    BY <2>1
  <2> QED
    BY <2>2, <2>3, <2>5, <2>6 DEF N
<1>2. ASSUME NEW k \in 1..n, toks2[k].type \in Leaves, InContainer(toks2, k)
      PROVE  toks2[k].size = IF k < n + 1 /\ IsValue(toks2, body, k + 1) THEN 1 ELSE 0
  <2>1. toks[k].type \in Leaves /\ InContainer(toks, k)
    BY <1>2, SameAround DEF SameNest
  <2>2. toks[k].size = IF k < n /\ IsValue(toks, body, k + 1) THEN 1 ELSE 0
    BY <2>1 DEF MembersCounted
  <2>3. k = sup <=> k = n /\ named
    BY <2>1
  <2>4. CASE k = n
    BY <2>2, <2>3, <2>4
  <2>5. CASE k < n
    <3>1. k + 1 \in 1..n /\ k # n /\ k < n + 1
      BY <2>5
    <3>2. IsValue(toks2, body, k + 1) <=> IsValue(toks, body, k + 1)
      BY <3>1, SameAround
    <3> QED
      BY <2>2, <2>3, <2>5, <3>1, <3>2
  <2> QED
    BY <2>4, <2>5
<1>3. Members(toks2, body, n + 1) = {}
  <2>1. ASSUME NEW j \in 1..(n + 1)
        PROVE  ~Around(toks2, n + 1, j)
    <3>1. ~(n + 1 < j)
      OBVIOUS
    <3> QED
      BY <3>1 DEF Around
  <2> QED
    BY <2>1 DEF Members
<1>4. Cardinality({}) = 0
  BY FS_EmptySet
<1>5. ASSUME NEW k \in 1..(n + 1)
      PROVE  /\ toks2[k].type \in Containers => toks2[k].size = Cardinality(Members(toks2, body, k))
             /\ toks2[k].type \in Leaves /\ InContainer(toks2, k) =>
                   toks2[k].size = IF k < n + 1 /\ IsValue(toks2, body, k + 1) THEN 1 ELSE 0
  <2>1. CASE k \in 1..n
    BY <1>1, <1>2, <2>1
  <2>2. CASE k = n + 1
    <3>1. ~(k < n + 1)
      BY <2>2
    <3> QED
      BY <1>3, <1>4, <2>2, <3>1
  <2> QED
    BY <2>1, <2>2
<1> QED
  BY <1>5 DEF MembersCounted

\* What has just been read: the colon of a name, or the string or primitive behind it.
Naming == pos > 1 /\ ColonAt(js, pos - 1)
Valued == pos > 2 /\ LeafAt(js, pos - 1) /\ ColonAt(js, pos - 2)

\* The superior token is the name until its value has been read, and the innermost open container
\* otherwise.  Outside of all containers it can be a leaf there, which the walk never sees.
SuperPlaced ==
    /\ pos > 1 /\ StringAt(js, pos - 1) =>
          Len(tokens) > 0 /\ tokens[Len(tokens)].start = pos - 1 /\ tokens[Len(tokens)].type = "string"
    /\ Naming => super = Len(tokens)
    /\ Naming \/ Valued => super > 0 /\ tokens[super].type \in Leaves
    /\ ~Naming /\ ~Valued /\ Innermost(tokens) # 0 => super = Innermost(tokens)
    /\ Innermost(tokens) = 0 /\ super # 0 => tokens[super].type \in Leaves /\ ~InContainer(tokens, super)

LeavesEnd == \A k \in 1..Len(tokens) : tokens[k].type \in Leaves => tokens[k].end = tokens[k].start

MemberInv == LeavesEnd /\ (Punctuated(js) => SuperPlaced /\ MembersCounted(tokens, js))

\* The lexemes that the steps meet.
LEMMA LexemesMet ==
    /\ OpenContainer => /\ ~StringAt(js, pos) /\ ~LeafAt(js, pos) /\ ~ColonAt(js, pos) /\ ~EndsValue(js, pos)
                        /\ ObjectOpens(js, pos) \/ ArrayOpens(js, pos)
    /\ Leaf => LeafAt(js, pos) /\ ~ColonAt(js, pos) /\ ~EndsValue(js, pos)
    /\ CloseContainer \/ Comma => ~StringAt(js, pos) /\ ~LeafAt(js, pos) /\ ~ColonAt(js, pos)
    /\ Colon => ~StringAt(js, pos) /\ ~LeafAt(js, pos) /\ ColonAt(js, pos)
<1>1. OpenContainer => js[pos].kind \in {"{", "["}
  BY Zenon DEF OpenContainer, Here
<1>2. Leaf => js[pos].kind \in {"string", "primitive"}
  BY Zenon DEF Leaf, Here
<1>3. CloseContainer => js[pos].kind \in {"}", "]"}
  BY Zenon DEF CloseContainer, Here
<1>4. Comma => js[pos].kind = ","
  BY Zenon DEF Comma, Here
<1>5. Colon => js[pos].kind = ":"
  BY Zenon DEF Colon, Here
<1>6. /\ js[pos].kind \in {"{", "["} =>
            /\ ~StringAt(js, pos) /\ ~LeafAt(js, pos) /\ ~ColonAt(js, pos) /\ ~EndsValue(js, pos)
            /\ ObjectOpens(js, pos) \/ ArrayOpens(js, pos)
      /\ js[pos].kind \in {"string", "primitive"} =>
            LeafAt(js, pos) /\ ~ColonAt(js, pos) /\ ~EndsValue(js, pos)
      /\ js[pos].kind \in {"}", "]"} => ~StringAt(js, pos) /\ ~LeafAt(js, pos) /\ ~ColonAt(js, pos)
      /\ js[pos].kind = "," => ~StringAt(js, pos) /\ ~LeafAt(js, pos) /\ ~ColonAt(js, pos)
      /\ js[pos].kind = ":" => ~StringAt(js, pos) /\ ~LeafAt(js, pos) /\ ColonAt(js, pos)
  BY Zenon DEF StringAt, LeafAt, ColonAt, EndsValue, ObjectOpens, ArrayOpens
<1> QED
  BY <1>1, <1>2, <1>3, <1>4, <1>5, <1>6, Zenon

\* The next position: what has just been read is the lexeme here.
LEMMA LexemeRead ==
    ASSUME pos \in Nat \ {0}, pos' = pos + 1, js' = js
    PROVE  /\ Naming' <=> ColonAt(js, pos)
           /\ Valued' <=> LeafAt(js, pos) /\ Naming
           /\ pos' > 1 /\ pos' - 1 = pos
<1>1. pos' > 1 /\ pos' - 1 = pos /\ pos' - 2 = pos - 1 /\ (pos' > 2 <=> pos > 1)
  OBVIOUS
<1> QED
  BY <1>1, Zenon DEF Naming, Valued

\* The same tokens are open, the same one is the innermost.
LEMMA SameInnermost ==
    ASSUME NEW toks, NEW toks2, Len(toks) \in Nat, Len(toks2) \in Nat, Open(toks2) = Open(toks)
    PROVE  Innermost(toks2) = Innermost(toks)
<1>1. CASE Open(toks) = {}
  BY <1>1, InnermostIsLast
<1>2. CASE Open(toks) # {}
  <2>1. /\ Innermost(toks) \in Open(toks) /\ \A k \in Open(toks) : k =< Innermost(toks)
        /\ Innermost(toks2) \in Open(toks) /\ \A k \in Open(toks) : k =< Innermost(toks2)
    BY <1>2, InnermostIsLast
  <2>2. \A k \in Open(toks) : k \in Int
    BY DEF Open
  <2> QED
    BY <2>1, <2>2
<1> QED
  BY <1>1, <1>2

\* What becomes of the array when a token is added.
LEMMA TokenBehind ==
    ASSUME TokenizerInv, pos =< Len(js), NEW ty \in TokenTypes, NEW stop \in Nat, stop = 0 \/ stop = pos,
           Adds(ty, stop)
    PROVE  /\ Len(tokens') = Len(tokens) + 1 /\ SameNest(tokens, tokens', Len(tokens))
           /\ \A k \in 1..Len(tokens) :
                 /\ tokens'[k].type = tokens[k].type /\ tokens'[k].start = tokens[k].start
                 /\ tokens'[k].end = tokens[k].end
                 /\ tokens'[k].size = IF k = super THEN tokens[k].size + 1 ELSE tokens[k].size
                 /\ Around(tokens', k, Len(tokens) + 1) <=> k = Innermost(tokens)
           /\ tokens'[Len(tokens) + 1] = Token(ty, stop)
           /\ Innermost(tokens') = IF stop = 0 THEN Len(tokens) + 1 ELSE Innermost(tokens)
<1> DEFINE n == Len(tokens)
           c == Counted
           t == Token(ty, stop)
<1>1. /\ n \in Nat /\ tokens \in Seq(TokenRecord) /\ pos \in Nat /\ pos >= 1
      /\ \A k \in 1..n : tokens[k].start \in Nat /\ tokens[k].end \in Nat
  BY TokenizerTypes DEF TokenizerInv
<1>2. /\ c \in Seq(TokenRecord) /\ Len(c) = n
      /\ \A k \in 1..n : /\ c[k].type = tokens[k].type /\ c[k].start = tokens[k].start
                         /\ c[k].end = tokens[k].end
                         /\ c[k].size = IF k = super THEN tokens[k].size + 1 ELSE tokens[k].size
  BY CountedTokens DEF TokenizerInv
<1>3. t \in TokenRecord /\ t.start = pos /\ t.end = stop
  BY <1>1 DEF Token, TokenRecord, TokenTypes
<1> HIDE DEF c, t
<1>4. tokens' = Append(c, t)
  BY DEF c, t, Adds
<1>5. Len(tokens') = n + 1 /\ tokens'[n + 1] = t /\ \A k \in 1..n : tokens'[k] = c[k]
  BY <1>1, <1>2, <1>3, <1>4
<1>6. \A k \in 1..n : tokens[k].start < pos /\ tokens[k].end < pos
  BY DEF TokenizerInv, TokensInBody
<1> HIDE DEF n
<1>7. \A j, k \in 1..n : Holds(tokens'[j], tokens'[k]) <=> Holds(tokens[j], tokens[k])
  <2> SUFFICES ASSUME NEW j \in 1..n, NEW k \in 1..n
               PROVE  Holds(tokens'[j], tokens'[k]) <=> Holds(tokens[j], tokens[k])
    OBVIOUS
  <2>1. /\ tokens'[j].start = tokens[j].start /\ tokens'[j].end = tokens[j].end
        /\ tokens'[k].start = tokens[k].start /\ tokens'[k].end = tokens[k].end
    BY <1>2, <1>5
  <2> QED
    BY <2>1, Zenon DEF Holds
<1>8. SameNest(tokens, tokens', n)
  BY <1>2, <1>5, <1>7 DEF SameNest
<1>9. ASSUME NEW k \in 1..n
      PROVE  Holds(tokens'[k], tokens'[n + 1]) <=> tokens[k].end = 0
  <2>1. /\ tokens'[k].start = tokens[k].start /\ tokens'[k].end = tokens[k].end
        /\ tokens'[n + 1].start = pos /\ tokens'[n + 1].end = stop
    BY <1>2, <1>3, <1>5
  <2> DEFINE a == tokens[k].start
             b == tokens[k].end
  <2>2. Holds(tokens'[k], tokens'[n + 1]) <=> a < pos /\ (b = 0 \/ (stop # 0 /\ stop < b))
    BY <2>1, Zenon DEF Holds
  <2>3. a \in Nat /\ b \in Nat /\ a < pos /\ b < pos
    BY <1>1, <1>6 DEF n
  <2> HIDE DEF a, b
  <2>4. a < pos /\ (b = 0 \/ (stop # 0 /\ stop < b)) <=> b = 0
    BY <1>1, <2>3
  <2> QED
    BY <2>2, <2>4 DEF b
<1>10. /\ Open(tokens) = {} => Innermost(tokens) = 0
       /\ Open(tokens) # {} => /\ Innermost(tokens) \in Open(tokens)
                               /\ \A k \in Open(tokens) : k =< Innermost(tokens)
  BY <1>1, InnermostIsLast DEF n
<1>11. \A k : k \in Open(tokens) <=> k \in 1..n /\ tokens[k].end = 0
  BY DEF Open, n
<1>12. ASSUME NEW k \in 1..n
       PROVE  Around(tokens', k, n + 1) <=> k = Innermost(tokens)
  <2>1. \A m \in (k + 1)..n : m \in 1..n /\ m > k
    BY <1>1 DEF n
  <2>2. (n + 1) - 1 = n /\ k < n + 1 /\ n \in Nat /\ k \in Nat /\ k # 0
    BY <1>1 DEF n
  <2>3. Around(tokens', k, n + 1) <=> tokens[k].end = 0 /\ \A m \in (k + 1)..n : tokens[m].end # 0
    BY <1>9, <2>1, <2>2, Zenon DEF Around
  <2>4. \A m \in 1..n : m > k => m \in (k + 1)..n
    BY <2>2
  <2>5. ASSUME tokens[k].end = 0, \A m \in (k + 1)..n : tokens[m].end # 0
        PROVE  k = Innermost(tokens)
    <3>1. Innermost(tokens) \in 1..n /\ tokens[Innermost(tokens)].end = 0 /\ k =< Innermost(tokens)
      BY <1>10, <1>11, <2>5
    <3>2. ~(Innermost(tokens) > k)
      BY <2>4, <2>5, <3>1
    <3> QED
      BY <2>2, <3>1, <3>2
  <2>6. ASSUME k = Innermost(tokens), NEW m \in (k + 1)..n
        PROVE  tokens[k].end = 0 /\ tokens[m].end # 0
    <3>1. k \in Open(tokens) /\ \A l \in Open(tokens) : l =< k
      BY <1>10, <2>2, <2>6
    <3>2. m \in 1..n /\ ~(m =< k)
      BY <2>1, <2>2
    <3> QED
      BY <1>11, <3>1, <3>2
  <2>7. k = Innermost(tokens) => tokens[k].end = 0
    BY <1>10, <1>11, <2>2
  <2> QED
    BY <2>3, <2>5, <2>6, <2>7
<1>13. Innermost(tokens') = IF stop = 0 THEN n + 1 ELSE Innermost(tokens)
  <2>1. \A k : k \in Open(tokens') <=> k \in Open(tokens) \/ (k = n + 1 /\ stop = 0)
    <3>1. \A k : k \in 1..(n + 1) <=> k \in 1..n \/ k = n + 1
      BY <1>1 DEF n
    <3>2. \A k \in 1..n : tokens'[k].end = tokens[k].end
      BY <1>2, <1>5
    <3>3. tokens'[n + 1].end = stop
      BY <1>3, <1>5
    <3>4. n + 1 \notin 1..n
      BY <1>1 DEF n
    <3> QED
      BY <1>5, <1>11, <3>1, <3>2, <3>3, <3>4 DEF Open
  <2>2. Len(tokens') \in Nat
    BY <1>1, <1>5 DEF n
  <2>3. CASE stop = 0
    <3>1. n + 1 \in Open(tokens') /\ \A k \in Open(tokens') : k \in Int /\ k =< n + 1
      BY <1>1, <1>11, <2>1, <2>3 DEF n
    <3>2. Innermost(tokens') \in Open(tokens') /\ \A k \in Open(tokens') : k =< Innermost(tokens')
      BY <2>2, <3>1, InnermostIsLast
    <3>3. n + 1 =< Innermost(tokens') /\ Innermost(tokens') =< n + 1 /\ Innermost(tokens') \in Int
      BY <3>1, <3>2
    <3> QED
      BY <1>1, <2>3, <3>3 DEF n
  <2>4. CASE stop # 0
    <3>1. Open(tokens') = Open(tokens)
      BY <2>1, <2>4
    <3> QED
      BY <1>1, <2>2, <2>4, <3>1, SameInnermost DEF n
  <2> QED
    BY <2>3, <2>4
<1> QED
  BY <1>2, <1>5, <1>8, <1>12, <1>13 DEF n, t

\* A new token is a value behind a colon, or a member of the innermost container that is open.
LEMMA AddCounts ==
    ASSUME TokenizerInv, LeavesEnd, Punctuated(js), SuperPlaced, MembersCounted(tokens, js), pos =< Len(js),
           NEW ty \in TokenTypes, NEW stop \in Nat, stop = 0 \/ stop = pos, Adds(ty, stop),
           ~EndsValue(js, pos)
    PROVE  MembersCounted(tokens', js) /\ ~Valued
<1> DEFINE n == Len(tokens)
           inner == Innermost(tokens)
<1>1. /\ n \in Nat /\ pos \in Nat /\ pos >= 1 /\ super \in 0..n
      /\ \A k \in 1..n : tokens[k].size \in Nat /\ tokens[k].start \in Nat \ {0}
  BY TokenizerTypes DEF TokenizerInv
<1>2. ~Valued
  <2>1. ASSUME pos > 2, LeafAt(js, pos - 1), ColonAt(js, pos - 2)
        PROVE  FALSE
    <3>1. pos - 2 \in 1..Len(js) /\ (pos - 2) + 1 = pos - 1 /\ (pos - 2) + 2 = pos
      <4>1. Len(js) \in Nat
        BY TokenizerTypes DEF TokenizerInv
      <4> QED
        BY <1>1, <2>1, <4>1
    <3> QED
      BY <2>1, <3>1 DEF Punctuated
  <2> QED
    BY <2>1 DEF Valued
<1>3. /\ Len(tokens') = n + 1 /\ SameNest(tokens, tokens', n)
      /\ \A k \in 1..n : /\ tokens'[k].size = IF k = super THEN tokens[k].size + 1 ELSE tokens[k].size
                         /\ Around(tokens', k, n + 1) <=> k = inner
      /\ tokens'[n + 1] = Token(ty, stop)
  BY TokenBehind
<1>4. tokens'[n + 1].size = 0 /\ tokens'[n + 1].start = pos
  BY <1>3 DEF Token
<1>5. IsValue(tokens', js, n + 1) <=> Naming
  BY <1>4, Zenon DEF IsValue, Naming
<1>6. inner # 0 => inner \in 1..n /\ tokens[inner].end = 0
  BY <1>1, InnermostIsLast DEF Open
<1> HIDE DEF n, inner
<1>7. /\ Naming => super = n
      /\ Naming => super > 0 /\ tokens[super].type \in Leaves
      /\ ~Naming /\ inner # 0 => super = inner
      /\ inner = 0 /\ super # 0 => tokens[super].type \in Leaves /\ ~InContainer(tokens, super)
  BY <1>2 DEF SuperPlaced, n, inner
<1>8. ASSUME NEW k \in 1..n, tokens[k].type \in Containers
      PROVE  k = super <=> k = inner /\ ~Naming
  <2>1. tokens[k].type \notin Leaves /\ k # 0
    BY <1>1, <1>8 DEF Containers, Leaves, n
  <2> QED
    BY <1>7, <2>1, Zenon
<1>9. ASSUME NEW k \in 1..n, tokens[k].type \in Leaves, InContainer(tokens, k)
      PROVE  k = super <=> k = n /\ Naming
  <2>1. tokens[k].end # 0 /\ k # 0
    BY <1>1, <1>9 DEF LeavesEnd, n
  <2> QED
    BY <1>6, <1>7, <1>9, <2>1, Zenon
<1>10. MembersCounted(tokens', js)
  <2> DEFINE named == Naming
  <2>1. named \in BOOLEAN
    BY Zenon DEF Naming
  <2>2. IsValue(tokens', js, n + 1) <=> named
    BY <1>5
  <2>3. /\ \A k \in 1..n : tokens[k].type \in Containers => (k = super <=> k = inner /\ ~named)
        /\ \A k \in 1..n : tokens[k].type \in Leaves /\ InContainer(tokens, k) => (k = super <=> k = n /\ named)
    BY <1>8, <1>9
  <2>4. n \in Nat /\ Len(tokens) = n /\ \A k \in 1..n : tokens[k].size \in Nat
    BY <1>1 DEF n
  <2> HIDE DEF named
  <2> DEFINE toks == tokens
             toks2 == tokens'
             body == js
             sup == super
  <2>5. TokenMore(toks, toks2, n, body, sup, inner, named) /\ MembersCounted(toks, body)
    BY <1>3, <1>4, <2>1, <2>2, <2>3, <2>4 DEF TokenMore
  <2> HIDE DEF toks, toks2, body, sup
  <2>6. MembersCounted(toks2, body)
    BY <2>1, <2>4, <2>5, OneMoreMember
  <2> QED
    BY <2>6 DEF toks2, body
<1> QED
  BY <1>2, <1>10

\* A token more that starts here.
LEMMA AddPlaces ==
    ASSUME TokenizerInv, LeavesEnd, Punctuated(js), SuperPlaced, ~Valued, pos =< Len(js),
           NEW ty \in TokenTypes, NEW stop \in Nat, stop = 0 \/ stop = pos, Adds(ty, stop),
           ty \in Leaves <=> stop = pos, StringAt(js, pos) => ty = "string",
           pos' = pos + 1, js' = js, ~ColonAt(js, pos), LeafAt(js, pos) <=> stop = pos,
           super' = IF stop = 0 THEN Len(tokens) + 1 ELSE super
    PROVE  SuperPlaced'
<1> DEFINE n == Len(tokens)
<1>1. /\ n \in Nat /\ pos \in Nat \ {0} /\ super \in 0..n
  BY TokenizerTypes DEF TokenizerInv
<1>2. /\ Len(tokens') = n + 1 /\ SameNest(tokens, tokens', n)
      /\ \A k \in 1..n : tokens'[k].type = tokens[k].type
      /\ tokens'[n + 1] = Token(ty, stop)
      /\ Innermost(tokens') = IF stop = 0 THEN n + 1 ELSE Innermost(tokens)
  BY TokenBehind
<1>3. tokens'[n + 1].type = ty /\ tokens'[n + 1].start = pos
  BY <1>2 DEF Token
<1>4. ~Naming' /\ (Valued' <=> stop = pos /\ Naming) /\ pos' > 1 /\ pos' - 1 = pos
  BY <1>1, LexemeRead
<1>5. /\ Naming => super > 0 /\ tokens[super].type \in Leaves
      /\ ~Naming /\ Innermost(tokens) # 0 => super = Innermost(tokens)
      /\ Innermost(tokens) = 0 /\ super # 0 => tokens[super].type \in Leaves /\ ~InContainer(tokens, super)
  BY DEF SuperPlaced
<1>6. super # 0 => super \in 1..n /\ tokens'[super].type = tokens[super].type
                   /\ (InContainer(tokens', super) <=> InContainer(tokens, super))
  <2>1. ASSUME super # 0
        PROVE  super \in 1..n
    BY <1>1, <2>1
  <2> HIDE DEF n
  <2> QED
    BY <1>1, <1>2, <2>1, SameAround
<1> HIDE DEF n
<1>7. n + 1 # 0 /\ n + 1 > 0
  BY <1>1
<1>8. StringAt(js', pos' - 1) => Len(tokens') > 0 /\ tokens'[Len(tokens')].start = pos' - 1
                                 /\ tokens'[Len(tokens')].type = "string"
  BY <1>2, <1>3, <1>4, <1>7, Zenon
<1>9. Valued' => super' > 0 /\ tokens'[super'].type \in Leaves
  <2>1. stop = pos => super' = super /\ stop # 0
    BY <1>1
  <2>2. super > 0 => super # 0
    BY <1>1
  <2> QED
    BY <1>4, <1>5, <1>6, <2>1, <2>2
<1>10. ~Valued' /\ Innermost(tokens') # 0 => super' = Innermost(tokens')
  <2>1. CASE stop = 0
    BY <1>2, <2>1 DEF n
  <2>2. CASE stop # 0
    BY <1>2, <1>4, <1>5, <2>2
  <2> QED
    BY <2>1, <2>2
<1>11. Innermost(tokens') = 0 /\ super' # 0 => tokens'[super'].type \in Leaves /\ ~InContainer(tokens', super')
  BY <1>2, <1>5, <1>6, <1>7
<1> QED
  BY <1>4, <1>8, <1>9, <1>10, <1>11 DEF SuperPlaced

\* A bracket that closes leaves sizes and places as they are.
LEMMA CloseKept ==
    ASSUME TokenizerInv, LeavesEnd, CloseContainer
    PROVE  /\ LeavesEnd' /\ SameNest(tokens, tokens', Len(tokens)) /\ Len(tokens') = Len(tokens)
           /\ \A k \in 1..Len(tokens) : tokens'[k].size = tokens[k].size
<1> DEFINE n == Len(tokens)
           i == Innermost(tokens)
           t == [tokens[i] EXCEPT !.end = pos]
<1>1. /\ n \in Nat /\ pos \in Nat \ {0} /\ tokens \in Seq(TokenRecord)
      /\ \A k \in 1..n : tokens[k] \in TokenRecord /\ tokens[k].start \in Nat \ {0} /\ tokens[k].end \in Nat
  BY TokenizerTypes DEF TokenizerInv
<1>2. i \in Open(tokens) /\ \A k \in Open(tokens) : k =< i
  BY <1>1, InnermostIsLast DEF CloseContainer, Matching
<1>3. tokens' = [tokens EXCEPT ![i] = t]
  BY DEF CloseContainer
<1> HIDE DEF i
<1>4. i \in 1..n /\ tokens[i].end = 0 /\ \A k \in 1..n : k > i => tokens[k].end # 0
  <2>1. i \in 1..n /\ tokens[i].end = 0
    BY <1>2 DEF Open
  <2>2. ASSUME NEW k \in 1..n, k > i
        PROVE  tokens[k].end # 0
    BY <1>1, <1>2, <2>1, <2>2 DEF Open
  <2> QED
    BY <2>1, <2>2
<1>5. t.type = tokens[i].type /\ t.start = tokens[i].start /\ t.size = tokens[i].size /\ t.end = pos
      /\ t \in TokenRecord
  BY <1>1, <1>4 DEF TokenRecord
<1> HIDE DEF t
<1>6. Len(tokens') = n /\ \A k \in 1..n : tokens'[k] = IF k = i THEN t ELSE tokens[k]
  BY <1>1, <1>3, <1>4, <1>5
<1> HIDE DEF n
<1>7. \A k \in 1..n : /\ tokens'[k].type = tokens[k].type /\ tokens'[k].start = tokens[k].start
                      /\ tokens'[k].size = tokens[k].size
                      /\ tokens'[k].end = IF k = i THEN pos ELSE tokens[k].end
  BY <1>5, <1>6
<1>8. tokens[i].type \notin Leaves
  BY <1>1, <1>4 DEF LeavesEnd, n
<1>9. LeavesEnd'
  BY <1>6, <1>7, <1>8 DEF LeavesEnd, n
<1>10. ASSUME NEW j \in 1..n, NEW k \in 1..n, j < k
       PROVE  Holds(tokens'[j], tokens'[k]) <=> Holds(tokens[j], tokens[k])
  <2> DEFINE a == tokens[j].start
             b == tokens[j].end
             c == tokens[k].start
             d == tokens[k].end
             b2 == tokens'[j].end
             d2 == tokens'[k].end
  <2>1. /\ Holds(tokens[j], tokens[k]) <=> a < c /\ (b = 0 \/ (d # 0 /\ d < b))
        /\ Holds(tokens'[j], tokens'[k]) <=> a < c /\ (b2 = 0 \/ (d2 # 0 /\ d2 < b2))
    BY <1>7, Zenon DEF Holds
  <2>2. /\ b2 = (IF j = i THEN pos ELSE b) /\ d2 = (IF k = i THEN pos ELSE d)
        /\ j = i => b = 0 /\ d # 0
        /\ k = i => d = 0
    BY <1>4, <1>7, <1>10
  <2>3. a \in Nat /\ b \in Nat /\ c \in Nat /\ d \in Nat /\ b < pos /\ d < pos /\ pos \in Nat \ {0} /\ j # k
    BY <1>1, <1>10 DEF TokenizerInv, TokensInBody, n
  <2> HIDE DEF a, b, c, d, b2, d2
  <2>4. (b2 = 0 \/ (d2 # 0 /\ d2 < b2)) <=> (b = 0 \/ (d # 0 /\ d < b))
    BY <2>2, <2>3
  <2> QED
    BY <2>1, <2>4
<1>11. SameNest(tokens, tokens', n)
  BY <1>7, <1>10 DEF SameNest
<1> QED
  BY <1>6, <1>7, <1>9, <1>11 DEF n

\* What names and values do to the superior token, where no token is added.
LEMMA MarkPlaces ==
    ASSUME TokenizerInv, LeavesEnd, Punctuated(js), SuperPlaced, Colon \/ Comma
    PROVE  SuperPlaced'
<1>1. /\ pos \in Nat \ {0} /\ Len(tokens) \in Nat /\ super \in 0..Len(tokens) /\ pos =< Len(js)
      /\ pos' = pos + 1 /\ js' = js /\ tokens' = tokens
      /\ ~StringAt(js, pos) /\ ~LeafAt(js, pos)
  <2>1. pos =< Len(js) /\ pos' = pos + 1 /\ js' = js /\ tokens' = tokens
    BY Zenon DEF Colon, Comma, Here
  <2> QED
    BY <2>1, TokenizerTypes, LexemesMet DEF TokenizerInv
<1>2. (Naming' <=> ColonAt(js, pos)) /\ ~Valued' /\ pos' > 1 /\ pos' - 1 = pos
  BY <1>1, LexemeRead
<1>3. ~StringAt(js', pos' - 1)
  BY <1>1, <1>2, Zenon
<1>4. Innermost(tokens') = Innermost(tokens)
  BY <1>1
<1>5. CASE Colon
  <2>1. super' = Len(tokens) /\ ColonAt(js, pos)
    BY <1>5, LexemesMet DEF Colon
  <2>2. pos \in 1..Len(js)
    <3>1. Len(js) \in Nat
      BY TokenizerTypes DEF TokenizerInv
    <3> QED
      BY <1>1, <3>1
  <2>3. pos > 1 /\ StringAt(js, pos - 1)
    BY <2>1, <2>2 DEF Punctuated
  <2>4. super' > 0 /\ tokens[super'].start = pos - 1 /\ tokens[super'].type = "string"
    BY <2>1, <2>3 DEF SuperPlaced
  <2>5. super' \in 1..Len(tokens) /\ tokens[super'].type \in Leaves
    BY <1>1, <2>1, <2>4 DEF Leaves
  <2>6. Innermost(tokens) = 0 => ~InContainer(tokens, super')
    <3>1. SUFFICES ASSUME Innermost(tokens) = 0, NEW m \in 1..(super' - 1), Holds(tokens[m], tokens[super'])
                   PROVE  FALSE
      BY DEF InContainer
    <3>2. m \in 1..Len(tokens)
      BY <1>1, <2>1
    <3>3. tokens[m].end # 0 /\ tokens[m].end < pos /\ tokens[m].end \in Nat
      <4>1. Open(tokens) = {}
        BY <1>1, <3>1, InnermostIsLast DEF Open
      <4>2. tokens[m].end < pos
        BY <3>2 DEF TokenizerInv, TokensInBody
      <4> QED
        BY <3>2, <4>1, <4>2, TokenizerTypes DEF Open, TokenizerInv
    <3>4. tokens[super'].end = pos - 1
      BY <2>4, <2>5 DEF LeavesEnd
    <3>5. pos - 1 < tokens[m].end
      BY <3>1, <3>3, <3>4 DEF Holds
    <3> QED
      BY <1>1, <3>3, <3>5
  <2> QED
    BY <1>1, <1>2, <1>3, <1>4, <2>1, <2>4, <2>5, <2>6 DEF SuperPlaced
<1>6. CASE Comma
  <2>1. ~Naming'
    BY <1>2, <1>6, LexemesMet
  <2>2. super' = AfterComma
    BY <1>6 DEF Comma
  <2>3. Innermost(tokens) # 0 => super' = Innermost(tokens)
    <3>1. CASE Naming \/ Valued
      <4>1. tokens[super].type \notin Containers
        BY <3>1 DEF SuperPlaced, Leaves, Containers
      <4> QED
        BY <2>2, <4>1 DEF AfterComma, Containers
    <3>2. CASE ~Naming /\ ~Valued
      <4>1. Innermost(tokens) # 0 => super = Innermost(tokens)
        BY <3>2 DEF SuperPlaced
      <4> QED
        BY <2>2, <4>1 DEF AfterComma
    <3> QED
      BY <3>1, <3>2
  <2>4. Innermost(tokens) = 0 => super' = super
    BY <2>2 DEF AfterComma
  <2>5. Innermost(tokens) = 0 /\ super # 0 => tokens[super].type \in Leaves /\ ~InContainer(tokens, super)
    BY DEF SuperPlaced
  <2> QED
    BY <1>1, <1>2, <1>3, <1>4, <2>1, <2>3, <2>4, <2>5 DEF SuperPlaced
<1> QED
  BY <1>5, <1>6

\* A token more is a leaf that ends where it starts, or a container.
LEMMA AddKept ==
    ASSUME TokenizerInv, MemberInv, pos =< Len(js),
           NEW ty \in TokenTypes, NEW stop \in Nat, stop = 0 \/ stop = pos, Adds(ty, stop),
           ty \in Leaves <=> stop = pos, StringAt(js, pos) => ty = "string",
           pos' = pos + 1, js' = js, ~ColonAt(js, pos), ~EndsValue(js, pos), LeafAt(js, pos) <=> stop = pos,
           super' = IF stop = 0 THEN Len(tokens) + 1 ELSE super
    PROVE  MemberInv'
<1> DEFINE n == Len(tokens)
<1>1. /\ n \in Nat /\ pos \in Nat
      /\ Len(tokens') = n + 1 /\ tokens'[n + 1].type = ty /\ tokens'[n + 1].start = pos /\ tokens'[n + 1].end = stop
      /\ \A k \in 1..n : /\ tokens'[k].type = tokens[k].type /\ tokens'[k].start = tokens[k].start
                         /\ tokens'[k].end = tokens[k].end
  <2>1. /\ Len(tokens') = n + 1 /\ tokens'[n + 1] = Token(ty, stop)
        /\ \A k \in 1..n : /\ tokens'[k].type = tokens[k].type /\ tokens'[k].start = tokens[k].start
                           /\ tokens'[k].end = tokens[k].end
    BY TokenBehind DEF MemberInv
  <2>2. n \in Nat /\ pos \in Nat
    BY TokenizerTypes DEF TokenizerInv
  <2>3. Token(ty, stop).type = ty /\ Token(ty, stop).start = pos /\ Token(ty, stop).end = stop
    BY DEF Token
  <2> HIDE DEF n
  <2> QED
    BY <2>1, <2>2, <2>3, Zenon
<1>2. LeavesEnd'
  <2>1. \A k \in 1..n : tokens[k].type \in Leaves => tokens[k].end = tokens[k].start
    BY DEF MemberInv, LeavesEnd
  <2> HIDE DEF n
  <2>2. \A k \in 1..(n + 1) : k \in 1..n \/ k = n + 1
    BY <1>1
  <2> QED
    BY <1>1, <2>1, <2>2 DEF LeavesEnd
<1>3. ASSUME Punctuated(js)
      PROVE  SuperPlaced' /\ MembersCounted(tokens', js')
  <2>1. LeavesEnd /\ SuperPlaced /\ MembersCounted(tokens, js)
    BY <1>3 DEF MemberInv
  <2>2. MembersCounted(tokens', js) /\ ~Valued
    BY <1>3, <2>1, AddCounts
  <2>3. SuperPlaced'
    BY <1>3, <2>1, <2>2, AddPlaces
  <2> QED
    BY <2>2, <2>3
<1> QED
  BY <1>2, <1>3 DEF MemberInv

\* Every character, and the end of the body, keeps the members counted.
LEMMA MemberStep ==
    ASSUME TokenizerInv, MemberInv, TokenizerNext
    PROVE  MemberInv'
<1>1. /\ pos \in Nat \ {0} /\ Len(tokens) \in Nat /\ super \in 0..Len(tokens)
  BY TokenizerTypes DEF TokenizerInv
<1>2. CASE OpenContainer
  <2> DEFINE ty == IF ObjectOpens(js, pos) THEN "object" ELSE "array"
             stop == 0
  <2>1. /\ pos =< Len(js) /\ Adds(ty, stop) /\ pos' = pos + 1 /\ super' = Len(tokens) + 1 /\ js' = js
    BY <1>2, Zenon DEF OpenContainer, Here, ObjectOpens, Adds
  <2>2. /\ ty \in TokenTypes /\ ty \notin Leaves /\ stop \in Nat /\ stop = 0 /\ stop # pos
    BY <1>1 DEF TokenTypes, Leaves
  <2>3. ~StringAt(js, pos) /\ ~LeafAt(js, pos) /\ ~ColonAt(js, pos) /\ ~EndsValue(js, pos)
    BY <1>2, LexemesMet
  <2> HIDE DEF ty, stop
  <2> QED
    BY <2>1, <2>2, <2>3, AddKept
<1>3. CASE Leaf
  <2> DEFINE ty == js[pos].kind
             stop == pos
  <2>1. /\ pos =< Len(js) /\ Adds(ty, stop) /\ pos' = pos + 1 /\ super' = super /\ js' = js
        /\ ty \in Leaves /\ (StringAt(js, pos) => ty = "string")
    BY <1>3, Zenon DEF Leaf, Here, Adds, Leaves, StringAt
  <2>2. /\ ty \in TokenTypes /\ stop \in Nat /\ stop = pos /\ stop # 0
    BY <1>1, <2>1 DEF TokenTypes, Leaves
  <2>3. LeafAt(js, pos) /\ ~ColonAt(js, pos) /\ ~EndsValue(js, pos)
    BY <1>3, LexemesMet
  <2> HIDE DEF ty, stop
  <2> QED
    BY <2>1, <2>2, <2>3, AddKept
<1>4. CASE CloseContainer
  <2>1. /\ LeavesEnd' /\ SameNest(tokens, tokens', Len(tokens)) /\ Len(tokens') = Len(tokens)
        /\ \A k \in 1..Len(tokens) : tokens'[k].size = tokens[k].size
    BY <1>4, CloseKept DEF MemberInv
  <2>2. pos' = pos + 1 /\ js' = js /\ super' = Innermost(tokens')
    BY <1>4 DEF CloseContainer
  <2>3. ~StringAt(js, pos) /\ ~Naming' /\ ~Valued' /\ pos' - 1 = pos
    BY <1>1, <1>4, <2>2, LexemesMet, LexemeRead
  <2>4. SuperPlaced'
    BY <2>2, <2>3 DEF SuperPlaced
  <2>5. ASSUME Punctuated(js)
        PROVE  MembersCounted(tokens', js)
    <3> DEFINE toks == tokens
               toks2 == tokens'
               n == Len(tokens)
               body == js
    <3>1. /\ n \in Nat /\ Len(toks) = n /\ Len(toks2) = n /\ SameNest(toks, toks2, n)
          /\ \A k \in 1..n : toks2[k].size = toks[k].size
          /\ MembersCounted(toks, body)
      BY <1>1, <2>1, <2>5 DEF MemberInv
    <3> HIDE DEF toks, toks2, n, body
    <3>2. MembersCounted(toks2, body)
      BY <3>1, CountsKept
    <3> QED
      BY <3>2 DEF toks2, body
  <2> QED
    BY <2>1, <2>2, <2>4, <2>5 DEF MemberInv
<1>5. CASE Colon \/ Comma
  <2>1. js' = js /\ tokens' = tokens
    BY <1>5 DEF Colon, Comma
  <2>2. Punctuated(js) => SuperPlaced'
    BY <1>5, MarkPlaces DEF MemberInv
  <2> QED
    BY <2>1, <2>2 DEF MemberInv, LeavesEnd
<1>6. CASE NoToken \/ CloseMismatch \/ BadLeaf \/ End
  <2>1. UNCHANGED <<js, pos, tokens, super>>
    BY <1>6 DEF NoToken, CloseMismatch, BadLeaf, End
  <2> QED
    BY <2>1 DEF MemberInv, LeavesEnd, SuperPlaced, Naming, Valued
<1> QED
  BY <1>2, <1>3, <1>4, <1>5, <1>6 DEF TokenizerNext

\* The walk leaves the members alone.
LEMMA MembersKept ==
    ASSUME TokenizerInv, MemberInv, Next \/ UNCHANGED tokenizer
    PROVE  MemberInv'
<1>1. ASSUME Next
      PROVE  TokenizerNext \/ UNCHANGED tokenizer
  BY <1>1, NextOfTokenizer
<1>2. ASSUME UNCHANGED tokenizer
      PROVE  MemberInv'
  BY <1>2 DEF tokenizer, MemberInv, LeavesEnd, SuperPlaced, Naming, Valued
<1> QED
  BY <1>1, <1>2, MemberStep

\* In a body that has a name before each colon, and a comma or closing bracket behind each string or
\* primitive that is a value, the size that jsmn_parse gives an object or array is the number of names or
\* elements directly in it, which the loops of the parsers take for their number of turns, and what is
\* in one has size 1 if it is a name whose value has been met and 0 otherwise, which is what the
\* parsers assert of names and values: for every such body, whatever its length and however deep
\* it nests, and up to where the parse breaks off.
THEOREM SizesCountMembers == Spec => [](Punctuated(js) => MembersCounted(tokens, js))
<1> DEFINE I == TokenizerInv /\ MemberInv
           M == Punctuated(js) => MembersCounted(tokens, js)
<1>1. Init => I
  <2> SUFFICES ASSUME Init
               PROVE  I
    OBVIOUS
  <2>1. tokens = <<>> /\ Len(tokens) = 0 /\ pos = 1 /\ super = 0 /\ 1..0 = {}
    BY DEF Init, TokenizerInit
  <2>2. Innermost(tokens) = 0
    BY <2>1, InnermostIsLast DEF Open
  <2>3. ~(pos > 1) /\ ~(pos > 2)
    BY <2>1
  <2>4. LeavesEnd /\ MembersCounted(tokens, js)
    BY <2>1 DEF LeavesEnd, MembersCounted
  <2>5. SuperPlaced
    BY <2>1, <2>2, <2>3 DEF SuperPlaced, Naming, Valued
  <2> QED
    BY <2>4, <2>5, TokenizerStarts DEF MemberInv, Init
<1>2. I /\ [Next]_vars => I'
  BY TokenizerKept, MembersKept DEF vars, tokenizer
<1>3. I => M
  BY DEF MemberInv
<1> HIDE DEF I, M
<1>4. Spec => []M
  BY <1>1, <1>2, <1>3, PTL DEF Spec
<1> QED
  BY <1>4 DEF M

-------------------------------------------------------------------------------
(* The loops of the walk                                                   *)

Parsers == {"status", "decls", "vars"}

\* The positions and counters of the loops.
LoopTypes ==
    /\ pc \in Loops \union Ends
    /\ offset \in 1..(NumTokens + 1) \/ OffsetStray
    /\ at \in 1..(NumTokens + 1) /\ next_token \in 0..(NumTokens + 1)
    /\ left \in 0..NumTokens /\ rest \in 0..NumTokens
    /\ err \in {"SUCCESS", "TOKENS", "JSON", "FATAL", "VAR_NOT_FOUND"}
    /\ pc \in Parsers => left > 0

\* The device and what the remote keeps.
ObjectTypes ==
    /\ list \in Seq(Words) /\ var \in [Listed -> Structs]
    /\ text \in [Fields -> [val : Seq(Words), dirty : BOOLEAN]]
    /\ ids \in [Ids -> Seq(Words)]
    /\ remote \in [ws_connected : BOOLEAN, active_status : Enums(ActivityStatuses), last_activity : Int]

WalkInv == TokenizerInv /\ LoopTypes /\ ObjectTypes

\* Together they are the types of the walk.
LEMMA TypesFollow == WalkInv => TypeOK
BY DEF WalkInv, TokenizerInv, LoopTypes, ObjectTypes, TypeOK

\* A text of a token is a sequence of words.
LEMMA TextIsWords ==
    ASSUME TokenizerInv, NEW k \in DOMAIN tokens
    PROVE  Text(tokens[k]) \in Seq(Words)
<1>1. /\ tokens[k].start \in Nat \ {0} /\ pos =< Len(js) + 1 /\ Len(js) \in Nat /\ pos \in Nat
      /\ js \in Seq([kind : Kinds, text : Seq(Words)]) /\ k \in 1..Len(tokens)
  BY TokenizerTypes DEF TokenizerInv, Bodies
<1>2. tokens[k].start < pos
  BY <1>1 DEF TokenizerInv, TokensInBody
<1>3. tokens[k].start \in 1..Len(js)
  BY <1>1, <1>2
<1>4. js[tokens[k].start] \in [kind : Kinds, text : Seq(Words)]
  <2> DEFINE L == [kind : Kinds, text : Seq(Words)]
             n == tokens[k].start
  <2>1. js \in Seq(L) /\ n \in 1..Len(js)
    BY <1>1, <1>3
  <2> HIDE DEF L, n
  <2>2. js[n] \in L
    BY <2>1
  <2> QED
    BY <2>2 DEF L, n
<1> QED
  BY <1>4 DEF Text

\* So is a name, and a word of a name that is not there is the empty one.
LEMMA NameIsWords ==
    ASSUME TokenizerInv
    PROVE  Name \in Seq(Words) /\ \A k \in Nat : Word(k) \in Words
<1>1. Name \in Seq(Words)
  <2>1. <<>> \in Seq(Words)
    OBVIOUS
  <2> QED
    BY <2>1, TextIsWords DEF Name
<1>2. "" \in Words
  BY TokenWalkAssumption, Zenon
<1>3. \A k \in DOMAIN Name : Name[k] \in Words
  BY <1>1
<1> QED
  BY <1>1, <1>2, <1>3, Zenon DEF Word

\* Where nothing is wrong, the tokens that a turn of a loop looks at are there.
LEMMA InArray ==
    ASSUME WalkInv, Wrong = {}, NEW k \in DOMAIN Required
    PROVE  Cursor + k - 1 \in DOMAIN tokens
BY Zenon DEF Wrong

\* How many those are.
LEMMA RequiredLengths ==
    /\ pc = "tokenize" => 1 \in DOMAIN Required
    /\ pc = "tag" => 1 \in DOMAIN Required /\ 2 \in DOMAIN Required
    /\ pc = "status" /\ Name \in StatusTags => 2 \in DOMAIN Required
    /\ pc = "decls" /\ {0} \notin {DeclDirections, DeclTypes} => 2 \in DOMAIN Required
    /\ pc = "vars" => 6 \in DOMAIN Required
<1>1. CASE pc = "tokenize"
  BY <1>1 DEF Required
<1>2. CASE pc = "tag"
  BY <1>2 DEF Required
<1>3. CASE pc = "status" /\ Name \in StatusTags
  <2>1. \E s : StatusValue = <<s>>
    BY <1>3 DEF StatusValue, StatusTags
  <2> QED
    BY <1>3, <2>1 DEF Required
<1>4. CASE pc = "decls" /\ {0} \notin {DeclDirections, DeclTypes}
  BY <1>4 DEF Required
<1>5. CASE pc = "vars"
  BY <1>5 DEF Required
<1> QED
  BY <1>1, <1>2, <1>3, <1>4, <1>5

\* A search finds an enum of its table.
LEMMA FoundIsEnum ==
    ASSUME NEW table, NEW w, NEW n
    PROVE  FromName(table, w, n) \subseteq Enums(table)
BY DEF FromName, Enums, Hits

\* The next tokens of a loop are in the array, and an object counts no more tokens than follow.
LEMMA SizesInArray ==
    ASSUME TokenizerInv, NEW k \in DOMAIN tokens
    PROVE  /\ k \in Nat /\ k >= 1 /\ k =< NumTokens /\ NumTokens \in Nat
           /\ tokens[k].size \in Nat /\ k + tokens[k].size =< NumTokens
<1>1. /\ k \in 1..Len(tokens) /\ Len(tokens) \in Nat /\ Len(tokens) =< NumTokens /\ NumTokens \in Nat
      /\ tokens[k].size \in Nat
  BY TokenizerTypes DEF TokenizerInv
<1>2. tokens[k].size =< Len(tokens) - k
  BY <1>1 DEF TokenizerInv, TokensInBody
<1> QED
  BY <1>1, <1>2

\* The last token counts no other, so there is a least turn at which the inner loop over an
\* unknown object stops, and the loop goes on in the array or just behind it.
LEMMA StopsInArray ==
    ASSUME TokenizerInv, NEW k \in DOMAIN tokens
    PROVE  UnknownLength(k) \in Nat \ {0} /\ k + UnknownLength(k) =< NumTokens + 2
<1> DEFINE last == Len(tokens) - k
           D == {d \in 0..last : tokens[k + d].size =< d}
<1>1. /\ k \in Nat /\ k >= 1 /\ k =< Len(tokens) /\ Len(tokens) \in Nat /\ Len(tokens) =< NumTokens
      /\ NumTokens \in Nat /\ DOMAIN tokens = 1..Len(tokens)
  BY TokenizerTypes DEF TokenizerInv
<1>2. last \in Nat /\ k + last = Len(tokens) /\ last \in 0..last /\ Len(tokens) \in DOMAIN tokens
  BY <1>1
<1>3. tokens[Len(tokens)].size =< last
  <2> DEFINE n == Len(tokens)
             z == tokens[n].size
  <2>1. z \in Nat /\ z =< n - n /\ n \in Nat
    BY <1>1, <1>2, TokenizerTypes DEF TokenizerInv, TokensInBody
  <2>2. last \in Nat
    BY <1>2
  <2> HIDE DEF n, z, last
  <2>3. z =< last
    BY <2>1, <2>2
  <2> QED
    BY <2>3 DEF z, n
<1>4. last \in D /\ D \subseteq Nat /\ \A d \in D : d =< last
  BY <1>1, <1>2, <1>3
<1>5. UnknownLength(k) = IF tokens[k].type = "object" THEN 1 + Min(D) ELSE 2
  BY DEF UnknownLength
<1> HIDE DEF D, last
<1>6. PICK n \in D : \A m \in D : n =< m
  BY <1>4, LeastNatural
<1>7. Min(D) \in D
  BY <1>6 DEF Min
<1>8. Min(D) \in Nat /\ Min(D) =< last
  BY <1>4, <1>7
<1> DEFINE m == Min(D)
<1>9. m \in Nat /\ k + m =< Len(tokens) /\ UnknownLength(k) \in {1 + m, 2}
  BY <1>1, <1>2, <1>5, <1>8
<1> HIDE DEF m
<1> QED
  BY <1>1, <1>9

\* A turn of c_json_parse_device has its tag and the value behind it, at an offset that is set.
LEMMA TagTurn ==
    ASSUME WalkInv, HasTurn("tag"), Wrong = {}
    PROVE  /\ pc = "tag" /\ left \in 1..NumTokens /\ NumTokens \in Nat
           /\ offset \in 1..(NumTokens + 1)
           /\ offset + 1 \in DOMAIN tokens /\ offset + 2 \in 1..(NumTokens + 1)
           /\ tokens[offset + 1].size \in 0..NumTokens
           /\ offset + UnknownLength(offset + 1) \in 1..(NumTokens + 1)
<1>1. /\ pc = "tag" /\ left \in Nat /\ left > 0 /\ left =< NumTokens /\ offset \in Int
      /\ Cursor = offset
  BY DEF WalkInv, LoopTypes, OffsetStray, HasTurn, Cursor
<1>2. offset \in DOMAIN tokens /\ offset + 1 \in DOMAIN tokens
  <2>1. Cursor + 1 - 1 \in DOMAIN tokens /\ Cursor + 2 - 1 \in DOMAIN tokens
    BY <1>1, RequiredLengths, InArray
  <2>2. offset + 1 - 1 = offset /\ offset + 2 - 1 = offset + 1
    BY <1>1
  <2> QED
    BY <1>1, <2>1, <2>2
<1>3. offset \in Nat /\ offset >= 1
  BY <1>2, SizesInArray DEF WalkInv
<1> DEFINE k == offset + 1
           z == tokens[k].size
           u == UnknownLength(k)
<1>4. /\ k \in Nat /\ k >= 1 /\ k =< NumTokens /\ NumTokens \in Nat /\ z \in Nat /\ k + z =< NumTokens
      /\ u \in Nat \ {0} /\ k + u =< NumTokens + 2
  BY <1>2, SizesInArray, StopsInArray DEF WalkInv
<1>5. offset = k - 1
  BY <1>3
<1> HIDE DEF z, u
<1>6. /\ offset \in 1..(NumTokens + 1) /\ offset + 2 \in 1..(NumTokens + 1) /\ z \in 0..NumTokens
      /\ offset + u \in 1..(NumTokens + 1)
  BY <1>3, <1>4, <1>5
<1> QED
  BY <1>1, <1>2, <1>4, <1>6 DEF z, u

\* A turn of a parser has as many tokens as it looks at.
LEMMA EntryTurn ==
    ASSUME WalkInv, NEW loop \in Parsers, HasTurn(loop), Wrong = {}, NEW n \in {2, 6}, n \in DOMAIN Required
    PROVE  /\ pc = loop /\ rest \in 1..NumTokens /\ left \in 1..NumTokens /\ NumTokens \in Nat
           /\ at + n \in 1..(NumTokens + 1)
           /\ \A k \in 1..n : at + k - 1 \in DOMAIN tokens
<1>1. /\ pc = loop /\ rest \in Nat /\ rest > 0 /\ rest =< NumTokens /\ at \in Nat /\ at >= 1
      /\ left \in Nat /\ left > 0 /\ left =< NumTokens
      /\ Cursor = at
  BY DEF WalkInv, LoopTypes, HasTurn, Cursor, Parsers
<1>2. at + n - 1 \in DOMAIN tokens
  BY <1>1, InArray
<1>3. DOMAIN tokens = 1..Len(tokens) /\ Len(tokens) \in Nat /\ Len(tokens) =< NumTokens /\ NumTokens \in Nat
  BY TokenizerTypes DEF WalkInv, TokenizerInv
<1>4. n \in Nat
  OBVIOUS
<1> QED
  BY <1>1, <1>2, <1>3, <1>4

\* A loop that a parser has left with an error goes on behind the last success, or astray.
LEMMA LoopFails ==
    ASSUME WalkInv, NEW loop \in Parsers, HasTurn(loop), NEW e \in {"JSON", "FATAL", "VAR_NOT_FOUND"},
           ParserFails(e)
    PROVE  LoopTypes'
<1>1. /\ pc = loop /\ left \in Nat /\ left > 0 /\ left =< NumTokens
      /\ at \in 1..(NumTokens + 1) /\ rest \in 0..NumTokens /\ next_token \in 0..(NumTokens + 1)
  BY DEF WalkInv, LoopTypes, HasTurn, Parsers
<1>2. Len(tokens) \in Nat /\ Len(tokens) =< NumTokens /\ NumTokens \in Nat
  BY TokenizerTypes DEF WalkInv, TokenizerInv
<1>3. /\ pc' = "tag" /\ left' = left - 1 /\ err' = e /\ UNCHANGED <<next_token, at, rest>>
      /\ offset' \in IF next_token # 0 THEN {next_token} ELSE Stray
      /\ lost' = (lost \/ next_token = 0)
  BY DEF ParserFails
<1>4. left' \in 0..NumTokens
  BY <1>1, <1>2, <1>3
<1>5. CASE next_token # 0
  <2>1. offset' \in 1..(NumTokens + 1)
    BY <1>1, <1>2, <1>3, <1>5
  <2> QED
    BY <1>1, <1>3, <1>4, <2>1 DEF LoopTypes, Loops, Parsers
<1>6. CASE next_token = 0
  <2>1. offset' \in Int
    BY <1>3, <1>6, TokenWalkAssumption, Zenon
  <2>2. OffsetStray'
    BY <1>3, <1>6, <2>1 DEF OffsetStray
  <2> QED
    BY <1>1, <1>3, <1>4, <2>2 DEF LoopTypes, Loops, Parsers
<1> QED
  BY <1>5, <1>6

\* An entry of n tokens is behind the loop of its parser.
LEMMA LoopAdvances ==
    ASSUME WalkInv, NEW loop \in Parsers, HasTurn(loop), NEW n \in Nat, at + n \in 1..(NumTokens + 1),
           EntryDone(n)
    PROVE  LoopTypes'
<1>1. rest \in 0..NumTokens /\ rest > 0 /\ NumTokens \in Nat
  BY TokenizerTypes DEF WalkInv, TokenizerInv, LoopTypes, HasTurn, Parsers
<1>2. at' \in 1..(NumTokens + 1) /\ rest' \in 0..NumTokens
  BY <1>1 DEF EntryDone
<1>3. pc \in Parsers /\ UNCHANGED <<pc, offset, left, next_token, err>>
  BY DEF HasTurn, EntryDone
<1>4. offset \in 1..(NumTokens + 1)
  BY <1>3 DEF WalkInv, LoopTypes, OffsetStray, Parsers
<1> QED
  BY <1>2, <1>3, <1>4 DEF WalkInv, LoopTypes

\* An assertion that fails leaves the loop where it is; astray there is no token to fail it.
LEMMA LoopStops ==
    ASSUME WalkInv, AssertFails \/ SearchRunsOff
    PROVE  LoopTypes'
<1>1. pc' \in {"aborted", "undefined"} /\ UNCHANGED <<offset, left, next_token, err, at, rest, lost>>
  BY Zenon DEF AssertFails, SearchRunsOff, loops, history
<1>2. CASE offset \in 1..(NumTokens + 1)
  BY <1>1, <1>2 DEF WalkInv, LoopTypes, Ends, Parsers
<1>3. CASE offset \notin 1..(NumTokens + 1)
  <2>1. OffsetStray /\ pc = "tag" /\ Cursor = offset
    <3>1. OffsetStray
      BY <1>3 DEF WalkInv, LoopTypes
    <3>2. pc \in Loops
      BY Zenon DEF AssertFails, SearchRunsOff, HasTurn, Turn, Loops
    <3> QED
      BY <3>1, <3>2 DEF OffsetStray, Loops, Cursor
  <2>2. AssertFails
    BY <2>1 DEF SearchRunsOff, HasTurn, Turn
  <2>3. 1 \in Wrong /\ Wrong \subseteq {1, 2}
    <3>1. DOMAIN Required = {1, 2}
      BY <2>1 DEF Required
    <3>2. offset \notin DOMAIN tokens
      BY <1>3, SizesInArray DEF WalkInv
    <3>3. Cursor + 1 - 1 = offset
      BY <2>1 DEF OffsetStray
    <3> QED
      BY <3>1, <3>2, <3>3, Zenon DEF Wrong
  <2>4. Min(Wrong) = 1
    <3>1. \A n \in Wrong : 1 =< n
      BY <2>3
    <3>2. ASSUME NEW n \in Wrong, \A m \in Wrong : n =< m
          PROVE  n = 1
      <4>1. n \in {1, 2} /\ n =< 1
        BY <2>3, <3>2
      <4> QED
        BY <4>1
    <3> QED
      BY <2>3, <3>1, <3>2, Zenon DEF Min
  <2>5. Cursor + Min(Wrong) - 1 \notin DOMAIN tokens
    <3>1. Cursor + 1 - 1 = offset
      BY <2>1 DEF OffsetStray
    <3> QED
      BY <1>3, <2>4, <3>1, SizesInArray DEF WalkInv
  <2>6. pc' = "undefined"
    BY <2>2, <2>5, Zenon DEF AssertFails
  <2> QED
    BY <1>1, <2>1, <2>6 DEF WalkInv, LoopTypes, OffsetStray, Ends, Parsers
<1> QED
  BY <1>2, <1>3

\* No step takes a loop out of the array, or a counter below zero: wherever a size or the last
\* success of a parser has it go on.
LEMMA LoopStep ==
    ASSUME WalkInv, Next
    PROVE  LoopTypes'
<1> USE DEF Parsers
<1>1. LoopTypes /\ TokenizerInv
  BY DEF WalkInv
<1>2. CASE Tokenize
  BY <1>1, <1>2 DEF Tokenize, walk, LoopTypes, OffsetStray
<1>3. CASE TokenizerFails
  BY <1>1, <1>3 DEF TokenizerFails, LoopTypes, OffsetStray, Ends
<1>4. CASE AssertFails \/ SearchRunsOff
  BY <1>4, LoopStops
<1>5. CASE Enter
  <2>1. pc = "tokenize" /\ Wrong = {}
    BY <1>5 DEF Enter, HasTurn
  <2>2. 1 \in DOMAIN tokens
    <3>1. Cursor + 1 - 1 \in DOMAIN tokens
      BY <2>1, RequiredLengths, InArray
    <3> QED
      BY <2>1, <3>1 DEF Cursor
  <2>3. tokens[1].size \in 0..NumTokens /\ 2 \in 1..(NumTokens + 1)
    BY <1>1, <2>2, SizesInArray
  <2> QED
    BY <1>1, <1>5, <2>3 DEF Enter, LoopTypes, Loops
<1>6. CASE Return
  BY <1>1, <1>6 DEF Return, loops, history, LoopTypes, OffsetStray, Ends
<1>7. CASE CallParser
  <2>1. HasTurn("tag") /\ Wrong = {} /\ pc' = Loop(Name) /\ at' = offset + 2
        /\ rest' = tokens[offset + 1].size /\ UNCHANGED <<offset, left, next_token, err>>
    BY <1>7 DEF CallParser, Turn
  <2>2. Loop(Name) \in Parsers
    BY DEF Loop
  <2>3. left > 0 /\ at' \in 1..(NumTokens + 1) /\ rest' \in 0..NumTokens /\ offset \in 1..(NumTokens + 1)
    BY <2>1, TagTurn
  <2> QED
    BY <1>1, <2>1, <2>2, <2>3 DEF LoopTypes, Loops
<1>8. CASE ResultTag \/ (\E f \in Ids : IdTag(f)) \/ (\E f \in Fields : TextTag(f))
  <2>1. /\ HasTurn("tag") /\ Wrong = {} /\ UNCHANGED <<next_token, at, rest>>
        /\ \/ offset' = offset + 2 /\ left' = left - 1 /\ UNCHANGED <<pc, err>>
           \/ pc' = "returned" /\ err' = "FATAL" /\ UNCHANGED <<offset, left>>
    BY <1>8 DEF ResultTag, IdTag, TextTag, Turn, MemberDone
  <2>2. pc = "tag" /\ left - 1 \in 0..NumTokens /\ {offset, offset + 2} \subseteq 1..(NumTokens + 1)
    BY <2>1, TagTurn
  <2> QED
    BY <1>1, <2>1, <2>2 DEF LoopTypes, Ends
<1>9. CASE UnknownTag
  <2>1. /\ HasTurn("tag") /\ Wrong = {} /\ offset' = offset + UnknownLength(offset + 1)
        /\ left' = left - 1 /\ UNCHANGED <<pc, next_token, err, at, rest>>
    BY <1>9 DEF UnknownTag, MemberDone
  <2>2. pc = "tag" /\ left - 1 \in 0..NumTokens /\ offset' \in 1..(NumTokens + 1)
    BY <2>1, TagTurn
  <2> QED
    BY <1>1, <2>1, <2>2 DEF LoopTypes
<1>10. CASE ParserReturns
  <2>1. left \in 0..NumTokens /\ left > 0 /\ NumTokens \in Nat /\ at \in 1..(NumTokens + 1)
    BY <1>1, <1>10, TokenizerTypes DEF ParserReturns, LoopTypes, TokenizerInv
  <2>2. left - 1 \in 0..NumTokens /\ at \in 0..(NumTokens + 1)
    BY <2>1
  <2> QED
    BY <1>1, <1>10, <2>1, <2>2 DEF ParserReturns, NextToken, LoopTypes, Loops
<1>11. CASE WsConnected \/ ActiveStatus \/ LastActivity
  <2>1. HasTurn("status") /\ Wrong = {} /\ EntryDone(2) /\ Name \in StatusTags
    BY <1>11 DEF WsConnected, ActiveStatus, LastActivity, Turn, StatusTags
  <2>2. 2 \in DOMAIN Required
    BY <2>1, RequiredLengths DEF HasTurn
  <2>3. at + 2 \in 1..(NumTokens + 1)
    BY <2>1, <2>2, EntryTurn
  <2> QED
    BY <2>1, <2>3, LoopAdvances
<1>12. CASE UnknownStatus
  <2>1. HasTurn("status") /\ EntryDone(0)
    BY <1>12 DEF UnknownStatus
  <2>2. at + 0 \in 1..(NumTokens + 1)
    BY <1>1, TokenizerTypes DEF LoopTypes, TokenizerInv
  <2> QED
    BY <2>1, <2>2, LoopAdvances
<1>13. CASE Decl
  <2>1. HasTurn("decls") /\ Wrong = {} /\ EntryDone(2) /\ {0} \notin {DeclDirections, DeclTypes}
    BY <1>13 DEF Decl
  <2>2. 2 \in DOMAIN Required
    BY <2>1, RequiredLengths DEF HasTurn
  <2>3. at + 2 \in 1..(NumTokens + 1)
    BY <2>1, <2>2, EntryTurn
  <2> QED
    BY <2>1, <2>3, LoopAdvances
<1>14. CASE VarTaken
  <2>1. HasTurn("vars") /\ Wrong = {} /\ EntryDone(6)
    BY <1>14 DEF VarTaken, Turn
  <2>2. 6 \in DOMAIN Required
    BY <2>1, RequiredLengths DEF HasTurn
  <2>3. at + 6 \in 1..(NumTokens + 1)
    BY <2>1, <2>2, EntryTurn
  <2> QED
    BY <2>1, <2>3, LoopAdvances
<1>15. CASE DeclFails \/ VarUnusable \/ VarNotFound
  <2>1. \E loop \in Parsers, e \in {"JSON", "FATAL", "VAR_NOT_FOUND"} : HasTurn(loop) /\ ParserFails(e)
    BY <1>15, Zenon DEF DeclFails, VarUnusable, VarNotFound, Turn
  <2> QED
    BY <2>1, LoopFails
<1> QED
  BY <1>2, <1>3, <1>4, <1>5, <1>6, <1>7, <1>8, <1>9, <1>10, <1>11, <1>12, <1>13, <1>14, <1>15 DEF Next

-------------------------------------------------------------------------------
(* The device                                                              *)

\* The value behind a tag.
LEMMA ValueIsWords ==
    ASSUME WalkInv, Cursor + 1 \in DOMAIN tokens
    PROVE  Value \in Seq(Words)
BY TextIsWords DEF WalkInv, Value

\* atoll returns a number for every text.
LEMMA AtollIsNumber == \A w : Atoll(w) \in Int
<1>1. \A w \in DOMAIN Numbers : Numbers[w] \in Int
  BY TokenWalkAssumption, Zenon
<1> QED
  BY <1>1 DEF Atoll

\* A struct in the list gets its value, or no more than its time.
LEMMA VarKept ==
    ASSUME WalkInv, NEW v \in Listed, NEW last \in Int, NEW val \in Seq(Words)
    PROVE  /\ [var EXCEPT ![v].last = last] \in [Listed -> Structs]
           /\ [var EXCEPT ![v].last = last, ![v].val = val, ![v].set = TRUE] \in [Listed -> Structs]
<1>1. var \in [Listed -> Structs]
  BY DEF WalkInv, ObjectTypes
<1>2. var[v] \in Structs
  BY <1>1
<1> DEFINE r == [var[v] EXCEPT !.last = last]
           q == [var[v] EXCEPT !.last = last, !.val = val, !.set = TRUE]
<1>3. r \in Structs /\ q \in Structs
  BY <1>2 DEF Structs
<1>4. [var EXCEPT ![v] = r] \in [Listed -> Structs] /\ [var EXCEPT ![v] = q] \in [Listed -> Structs]
  <2> HIDE DEF r, q
  <2> QED
    BY <1>1, <1>3
<1>5. [var EXCEPT ![v].last = last, ![v].val = val, ![v].set = TRUE] = [var EXCEPT ![v] = q]
  BY <1>1
<1> QED
  BY <1>4, <1>5

\* A new struct has a type of the table.
LEMMA FreshIsStruct ==
    ASSUME NEW t \in Enums(Datatypes) \ {0}
    PROVE  Fresh(t) \in Structs
<1>1. "no value" \in Words
  BY TokenWalkAssumption, Zenon
<1>2. \A w \in Words : <<w>> \in Seq(Words)
  OBVIOUS
<1>3. NoValue \in Seq(Words)
  BY <1>1, <1>2, Zenon DEF NoValue
<1> QED
  BY <1>3 DEF Fresh, Structs

\* A declaration puts a struct in front of the list, unless there is one of its name.
LEMMA DeclKept ==
    ASSUME WalkInv, Decl
    PROVE  list' \in Seq(Words) /\ var' \in [Listed -> Structs]'
<1> DEFINE w == Word(3)
<1>1. PICK t \in DeclTypes \ {0} :
         IF w \in Listed THEN UNCHANGED <<list, var>>
         ELSE /\ list' = <<w>> \o list
              /\ var' = [v \in DOMAIN var \union {w} |-> IF v = w THEN Fresh(t) ELSE var[v]]
  BY Zenon DEF Decl
<1>2. list \in Seq(Words) /\ var \in [Listed -> Structs]
  BY DEF WalkInv, ObjectTypes
<1>3. w \in Words
  BY NameIsWords DEF WalkInv
<1>4. Fresh(t) \in Structs
  BY FoundIsEnum, FreshIsStruct DEF DeclTypes
<1> HIDE DEF w
<1>5. CASE w \in Listed
  BY <1>1, <1>2, <1>5 DEF Listed
<1>6. CASE w \notin Listed
  <2>1. list' = <<w>> \o list
    BY <1>1, <1>6
  <2>2. /\ list' \in Seq(Words) /\ DOMAIN list' = 1..(Len(list) + 1) /\ DOMAIN list = 1..Len(list)
        /\ list'[1] = w /\ \A k \in 1..Len(list) : list'[k + 1] = list[k]
        /\ Len(list) \in Nat
    BY <1>2, <1>3, <2>1
  <2>3. Listed' = Listed \union {w}
    <3>1. ASSUME NEW k \in 1..(Len(list) + 1)
          PROVE  list'[k] \in Listed \union {w}
      <4>1. CASE k = 1
        BY <2>2, <4>1
      <4>2. CASE k # 1
        <5>1. k - 1 \in 1..Len(list) /\ (k - 1) + 1 = k
          BY <2>2, <4>2
        <5> QED
          BY <2>2, <5>1 DEF Listed
      <4> QED
        BY <4>1, <4>2
    <3>2. ASSUME NEW k \in 1..Len(list)
          PROVE  list[k] \in Listed'
      <4>1. k + 1 \in 1..(Len(list) + 1)
        BY <2>2
      <4> QED
        BY <2>2, <4>1 DEF Listed
    <3>3. w \in Listed'
      <4>1. 1 \in 1..(Len(list) + 1)
        BY <2>2
      <4> QED
        BY <2>2, <4>1 DEF Listed
    <3> QED
      BY <2>2, <3>1, <3>2, <3>3 DEF Listed
  <2>4. var' = [v \in Listed' |-> IF v = w THEN Fresh(t) ELSE var[v]]
    BY <1>1, <1>2, <1>6, <2>3
  <2>5. var' \in [Listed' -> Structs]
    BY <1>2, <1>4, <2>3, <2>4
  <2> QED
    BY <2>2, <2>5
<1> QED
  BY <1>5, <1>6

\* The walk puts texts, numbers and enums into the device, each where it belongs.
LEMMA ObjectStep ==
    ASSUME WalkInv, Next
    PROVE  ObjectTypes'
<1>1. ObjectTypes
  BY DEF WalkInv
<1>2. CASE UNCHANGED <<list, var, text, ids, remote>>
  BY <1>1, <1>2 DEF ObjectTypes, Listed
<1>3. ASSUME NEW f \in Ids, IdTag(f)
      PROVE  ObjectTypes'
  <2>1. HasTurn("tag") /\ Wrong = {} /\ ids' = [ids EXCEPT ![f] = Value] /\ UNCHANGED <<list, var, text, remote>>
    BY <1>3 DEF IdTag, Turn
  <2>2. Value \in Seq(Words)
    BY <2>1, TagTurn, ValueIsWords DEF Cursor
  <2>3. ids' \in [Ids -> Seq(Words)]
    BY <1>1, <2>1, <2>2 DEF ObjectTypes
  <2>4. Listed' = Listed
    BY <2>1 DEF Listed
  <2> QED
    BY <1>1, <2>1, <2>3, <2>4 DEF ObjectTypes
<1>4. ASSUME NEW f \in Fields, TextTag(f)
      PROVE  ObjectTypes'
  <2>1. HasTurn("tag") /\ Wrong = {} /\ text' = [text EXCEPT ![f] = TextTaken(f)] /\ UNCHANGED <<list, var, ids, remote>>
    BY <1>4 DEF TextTag, Turn
  <2>2. Value \in Seq(Words)
    BY <2>1, TagTurn, ValueIsWords DEF Cursor
  <2>3. TextTaken(f) \in [val : Seq(Words), dirty : BOOLEAN]
    BY <2>2 DEF TextTaken
  <2>4. text' \in [Fields -> [val : Seq(Words), dirty : BOOLEAN]]
    BY <1>1, <2>1, <2>3 DEF ObjectTypes
  <2>5. Listed' = Listed
    BY <2>1 DEF Listed
  <2> QED
    BY <1>1, <2>1, <2>4, <2>5 DEF ObjectTypes
<1>5. CASE WsConnected \/ ActiveStatus \/ LastActivity
  <2>1. /\ HasTurn("status") /\ Wrong = {} /\ Name \in StatusTags /\ UNCHANGED <<list, var, text, ids>>
        /\ \/ \E b \in BOOLEAN : remote' = [remote EXCEPT !.ws_connected = b]
           \/ \E s \in FromName(ActivityStatuses, IF Value = <<>> THEN "" ELSE Value[1], PtrBytes) :
                 remote' = [remote EXCEPT !.active_status = s]
           \/ remote' = [remote EXCEPT !.last_activity = Atoll(Value)]
    BY <1>5, Zenon DEF WsConnected, ActiveStatus, LastActivity, Turn, StatusTags
  <2>2. Atoll(Value) \in Int
    BY AtollIsNumber
  <2>3. \A s \in FromName(ActivityStatuses, IF Value = <<>> THEN "" ELSE Value[1], PtrBytes) :
           s \in Enums(ActivityStatuses)
    BY FoundIsEnum, Zenon
  <2>4. remote' \in [ws_connected : BOOLEAN, active_status : Enums(ActivityStatuses), last_activity : Int]
    <3>1. \/ \E b \in BOOLEAN : remote' = [remote EXCEPT !.ws_connected = b]
          \/ \E s \in Enums(ActivityStatuses) : remote' = [remote EXCEPT !.active_status = s]
          \/ \E n \in Int : remote' = [remote EXCEPT !.last_activity = n]
      BY <2>1, <2>2, <2>3, Zenon
    <3>2. remote \in [ws_connected : BOOLEAN, active_status : Enums(ActivityStatuses), last_activity : Int]
      BY <1>1 DEF ObjectTypes
    <3> DEFINE S == Enums(ActivityStatuses)
    <3> HIDE DEF S
    <3>3. remote \in [ws_connected : BOOLEAN, active_status : S, last_activity : Int]
      BY <3>2 DEF S
    <3>4. ASSUME NEW b \in BOOLEAN, remote' = [remote EXCEPT !.ws_connected = b]
          PROVE  remote' \in [ws_connected : BOOLEAN, active_status : S, last_activity : Int]
      BY <3>3, <3>4
    <3>5. ASSUME NEW s \in S, remote' = [remote EXCEPT !.active_status = s]
          PROVE  remote' \in [ws_connected : BOOLEAN, active_status : S, last_activity : Int]
      BY <3>3, <3>5
    <3>6. ASSUME NEW n \in Int, remote' = [remote EXCEPT !.last_activity = n]
          PROVE  remote' \in [ws_connected : BOOLEAN, active_status : S, last_activity : Int]
      BY <3>3, <3>6
    <3> QED
      BY <3>1, <3>4, <3>5, <3>6 DEF S
  <2>5. UNCHANGED <<list, var, text, ids>>
    BY <2>1
  <2> QED
    BY <1>1, <2>4, <2>5 DEF ObjectTypes, Listed
<1>6. CASE Decl
  BY <1>1, <1>6, DeclKept DEF ObjectTypes, Decl
<1>7. CASE VarTaken \/ VarUnusable
  <2>1. /\ HasTurn("vars") /\ Wrong = {} /\ Name \in {<<v>> : v \in Listed}
        /\ UNCHANGED <<list, text, ids, remote>>
        /\ \/ var' = [var EXCEPT ![Name[1]].last = EntryTime, ![Name[1]].val = EntryValue, ![Name[1]].set = TRUE]
           \/ var' = [var EXCEPT ![Name[1]].last = EntryTime]
    BY <1>7 DEF VarTaken, VarUnusable, Turn
  <2>2. Name[1] \in Listed
    BY <2>1
  <2>3. EntryTime \in Int
    BY AtollIsNumber DEF EntryTime
  <2>4. EntryValue \in Seq(Words)
    <3>1. at + 6 - 1 \in DOMAIN tokens
      BY <2>1, RequiredLengths, EntryTurn DEF HasTurn, Parsers
    <3>2. at + 6 - 1 = at + 5
      BY DEF WalkInv, LoopTypes
    <3> QED
      BY <3>1, <3>2, TextIsWords DEF EntryValue, WalkInv
  <2> DEFINE v == Name[1]
             last == EntryTime
             val == EntryValue
  <2>5. var' \in [Listed -> Structs]
    <3>1. v \in Listed /\ last \in Int /\ val \in Seq(Words)
      BY <2>2, <2>3, <2>4
    <3>2. \/ var' = [var EXCEPT ![v].last = last, ![v].val = val, ![v].set = TRUE]
          \/ var' = [var EXCEPT ![v].last = last]
      BY <2>1
    <3> HIDE DEF v, last, val
    <3>3. /\ [var EXCEPT ![v].last = last] \in [Listed -> Structs]
          /\ [var EXCEPT ![v].last = last, ![v].val = val, ![v].set = TRUE] \in [Listed -> Structs]
      BY <3>1, VarKept
    <3> QED
      BY <3>2, <3>3, Zenon
  <2>6. Listed' = Listed
    BY <2>1 DEF Listed
  <2> QED
    BY <1>1, <2>1, <2>5, <2>6 DEF ObjectTypes
<1>8. \/ UNCHANGED <<list, var, text, ids, remote>>
      \/ \E f \in Ids : IdTag(f)
      \/ \E f \in Fields : TextTag(f)
      \/ WsConnected \/ ActiveStatus \/ LastActivity \/ Decl \/ VarTaken \/ VarUnusable
  BY Zenon DEF Next, Tokenize, TokenizerFails, AssertFails, Enter, Return, CallParser, ResultTag,
     UnknownTag, ParserReturns, UnknownStatus, SearchRunsOff, DeclFails, VarNotFound, walk, object
<1> QED
  BY <1>2, <1>3, <1>4, <1>5, <1>6, <1>7, <1>8

\* The device before the call: some structs, texts of its own, and no status.
LEMMA WalkStarts == Init => WalkInv
<1> SUFFICES ASSUME Init
             PROVE  WalkInv
  OBVIOUS
<1>1. TokenizerInv /\ NumTokens \in Nat \ {0}
  BY TokenizerStarts, TokenizerAssumption DEF Init
<1>2. LoopTypes
  BY <1>1 DEF Init, LoopTypes, Loops, Parsers
<1>3. ObjectTypes
  <2>1. list \in Seq(Words) /\ {"old", "true"} \subseteq Words
    BY TokenWalkAssumption, Zenon DEF Init
  <2>2. <<"old">> \in Seq(Words) /\ <<"true">> \in Seq(Words)
    BY <2>1
  <2>3. 3 \in Enums(Datatypes) \ {0} /\ 0 \in Enums(ActivityStatuses)
    <3>1. 4 \in DOMAIN Datatypes /\ Datatypes[4][1] = 3
      BY DEF Datatypes
    <3>2. 1 \in DOMAIN ActivityStatuses /\ ActivityStatuses[1][1] = 0
      BY DEF ActivityStatuses
    <3> QED
      BY <3>1, <3>2 DEF Enums
  <2>4. Fresh(3) \in Structs
    BY <2>3, FreshIsStruct
  <2> DEFINE s == [Fresh(3) EXCEPT !.set = TRUE, !.dirty = TRUE, !.val = <<"true">>]
  <2>5. s \in Structs
    BY <2>2, <2>4 DEF Structs
  <2>6. var = [v \in Listed |-> s]
    BY DEF Init
  <2> HIDE DEF s
  <2>7. var \in [Listed -> Structs]
    BY <2>5, <2>6
  <2>8. text \in [Fields -> [val : Seq(Words), dirty : BOOLEAN]] /\ ids \in [Ids -> Seq(Words)]
    BY <2>2 DEF Init
  <2>9. remote \in [ws_connected : BOOLEAN, active_status : Enums(ActivityStatuses), last_activity : Int]
    BY <2>3 DEF Init
  <2> QED
    BY <2>1, <2>7, <2>8, <2>9 DEF ObjectTypes
<1> QED
  BY <1>1, <1>2, <1>3 DEF WalkInv

\* Every step keeps the walk in the array and its device typed.
LEMMA StepKeeps ==
    ASSUME WalkInv, [Next]_vars
    PROVE  WalkInv'
<1>1. ASSUME WalkInv, Next
      PROVE  TokenizerInv'
  BY <1>1, TokenizerKept DEF WalkInv
<1>2. ASSUME WalkInv, UNCHANGED vars
      PROVE  WalkInv'
  <2>1. UNCHANGED tokenizer /\ TokenizerInv
    BY <1>2 DEF vars, tokenizer, WalkInv
  <2>2. LoopTypes' /\ ObjectTypes'
    BY <1>2 DEF vars, WalkInv, LoopTypes, OffsetStray, ObjectTypes, Listed
  <2> QED
    BY <2>1, <2>2, TokenizerKept DEF WalkInv
<1> QED
  BY <1>1, <1>2, LoopStep, ObjectStep DEF WalkInv

\* For an array and a body of every length, and wherever its sizes lead the loops: each of them stays
\* in the token array or just behind it, also when it goes on behind the last success of a parser that
\* has failed, with counters that never go below zero, and takes texts, numbers and enums of its own
\* tables into the device.  The offset of c_json_parse_device alone can be any int, once the first
\* parser that was called has failed; then an error is noted, and no token is taken there: the call
\* returns the error, or ends reading a token that is not there.
THEOREM LoopsStayInArray == Spec => []TypeOK
<1> QED
  BY StepKeeps, WalkStarts, TypesFollow, PTL DEF Spec

-------------------------------------------------------------------------------
(* The steps that are left                                                 *)

\* A member of the answer costs its turn, and if a parser is called for it the turns of the parser's
\* loop and the return: the object that it walks has at most as many entries as there are tokens.
PerMember == NumTokens + 2

StepsLeft ==
    CASE pc = "tokenize" -> (IF rc = "running" THEN Len(js) + 2 - pos ELSE 0) + NumTokens * PerMember + 2
      [] pc = "tag"      -> left * PerMember + 1
      [] pc \in Parsers  -> (left - 1) * PerMember + rest + 2
      [] OTHER           -> 0

\* A turn of the loop less is a member's share less.
LEMMA MembersShare ==
    ASSUME WalkInv
    PROVE  /\ left * PerMember \in Nat /\ left * PerMember =< NumTokens * PerMember
           /\ NumTokens * PerMember \in Nat /\ PerMember = NumTokens + 2 /\ NumTokens \in Nat
           /\ left > 0 => /\ left * PerMember = (left - 1) * PerMember + PerMember
                          /\ (left - 1) * PerMember \in Nat
<1>1. left \in Nat /\ left =< NumTokens /\ NumTokens \in Nat
  BY TokenizerTypes DEF WalkInv, TokenizerInv, LoopTypes
<1>2. PerMember = NumTokens + 2 /\ PerMember \in Nat
  BY <1>1 DEF PerMember
<1>3. ASSUME NEW n \in Nat, NEW m \in Nat, NEW w \in Nat, n =< m
      PROVE  n * w \in Nat /\ n * w =< m * w
  BY <1>3
<1>4. ASSUME NEW n \in Nat, NEW w \in Nat, n > 0
      PROVE  n * w = (n - 1) * w + w /\ (n - 1) * w \in Nat
  BY <1>4
<1>5. NumTokens * PerMember \in Nat
  BY <1>1, <1>2, <1>3
<1>6. left * PerMember \in Nat /\ left * PerMember =< NumTokens * PerMember
  BY <1>1, <1>2, <1>3
<1> QED
  BY <1>1, <1>2, <1>4, <1>5, <1>6

\* In each loop there are as many as its counter says.
LEMMA StepsOfLoop ==
    /\ pc = "tokenize" => StepsLeft = (IF rc = "running" THEN Len(js) + 2 - pos ELSE 0)
                                      + NumTokens * PerMember + 2
    /\ pc = "tag"      => StepsLeft = left * PerMember + 1
    /\ pc \in Parsers  => StepsLeft = (left - 1) * PerMember + rest + 2
    /\ pc \in Ends     => StepsLeft = 0
BY DEF StepsLeft, Parsers, Ends

\* There are some until the call ends.
LEMMA StepsAreLeft ==
    ASSUME WalkInv
    PROVE  StepsLeft \in Nat /\ (pc \notin Ends => StepsLeft > 0)
<1>1. /\ pc \in {"tokenize", "tag"} \union Parsers \union Ends /\ rest \in Nat /\ (pc \in Parsers => left > 0)
      /\ pos \in Nat /\ Len(js) \in Nat /\ pos =< Len(js) + 1
  BY TokenizerTypes DEF WalkInv, TokenizerInv, LoopTypes, Loops, Parsers
<1>2. CASE pc = "tokenize"
  <2> DEFINE p == NumTokens * PerMember
  <2>1. p \in Nat /\ StepsLeft = (IF rc = "running" THEN Len(js) + 2 - pos ELSE 0) + p + 2
    BY <1>2, MembersShare, StepsOfLoop
  <2> HIDE DEF p
  <2> QED
    BY <1>1, <2>1
<1>3. CASE pc = "tag"
  <2> DEFINE p == left * PerMember
  <2>1. p \in Nat /\ StepsLeft = p + 1
    BY <1>3, MembersShare, StepsOfLoop
  <2> HIDE DEF p
  <2> QED
    BY <2>1
<1>4. CASE pc \in Parsers
  <2> DEFINE p == (left - 1) * PerMember
  <2>1. p \in Nat /\ StepsLeft = p + rest + 2
    BY <1>1, <1>4, MembersShare, StepsOfLoop
  <2> HIDE DEF p
  <2> QED
    BY <1>1, <2>1
<1>5. CASE pc \in Ends
  BY <1>5, StepsOfLoop
<1> QED
  BY <1>1, <1>2, <1>3, <1>4, <1>5

\* A lexeme is behind the tokenizer, or it returns.
LEMMA LexemeCounts ==
    ASSUME WalkInv, Tokenize
    PROVE  StepsLeft' < StepsLeft
<1>1. /\ pc = "tokenize" /\ pc' = pc /\ rc = "running" /\ js' = js
      /\ (rc' = "running" /\ pos' = pos + 1) \/ rc' \in {"ok", "NOMEM", "INVAL", "PART"}
  <2>1. pc = "tokenize" /\ pc' = pc /\ TokenizerNext
    BY DEF Tokenize, walk
  <2>2. rc = "running" /\ js' = js /\ ((rc' = rc /\ pos' = pos + 1) \/ rc' \in {"ok", "NOMEM", "INVAL", "PART"})
    BY <2>1 DEF TokenizerNext, NoToken, OpenContainer, CloseContainer, CloseMismatch, Leaf, BadLeaf, Colon,
                Comma, End, Here, Running
  <2> QED
    BY <2>1, <2>2
<1>2. pos \in Nat /\ Len(js) \in Nat /\ pos =< Len(js) + 1
  BY TokenizerTypes DEF WalkInv, TokenizerInv
<1> DEFINE p == NumTokens * PerMember
<1>3. p \in Nat /\ StepsLeft = Len(js) + 2 - pos + p + 2
  BY <1>1, MembersShare, StepsOfLoop
<1>4. StepsLeft' = (IF rc' = "running" THEN Len(js) + 2 - pos' ELSE 0) + p + 2
  BY <1>1 DEF StepsLeft, PerMember, Parsers
<1> HIDE DEF p
<1>5. rc' # "running" => StepsLeft' = p + 2
  BY <1>3, <1>4
<1>6. rc' = "running" => StepsLeft' = Len(js) + 2 - pos' + p + 2
  BY <1>4
<1> QED
  BY <1>1, <1>2, <1>3, <1>5, <1>6

\* A turn of the loop in c_json_parse_device takes the share of its member: what a parser that it
\* calls may use up, and a step for the call.
LEMMA TagCounts ==
    ASSUME WalkInv, pc = "tag", left > 0,
           \/ pc' = "tag" /\ left' = left - 1
           \/ pc' \in Parsers /\ left' = left /\ rest' \in 0..NumTokens
           \/ pc' \in Ends
    PROVE  StepsLeft' < StepsLeft
<1> DEFINE p == (left - 1) * PerMember
<1>1. left \in Nat /\ NumTokens \in Nat
  BY TokenizerTypes DEF WalkInv, TokenizerInv, LoopTypes
<1>2. p \in Nat /\ StepsLeft = p + (NumTokens + 2) + 1
  BY MembersShare, StepsOfLoop
<1>3. pc' = "tag" /\ left' = left - 1 => StepsLeft' = p + 1
  BY DEF StepsLeft, PerMember, Parsers
<1>4. pc' \in Parsers /\ left' = left => StepsLeft' = p + rest' + 2
  BY DEF StepsLeft, PerMember, Parsers
<1>5. pc' \in Ends => StepsLeft' = 0
  BY DEF StepsLeft, Ends, Parsers
<1> HIDE DEF p
<1> QED
  BY <1>1, <1>2, <1>3, <1>4, <1>5

\* A turn of a parser's loop takes one of its entries, its return or its failure the member.
LEMMA EntryCounts ==
    ASSUME WalkInv, pc \in Parsers,
           \/ pc' = pc /\ left' = left /\ rest' = rest - 1
           \/ pc' = "tag" /\ left' = left - 1
    PROVE  StepsLeft' < StepsLeft
<1> DEFINE p == (left - 1) * PerMember
<1>1. left \in Nat /\ left > 0 /\ rest \in Nat
  BY DEF WalkInv, LoopTypes
<1>2. p \in Nat /\ StepsLeft = p + rest + 2
  BY <1>1, MembersShare, StepsOfLoop
<1>3. pc' = "tag" /\ left' = left - 1 => StepsLeft' = p + 1
  BY DEF StepsLeft, PerMember, Parsers
<1>4. pc' = pc /\ left' = left /\ rest' = rest - 1 => StepsLeft' = p + (rest - 1) + 2
  BY DEF StepsLeft, PerMember, Parsers
<1> HIDE DEF p
<1> QED
  BY <1>1, <1>2, <1>3, <1>4

\* Every step of the call takes one at least off the steps that are left, wherever the offsets jump to
\* and whatever the sizes are: the call ends after as many as a number that the lengths of the body and
\* of the array fix.  It is the part of WalkEnds that does not need fairness.
THEOREM EveryStepCounts == Spec => [](StepsLeft \in Nat) /\ [][StepsLeft' < StepsLeft]_vars
<1>1. ASSUME WalkInv, Next
      PROVE  StepsLeft' < StepsLeft
  <2> USE <1>1
  <2>1. CASE Tokenize
    BY <2>1, LexemeCounts
  <2>2. CASE TokenizerFails \/ AssertFails \/ Return \/ SearchRunsOff
    <3>1. pc' \in Ends /\ pc \notin Ends
      BY <2>2, Zenon DEF TokenizerFails, AssertFails, Return, SearchRunsOff, HasTurn, Turn, Ends, Loops
    <3>2. StepsLeft' = 0
      BY <3>1 DEF StepsLeft, Ends, Parsers
    <3> QED
      BY <3>1, <3>2, StepsAreLeft
  <2>3. CASE Enter
    <3>1. pc = "tokenize" /\ rc = "ok" /\ pc' = "tag" /\ left' = tokens[1].size
      BY <2>3 DEF Enter, HasTurn
    <3>2. WalkInv'
      BY StepKeeps
    <3> DEFINE p == NumTokens * PerMember
               q == left' * PerMember
    <3>3. StepsLeft = p + 2 /\ p \in Nat
      BY <3>1, StepsOfLoop, MembersShare
    <3>4. StepsLeft' = q + 1
      BY <3>1 DEF StepsLeft, PerMember, Parsers
    <3>5. q \in Nat /\ q =< p
      <4>1. left' \in Nat /\ left' =< NumTokens /\ NumTokens \in Nat
        BY <3>2, TokenizerTypes DEF WalkInv, TokenizerInv, LoopTypes
      <4>2. PerMember \in Nat
        BY <4>1 DEF PerMember
      <4>3. ASSUME NEW n \in Nat, NEW m \in Nat, NEW w \in Nat, n =< m
            PROVE  n * w \in Nat /\ n * w =< m * w
        BY <4>3
      <4> QED
        BY <4>1, <4>2, <4>3
    <3> HIDE DEF p, q
    <3> QED
      BY <3>3, <3>4, <3>5
  <2>4. CASE CallParser
    <3>1. pc = "tag" /\ left > 0 /\ pc' \in Parsers /\ left' = left
      BY <2>4, Zenon DEF CallParser, Turn, HasTurn, Loop, Parsers
    <3>2. rest' \in 0..NumTokens
      BY StepKeeps DEF WalkInv, LoopTypes
    <3> QED
      BY <3>1, <3>2, TagCounts
  <2>5. CASE ResultTag \/ (\E f \in Ids : IdTag(f)) \/ (\E f \in Fields : TextTag(f)) \/ UnknownTag
    <3>1. /\ pc = "tag" /\ left > 0
          /\ \/ pc' = "tag" /\ left' = left - 1
             \/ pc' \in Ends
      BY <2>5 DEF ResultTag, IdTag, TextTag, UnknownTag, Turn, HasTurn, MemberDone, Ends
    <3> QED
      BY <3>1, TagCounts
  <2>6. CASE ParserReturns
    BY <2>6, EntryCounts DEF ParserReturns, Parsers
  <2>7. CASE WsConnected \/ ActiveStatus \/ LastActivity \/ UnknownStatus \/ Decl \/ VarTaken
    <3>1. pc \in Parsers /\ pc' = pc /\ left' = left /\ rest' = rest - 1
      <4>1. (\E loop \in Parsers : HasTurn(loop)) /\ (\E n \in {0, 2, 6} : EntryDone(n))
        BY <2>7, Zenon DEF WsConnected, ActiveStatus, LastActivity, UnknownStatus, Decl, VarTaken, Turn, Parsers
      <4> QED
        BY <4>1 DEF HasTurn, EntryDone
    <3> QED
      BY <3>1, EntryCounts
  <2>8. CASE DeclFails \/ VarUnusable \/ VarNotFound
    <3>1. pc \in Parsers /\ pc' = "tag" /\ left' = left - 1
      <4>1. (\E loop \in Parsers : HasTurn(loop)) /\ (\E e \in {"JSON", "FATAL", "VAR_NOT_FOUND"} : ParserFails(e))
        BY <2>8, Zenon DEF DeclFails, VarUnusable, VarNotFound, Turn, Parsers
      <4> QED
        BY <4>1 DEF HasTurn, ParserFails
    <3> QED
      BY <3>1, EntryCounts
  <2> QED
    BY <2>1, <2>2, <2>3, <2>4, <2>5, <2>6, <2>7, <2>8 DEF Next
<1>2. WalkInv /\ [Next]_vars => WalkInv'
  BY StepKeeps
<1>3. WalkInv => StepsLeft \in Nat
  BY StepsAreLeft
<1>4. WalkInv /\ [Next]_vars => [StepsLeft' < StepsLeft]_vars
  BY <1>1
<1> QED
  BY <1>2, <1>3, <1>4, WalkStarts, PTL DEF Spec

===============================================================================
