--------------------------- MODULE DeviceSyncProofs ---------------------------
(***************************************************************************)
(* What DeviceSync guarantees for every set of variables, values and texts *)
(* and every buffer size: its types, the consistency of the variable list, *)
(* that nothing owed is lost on the way, that a push which returns SUCCESS *)
(* has delivered what was dirty and only a failed one forgets, and that a  *)
(* text of a device is a field which is mirrored with a server.            *)
(***************************************************************************)
EXTENDS DeviceSync, FiniteSetTheorems, TLAPS

-------------------------------------------------------------------------------
(* The order in which a response lists its variables                       *)

\* An order of S is a sequence without repetitions whose range is S: what
\* c_json_parse_vardcl pushes, one struct per unknown name.
LEMMA OrderProperties ==
    ASSUME NEW S \in SUBSET Vars, NEW o \in Orders(S)
    PROVE  /\ o \in Seq(S)
           /\ DOMAIN o = 1..Len(o)
           /\ S = {o[i] : i \in DOMAIN o}
           /\ \A i, j \in DOMAIN o : o[i] = o[j] => i = j
<1> DEFINE n == Cardinality(S)
<1>1. IsFiniteSet(S) /\ n \in Nat
  BY FS_Subset, FS_CardinalityType, DeviceSyncAssumption
<1>2. o \in [1..n -> S] /\ (\A x \in S : \E i \in 1..n : o[i] = x)
  BY DEF Orders
<1>3. o \in Seq(S) /\ DOMAIN o = 1..n /\ Len(o) = n
  BY <1>1, <1>2
<1>4. o \in Surjection(1..n, S)
  BY <1>2 DEF Surjection
<1>5. IsFiniteSet(1..n) /\ Cardinality(1..n) = n
  BY <1>1, FS_Interval
<1>6. o \in Injection(1..n, S)
  <2> HIDE DEF n
  <2> QED BY <1>4, <1>5, FS_SurjSameCardinalityImpliesInj DEF n
<1>7. \A i, j \in 1..n : o[i] = o[j] => i = j
  BY <1>6, <1>2 DEF Injection, IsInjective
<1> QED BY <1>2, <1>3, <1>7

\* Putting a repetition-free sequence of unlisted names in front of the list
\* leaves a repetition-free list of both.
LEMMA PrependProperties ==
    ASSUME NEW o \in Seq(Vars), NEW l \in Seq(Vars),
           \A i, j \in DOMAIN o : o[i] = o[j] => i = j,
           \A i, j \in DOMAIN l : l[i] = l[j] => i = j,
           \A i \in DOMAIN o, j \in DOMAIN l : o[i] # l[j]
    PROVE  /\ o \o l \in Seq(Vars)
           /\ \A i, j \in DOMAIN (o \o l) : (o \o l)[i] = (o \o l)[j] => i = j
           /\ {(o \o l)[i] : i \in DOMAIN (o \o l)}
                = {o[i] : i \in DOMAIN o} \union {l[i] : i \in DOMAIN l}
<1> DEFINE c == o \o l
<1>1. c \in Seq(Vars) /\ Len(c) = Len(o) + Len(l) /\ DOMAIN c = 1..(Len(o) + Len(l))
  OBVIOUS
<1>2. \A i \in 1..Len(o) : c[i] = o[i]
  OBVIOUS
<1>3. \A i \in 1..Len(l) : c[Len(o) + i] = l[i]
  OBVIOUS
<1>4. \A i \in DOMAIN c : i \in 1..Len(o) \/ (i - Len(o) \in 1..Len(l) /\ c[i] = l[i - Len(o)])
  OBVIOUS
<1>5. Len(o) \in Nat /\ Len(l) \in Nat /\ DOMAIN o = 1..Len(o) /\ DOMAIN l = 1..Len(l)
  OBVIOUS
<1> HIDE DEF c
<1>6. ASSUME NEW i \in DOMAIN c, NEW j \in DOMAIN c, c[i] = c[j]
      PROVE  i = j
  <2>1. CASE i \in 1..Len(o) /\ j \in 1..Len(o)
    BY <1>2, <1>5, <1>6, <2>1
  <2>2. CASE i \notin 1..Len(o) /\ j \notin 1..Len(o)
    <3>1. l[i - Len(o)] = l[j - Len(o)] /\ i - Len(o) \in DOMAIN l /\ j - Len(o) \in DOMAIN l
      BY <1>4, <1>5, <1>6, <2>2
    <3>2. i - Len(o) = j - Len(o)
      BY <3>1
    <3> QED BY <3>2, <1>1, <1>5
  <2>3. CASE i \in 1..Len(o) /\ j \notin 1..Len(o)
    BY <1>2, <1>4, <1>5, <1>6, <2>3
  <2>4. CASE i \notin 1..Len(o) /\ j \in 1..Len(o)
    BY <1>2, <1>4, <1>5, <1>6, <2>4
  <2> QED BY <2>1, <2>2, <2>3, <2>4
<1>7. {c[i] : i \in DOMAIN c} = {o[i] : i \in DOMAIN o} \union {l[i] : i \in DOMAIN l}
  <2>1. \A i \in DOMAIN o : i \in DOMAIN c /\ c[i] = o[i]
    BY <1>1, <1>2, <1>5
  <2>2. \A i \in DOMAIN l : Len(o) + i \in DOMAIN c /\ c[Len(o) + i] = l[i]
    BY <1>1, <1>3, <1>5
  <2>3. \A i \in DOMAIN c : \/ i \in DOMAIN o /\ c[i] = o[i]
                            \/ i - Len(o) \in DOMAIN l /\ c[i] = l[i - Len(o)]
    BY <1>2, <1>4, <1>5
  <2> QED BY <2>1, <2>2, <2>3
<1> QED BY <1>1, <1>6, <1>7 DEF c

-------------------------------------------------------------------------------
(* Type correctness                                                        *)

\* A new struct has the type of structs.
LEMMA FreshType == ASSUME NEW t \in Types \union {NoType} PROVE Fresh(t) \in VarStruct
BY DEF Fresh, VarStruct

\* Every request is a message, and what it carries of a dirty text is a pair of
\* a tag and that text.
LEMMA RequestType ==
    ASSUME TypeOK, NEW whole \in BOOLEAN
    PROVE  GetRequest \in Message /\ PostRequest(whole) \in Message
<1>1. GetRequest \in Message
  BY DEF GetRequest, Message
<1>2. WellFormed(whole) \in BOOLEAN
  BY DEF WellFormed
<1>3. [v \in Vars |-> IF v \in Declared THEN var[v].type ELSE NoType]
        \in [Vars -> Types \union {NoType}]
  BY DEF TypeOK, VarStruct
<1>4. [v \in Vars |-> IF Sent(v) THEN var[v].val ELSE NoValue] \in [Vars -> Values \union {NoValue}]
  BY DEF TypeOK, VarStruct
<1>5. {<<EmitTag(f), text[f].val>> : f \in DirtyText}
        \in SUBSET ((Fields \union {"friendly_names"}) \X Texts)
  BY DEF TypeOK, DirtyText, EmitTag, Fields
<1>6. PostRequest(whole) \in Message
  BY <1>2, <1>3, <1>4, <1>5 DEF PostRequest, Message
<1> QED BY <1>1, <1>6

\* What is kept of a text is a text.
LEMMA StoredType == ASSUME NEW t \in Texts PROVE Stored(t) \in Texts \ JsonTexts
BY DeviceSyncAssumption DEF Stored

\* What the server holds after a request is again a server state.
LEMMA MergedType ==
    ASSUME TypeOK, net.tag = "request"
    PROVE  Merged(net) \in ServerState
<1> DEFINE news == {v \in Vars : net.val[v] # NoValue}
           now  == IF news = {} THEN server.clock ELSE server.clock + 1
<1>1. /\ net.type \in [Vars -> Types \union {NoType}]
      /\ net.val \in [Vars -> Values \union {NoValue}]
  BY DEF TypeOK, Message, NoMsg
<1>2. /\ server.type \in [Vars -> Types \union {NoType}]
      /\ server.val \in [Vars -> Values \union {NoValue}]
      /\ server.time \in [Vars -> Nat]
      /\ server.text \in [Fields -> Texts \ JsonTexts]
      /\ server.clock \in Nat
  BY DEF TypeOK, ServerState
<1>3. now \in Nat
  BY <1>2
<1>4. \A f \in Fields : (IF \E t \in Texts : <<f, t>> \in net.text
                         THEN Stored(CHOOSE t \in Texts : <<f, t>> \in net.text)
                         ELSE server.text[f]) \in Texts \ JsonTexts
  <2> SUFFICES ASSUME NEW f \in Fields, \E t \in Texts : <<f, t>> \in net.text
               PROVE  Stored(CHOOSE t \in Texts : <<f, t>> \in net.text) \in Texts \ JsonTexts
    BY <1>2
  <2>1. (CHOOSE t \in Texts : <<f, t>> \in net.text) \in Texts
    OBVIOUS
  <2> QED BY <2>1, StoredType
<1> HIDE DEF now, news
<1> QED BY <1>1, <1>2, <1>3, <1>4 DEF Merged, ServerState, now, news

\* Parsing a response leaves every part of the device with its type.
LEMMA ParseType ==
    ASSUME TypeOK, NEW body \in ServerState, ParseDevice(body)
    PROVE  /\ list' \in Seq(Vars)
           /\ var' \in [Vars -> VarStruct]
           /\ text' \in [Fields -> [val : Texts, dirty : BOOLEAN]]
           /\ reached' \subseteq Vars \union Fields
           /\ result' \in Results
<1>1. list' \in Seq(Vars)
  <2>1. NewVars(body) \in SUBSET Vars
    BY DEF NewVars
  <2>2. PICK order \in Orders(NewVars(body)) : list' = order \o list
    BY DEF ParseDevice
  <2>3. order \in Seq(Vars)
    BY <2>1, <2>2, OrderProperties
  <2> QED BY <2>2, <2>3 DEF TypeOK
<1>2. AfterDecls(body) \in [Vars -> VarStruct]
  BY FreshType DEF AfterDecls, TypeOK, ServerState
<1>3. ASSUME NEW done \in SUBSET Present(body), NEW stop
      PROVE  AfterVars(body, done, stop) \in [Vars -> VarStruct]
  <2>1. \A v \in Vars : body.time[v] \in Nat /\ body.val[v] \in Values \union {NoValue}
    BY DEF ServerState
  <2>2. \A v \in Vars : /\ Taken(AfterDecls(body), body, v) \in VarStruct
                        /\ [AfterDecls(body)[v] EXCEPT !.last = body.time[v]] \in VarStruct
    BY <1>2, <2>1 DEF Taken, VarStruct
  <2> QED BY <1>2, <2>2 DEF AfterVars
<1>4. var' \in [Vars -> VarStruct]
  <2>1. CASE var' = AfterVars(body, Present(body), {})
    BY <1>3, <2>1
  <2>2. CASE \E stop \in Unusable(body), done \in SUBSET (Present(body) \ Unusable(body)) :
               var' = AfterVars(body, done, {stop})
    <3>1. PICK stop \in Unusable(body), done \in SUBSET (Present(body) \ Unusable(body)) :
             var' = AfterVars(body, done, {stop})
      BY <2>2
    <3>2. done \in SUBSET Present(body)
      OBVIOUS
    <3> QED BY <1>3, <3>1, <3>2
  <2> QED BY <2>1, <2>2 DEF ParseDevice
<1>5. text' \in [Fields -> [val : Texts, dirty : BOOLEAN]]
  BY DEF ParseDevice, ServerState
<1>6. reached' \subseteq Vars \union Fields
  BY DEF ParseDevice, TypeOK, Present
<1>7. result' \in Results
  BY DEF ParseDevice, Results
<1> QED BY <1>1, <1>4, <1>5, <1>6, <1>7

\* The initial state has its types.
LEMMA TypeInit == Init => TypeOK
<1> SUFFICES ASSUME Init PROVE TypeOK
  OBVIOUS
<1>1. list \in Seq(Vars) /\ call \in Calls \union {"idle"} /\ edits \in Nat
  BY DEF Init
<1>2. var \in [Vars -> VarStruct]
  BY FreshType DEF Init, NoVar
<1>3. text \in [Fields -> [val : Texts, dirty : BOOLEAN]]
  BY DeviceSyncAssumption DEF Init, BlankText
<1>4. net \in Message /\ result \in Results
  BY DEF Init, Message, Results
<1>5. server \in ServerState
  BY DeviceSyncAssumption DEF Init, InitServer, ServerState
<1>6. reached \subseteq Vars \union Fields /\ owed \subseteq Vars \union Fields
  BY DEF Init
<1> QED BY <1>1, <1>2, <1>3, <1>4, <1>5, <1>6 DEF TypeOK

\* Every step keeps the types.
LEMMA TypeStep == TypeOK /\ [Next]_vars => TypeOK'
<1> SUFFICES ASSUME TypeOK, [Next]_vars PROVE TypeOK'
  OBVIOUS
<1> USE DEF Calls
<1>1. ASSUME NEW v \in Vars, NEW t \in Types, Declare(v, t) PROVE TypeOK'
  <2>1. Fresh(t) \in VarStruct
    BY FreshType
  <2>2. <<v>> \o list \in Seq(Vars)
    BY DEF TypeOK
  <2> QED BY <1>1, <2>1, <2>2 DEF Declare, TypeOK, Results
<1>2. ASSUME NEW v \in Vars, NEW t, NEW x \in Values, SetVar(v, t, x) PROVE TypeOK'
  <2>1. SetTo(var[v], x) \in VarStruct
    BY DEF TypeOK, VarStruct, SetTo
  <2> QED BY <1>2, <2>1 DEF SetVar, TypeOK, Results
<1>3. ASSUME NEW f \in Fields, NEW t \in AppTexts, SetText(f, t) PROVE TypeOK'
  BY <1>3, DeviceSyncAssumption DEF SetText, TypeOK, Results
<1>4. CASE GetSelfDevice
  <2>1. NoVar \in VarStruct
    BY FreshType DEF NoVar
  <2>2. BlankText \in [Fields -> [val : Texts, dirty : BOOLEAN]]
    BY DeviceSyncAssumption DEF BlankText
  <2>3. <<>> \in Seq(Vars)
    OBVIOUS
  <2>4. net' \in Message
    BY <1>4, RequestType DEF GetSelfDevice
  <2> QED BY <1>4, <2>1, <2>2, <2>3, <2>4 DEF GetSelfDevice, TypeOK, Results
<1>5. CASE UpdateFromRemote
  BY <1>5, RequestType DEF UpdateFromRemote, TypeOK, Results, device, history
<1>6. FlagsCleared \in [Vars -> VarStruct]
  BY DEF FlagsCleared, TypeOK, VarStruct
<1>7. ASSUME NEW c \in {"to_remote", "sync"}, Push(c) PROVE TypeOK'
  <2>1. net' \in Message
    BY <1>7, RequestType DEF Push
  <2>2. owed' \subseteq Vars \union Fields
    BY <1>7 DEF Push, Pending, Declared, DirtyText, TypeOK
  <2> QED BY <1>6, <1>7, <2>1, <2>2 DEF Push, TypeOK, Results
<1>8. CASE PushTooLarge
  BY <1>6, <1>8 DEF PushTooLarge, TypeOK, Results, history
<1>9. CASE ServerTakes
  <2>1. server' \in ServerState
    BY <1>9, MergedType DEF ServerTakes
  <2>2. net' \in Message
    BY <1>9, <2>1 DEF ServerTakes, Message
  <2>3. reached' \subseteq Vars \union Fields
    BY <1>9 DEF ServerTakes, TypeOK
  <2> QED BY <1>9, <2>1, <2>2, <2>3 DEF ServerTakes, TypeOK, device
<1>10. CASE ServerRefuses
  <2>1. net' \in Message
    BY <1>10 DEF ServerRefuses, TypeOK, Message
  <2> QED BY <1>10, <2>1 DEF ServerRefuses, TypeOK, device, history
<1>11. ASSUME NEW v \in Vars, NEW x \in Values, RemoteWrite(v, x) PROVE TypeOK'
  <2>1. server' \in ServerState
    <3>1. server' = [type  |-> server.type,
                     val   |-> [server.val EXCEPT ![v] = x],
                     time  |-> [server.time EXCEPT ![v] = server.clock + 1],
                     text  |-> server.text,
                     clock |-> server.clock + 1]
      BY <1>11 DEF RemoteWrite, TypeOK, ServerState
    <3> QED BY <3>1 DEF TypeOK, ServerState
  <2> QED BY <1>11, <2>1 DEF RemoteWrite, TypeOK, device, history
<1>12. ASSUME NEW f \in Fields, NEW t \in Texts \ JsonTexts, RemoteText(f, t) PROVE TypeOK'
  <2>1. server' \in ServerState
    BY <1>12 DEF RemoteText, TypeOK, ServerState
  <2> QED BY <1>12, <2>1 DEF RemoteText, TypeOK, device, history
<1>13. CASE TransferFails
  BY <1>13 DEF TransferFails, Return, TypeOK, Message, Results
<1>14. CASE StatusNotOk
  BY <1>14 DEF StatusNotOk, Return, TypeOK, Message, Results
<1>15. CASE TokenizerFails
  BY <1>15 DEF TokenizerFails, Return, TypeOK, Message, Results
<1>16. CASE ReturnToRemote
  <2>1. text' \in [Fields -> [val : Texts, dirty : BOOLEAN]]
    BY <1>16 DEF ReturnToRemote, TextFlagsCleared, TypeOK
  <2> QED BY <1>16, <2>1 DEF ReturnToRemote, Return, TypeOK, Message, Results
<1>17. CASE ReturnParsed
  <2>1. net.body \in ServerState
    BY <1>17 DEF ReturnParsed, TypeOK, Message, NoMsg
  <2> QED BY <1>17, <2>1, ParseType DEF ReturnParsed, Return, TypeOK, Message
<1>18. CASE UNCHANGED vars
  BY <1>18 DEF vars, TypeOK
<1> QED
  BY <1>1, <1>2, <1>3, <1>4, <1>5, <1>7, <1>8, <1>9, <1>10, <1>11, <1>12, <1>13, <1>14,
     <1>15, <1>16, <1>17, <1>18, DeviceSyncAssumption
     DEF Next, AppEdits, AppCalls, Remote, Returns

\* Type correctness: whatever the application, the server and the network do,
\* every variable keeps the values its C declaration allows.
THEOREM TypeCorrect == Spec => []TypeOK
BY TypeInit, TypeStep, PTL DEF Spec

-------------------------------------------------------------------------------
(* The variable list                                                       *)

\* c_json_parse_vardcl adds the unknown names, each once, and drops none.
LEMMA ParseList ==
    ASSUME TypeOK, NoDuplicates, NEW body \in ServerState, ParseDevice(body)
    PROVE  NoDuplicates' /\ Declared' = Declared \union NewVars(body)
<1> DEFINE S == NewVars(body)
<1>1. S \in SUBSET Vars /\ \A v \in S : v \notin Declared
  BY DEF NewVars, Find
<1>2. PICK order \in Orders(S) : list' = order \o list
  BY DEF ParseDevice
<1>3. /\ order \in Seq(S)
      /\ S = {order[i] : i \in DOMAIN order}
      /\ \A i, j \in DOMAIN order : order[i] = order[j] => i = j
  BY <1>1, <1>2, OrderProperties
<1>4. order \in Seq(Vars) /\ list \in Seq(Vars)
  BY <1>1, <1>3 DEF TypeOK
<1> HIDE DEF S
<1>5. \A i \in DOMAIN order, j \in DOMAIN list : order[i] # list[j]
  BY <1>1, <1>3 DEF Declared
<1>6. \A i, j \in DOMAIN list : list[i] = list[j] => i = j
  BY DEF NoDuplicates
<1>7. /\ \A i, j \in DOMAIN (order \o list) : (order \o list)[i] = (order \o list)[j] => i = j
      /\ {(order \o list)[i] : i \in DOMAIN (order \o list)}
           = {order[i] : i \in DOMAIN order} \union {list[i] : i \in DOMAIN list}
  BY <1>3, <1>4, <1>5, <1>6, PrependProperties
<1>8. NoDuplicates'
  BY <1>2, <1>7 DEF NoDuplicates
<1>9. Declared' = Declared \union S
  BY <1>2, <1>3, <1>7 DEF Declared
<1> QED BY <1>8, <1>9 DEF S

\* c_json_parse_vars writes only listed variables, and sets none to a value its
\* type does not take; a new struct has neither value nor mark.
LEMMA ParseVars ==
    ASSUME TypeOK, ListConsistent, NEW body \in ServerState, ParseDevice(body)
    PROVE  DirtyIsSet' /\ SetIsTyped'
<1>1. Declared' = Declared \union NewVars(body)
  BY ParseList DEF ListConsistent
<1>2. AfterDecls(body) \in [Vars -> VarStruct]
  BY FreshType DEF AfterDecls, TypeOK, ServerState
<1>3. \A v \in Vars :
        LET r == AfterDecls(body)[v]
        IN  /\ r.dirty => r.set /\ v \in Declared
            /\ r.set => r.val \in Values /\ Accepts(r.type, r.val)
  BY DEF AfterDecls, Fresh, ListConsistent, DirtyIsSet, SetIsTyped
<1>4. PICK done \in SUBSET (Present(body) \ Unusable(body)), stop \in SUBSET Vars :
        var' = AfterVars(body, done, stop) /\ stop \intersect done = {}
  <2>1. CASE Unusable(body) = {} /\ var' = AfterVars(body, Present(body), {})
    BY <2>1
  <2>2. CASE \E stop \in Unusable(body), done \in SUBSET (Present(body) \ Unusable(body)) :
               var' = AfterVars(body, done, {stop})
    <3>1. PICK s \in Unusable(body), d \in SUBSET (Present(body) \ Unusable(body)) :
             var' = AfterVars(body, d, {s})
      BY <2>2
    <3>2. {s} \intersect d = {} /\ s \in Vars
      BY DEF Unusable, Present
    <3> QED BY <3>1, <3>2
  <2> QED BY <2>1, <2>2 DEF ParseDevice
<1>5. ASSUME NEW v \in Vars, v \in done
      PROVE  /\ v \in Declared \union NewVars(body)
             /\ body.val[v] \in Values
             /\ Accepts(AfterDecls(body)[v].type, body.val[v])
             /\ var'[v].type = AfterDecls(body)[v].type
             /\ var'[v].val = body.val[v]
             /\ var'[v].set = TRUE
  <2>1. body.val[v] \in Values \union {NoValue} /\ body.val[v] # NoValue
    BY <1>5 DEF ServerState, Present
  <2>2. v \in Declared \union NewVars(body) /\ Accepts(AfterDecls(body)[v].type, body.val[v])
    BY <1>5 DEF Unusable
  <2>3. var'[v] = Taken(AfterDecls(body), body, v)
    BY <1>4, <1>5 DEF AfterVars
  <2> QED BY <1>2, <2>1, <2>2, <2>3 DEF Taken, VarStruct
<1>6. ASSUME NEW v \in Vars, v \notin done
      PROVE  LET r == AfterDecls(body)[v]
             IN  /\ var'[v].type = r.type /\ var'[v].val = r.val
                 /\ var'[v].set = r.set /\ var'[v].dirty = r.dirty
  <2>1. var'[v] \in {AfterDecls(body)[v], [AfterDecls(body)[v] EXCEPT !.last = body.time[v]]}
    BY <1>4, <1>6 DEF AfterVars
  <2> QED BY <1>2, <2>1 DEF VarStruct
<1>7. DirtyIsSet'
  BY <1>1, <1>3, <1>5, <1>6 DEF DirtyIsSet
<1>8. SetIsTyped'
  BY <1>3, <1>5, <1>6 DEF SetIsTyped
<1> QED BY <1>7, <1>8

\* No variables.
LEMMA ListInit == Init => ListConsistent
BY DEF Init, ListConsistent, NoDuplicates, DirtyIsSet, SetIsTyped, NoVar, Fresh

\* Every step keeps the list in the order of declaration.
LEMMA ListStep == TypeOK /\ ListConsistent /\ [Next]_vars => ListConsistent'
<1> SUFFICES ASSUME TypeOK, ListConsistent, [Next]_vars PROVE ListConsistent'
  OBVIOUS
<1> USE DEF ListConsistent
<1>1. ASSUME NEW v \in Vars, NEW t \in Types, Declare(v, t) PROVE ListConsistent'
  <2>1. CASE Find(v)
    BY <1>1, <2>1 DEF Declare, NoDuplicates, DirtyIsSet, SetIsTyped, Declared
  <2>2. CASE ~Find(v)
    <3>1. list' = <<v>> \o list /\ var' = [var EXCEPT ![v] = Fresh(t)]
      BY <1>1, <2>2 DEF Declare
    <3>2. /\ <<v>> \in Seq(Vars) /\ list \in Seq(Vars)
          /\ \A i, j \in DOMAIN <<v>> : <<v>>[i] = <<v>>[j] => i = j
          /\ {<<v>>[i] : i \in DOMAIN <<v>>} = {v}
      BY DEF TypeOK
    <3>3. \A i \in DOMAIN <<v>>, j \in DOMAIN list : <<v>>[i] # list[j]
      BY <2>2 DEF Find, Declared
    <3>4. \A i, j \in DOMAIN list : list[i] = list[j] => i = j
      BY DEF NoDuplicates
    <3> DEFINE one == <<v>>
    <3> HIDE DEF one
    <3>5. /\ \A i, j \in DOMAIN (one \o list) : (one \o list)[i] = (one \o list)[j] => i = j
          /\ {(one \o list)[i] : i \in DOMAIN (one \o list)} = {v} \union Declared
      BY <3>2, <3>3, <3>4, PrependProperties DEF Declared, one
    <3>6. list' = one \o list
      BY <3>1 DEF one
    <3>7. NoDuplicates' /\ Declared' = {v} \union Declared
      BY <3>5, <3>6 DEF NoDuplicates, Declared
    <3> QED BY <3>1, <3>7 DEF TypeOK, Fresh, DirtyIsSet, SetIsTyped
  <2> QED BY <2>1, <2>2
<1>2. ASSUME NEW v \in Vars, NEW t \in {"string", "bool"}, NEW x \in Values,
             Accepts(t, x), SetVar(v, t, x)
      PROVE  ListConsistent'
  BY <1>2 DEF SetVar, SetTo, Find, TypeOK, VarStruct, NoDuplicates, DirtyIsSet, SetIsTyped, Declared
<1>3. ASSUME NEW f \in Fields, NEW t, SetText(f, t) PROVE ListConsistent'
  BY <1>3 DEF SetText, NoDuplicates, DirtyIsSet, SetIsTyped, Declared
<1>4. CASE GetSelfDevice
  BY <1>4 DEF GetSelfDevice, NoVar, Fresh, NoDuplicates, DirtyIsSet, SetIsTyped
<1>5. \A v \in Vars : LET r == FlagsCleared[v]
                      IN  /\ r.type = var[v].type /\ r.val = var[v].val /\ r.set = var[v].set
                          /\ r.dirty => var[v].dirty
  BY DEF FlagsCleared, TypeOK, VarStruct
<1>6. ASSUME list' = list, var' = FlagsCleared PROVE ListConsistent'
  BY <1>5, <1>6 DEF NoDuplicates, DirtyIsSet, SetIsTyped, Declared
<1>7. ASSUME list' = list, var' = var PROVE ListConsistent'
  BY <1>7 DEF NoDuplicates, DirtyIsSet, SetIsTyped, Declared
<1>8. CASE ReturnParsed
  <2>1. net.body \in ServerState /\ ParseDevice(net.body)
    BY <1>8 DEF ReturnParsed, TypeOK, Message, NoMsg
  <2> QED BY <2>1, ParseList, ParseVars
<1>9. ASSUME NEW v \in Vars, NEW x \in BoolValues, SetVar(v, "bool", x) PROVE ListConsistent'
  BY <1>2, <1>9, DeviceSyncAssumption DEF Accepts
<1>10. ASSUME NEW v \in Vars, NEW x \in Values, SetVar(v, "string", x) PROVE ListConsistent'
  BY <1>2, <1>10 DEF Accepts
<1>11. CASE AppEdits
  BY <1>1, <1>3, <1>9, <1>10, <1>11 DEF AppEdits
<1>12. CASE AppCalls
  BY <1>4, <1>6, <1>7, <1>12 DEF AppCalls, UpdateFromRemote, Push, PushTooLarge, device
<1>13. CASE Remote
  BY <1>7, <1>13 DEF Remote, ServerTakes, ServerRefuses, RemoteWrite, RemoteText, device
<1>14. CASE Returns
  BY <1>7, <1>8, <1>14 DEF Returns, TransferFails, StatusNotOk, TokenizerFails, ReturnToRemote
<1>15. CASE UNCHANGED vars
  BY <1>7, <1>15 DEF vars
<1> QED BY <1>11, <1>12, <1>13, <1>14, <1>15 DEF Next

\* The variable list stays consistent: one struct per name, no mark that
\* c_json_emit_vars would not see, no value of a type it cannot write.
THEOREM ListIsConsistent == Spec => []ListConsistent
<1>1. Spec => [](TypeOK /\ ListConsistent)
  BY TypeInit, TypeStep, ListInit, ListStep, PTL DEF Spec
<1> QED BY <1>1, PTL

-------------------------------------------------------------------------------
(* Delivery                                                                *)

\* The payload carries every dirty variable, and every dirty text whose tag is
\* the field's own.
LEMMA RequestCarries ==
    ASSUME TypeOK, ListConsistent, NEW whole \in BOOLEAN,
           NEW x \in (Pending \union DirtyText) \intersect (Vars \union SameTag)
    PROVE  Carries(PostRequest(whole), x)
<1>1. CASE x \in Vars
  <2>1. x \in Pending
    BY <1>1, DeviceSyncAssumption DEF DirtyText, Fields
  <2>2. var[x].val \in Values
    BY <1>1, <2>1 DEF Pending, ListConsistent, SetIsTyped
  <2>3. PostRequest(whole).val[x] = var[x].val
    BY <1>1, <2>1 DEF PostRequest, Sent
  <2> QED BY <1>1, <2>2, <2>3, DeviceSyncAssumption DEF Carries
<1>2. CASE x \notin Vars
  <2>1. x \in DirtyText /\ EmitTag(x) = x
    BY <1>2 DEF Pending, Declared, SameTag, TypeOK
  <2>2. <<x, text[x].val>> \in PostRequest(whole).text
    BY <2>1 DEF PostRequest
  <2>3. text[x].val \in Texts
    BY <2>1 DEF TypeOK, DirtyText
  <2> QED BY <1>2, <2>2, <2>3 DEF Carries
<1> QED BY <1>1, <1>2

\* Nothing is owed.
LEMMA OwedInit == Init => OwedInTransit
BY DEF Init, OwedInTransit, Pushing

\* Every step keeps what is owed in transit.
LEMMA OwedStep == TypeOK /\ ListConsistent /\ OwedInTransit /\ [Next]_vars => OwedInTransit'
<1> SUFFICES ASSUME TypeOK, ListConsistent, OwedInTransit, [Next]_vars PROVE OwedInTransit'
  OBVIOUS
<1> USE DEF Pushing
<1>1. CASE AppEdits
  BY <1>1 DEF AppEdits, Declare, SetVar, SetText, Idle, OwedInTransit
<1>2. ASSUME NEW c \in {"to_remote", "sync"}, Push(c) PROVE OwedInTransit'
  <2>1. PICK whole \in BOOLEAN : net' = PostRequest(whole)
    BY <1>2 DEF Push
  <2>2. owed' = Pending \union DirtyText
    BY <1>2 DEF Push
  <2>3. net'.tag = "request"
    BY <2>1 DEF PostRequest
  <2>4. \A x \in owed' \intersect (Vars \union SameTag) : Carries(net', x)
    BY <2>1, <2>2, RequestCarries
  <2> QED BY <2>3, <2>4 DEF OwedInTransit, SameTag, Carries, EmitTag
<1>3. CASE GetSelfDevice \/ UpdateFromRemote
  BY <1>3 DEF GetSelfDevice, UpdateFromRemote, OwedInTransit
<1>4. CASE PushTooLarge
  BY <1>4 DEF PushTooLarge, Idle, OwedInTransit
<1>5. CASE ServerTakes
  <2>1. net'.tag = "answer" /\ owed' = owed /\ call' = call
    BY <1>5 DEF ServerTakes
  <2>2. ASSUME Pushing, NEW x \in owed \intersect (Vars \union SameTag) PROVE x \in reached'
    <3>1. Carries(net, x)
      BY <1>5, <2>2 DEF ServerTakes, OwedInTransit
    <3> QED BY <1>5, <3>1 DEF ServerTakes, Carries, SameTag
  <2> QED BY <2>1, <2>2 DEF OwedInTransit, SameTag, EmitTag
<1>6. CASE ServerRefuses
  BY <1>6 DEF ServerRefuses, OwedInTransit
<1>7. ASSUME UNCHANGED <<call, net, owed, reached>> PROVE OwedInTransit'
  BY <1>7 DEF OwedInTransit, SameTag, Carries, EmitTag
<1>8. CASE Remote
  BY <1>5, <1>6, <1>7, <1>8 DEF Remote, RemoteWrite, RemoteText, history
<1>9. CASE AppCalls
  BY <1>2, <1>3, <1>4, <1>9 DEF AppCalls
<1>10. CASE Returns
  BY <1>10
     DEF Returns, TransferFails, StatusNotOk, TokenizerFails, ReturnToRemote, ReturnParsed,
         Return, OwedInTransit
<1>11. CASE UNCHANGED vars
  BY <1>7, <1>11 DEF vars
<1> QED BY <1>1, <1>8, <1>9, <1>10, <1>11 DEF Next

\* A push that returns SUCCESS has delivered all that was dirty when it began.
THEOREM PushesDeliver == Spec => PushDelivers
<1> DEFINE IInv == TypeOK /\ ListConsistent /\ OwedInTransit
<1>1. Spec => []IInv
  <2>1. Init => IInv
    BY TypeInit, ListInit, OwedInit
  <2>2. IInv /\ [Next]_vars => IInv'
    BY TypeStep, ListStep, OwedStep
  <2> QED BY <2>1, <2>2, PTL DEF Spec
<1>2. IInv /\ [Next]_vars
        => [Succeeds("to_remote") \/ Succeeds("sync")
            => owed \intersect (Vars \union SameTag) \subseteq reached']_vars
  <2> SUFFICES ASSUME IInv, Next, Succeeds("to_remote") \/ Succeeds("sync")
               PROVE  owed \intersect (Vars \union SameTag) \subseteq reached'
    OBVIOUS
  <2>1. Pushing /\ call' = "idle" /\ result' = "SUCCESS"
    BY DEF Pushing, Succeeds
  <2>2. CASE AppEdits \/ AppCalls
    BY <2>1, <2>2
       DEF AppEdits, AppCalls, Declare, SetVar, SetText, GetSelfDevice, UpdateFromRemote, Push,
           PushTooLarge, Idle, Pushing
  <2>3. CASE Remote
    BY <2>1, <2>3 DEF Remote, ServerTakes, ServerRefuses, RemoteWrite, RemoteText, Pushing
  <2>4. CASE Returns
    <3>1. net.tag = "answer" /\ net.status = 200 /\ reached \subseteq reached'
      BY <2>1, <2>4
         DEF Returns, TransferFails, StatusNotOk, TokenizerFails, ReturnToRemote, ReturnParsed,
             HttpOk, ParseDevice
    <3> QED BY <2>1, <3>1 DEF OwedInTransit
  <2> QED BY <2>2, <2>3, <2>4 DEF Next
<1> QED BY <1>1, <1>2, PTL DEF PushDelivers, Spec

\* What was dirty when a push began is under way until the push returns.
THEOREM OwedStaysInTransit == Spec => []OwedInTransit
<1> DEFINE IInv == TypeOK /\ ListConsistent /\ OwedInTransit
<1>1. Init => IInv
  BY TypeInit, ListInit, OwedInit
<1>2. IInv /\ [Next]_vars => IInv'
  BY TypeStep, ListStep, OwedStep
<1> QED
  BY <1>1, <1>2, PTL DEF Spec

-------------------------------------------------------------------------------
(* The exchange                                                            *)

\* What a call and its message say of each other: a message is on its way only while a call
\* waits; a request carries location_note only if it is dirty, and as it is; a push has left no
\* variable dirty, and the values it owes are those of the device, in the request and then in
\* the answer.
ExchangeConsistent ==
    /\ Idle <=> net.tag = "none"
    /\ ~Pushing => owed = {}
    /\ net.tag = "request" =>
          \A t \in Texts : <<Note, t>> \in net.text => text[Note].dirty /\ t = text[Note].val
    /\ Pushing =>
          /\ \A v \in Vars : ~var[v].dirty
          /\ text[Note].dirty => Note \in owed
          /\ \A v \in owed \intersect Vars :
                /\ v \in Declared /\ var[v].val \in Values
                /\ net.tag = "request" => net.val[v] = var[v].val
                /\ net.tag = "answer" /\ net.status = 200 => net.body.val[v] = var[v].val

\* Device and call as they are during an exchange: between its first step and its return
\* nothing but the message and the server changes.
LEMMA ExchangeKept ==
    ASSUME ExchangeConsistent, UNCHANGED <<list, var, text, call, net, owed>>
    PROVE  ExchangeConsistent'
BY DEF ExchangeConsistent, Idle, Pushing, Declared

\* If all the values fit, each variable that is due is visited.
LEMMA AllVisited ==
    ASSUME TypeOK, VarsFit
    PROVE  Visited = Pending
<1>1. \A v \in Vars : Ahead(v) \in Int
  <2> TAKE v \in Vars
  <2>1. {u \in Pending : Before(u, v)} \in SUBSET Vars
    BY DEF Pending, Declared, TypeOK
  <2> QED
    BY <2>1, FS_Subset, FS_CardinalityType, DeviceSyncAssumption DEF Ahead
<1>2. Room \in Int
  <2>1. Declared \in SUBSET Vars
    BY DEF Declared, TypeOK
  <2> QED
    BY <2>1, FS_Subset, FS_CardinalityType, DeviceSyncAssumption DEF Room
<1>3. \A v \in Pending : v \in Vars /\ Ahead(v) =< Room
  BY <1>1, <1>2 DEF VarsFit, Pending, Declared, TypeOK
<1> QED
  BY <1>3 DEF Visited

\* No exchange.
LEMMA ExchangeInit == Init => ExchangeConsistent
BY DEF Init, ExchangeConsistent, Idle, Pushing, NoMsg

\* The first step of a push.
LEMMA ExchangeBegins ==
    ASSUME TypeOK, ListConsistent, ExchangeConsistent,
           NEW c \in {"to_remote", "sync"}, Push(c)
    PROVE  ExchangeConsistent'
<1>1. PICK whole \in BOOLEAN : net' = PostRequest(whole)
  BY DEF Push
<1>2. /\ call' = c /\ owed' = Pending \union DirtyText
      /\ list' = list /\ text' = text /\ var' = FlagsCleared
  BY DEF Push
<1>3. net'.tag = "request" /\ ~Idle' /\ Pushing'
  BY <1>1, <1>2 DEF PostRequest, Idle, Pushing
<1>4. \A t \in Texts : <<Note, t>> \in net'.text => text'[Note].dirty /\ t = text'[Note].val
  BY <1>1, <1>2 DEF PostRequest, EmitTag, Note, DirtyText
<1>5. Visited = Pending
  BY AllVisited DEF Push
<1>6. \A v \in Vars : ~var'[v].dirty
  <2> TAKE v \in Vars
  <2>1. CASE v \in Pending
    BY <1>2, <1>5, <2>1 DEF FlagsCleared, TypeOK, VarStruct
  <2>2. CASE v \notin Pending
    BY <1>2, <1>5, <2>2 DEF FlagsCleared, Pending, ListConsistent, DirtyIsSet
  <2> QED
    BY <2>1, <2>2
<1>7. text'[Note].dirty => Note \in owed'
  BY <1>2 DEF DirtyText, Note, Fields
<1>8. ASSUME NEW v \in owed' \intersect Vars
      PROVE  v \in Declared' /\ var'[v].val \in Values /\ net'.val[v] = var'[v].val
  <2>1. v \in Pending /\ v \in Vars
    BY <1>2, DeviceSyncAssumption DEF DirtyText, Fields
  <2>2. var'[v].val = var[v].val
    BY <1>2, <2>1 DEF FlagsCleared, TypeOK, VarStruct
  <2>3. net'.val[v] = var[v].val
    BY <1>1, <2>1 DEF PostRequest, Sent
  <2>4. v \in Declared' /\ var[v].val \in Values
    BY <1>2, <2>1 DEF Pending, Declared, ListConsistent, SetIsTyped
  <2> QED
    BY <2>2, <2>3, <2>4
<1> QED
  BY <1>3, <1>4, <1>6, <1>7, <1>8 DEF ExchangeConsistent

\* The server takes the request: of what it was sent, its answer says the same.
LEMMA ExchangeAnswered ==
    ASSUME TypeOK, ExchangeConsistent, ServerTakes
    PROVE  ExchangeConsistent'
<1>1. /\ net.tag = "request" /\ net'.tag = "answer" /\ net'.body = Merged(net)
      /\ UNCHANGED <<list, var, text, call, owed>>
  BY DEF ServerTakes, device
<1>2. \A v \in Vars : net.val[v] # NoValue => Merged(net).val[v] = net.val[v]
  BY DEF Merged
<1>3. ASSUME Pushing, NEW v \in owed \intersect Vars
      PROVE  net'.body.val[v] = var[v].val
  <2>1. net.val[v] = var[v].val /\ var[v].val \in Values
    BY <1>1, <1>3 DEF ExchangeConsistent
  <2> QED
    BY <1>1, <1>2, <2>1, DeviceSyncAssumption
<1> QED
  BY <1>1, <1>3 DEF ExchangeConsistent, Idle, Pushing, Declared

\* Every step keeps the loops and the request of one exchange together.
LEMMA ExchangeStep ==
    TypeOK /\ ListConsistent /\ ExchangeConsistent /\ [Next]_vars => ExchangeConsistent'
<1> SUFFICES ASSUME TypeOK, ListConsistent, ExchangeConsistent, [Next]_vars
             PROVE  ExchangeConsistent'
  OBVIOUS
<1>1. CASE AppEdits
  <2>1. /\ Idle /\ UNCHANGED <<call, net, owed>>
    BY <1>1 DEF AppEdits, Declare, SetVar, SetText
  <2> QED
    BY <2>1 DEF ExchangeConsistent, Idle, Pushing
<1>2. CASE GetSelfDevice \/ UpdateFromRemote
  <2>1. Idle /\ net' = GetRequest /\ owed' = owed /\ call' \in {"get_self", "from_remote"}
    BY <1>2 DEF GetSelfDevice, UpdateFromRemote, history
  <2> QED
    BY <2>1 DEF ExchangeConsistent, Idle, Pushing, GetRequest
<1>3. CASE PushTooLarge
  BY <1>3 DEF PushTooLarge, ExchangeConsistent, Idle, Pushing, history
<1>4. CASE AppCalls
  BY <1>2, <1>3, <1>4, ExchangeBegins DEF AppCalls
<1>5. CASE ServerRefuses
  BY <1>5 DEF ServerRefuses, ExchangeConsistent, Idle, Pushing, Declared, device, history
<1>6. CASE Remote
  BY <1>5, <1>6, ExchangeAnswered, ExchangeKept
     DEF Remote, RemoteWrite, RemoteText, device, history
<1>7. CASE Returns
  <2>1. call' = "idle" /\ net' = NoMsg /\ owed' = {}
    BY <1>7 DEF Returns, TransferFails, StatusNotOk, TokenizerFails, ReturnToRemote, ReturnParsed, Return
  <2> QED
    BY <2>1 DEF ExchangeConsistent, Idle, Pushing, NoMsg
<1>8. CASE UNCHANGED vars
  BY <1>8, ExchangeKept DEF vars
<1> QED
  BY <1>1, <1>4, <1>6, <1>7, <1>8 DEF Next

\* The invariant that the properties of single steps rest on.
DeviceInv == TypeOK /\ ListConsistent /\ OwedInTransit /\ ExchangeConsistent

\* All of it together.
LEMMA InvariantHolds == Spec => []DeviceInv
<1>1. Init => DeviceInv
  BY TypeInit, ListInit, OwedInit, ExchangeInit DEF DeviceInv
<1>2. DeviceInv /\ [Next]_vars => DeviceInv'
  BY TypeStep, ListStep, OwedStep, ExchangeStep DEF DeviceInv
<1> QED
  BY <1>1, <1>2, PTL DEF Spec

-------------------------------------------------------------------------------
(* What a step may do                                                      *)

\* The only step with which a sync succeeds.
LEMMA SyncReturns ==
    ASSUME Next, Succeeds("sync")
    PROVE  ReturnParsed /\ result' = "SUCCESS"
<1>1. call = "sync" /\ call' = "idle" /\ result' = "SUCCESS"
  BY DEF Succeeds
<1>2. CASE AppEdits \/ AppCalls
  BY <1>1, <1>2
     DEF AppEdits, AppCalls, Declare, SetVar, SetText, GetSelfDevice, UpdateFromRemote, Push,
         PushTooLarge, Idle
<1>3. CASE Remote
  BY <1>1, <1>3 DEF Remote, ServerTakes, ServerRefuses, RemoteWrite, RemoteText
<1>4. CASE Returns
  BY <1>1, <1>4 DEF Returns, TransferFails, StatusNotOk, TokenizerFails, ReturnToRemote
<1> QED
  BY <1>1, <1>2, <1>3, <1>4 DEF Next

\* An answer parsed with success: each value in it is that of the variable, the others are
\* those of the declarations.
LEMMA ParsedWhole ==
    ASSUME TypeOK, ListConsistent, NEW body \in ServerState, ParseDevice(body), result' = "SUCCESS"
    PROVE  /\ Declared' = Declared \union NewVars(body)
           /\ Present(body) \subseteq Declared'
           /\ \A v \in Vars :
                 /\ v \in Present(body) => var'[v].val = body.val[v]
                 /\ v \notin Present(body) => var'[v].val = AfterDecls(body)[v].val
                 /\ var'[v].dirty = AfterDecls(body)[v].dirty
<1>1. Unusable(body) = {} /\ var' = AfterVars(body, Present(body), {})
  BY DEF ParseDevice
<1>2. Declared' = Declared \union NewVars(body)
  BY ParseList DEF ListConsistent
<1>3. Present(body) \subseteq Declared \union NewVars(body)
  BY <1>1 DEF Unusable
<1>4. AfterDecls(body) \in [Vars -> VarStruct]
  BY FreshType DEF AfterDecls, TypeOK, ServerState
<1>5. \A v \in Vars : var'[v] = IF v \in Present(body) THEN Taken(AfterDecls(body), body, v)
                                ELSE AfterDecls(body)[v]
  BY <1>1 DEF AfterVars
<1>6. \A v \in Vars : LET r == Taken(AfterDecls(body), body, v)
                      IN  r.val = body.val[v] /\ r.dirty = AfterDecls(body)[v].dirty
  BY <1>4 DEF Taken, VarStruct
<1> QED
  BY <1>2, <1>3, <1>5, <1>6

\* A sync that succeeds leaves nothing to send and loses no value that it owed.
THEOREM SyncsSettle == Spec => SyncSettles
<1>1. DeviceInv /\ [Next]_vars =>
        [Succeeds("sync") =>
           /\ Pending' = {} /\ DirtyText' = {}
           /\ \A v \in owed \intersect Vars : var'[v].val = var[v].val
           /\ \A v \in Vars : net.body.val[v] # NoValue =>
                 v \in Declared' /\ var'[v].val = net.body.val[v]
           /\ \A f \in Fields : text'[f].val = net.body.text[f]]_vars
  <2> SUFFICES ASSUME DeviceInv, Next, Succeeds("sync")
               PROVE  /\ Pending' = {} /\ DirtyText' = {}
                      /\ \A v \in owed \intersect Vars : var'[v].val = var[v].val
                      /\ \A v \in Vars : net.body.val[v] # NoValue =>
                            v \in Declared' /\ var'[v].val = net.body.val[v]
                      /\ \A f \in Fields : text'[f].val = net.body.text[f]
    OBVIOUS
  <2> DEFINE body == net.body
  <2>1. /\ net.tag = "answer" /\ net.status = 200 /\ body \in ServerState
        /\ ParseDevice(body) /\ result' = "SUCCESS"
    BY SyncReturns DEF ReturnParsed, HttpOk, DeviceInv, TypeOK, Message, NoMsg
  <2>2. /\ Pushing
        /\ \A v \in Vars : ~var[v].dirty
        /\ \A v \in owed \intersect Vars : v \in Declared /\ body.val[v] = var[v].val
    BY <2>1 DEF DeviceInv, ExchangeConsistent, Succeeds, Pushing
  <2> HIDE DEF body
  <2>3. /\ Declared' = Declared \union NewVars(body)
        /\ Present(body) \subseteq Declared'
        /\ \A v \in Vars :
              /\ v \in Present(body) => var'[v].val = body.val[v]
              /\ v \notin Present(body) => var'[v].val = AfterDecls(body)[v].val
              /\ var'[v].dirty = AfterDecls(body)[v].dirty
    BY <2>1, ParsedWhole DEF DeviceInv
  <2>4. \A v \in Vars : ~AfterDecls(body)[v].dirty
    BY <2>2 DEF AfterDecls, Fresh
  <2>5. Declared' \subseteq Vars
    BY <2>3 DEF NewVars, Declared, DeviceInv, TypeOK
  <2>6. Pending' = {}
    BY <2>3, <2>4, <2>5 DEF Pending
  <2>7. /\ DirtyText' = {}
        /\ \A f \in Fields : text'[f].val = body.text[f]
    BY <2>1 DEF ParseDevice, DirtyText
  <2>8. ASSUME NEW v \in owed \intersect Vars
        PROVE  var'[v].val = var[v].val
    <3>1. AfterDecls(body)[v] = var[v]
      BY <2>2 DEF AfterDecls, NewVars, Find
    <3> QED
      BY <2>2, <2>3, <3>1
  <2>9. \A v \in Vars : body.val[v] # NoValue => v \in Declared' /\ var'[v].val = body.val[v]
    BY <2>3 DEF Present
  <2> QED
    BY <2>6, <2>7, <2>8, <2>9 DEF body
<1> QED
  BY <1>1, InvariantHolds, PTL DEF SyncSettles, Spec

\* No call of the application on the device itself leaves a variable behind.
LEMMA EditsForgetNothing ==
    ASSUME DeviceInv, AppEdits \/ AppCalls, NEW v \in Vars, ~Forgotten(v), Forgotten(v)'
    PROVE  result' # "SUCCESS"
<1>1. ASSUME NEW w \in Vars, NEW t \in Types, Declare(w, t)
      PROVE  FALSE
  <2>1. CASE Find(w) \/ w # v
    BY <1>1, <2>1 DEF Declare, Forgotten, Idle, DeviceInv, TypeOK
  <2>2. CASE ~Find(w) /\ w = v
    BY <1>1, <2>2 DEF Declare, Forgotten, Fresh, DeviceInv, TypeOK
  <2> QED
    BY <2>1, <2>2
<1>2. ASSUME NEW w \in Vars, NEW t, NEW x, SetVar(w, t, x)
      PROVE  FALSE
  <2>1. CASE w # v
    BY <1>2, <2>1 DEF SetVar, Forgotten, Idle, DeviceInv, TypeOK
  <2>2. CASE w = v
    BY <1>2, <2>2 DEF SetVar, SetTo, Forgotten, DeviceInv, TypeOK, VarStruct
  <2> QED
    BY <2>1, <2>2
<1>3. ASSUME NEW f \in Fields, NEW t, SetText(f, t)
      PROVE  FALSE
  <2>1. f # v
    BY DeviceSyncAssumption DEF Fields
  <2> QED
    BY <1>3, <2>1 DEF SetText, Forgotten, Idle
<1>4. CASE PushTooLarge
  BY <1>4 DEF PushTooLarge
<1>5. ASSUME GetSelfDevice \/ UpdateFromRemote \/ Push("to_remote") \/ Push("sync")
      PROVE  FALSE
  BY <1>5 DEF GetSelfDevice, UpdateFromRemote, Push, Forgotten, Idle
<1> QED
  BY <1>1, <1>2, <1>3, <1>4, <1>5 DEF AppEdits, AppCalls

\* A call that succeeds leaves behind only values that it did not owe.
THEOREM ForgetsOnFailureOnly == Spec => ForgetsOnlyOnFailure
<1>1. DeviceInv /\ [Next]_vars =>
        [\A v \in Vars : ~Forgotten(v) /\ Forgotten(v)'
           => \/ result' # "SUCCESS"
              \/ call \in Calls /\ v \notin owed]_vars
  <2> SUFFICES ASSUME DeviceInv, Next, NEW v \in Vars, ~Forgotten(v), Forgotten(v)', v \in owed \/ Idle
               PROVE  result' # "SUCCESS"
    BY DEF DeviceInv, TypeOK, Idle
  <2>1. CASE AppEdits \/ AppCalls
    BY <2>1, EditsForgetNothing
  <2>2. CASE Remote
    BY <2>2 DEF Remote, ServerTakes, ServerRefuses, RemoteWrite, RemoteText, Forgotten, Idle,
                device, history
  <2>3. CASE Returns
    <3>1. CASE ReturnToRemote \/ ReturnParsed
      <4>1. net.tag = "answer" /\ net.status = 200 /\ reached \subseteq reached' /\ ~Idle
        BY <3>1 DEF ReturnToRemote, ReturnParsed, ParseDevice, HttpOk, Idle
      <4>2. Pushing /\ v \in owed
        BY <4>1 DEF DeviceInv, ExchangeConsistent
      <4>3. v \in reached'
        BY <4>1, <4>2 DEF DeviceInv, OwedInTransit
      <4> QED
        BY <4>3 DEF Forgotten
    <3>2. CASE TransferFails \/ StatusNotOk \/ TokenizerFails
      BY <3>2 DEF TransferFails, StatusNotOk, TokenizerFails
    <3> QED
      BY <2>3, <3>1, <3>2 DEF Returns
  <2> QED
    BY <2>1, <2>2, <2>3 DEF Next
<1> QED
  BY <1>1, InvariantHolds, PTL DEF ForgetsOnlyOnFailure, Spec

-------------------------------------------------------------------------------
(* location_note as a mirrored field                                       *)

Snapshot == IF net.tag = "answer" /\ net.status = 200 THEN {net.body.text[Note]} ELSE {}

\* What a step of the device leaves alone of the field.
Stutter == UNCHANGED <<text[Note], Note \in reached, server.text[Note], Snapshot>>

\* A step that leaves the field alone is a stuttering step of its specification.
LEMMA StutterIsOne == Stutter => UNCHANGED NoteField!fields
BY DEF Stutter, Snapshot, NoteField!fields

\* location_note is a text, not a variable.
LEMMA NoteIsField == Note \in Fields /\ Note \notin Vars
BY DeviceSyncAssumption DEF Note, Fields

\* Initial states are initial states of the field's specification.
LEMMA MirrorInit == Init => NoteField!Init
<1> SUFFICES ASSUME Init PROVE NoteField!Init
  OBVIOUS
<1>1. text[Note] = [val |-> Empty, dirty |-> FALSE] /\ server.text[Note] = Empty
  BY NoteIsField DEF Init, BlankText, InitServer
<1>2. Stored(text[Note].val) = Empty
  BY <1>1, DeviceSyncAssumption DEF Stored
<1>3. Note \notin reached /\ net.tag = "none"
  BY DEF Init, NoMsg
<1> QED
  BY <1>1, <1>2, <1>3 DEF NoteField!Init

\* The application: it edits the note, or something else.
LEMMA MirrorEdits ==
    ASSUME DeviceInv, AppEdits
    PROVE  NoteField!Next \/ UNCHANGED NoteField!fields
<1>1. Idle /\ Snapshot = {} /\ UNCHANGED <<net, server>> /\ Snapshot' = {}
  <2>1. Idle /\ UNCHANGED <<net, server>>
    BY DEF AppEdits, Declare, SetVar, SetText
  <2>2. net.tag = "none"
    BY <2>1 DEF DeviceInv, ExchangeConsistent
  <2> QED
    BY <2>1, <2>2 DEF Snapshot
<1>2. ASSUME NEW v \in Vars, text' = text,
             reached' = reached \/ reached' = reached \ {v}
      PROVE  Stutter
  BY <1>1, <1>2, NoteIsField DEF Stutter
<1>3. ASSUME NEW f \in Fields, NEW t \in AppTexts, SetText(f, t)
      PROVE  NoteField!Next \/ UNCHANGED NoteField!fields
  <2>1. CASE f = Note
    <3>1. text'[Note] = [val |-> t, dirty |-> TRUE] /\ reached' = reached \ {Note}
      BY <1>3, <2>1 DEF SetText, DeviceInv, TypeOK
    <3>2. Stored(text'[Note].val) \in Texts \ JsonTexts
      BY <3>1, StoredType, DeviceSyncAssumption
    <3>3. NoteField!Edit
      BY <1>1, <3>1, <3>2 DEF NoteField!Edit, Snapshot
    <3> QED
      BY <3>3 DEF NoteField!Next
  <2>2. CASE f # Note
    <3>1. Stutter
      BY <1>1, <1>3, <2>2, NoteIsField DEF Stutter, SetText, DeviceInv, TypeOK
    <3> QED
      BY <3>1, StutterIsOne
  <2> QED
    BY <2>1, <2>2
<1>4. ASSUME \/ \E v \in Vars, t \in Types : Declare(v, t)
             \/ \E v \in Vars, x \in Values : SetVar(v, "string", x)
             \/ \E v \in Vars, x \in BoolValues : SetVar(v, "bool", x)
      PROVE  Stutter
  BY <1>2, <1>4 DEF Declare, SetVar
<1> QED
  BY <1>3, <1>4, StutterIsOne DEF AppEdits

\* The first step of a call: only canopy_get_self_device touches the note.
LEMMA MirrorCalls ==
    ASSUME DeviceInv, AppCalls
    PROVE  NoteField!Next \/ UNCHANGED NoteField!fields
<1>1. Idle /\ server' = server /\ (net' = net \/ net'.tag = "request")
  BY DEF AppCalls, GetSelfDevice, UpdateFromRemote, Push, PushTooLarge, GetRequest, PostRequest
<1>2. Snapshot = {} /\ Snapshot' = {}
  BY <1>1 DEF DeviceInv, ExchangeConsistent, Snapshot
<1>3. CASE GetSelfDevice
  <2>1. text'[Note] = [val |-> Empty, dirty |-> FALSE] /\ reached' = {}
    BY <1>3, NoteIsField DEF GetSelfDevice, BlankText
  <2>2. Stored(text'[Note].val) = Empty
    BY <2>1, DeviceSyncAssumption DEF Stored
  <2>3. NoteField!Reset
    BY <1>1, <1>2, <2>1, <2>2 DEF NoteField!Reset, Snapshot
  <2> QED
    BY <2>3 DEF NoteField!Next
<1>4. CASE UpdateFromRemote \/ Push("to_remote") \/ Push("sync") \/ PushTooLarge
  <2>1. UNCHANGED <<text, reached>>
    BY <1>4 DEF UpdateFromRemote, Push, PushTooLarge, device, history
  <2> QED
    BY <1>1, <1>2, <2>1, StutterIsOne DEF Stutter
<1> QED
  BY <1>3, <1>4 DEF AppCalls

\* The server takes the note if it is in the request, as the device holds it; in either case
\* its answer says what it has.
LEMMA MirrorTakes ==
    ASSUME DeviceInv, ServerTakes
    PROVE  NoteField!Next
<1>1. /\ net.tag = "request" /\ server' = Merged(net)
      /\ net'.tag = "answer" /\ net'.status = 200 /\ net'.body = server'
      /\ text' = text
  BY DEF ServerTakes, device
<1>2. Snapshot = {} /\ Snapshot' = {server'.text[Note]}
  BY <1>1 DEF Snapshot
<1>3. \A t \in Texts : <<Note, t>> \in net.text => text[Note].dirty /\ t = text[Note].val
  BY <1>1 DEF DeviceInv, ExchangeConsistent
<1>4. CASE \E t \in Texts : <<Note, t>> \in net.text
  <2> DEFINE t == CHOOSE t \in Texts : <<Note, t>> \in net.text
  <2>1. t \in Texts /\ <<Note, t>> \in net.text
    BY <1>4
  <2> HIDE DEF t
  <2>2. text[Note].dirty /\ t = text[Note].val
    BY <1>3, <2>1
  <2>3. server'.text[Note] = Stored(t)
    BY <1>1, <1>4, NoteIsField DEF Merged, t
  <2>4. Note \in reached'
    BY <1>4, NoteIsField DEF ServerTakes
  <2>5. NoteField!Deliver
    BY <1>1, <1>2, <2>2, <2>3, <2>4 DEF NoteField!Deliver, Snapshot
  <2> QED
    BY <2>5 DEF NoteField!Next
<1>5. CASE ~\E t \in Texts : <<Note, t>> \in net.text
  <2>1. server'.text[Note] = server.text[Note]
    BY <1>1, <1>5, NoteIsField DEF Merged
  <2>2. Note \in reached' <=> Note \in reached
    BY <1>5, NoteIsField DEF ServerTakes
  <2>3. NoteField!Report
    BY <1>1, <1>2, <2>1, <2>2 DEF NoteField!Report, Snapshot
  <2> QED
    BY <2>3 DEF NoteField!Next
<1> QED
  BY <1>4, <1>5

\* The server and its other clients.
LEMMA MirrorRemote ==
    ASSUME DeviceInv, Remote
    PROVE  NoteField!Next \/ UNCHANGED NoteField!fields
<1>1. CASE ServerRefuses
  <2>1. Snapshot = {} /\ Snapshot' = {} /\ UNCHANGED <<text, reached, server>>
    BY <1>1 DEF ServerRefuses, Snapshot, device, history
  <2> QED
    BY <2>1, StutterIsOne DEF Stutter
<1>2. ASSUME NEW v \in Vars, NEW x \in Values, RemoteWrite(v, x)
      PROVE  UNCHANGED NoteField!fields
  <2>1. server'.text = server.text /\ UNCHANGED <<net, text, reached>>
    BY <1>2 DEF RemoteWrite, device, history, DeviceInv, TypeOK, ServerState
  <2> QED
    BY <2>1, StutterIsOne DEF Stutter, Snapshot
<1>3. ASSUME NEW f \in Fields, NEW t \in Texts \ JsonTexts, RemoteText(f, t)
      PROVE  NoteField!Next
  <2>1. server'.text[Note] \in Texts \ JsonTexts /\ UNCHANGED <<net, text, reached>>
    BY <1>3, NoteIsField DEF RemoteText, device, history, DeviceInv, TypeOK, ServerState
  <2>2. NoteField!OthersEdit
    BY <2>1 DEF NoteField!OthersEdit
  <2> QED
    BY <2>2 DEF NoteField!Next
<1> QED
  BY <1>1, <1>2, <1>3, MirrorTakes DEF Remote

\* The mark goes if the server has held the note, or with the note itself.
LEMMA MirrorReturns ==
    ASSUME DeviceInv, Returns
    PROVE  NoteField!Next
<1>1. net' = NoMsg /\ Snapshot' = {} /\ server' = server
  BY DEF Returns, TransferFails, StatusNotOk, TokenizerFails, ReturnToRemote, ReturnParsed,
         Return, Snapshot, NoMsg
<1>2. CASE TransferFails \/ StatusNotOk \/ TokenizerFails
  <2>1. UNCHANGED <<text, reached>>
    BY <1>2 DEF TransferFails, StatusNotOk, TokenizerFails
  <2>2. NoteField!Lose
    BY <1>1, <2>1 DEF NoteField!Lose, Snapshot
  <2> QED
    BY <2>2 DEF NoteField!Next
<1>3. CASE ReturnToRemote
  <2>1. /\ Pushing /\ Snapshot = {net.body.text[Note]} /\ reached' = reached
        /\ net.tag = "answer" /\ net.status = 200
    BY <1>3 DEF ReturnToRemote, HttpOk, Pushing, Snapshot
  <2>2. text'[Note].val = text[Note].val /\ text'[Note].dirty = FALSE
    BY <1>3, NoteIsField DEF ReturnToRemote, TextFlagsCleared, DeviceInv, TypeOK
  <2>3. text[Note].dirty => Note \in reached
    BY <2>1, NoteIsField DEF DeviceInv, ExchangeConsistent, OwedInTransit, SameTag, EmitTag, Note
  <2>4. NoteField!Acknowledge
    BY <1>1, <2>1, <2>2, <2>3 DEF NoteField!Acknowledge, Snapshot
  <2> QED
    BY <2>4 DEF NoteField!Next
<1>4. CASE ReturnParsed
  <2>1. /\ net.tag = "answer" /\ net.status = 200 /\ net.body \in ServerState
        /\ ParseDevice(net.body)
    BY <1>4 DEF ReturnParsed, HttpOk, DeviceInv, TypeOK, Message, NoMsg
  <2>2. text'[Note] = [val |-> net.body.text[Note], dirty |-> FALSE] /\ Note \in reached'
    BY <2>1, NoteIsField DEF ParseDevice
  <2>3. Stored(text'[Note].val) = net.body.text[Note]
    BY <2>1, <2>2, NoteIsField DEF ServerState, Stored
  <2>4. NoteField!Adopt
    BY <1>1, <2>1, <2>2, <2>3 DEF NoteField!Adopt, Snapshot
  <2> QED
    BY <2>4 DEF NoteField!Next
<1> QED
  BY <1>2, <1>3, <1>4 DEF Returns

\* location_note keeps the promise of a mirrored field.
THEOREM NoteIsMirrored == Spec => NoteMirrored
<1>1. DeviceInv /\ [Next]_vars => [NoteField!Next]_(NoteField!fields)
  <2> SUFFICES ASSUME DeviceInv, [Next]_vars
               PROVE  NoteField!Next \/ UNCHANGED NoteField!fields
    OBVIOUS
  <2>1. CASE UNCHANGED vars
    BY <2>1 DEF vars, NoteField!fields
  <2> QED
    BY <2>1, MirrorEdits, MirrorCalls, MirrorRemote, MirrorReturns DEF Next
<1> QED
  BY <1>1, MirrorInit, InvariantHolds, PTL DEF NoteMirrored, NoteField!Spec, Spec

===============================================================================
