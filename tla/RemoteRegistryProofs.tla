------------------------- MODULE RemoteRegistryProofs --------------------------
(***************************************************************************)
(* The list of remotes, for every set of remotes and whatever their        *)
(* pointers held before: it is the order of canopy_remote_init, and it is  *)
(* endless if and only if a remote on it was initialised again.            *)
(***************************************************************************)
EXTENDS RemoteRegistry, Inductions

-------------------------------------------------------------------------------
(* Types                                                                   *)

\* The initial state has its types.
LEMMA TypeInit == RegistryInit => RegistryTypeOK
<1>1. <<>> \in Seq(Remotes)
  OBVIOUS
<1> QED
  BY <1>1 DEF RegistryInit, RegistryTypeOK

\* Every step keeps the types.
LEMMA TypeStep == RegistryTypeOK /\ [RegistryNext]_registryVars => RegistryTypeOK'
<1> SUFFICES ASSUME RegistryTypeOK, [RegistryNext]_registryVars
             PROVE  RegistryTypeOK'
  OBVIOUS
<1> USE DEF RegistryTypeOK
<1>1. CASE CtxInit
  <2>1. <<>> \in Seq(Remotes)
    OBVIOUS
  <2> QED
    BY <1>1, <2>1 DEF CtxInit, walk
<1>2. ASSUME NEW r \in Remotes, InitFirst(r)
      PROVE  RegistryTypeOK'
  <2>1. <<r>> \in Seq(Remotes)
    OBVIOUS
  <2> QED
    BY <1>2, <2>1 DEF InitFirst, Zeroed, walk
<1>7. ASSUME NEW r \in Remotes, InitBehind(r)
      PROVE  RegistryTypeOK'
  <2>1. again' \in BOOLEAN
    BY <1>7, Zenon DEF InitBehind
  <2>2. /\ remotes' = remotes /\ next' = [next EXCEPT ![r] = NULL] /\ loop' = "walk"
        /\ tmp' = remotes /\ remotes # NULL /\ remote' = r /\ returned' = returned /\ order' = order
    BY <1>7 DEF InitBehind, Zeroed
  <2>3. next' \in [Remotes -> Remotes \union {NULL}]
    BY <2>2
  <2> QED
    BY <2>1, <2>2, <2>3, RemoteRegistryAssumption
<1>3. CASE WalkOn
  BY <1>3 DEF WalkOn, Step
<1>4. CASE WalkEnds
  BY <1>4 DEF WalkEnds, Link
<1>5. CASE CtxShutdown \/ NotImplemented \/ BadParam
  BY <1>5 DEF CtxShutdown, NotImplemented, BadParam, walk
<1>6. CASE UNCHANGED registryVars
  BY <1>6 DEF registryVars, walk
<1> QED
  BY <1>1, <1>2, <1>3, <1>4, <1>5, <1>6, <1>7 DEF RegistryNext

\* Every pointer of the context and of its remotes is NULL or a remote.
THEOREM TypeCorrect == RegistrySpec => []RegistryTypeOK
BY TypeInit, TypeStep, PTL DEF RegistrySpec

-------------------------------------------------------------------------------
(* The list as long as no remote on it is initialised again                *)

\* The empty list.
LEMMA OrderInit == RegistryInit => ListIsOrder
BY DEF RegistryInit, ListIsOrder

\* The first remote of a context.
LEMMA OrderFirst ==
    ASSUME RegistryTypeOK, ListIsOrder, NEW r \in Remotes, InitFirst(r)
    PROVE  ListIsOrder'
<1>1. /\ remotes' = r /\ next'[r] = NULL /\ order' = <<r>> /\ loop' = "idle"
  BY DEF InitFirst, Zeroed, RegistryTypeOK, walk
<1>2. DOMAIN <<r>> = {1} /\ Len(<<r>>) = 1 /\ <<r>>[1] = r /\ <<r>> # <<>>
  OBVIOUS
<1> QED
  BY <1>1, <1>2, RemoteRegistryAssumption DEF ListIsOrder

\* Zeroing a remote that is not on the list leaves the list as it is; the loop starts on it.
LEMMA OrderBehind ==
    ASSUME RegistryTypeOK, ListIsOrder, NEW r \in Remotes, InitBehind(r)
    PROVE  ListIsOrder'
<1> SUFFICES ASSUME ~again'
             PROVE  ListIsOrder'
  BY DEF ListIsOrder
<1>1. /\ ~again /\ ~Listed(r) /\ next' = [next EXCEPT ![r] = NULL]
      /\ loop' = "walk" /\ tmp' = remotes /\ remote' = r /\ remotes # NULL
      /\ UNCHANGED <<remotes, order>>
  BY DEF InitBehind, Zeroed
<1>2. next'[r] = NULL /\ \A k \in DOMAIN order : next'[order[k]] = next[order[k]]
  BY <1>1 DEF Listed, RegistryTypeOK
<1>3. 1 \in DOMAIN order /\ order[1] = remotes
  <2>1. order # <<>> /\ order \in Seq(Remotes)
    BY <1>1 DEF ListIsOrder, RegistryTypeOK
  <2>2. 1 \in DOMAIN order
    BY <2>1
  <2> QED
    BY <1>1, <2>2 DEF ListIsOrder
<1> QED
  BY <1>1, <1>2, <1>3 DEF ListIsOrder, Listed

\* The loop goes from one remote on the list to the next.
LEMMA OrderWalk ==
    ASSUME RegistryTypeOK, ListIsOrder, WalkOn
    PROVE  ListIsOrder'
<1> SUFFICES ASSUME ~again
             PROVE  ListIsOrder'
  BY DEF ListIsOrder, WalkOn
<1>1. /\ loop = "walk" /\ tmp' = next[tmp] /\ next[tmp] # NULL
      /\ UNCHANGED <<remotes, next, loop, remote, order, again>>
  BY DEF WalkOn, Step
<1>2. PICK k \in DOMAIN order : order[k] = tmp
  BY <1>1 DEF ListIsOrder, Listed
<1>3. k < Len(order) /\ k + 1 \in DOMAIN order /\ tmp' = order[k + 1]
  <2>1. order \in Seq(Remotes) /\ k \in 1..Len(order) /\ Len(order) \in Nat
    BY DEF RegistryTypeOK
  <2>2. k # Len(order)
    BY <1>1, <1>2 DEF ListIsOrder
  <2>3. k < Len(order) /\ k + 1 \in DOMAIN order
    BY <2>1, <2>2
  <2> QED
    BY <1>1, <1>2, <2>3 DEF ListIsOrder
<1>4. Listed(tmp')
  BY <1>3 DEF Listed
<1> QED
  BY <1>1, <1>4 DEF ListIsOrder, Listed

\* The loop ends at the last remote, and the new one goes behind it.
LEMMA OrderLink ==
    ASSUME RegistryTypeOK, ListIsOrder, WalkEnds
    PROVE  ListIsOrder'
<1> SUFFICES ASSUME ~again
             PROVE  ListIsOrder'
  BY DEF ListIsOrder, WalkEnds
<1> DEFINE n == Len(order)
           o == Append(order, remote)
<1>1. /\ loop = "walk" /\ next[tmp] = NULL /\ next' = [next EXCEPT ![tmp] = remote]
      /\ loop' = "idle" /\ order' = o /\ UNCHANGED <<remotes, again>>
  BY DEF WalkEnds, Link
<1>2. order \in Seq(Remotes) /\ n \in Nat /\ tmp \in Remotes /\ remote \in Remotes
  BY <1>1 DEF RegistryTypeOK
<1>3. PICK k \in 1..n : order[k] = tmp
  BY <1>1, <1>2 DEF ListIsOrder, Listed
<1>4. k = n
  <2>1. ~(k < n)
    <3>1. ASSUME k < n
          PROVE  FALSE
      <4>1. k + 1 \in 1..n /\ next[tmp] = order[k + 1]
        BY <1>2, <1>3, <3>1 DEF ListIsOrder
      <4>2. order[k + 1] \in Remotes
        BY <1>2, <4>1
      <4> QED
        BY <1>1, <4>1, <4>2, RemoteRegistryAssumption
    <3> QED
      BY <3>1
  <2> QED
    BY <1>2, <2>1
<1>5. /\ Len(o) = n + 1 /\ DOMAIN o = 1..(n + 1) /\ o[n + 1] = remote /\ o # <<>>
      /\ \A j \in 1..n : o[j] = order[j]
  BY <1>2
<1>6. /\ ~Listed(remote) /\ next[remote] = NULL
      /\ \A j \in 1..n : order[j] # remote
      /\ \A i, j \in 1..n : order[i] = order[j] => i = j
      /\ \A j \in 1..n : j < n => next[order[j]] = order[j + 1]
      /\ remotes = order[1]
  BY <1>1, <1>2, <1>3 DEF ListIsOrder, Listed
<1>7. next'[tmp] = remote /\ \A r \in Remotes : r # tmp => next'[r] = next[r]
  BY <1>1, <1>2 DEF RegistryTypeOK
<1> HIDE DEF o, n
<1>8. \A j \in 1..(n + 1) : j \in 1..n \/ j = n + 1
  BY <1>2
<1>9. \A j \in 1..n : order[j] \in Remotes /\ (j # n => order[j] # tmp)
  BY <1>2, <1>3, <1>4, <1>6 DEF n
<1>10. ASSUME NEW j \in 1..(n + 1)
       PROVE  /\ j < n + 1 => next'[o[j]] = o[j + 1]
              /\ j = n + 1 => next'[o[j]] = NULL
  <2>1. CASE j = n + 1
    <3>1. next'[remote] = NULL
      BY <1>2, <1>3, <1>6, <1>7
    <3> QED
      BY <1>2, <1>5, <2>1, <3>1
  <2>2. CASE j = n
    BY <1>2, <1>3, <1>4, <1>5, <1>7, <2>2
  <2>3. CASE j \in 1..n /\ j # n
    <3>1. j < n /\ j + 1 \in 1..n /\ j # n + 1
      BY <1>2, <2>3
    <3>2. next'[order[j]] = order[j + 1]
      BY <1>6, <1>7, <1>9, <2>3, <3>1
    <3> QED
      BY <1>5, <2>3, <3>1, <3>2
  <2> QED
    BY <1>8, <2>1, <2>2, <2>3
<1>11. \A i, j \in 1..(n + 1) : o[i] = o[j] => i = j
  BY <1>5, <1>6, <1>8
<1>12. 1 \in 1..n /\ remotes = o[1] /\ remotes # NULL
  BY <1>2, <1>3, <1>5, <1>6, <1>9, RemoteRegistryAssumption
<1>13. \A j \in 1..(n + 1) : j = 1 => remotes = o[j]
  BY <1>12
<1> QED
  BY <1>1, <1>5, <1>10, <1>11, <1>12, <1>13 DEF ListIsOrder

\* Every step keeps the list and the order together.
LEMMA OrderStep == RegistryTypeOK /\ ListIsOrder /\ [RegistryNext]_registryVars => ListIsOrder'
<1> SUFFICES ASSUME RegistryTypeOK, ListIsOrder, [RegistryNext]_registryVars
             PROVE  ListIsOrder'
  OBVIOUS
<1>1. CASE CtxInit
  BY <1>1 DEF CtxInit, ListIsOrder, walk
<1>2. CASE CtxShutdown \/ NotImplemented \/ BadParam \/ UNCHANGED registryVars
  <2>1. UNCHANGED <<remotes, next, loop, tmp, remote, order, again>>
    BY <1>2 DEF CtxShutdown, NotImplemented, BadParam, registryVars, walk
  <2> QED
    BY <2>1 DEF ListIsOrder, Listed
<1> QED
  BY <1>1, <1>2, OrderFirst, OrderBehind, OrderWalk, OrderLink DEF RegistryNext

\* As long as no remote on the list is initialised again, the list is the order of the calls of
\* canopy_remote_init, each remote once, and it ends.
THEOREM ListFollowsOrder == RegistrySpec => []ListIsOrder
<1> DEFINE IInv == RegistryTypeOK /\ ListIsOrder
<1>1. RegistryInit => IInv
  BY TypeInit, OrderInit
<1>2. IInv /\ [RegistryNext]_registryVars => IInv'
  BY TypeStep, OrderStep
<1> QED
  BY <1>1, <1>2, PTL DEF RegistrySpec

-------------------------------------------------------------------------------
(* The list once a remote on it has been initialised again                 *)

\* The loop is on a set of remotes that it does not leave, unless its next step is the end of
\* the call: the pointer of the remote that is initialised is the only one that may be NULL.
LoopTrapped ==
    again =>
        /\ loop = "idle" => Endless
        /\ loop = "walk" =>
              \E S \in SUBSET Remotes :
                 /\ remotes \in S /\ tmp \in S
                 /\ \A r \in S : next[r] \in S \/ (r = remote /\ next[r] = NULL)

\* No remote has been initialised again.
LEMMA TrapInit == RegistryInit => LoopTrapped
BY DEF RegistryInit, LoopTrapped

\* A remote on the list is zeroed: what was behind it is lost, what is before it leads to it.
LEMMA TrapBehind ==
    ASSUME RegistryTypeOK, ListIsOrder, LoopTrapped, NEW r \in Remotes, InitBehind(r)
    PROVE  LoopTrapped'
<1> SUFFICES ASSUME again'
             PROVE  LoopTrapped'
  BY DEF LoopTrapped
<1>1. /\ loop = "idle" /\ loop' = "walk" /\ tmp' = remotes /\ remote' = r /\ remotes' = remotes
      /\ next'[r] = NULL /\ \A s \in Remotes : s # r => next'[s] = next[s]
  BY DEF InitBehind, Zeroed, RegistryTypeOK
<1>2. CASE again
  <2>1. PICK S \in SUBSET Remotes : remotes \in S /\ \A s \in S : next[s] \in S
    BY <1>1, <1>2 DEF LoopTrapped, Endless
  <2>2. \A s \in S : next'[s] \in S \/ (s = r /\ next'[s] = NULL)
    BY <1>1, <2>1
  <2> QED
    BY <1>1, <2>1, <2>2 DEF LoopTrapped
<1>3. CASE ~again
  <2>1. Listed(r)
    BY <1>3 DEF InitBehind
  <2>2. PICK k \in DOMAIN order : order[k] = r
    BY <2>1 DEF Listed
  <2>3. order \in Seq(Remotes) /\ k \in Nat /\ k >= 1 /\ DOMAIN order = 1..Len(order) /\ Len(order) \in Nat
    BY DEF RegistryTypeOK
  <2>4. \A j \in 1..k : j \in DOMAIN order /\ order[j] \in Remotes
    BY <2>2, <2>3
  <2> DEFINE S == {order[j] : j \in 1..k}
  <2>5. S \in SUBSET Remotes
    BY <2>4
  <2>6. remotes \in S
    <3>1. 1 \in 1..k
      BY <2>3
    <3>2. remotes = order[1]
      BY <1>3, <2>4, <3>1 DEF ListIsOrder
    <3> QED
      BY <3>1, <3>2
  <2>7. ASSUME NEW j \in 1..k
        PROVE  next'[order[j]] \in S \/ (order[j] = r /\ next'[order[j]] = NULL)
    <3>1. CASE j = k
      BY <1>1, <2>2, <3>1
    <3>2. CASE j # k
      <4>1. j + 1 \in 1..k /\ j < Len(order)
        BY <2>2, <2>3, <3>2
      <4>2. order[j] # r /\ next[order[j]] = order[j + 1]
        BY <1>3, <2>2, <2>4, <3>2, <4>1 DEF ListIsOrder
      <4> QED
        BY <1>1, <2>4, <4>1, <4>2
    <3> QED
      BY <3>1, <3>2
  <2>8. \A s \in S : next'[s] \in S \/ (s = r /\ next'[s] = NULL)
    BY <2>7
  <2> HIDE DEF S
  <2> QED
    BY <1>1, <2>5, <2>6, <2>8 DEF LoopTrapped
<1> QED
  BY <1>2, <1>3

\* The loop stays in its set, and if it ends, it closes it.
LEMMA TrapWalk ==
    ASSUME RegistryTypeOK, LoopTrapped, WalkOn \/ WalkEnds
    PROVE  LoopTrapped'
<1> SUFFICES ASSUME again
             PROVE  LoopTrapped'
  BY DEF LoopTrapped, WalkOn, WalkEnds
<1>1. PICK S \in SUBSET Remotes :
         /\ remotes \in S /\ tmp \in S
         /\ \A r \in S : next[r] \in S \/ (r = remote /\ next[r] = NULL)
  BY DEF LoopTrapped, WalkOn, WalkEnds
<1>2. CASE WalkOn
  BY <1>1, <1>2 DEF WalkOn, Step, LoopTrapped
<1>3. CASE WalkEnds
  <2>1. tmp = remote
    BY <1>1, <1>3, RemoteRegistryAssumption DEF WalkEnds
  <2>2. next'[tmp] = tmp /\ \A r \in S : r # tmp => next'[r] = next[r]
    BY <1>1, <1>3, <2>1 DEF WalkEnds, Link, RegistryTypeOK
  <2>3. \A r \in S : next'[r] \in S
    BY <1>1, <2>1, <2>2
  <2>4. Endless' /\ loop' = "idle"
    BY <1>1, <1>3, <2>3 DEF WalkEnds, Endless
  <2> QED
    BY <2>4 DEF LoopTrapped
<1> QED
  BY <1>2, <1>3

\* Every step keeps the loop in its set.
LEMMA TrapStep == RegistryTypeOK /\ ListIsOrder /\ LoopTrapped /\ [RegistryNext]_registryVars => LoopTrapped'
<1> SUFFICES ASSUME RegistryTypeOK, ListIsOrder, LoopTrapped, [RegistryNext]_registryVars
             PROVE  LoopTrapped'
  OBVIOUS
<1>1. CASE CtxInit
  BY <1>1 DEF CtxInit, LoopTrapped
<1>2. ASSUME NEW r \in Remotes, InitFirst(r)
      PROVE  LoopTrapped'
  BY <1>2, RemoteRegistryAssumption DEF InitFirst, LoopTrapped, Endless
<1>3. CASE CtxShutdown \/ NotImplemented \/ BadParam \/ UNCHANGED registryVars
  <2>1. UNCHANGED <<remotes, next, loop, tmp, remote, order, again>>
    BY <1>3 DEF CtxShutdown, NotImplemented, BadParam, registryVars, walk
  <2> QED
    BY <2>1 DEF LoopTrapped, Endless
<1> QED
  BY <1>1, <1>2, <1>3, TrapBehind, TrapWalk DEF RegistryNext

\* A list in the order of the calls ends: the last remote on it in a set that next does not
\* leave would have to have a next one.
LEMMA OrderEnds ==
    ASSUME RegistryTypeOK, ListIsOrder, ~again
    PROVE  ~Endless
<1> SUFFICES ASSUME NEW S \in SUBSET Remotes, remotes \in S, \A r \in S : next[r] \in S
             PROVE  FALSE
  BY DEF Endless
<1> DEFINE n == Len(order)
           T == {k \in 1..n : order[k] \in S}
<1>1. order \in Seq(Remotes) /\ n \in Nat /\ DOMAIN order = 1..n /\ remotes # NULL
  BY RemoteRegistryAssumption DEF RegistryTypeOK
<1>2. 1 \in T
  <2>1. order # <<>>
    BY <1>1 DEF ListIsOrder
  <2>2. 1 \in 1..n
    BY <1>1, <2>1
  <2> QED
    BY <1>1, <2>2 DEF ListIsOrder
<1>3. T \subseteq Nat /\ \A k \in T : k =< n
  BY <1>1
<1> HIDE DEF T
<1>4. PICK k \in T : \A j \in T : j =< k
  BY <1>1, <1>2, <1>3, GreatestNatural
<1>5. k \in 1..n /\ order[k] \in S
  BY DEF T
<1>6. CASE k = n
  BY <1>1, <1>5, <1>6, RemoteRegistryAssumption DEF ListIsOrder
<1>7. CASE k # n
  <2> HIDE DEF n
  <2>1. k + 1 \in 1..n /\ k < n /\ ~(k + 1 =< k)
    BY <1>1, <1>5, <1>7, SMT
  <2> USE DEF n
  <2>2. order[k + 1] \in S
    BY <1>1, <1>5, <2>1 DEF ListIsOrder
  <2>3. k + 1 \in T
    BY <2>1, <2>2 DEF T
  <2> QED
    BY <1>4, <2>1, <2>3
<1> QED
  BY <1>6, <1>7

\* Initialising a remote that is on the list closes the list on itself, for any number of remotes
\* and at any place, and nothing but canopy_ctx_init opens it again.
THEOREM EndlessOnlyIfAgain == RegistrySpec => []EndlessIfAgain
<1> DEFINE IInv == RegistryTypeOK /\ ListIsOrder /\ LoopTrapped
<1>1. RegistryInit => IInv
  BY TypeInit, OrderInit, TrapInit
<1>2. IInv /\ [RegistryNext]_registryVars => IInv'
  BY TypeStep, OrderStep, TrapStep
<1>3. IInv => EndlessIfAgain
  BY OrderEnds DEF EndlessIfAgain, LoopTrapped, RegistryTypeOK
<1> QED
  BY <1>1, <1>2, <1>3, PTL DEF RegistrySpec

===============================================================================
