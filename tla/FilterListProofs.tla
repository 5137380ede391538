-------------------------- MODULE FilterListProofs ----------------------------
(***************************************************************************)
(* The chain of filters, for every set of filters and every series of      *)
(* calls, with filters that are appended again.                                 *)
(***************************************************************************)
EXTENDS FilterList, TLAPS

IInv == ChainTypeOK /\ ChainIsOrder

LEMMA InitKeeps == ChainInit => IInv
<1>1. ASSUME ChainInit PROVE IInv
  <2>1. chain = <<>> /\ DOMAIN chain = {} /\ chain \in Seq(Filters)
    BY <1>1 DEF ChainInit
  <2>. QED
    BY <1>1, <2>1 DEF ChainInit, IInv, ChainTypeOK, ChainIsOrder
<1>. QED
  BY <1>1

\* A filter that is not on the chain: one more, behind the others.
LEMMA NewFilter ==
    ASSUME IInv, NEW f \in Filters, First(f) \/ Behind(f),
           ~OnChain(f), chain' = Append(chain, f)
    PROVE  ChainIsOrder' /\ chain' \in Seq(Filters)
<1>. USE FilterListAssumption DEF IInv, ChainTypeOK
<1>1. /\ Len(chain) \in Nat /\ DOMAIN chain = 1..Len(chain)
      /\ chain' \in Seq(Filters) /\ chain' # <<>>
      /\ Len(chain') = Len(chain) + 1 /\ DOMAIN chain' = 1..(Len(chain) + 1)
      /\ \A k \in DOMAIN chain : chain'[k] = chain[k] /\ chain[k] \in Filters
      /\ chain'[Len(chain) + 1] = f
  OBVIOUS
<1>2. \A k \in DOMAIN chain : chain[k] # f
  BY DEF OnChain
<1>3. head' # NoFilter
  BY DEF First, Behind
<1>4. \A j, k \in DOMAIN chain' : chain'[j] = chain'[k] => j = k
  BY <1>1, <1>2 DEF ChainIsOrder
<1>5. CASE chain = <<>>
  <2>1. First(f)
    BY <1>5 DEF ChainIsOrder, Behind
  <2>2. head' = f /\ tail' = f /\ link'[f] = NoFilter
    BY <2>1 DEF First
  <2>3. Len(chain) = 0
    BY <1>5
  <2>. QED
    BY <1>1, <1>3, <1>4, <2>2, <2>3 DEF ChainIsOrder
<1>6. CASE chain # <<>>
  <2>1. Behind(f) /\ Len(chain) \in DOMAIN chain
    BY <1>1, <1>6 DEF ChainIsOrder, First
  <2>2. head' = head /\ tail' = f /\ tail = chain[Len(chain)] /\ tail \in Filters /\ tail # f
    BY <1>1, <1>2, <2>1 DEF ChainIsOrder, Behind
  <2>3. link' = [link EXCEPT ![f] = NoFilter, ![tail] = f, ![f] = NoFilter]
    BY <2>1 DEF Behind, Linked
  <2>4. /\ link'[f] = NoFilter /\ link'[tail] = f
        /\ \A g \in Filters : g # f /\ g # tail => link'[g] = link[g]
    BY <2>2, <2>3
  <2>5. ASSUME NEW k \in DOMAIN chain'
        PROVE  /\ k = 1 => head' = chain'[k]
               /\ k < Len(chain') => link'[chain'[k]] = chain'[k + 1]
               /\ k = Len(chain') => tail' = chain'[k] /\ link'[chain'[k]] = NoFilter
    <3>1. CASE k < Len(chain)
      <4>1. k \in DOMAIN chain /\ k + 1 \in DOMAIN chain
        BY <1>1, <2>5, <3>1
      <4>2. chain[k] # tail /\ chain[k] # f
        BY <1>2, <2>1, <2>2, <3>1, <4>1 DEF ChainIsOrder
      <4>. QED
        BY <1>1, <2>2, <2>4, <3>1, <4>1, <4>2 DEF ChainIsOrder
    <3>2. CASE k = Len(chain)
      <4>1. chain'[k] = tail /\ chain'[k + 1] = f
        BY <1>1, <2>1, <2>2, <3>2
      <4>2. k = 1 => head' = chain'[k]
        BY <1>1, <2>1, <2>2, <3>2 DEF ChainIsOrder
      <4>. QED
        <5>1. k < Len(chain') /\ k # Len(chain')
          <6>1. Len(chain) \in Nat /\ Len(chain') = Len(chain) + 1
            BY <1>1
          <6>2. Len(chain) < Len(chain') /\ Len(chain) # Len(chain')
            BY <6>1
          <6>. QED
            BY <3>2, <6>2
        <5>2. link'[chain'[k]] = chain'[k + 1]
          BY <2>4, <4>1
        <5>. QED
          BY <4>2, <5>1, <5>2
    <3>3. CASE k = Len(chain) + 1
      BY <1>1, <2>1, <2>2, <2>4, <3>3
    <3>. QED
      BY <1>1, <2>5, <3>1, <3>2, <3>3
  <2>. QED
    BY <1>1, <1>3, <1>4, <2>5 DEF ChainIsOrder
<1>. QED
  BY <1>1, <1>5, <1>6

\* A filter on the chain, at position k: it becomes the end.
LEMMA KnownFilter ==
    ASSUME IInv, NEW f \in Filters, First(f) \/ Behind(f),
           NEW k \in DOMAIN chain, chain[k] = f, chain' = SubSeq(chain, 1, k)
    PROVE  ChainIsOrder' /\ chain' \in Seq(Filters)
<1>. USE FilterListAssumption DEF IInv, ChainTypeOK
<1>1. /\ Len(chain) \in Nat /\ DOMAIN chain = 1..Len(chain) /\ k \in 1..Len(chain)
      /\ \A i \in DOMAIN chain : chain[i] \in Filters
  OBVIOUS
<1>2. /\ chain' \in Seq(Filters) /\ chain' # <<>>
      /\ Len(chain') = k /\ DOMAIN chain' = 1..k
      /\ \A i \in 1..k : chain'[i] = chain[i] /\ i \in DOMAIN chain
  BY <1>1
<1>3. Behind(f) /\ head' = head /\ head # NoFilter /\ tail' = f
  BY <1>1 DEF First, Behind, ChainIsOrder
<1>4. link' = [link EXCEPT ![f] = NoFilter, ![tail] = f, ![f] = NoFilter]
  BY <1>3 DEF Behind, Linked
<1>5. tail = chain[Len(chain)] /\ tail \in Filters
  BY <1>1 DEF ChainIsOrder
<1>6. /\ link'[f] = NoFilter
      /\ \A g \in Filters : g # f /\ g # tail => link'[g] = link[g]
  BY <1>4, <1>5
<1>7. ASSUME NEW i \in DOMAIN chain'
      PROVE  /\ i = 1 => head' = chain'[i]
             /\ i < Len(chain') => link'[chain'[i]] = chain'[i + 1]
             /\ i = Len(chain') => tail' = chain'[i] /\ link'[chain'[i]] = NoFilter
  <2>1. CASE i < k
    <3>1. i + 1 \in 1..k /\ i \in DOMAIN chain /\ Len(chain) \in DOMAIN chain
      BY <1>1, <1>2, <2>1
    <3>2. chain[i] # f /\ chain[i] # tail
      <4>1. \A j \in DOMAIN chain : chain[i] = chain[j] => i = j
        BY <3>1 DEF ChainIsOrder
      <4>2. i # k /\ i # Len(chain) /\ k \in DOMAIN chain
        BY <1>1, <1>2, <2>1
      <4>. QED
        BY <1>5, <3>1, <4>1, <4>2
    <3>. QED
      BY <1>1, <1>2, <1>3, <1>6, <2>1, <3>1, <3>2 DEF ChainIsOrder
  <2>2. CASE i = k
    BY <1>1, <1>2, <1>3, <1>6, <2>2 DEF ChainIsOrder
  <2>. QED
    BY <1>1, <1>2, <1>7, <2>1, <2>2
<1>8. \A i, j \in DOMAIN chain' : chain'[i] = chain'[j] => i = j
  BY <1>2 DEF ChainIsOrder
<1>. QED
  BY <1>2, <1>3, <1>7, <1>8 DEF ChainIsOrder

LEMMA NextKeeps == IInv /\ [ChainNext]_chainVars => IInv'
<1>. SUFFICES ASSUME IInv, [ChainNext]_chainVars PROVE IInv'
  OBVIOUS
<1>1. ASSUME NEW f \in Filters, NEW c \in Contents, AppendFilter(f, c) PROVE IInv'
  <2>1. ChainIsOrder' /\ chain' \in Seq(Filters)
    BY <1>1, NewFilter, KnownFilter DEF AppendFilter
  <2>2. ChainTypeOK'
    BY <1>1, <2>1, FilterListAssumption DEF AppendFilter, First, Behind, Linked, IInv, ChainTypeOK
  <2>. QED
    BY <2>1, <2>2 DEF IInv
<1>2. CASE NoFilterGiven
  BY <1>2 DEF NoFilterGiven, IInv, ChainTypeOK, ChainIsOrder
<1>3. CASE UNCHANGED chainVars
  BY <1>3 DEF chainVars, IInv, ChainTypeOK, ChainIsOrder
<1>. QED
  BY <1>1, <1>2, <1>3 DEF ChainNext

\* A root is empty or has both a head and a tail.
THEOREM TypeCorrect == ChainSpec => []ChainTypeOK
<1>1. IInv => ChainTypeOK
  BY DEF IInv
<1>. QED
  BY <1>1, InitKeeps, NextKeeps, PTL DEF ChainSpec

\* Whatever the caller appends, and however often, the chain is the sequence that
\* the calls say, it ends, and the tail is its end.
THEOREM ChainFollowsOrder == ChainSpec => []ChainIsOrder
<1>1. IInv => ChainIsOrder
  BY DEF IInv
<1>. QED
  BY <1>1, InitKeeps, NextKeeps, PTL DEF ChainSpec

===============================================================================
