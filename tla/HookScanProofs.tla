--------------------------- MODULE HookScanProofs ---------------------------
(***************************************************************************)
(* The overlap scan of validateHooks is exact, for every address space and *)
(* every list of hooks, whatever order an unstable sort leaves equal       *)
(* starts in: it passes a list of non-empty ranges iff no two of them      *)
(* share an address.                                                       *)
(***************************************************************************)
EXTENDS HookScan, TLAPS

\* The addresses an entry stands for.
Bytes(e) == e.start .. e.end - 1
Disjoint(e1, e2) == Bytes(e1) \cap Bytes(e2) = {}

Ranged(e) == e.start \in Int /\ e.end \in Int

PairwiseDisjoint(s) == \A i, j \in DOMAIN s : i # j => Disjoint(s[i], s[j])

\* A hook reserves a number of bytes.
LEMMA RangeSizeIsNat ==
    ASSUME NEW h, h.count \in Nat, h.unit \in Nat
    PROVE  RangeSize(h) \in Nat
<1>1. h.unit \div 8 \in Nat
      OBVIOUS
<1>2. \A m, n \in Nat : m * n \in Nat
      OBVIOUS
<1> QED BY <1>1, <1>2 DEF RangeSize

\* An address is not changed by wrapping it.
LEMMA ModOfSmall == ASSUME NEW n \in Word PROVE n % WordMod = n
BY WordAssumption DEF Word

\* The range that is validated is the range that is written.
LEMMA FootprintIsRange ==
    ASSUME NEW h, NEW p, NEW m, Fits(h)
    PROVE  Bytes(Entry(h, p, m)) = Footprint(h)
<1>1. /\ Entry(h, p, m).start = h.addr
      /\ Entry(h, p, m).end = h.addr + RangeSize(h)
      BY ModOfSmall DEF Entry, Fits
<1>2. WriteSize(h) = RangeSize(h)
      BY DEF WriteSize, RangeSize
<1>3. RangeSize(h) \in Nat /\ h.addr \in Nat
      BY RangeSizeIsNat DEF Fits, Word
<1> QED BY <1>1, <1>2, <1>3 DEF Bytes, Footprint

\* p says where each entry of the sorted list s stood in the list.
Permutes(p, hooks, s) ==
    /\ DOMAIN s = DOMAIN hooks
    /\ \A i \in DOMAIN hooks : p[i] \in DOMAIN hooks /\ s[i] = hooks[p[i]]
    /\ \A i \in DOMAIN hooks : \E k \in DOMAIN hooks : p[k] = i
    /\ \A i, j \in DOMAIN hooks : i # j => p[i] # p[j]

\* A sorted list is a rearrangement of the list it was sorted from.
LEMMA SortPermutes ==
    ASSUME NEW hooks, NEW s \in SortedOrders(hooks)
    PROVE  \E p : Permutes(p, hooks, s)
<1>1. PICK p \in Rearrangements(hooks) : s = Permuted(hooks, p)
      BY DEF SortedOrders
<1>2. /\ p \in [DOMAIN hooks -> DOMAIN hooks]
      /\ \A i \in DOMAIN hooks : \E k \in DOMAIN hooks : p[k] = i
      /\ \A i, j \in DOMAIN hooks : i # j => p[i] # p[j]
      BY DEF Rearrangements, Bijection, Injection, Surjection, IsInjective
<1>3. DOMAIN s = DOMAIN hooks /\ \A i \in DOMAIN hooks : s[i] = hooks[p[i]]
      BY <1>1 DEF Permuted
<1>4. Permutes(p, hooks, s)
      BY <1>2, <1>3 DEF Permutes
<1> QED BY <1>4

\* Sorting neither adds nor drops an entry.
LEMMA SortKeepsRange ==
    ASSUME NEW hooks, NEW s \in SortedOrders(hooks)
    PROVE  Range(s) = Range(hooks)
<1>1. PICK p : Permutes(p, hooks, s)
      BY SortPermutes
<1>2. \A i \in DOMAIN s : \E k \in DOMAIN hooks : s[i] = hooks[k]
      BY <1>1 DEF Permutes
<1>3. ASSUME NEW i \in DOMAIN hooks PROVE \E k \in DOMAIN s : s[k] = hooks[i]
      <2>1. PICK k \in DOMAIN hooks : p[k] = i
            BY <1>1 DEF Permutes
      <2>2. k \in DOMAIN s /\ s[k] = hooks[p[k]]
            BY <1>1 DEF Permutes
      <2> QED BY <2>1, <2>2
<1> QED BY <1>2, <1>3 DEF Range

\* A sorted list is a sequence of the same entries.
LEMMA SortIsSeq ==
    ASSUME NEW S, NEW hooks \in Seq(S), NEW s \in SortedOrders(hooks)
    PROVE  s \in Seq(S) /\ Len(s) = Len(hooks)
<1>1. PICK p \in Rearrangements(hooks) : s = Permuted(hooks, p)
      BY DEF SortedOrders
<1>2. DOMAIN hooks = 1 .. Len(hooks) /\ Len(hooks) \in Nat
      OBVIOUS
<1>3. \A i \in 1 .. Len(hooks) : hooks[p[i]] \in S
      BY <1>2 DEF Rearrangements, Bijection, Injection
<1>4. s = [i \in 1 .. Len(hooks) |-> hooks[p[i]]]
      BY <1>1, <1>2 DEF Permuted
<1> QED BY <1>2, <1>3, <1>4

\* A list that passes the scan has no two ranges with a common address.
THEOREM ScanIsSound ==
    ASSUME NEW S, NEW hooks \in Seq(S), \A e \in S : Ranged(e),
           NEW s \in SortedOrders(hooks), ValidHooks(s)
    PROVE  PairwiseDisjoint(hooks)
<1>0. PICK p : Permutes(p, hooks, s)
      BY SortPermutes
<1>1. /\ \A i \in DOMAIN hooks : p[i] \in DOMAIN hooks /\ s[i] = hooks[p[i]]
      /\ \A i \in DOMAIN hooks : \E k \in DOMAIN hooks : p[k] = i
      BY <1>0 DEF Permutes
<1>2. DOMAIN s = DOMAIN hooks
      BY <1>0 DEF Permutes
<1>3. DOMAIN hooks = 1 .. Len(hooks) /\ Len(hooks) \in Nat
      OBVIOUS
<1>4. \A i \in DOMAIN hooks : Ranged(hooks[i])
      OBVIOUS
<1> SUFFICES ASSUME NEW i \in DOMAIN hooks, NEW j \in DOMAIN hooks, i # j
             PROVE  Disjoint(hooks[i], hooks[j])
    BY DEF PairwiseDisjoint
<1>5. PICK a \in DOMAIN hooks, b \in DOMAIN hooks : p[a] = i /\ p[b] = j
      BY <1>1
<1>6. a # b /\ s[a] = hooks[i] /\ s[b] = hooks[j]
      BY <1>1, <1>5
<1>7. ~HasConflict(s)
      <2>1. DOMAIN s = 1 .. Len(s) /\ Len(s) \in Nat
            <3>1. s = [k \in 1 .. Len(hooks) |-> s[k]]
                  BY <1>3 DEF SortedOrders, Permuted
            <3>2. Len(s) = Len(hooks)
                  BY <3>1, <1>3
            <3> QED BY <1>2, <1>3, <3>2
      <2> QED BY <1>2, <1>6, <2>1 DEF ValidHooks
<1>8. ASSUME NEW c \in DOMAIN hooks, NEW d \in DOMAIN hooks, c < d
      PROVE  Disjoint(s[c], s[d])
      <2>1. s[c].end <= s[d].start
            <3>1. Ranged(s[c]) /\ Ranged(s[d])
                  BY <1>1, <1>4
            <3> QED BY <1>2, <1>7, <1>8, <3>1 DEF HasConflict, Overlaps, Ranged
      <2>2. Ranged(s[c]) /\ Ranged(s[d])
            BY <1>1, <1>4
      <2> QED BY <2>1, <2>2 DEF Disjoint, Bytes, Ranged
<1>9. CASE a < b
      BY <1>6, <1>8, <1>9
<1>10. CASE b < a
      BY <1>6, <1>8, <1>10 DEF Disjoint
<1> QED BY <1>3, <1>6, <1>9, <1>10

\* A list of non-empty ranges without a common address passes the scan.
THEOREM ScanIsComplete ==
    ASSUME NEW S, NEW hooks \in Seq(S), \A e \in S : Ranged(e) /\ e.start < e.end,
           NEW s \in SortedOrders(hooks), PairwiseDisjoint(hooks)
    PROVE  ValidHooks(s)
<1> SUFFICES ASSUME HasConflict(s) PROVE FALSE
    BY DEF ValidHooks
<1>1. PICK i \in DOMAIN s, j \in DOMAIN s : j < i /\ s[i].start < s[j].end
      BY DEF HasConflict, Overlaps
<1>2. PICK p : Permutes(p, hooks, s)
      BY SortPermutes
<1>3. /\ DOMAIN s = DOMAIN hooks
      /\ \A k \in DOMAIN hooks : p[k] \in DOMAIN hooks /\ s[k] = hooks[p[k]]
      /\ \A k, l \in DOMAIN hooks : k # l => p[k] # p[l]
      BY <1>2 DEF Permutes
<1>4. i \in DOMAIN hooks /\ j \in DOMAIN hooks /\ i # j
      BY <1>1, <1>3
<1>5. Disjoint(s[i], s[j])
      <2>1. p[i] \in DOMAIN hooks /\ p[j] \in DOMAIN hooks /\ p[i] # p[j]
            BY <1>3, <1>4
      <2>2. s[i] = hooks[p[i]] /\ s[j] = hooks[p[j]]
            BY <1>3, <1>4
      <2> QED BY <2>1, <2>2 DEF PairwiseDisjoint
<1>6. s[i] \in S /\ s[j] \in S
      <2>1. \A k \in DOMAIN hooks : hooks[k] \in S
            OBVIOUS
      <2>2. p[i] \in DOMAIN hooks /\ s[i] = hooks[p[i]] /\ p[j] \in DOMAIN hooks /\ s[j] = hooks[p[j]]
            BY <1>3, <1>4
      <2> QED BY <2>1, <2>2
<1>7. s[j].start <= s[i].start
      BY <1>1 DEF SortedOrders, ByStart
<1>8. s[i].start \in Bytes(s[i]) /\ s[i].start \in Bytes(s[j])
      BY <1>1, <1>6, <1>7 DEF Bytes, Ranged
<1> QED BY <1>5, <1>8 DEF Disjoint
=============================================================================
