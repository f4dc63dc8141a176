----------------------------- MODULE HeapProofs -----------------------------
(***************************************************************************)
(* Proofs about HeapPool for every number of pages, slots and references.  *)
(*                                                                         *)
(* The free list ends, has no slot twice, and leads to free slots only;    *)
(* without Trace it holds all of them.  It is described by an enumeration  *)
(* of its slots, which each operation is shown to turn into another; Walk  *)
(* is then that enumeration.                                               *)
(*                                                                         *)
(* The count of every object is the number of references to it, at every   *)
(* step of a destruction too, nothing dangles, the global count of a Trace *)
(* build is the sum of the counts, and a sweep that ends has freed         *)
(* everything.                                                             *)
(***************************************************************************)
EXTENDS HeapPool, FiniteSetTheorems, FunctionTheorems, TLAPS

(* Every nonempty set of natural numbers has a least member.               *)
LEMMA LeastNumber ==
  ASSUME NEW T, T \subseteq Nat, T # {}
  PROVE  \E m \in T : \A n \in T : m <= n
<1> DEFINE R == {x \in Nat \X Nat : x[1] < x[2]}
<1>0. IsWellFoundedOn(R, Nat)
  BY NatLessThanWellFounded DEF OpToRel
<1>1. \E m \in T : \A n \in T : ~(<<n, m>> \in R)
  BY <1>0, WFMin
<1>2. PICK m \in T : \A n \in T : ~(<<n, m>> \in R)
  BY <1>1
<1>3. \A n \in T : ~(n < m)
  BY <1>2
<1> QED
  BY <1>2, <1>3

(* Pages are laid out one after the other.                                 *)
LEMMA PageBounds ==
  ASSUME NEW m \in Nat, NEW n \in Nat, m <= n
  PROVE  /\ m * SlotsPerPage \in Nat /\ n * SlotsPerPage \in Nat
         /\ m * SlotsPerPage <= n * SlotsPerPage
         /\ m < n => m * SlotsPerPage + SlotsPerPage <= n * SlotsPerPage
BY HeapPoolAssumption

-----------------------------------------------------------------------------
(* The types of the variables the list is made of.                         *)
ListTyped ==
  /\ Trace \in BOOLEAN
  /\ pages \in 1..MaxPages /\ ready \in 1..pages
  /\ meta \in [Slots -> {"none", "free", "obj", "half"}]
  /\ next \in [Slots -> Slots \cup {Null}]
  /\ head \in Slots \cup {Null} /\ tail \in Slots \cup {Null}

(* The slots there are: those of the initialised pages.                    *)
PagesLaid == \A s \in Slots : meta[s] = "none" <=> s > ready * SlotsPerPage

(* The n slots of the list, in order: q enumerates them.  In a Trace build *)
(* the tail may be one slot behind, as freePoolObject does not move it;    *)
(* without Trace there is no tail, and no free slot is missing.            *)
Links(q, n) ==
  /\ q \in [1..n -> Slots]
  /\ \A i \in 1..n : meta[q[i]] = "free"
  /\ \A i, j \in 1..n : q[i] = q[j] => i = j
  /\ \A i \in 1..n : next[q[i]] = IF i = n THEN Null ELSE q[i + 1]
  /\ head = IF n = 0 THEN Null ELSE q[1]

TailOf(q, n) ==
  IF Trace /\ n > 0 THEN tail = q[n] \/ (n > 1 /\ tail = q[n - 1]) ELSE tail = Null

Complete(q, n) ==
  ~Trace /\ ready = pages => \A s \in Slots : meta[s] = "free" => \E i \in 1..n : q[i] = s

Path(q, n) == Links(q, n) /\ TailOf(q, n) /\ Complete(q, n)

ListPath == \E n \in Nat : \E q \in [1..n -> Slots] : Path(q, n)

ListInv == ListTyped /\ PagesLaid /\ ListPath

(* Slots of the first pages, and of the pages of one growth.               *)
LEMMA SlotsOfPages ==
  ASSUME NEW m \in Nat, NEW n \in 0..MaxPages, m <= n
  PROVE  /\ SlotsOf(m, n) \subseteq Slots
         /\ \A s \in Slots : s \in SlotsOf(m, n) <=> m * SlotsPerPage < s /\ s <= n * SlotsPerPage
<1>1. n * SlotsPerPage <= MaxPages * SlotsPerPage
  BY PageBounds, HeapPoolAssumption
<1>2. m * SlotsPerPage \in Nat /\ n * SlotsPerPage \in Nat /\ MaxPages * SlotsPerPage \in Nat
  BY PageBounds, HeapPoolAssumption
<1> QED
  BY <1>1, <1>2 DEF Slots, SlotsOf

(* Heap.init: the list is the first page, in order.                        *)
LEMMA InitList == Init => ListInv
<1> SUFFICES ASSUME Init PROVE ListInv
  OBVIOUS
<1> DEFINE q == [i \in 1..SlotsPerPage |-> i]
<1>1. SlotsPerPage \in Nat \ {0} /\ MaxPages \in Nat \ {0} /\ Builds \subseteq BOOLEAN /\ Null \notin Nat
  BY HeapPoolAssumption
<1>2. SlotsPerPage <= MaxPages * SlotsPerPage /\ MaxPages * SlotsPerPage \in Nat
      /\ 1 * SlotsPerPage = SlotsPerPage /\ 0 * SlotsPerPage = 0
  BY <1>1, PageBounds
<1>3. SlotsOf(0, 1) = 1..SlotsPerPage /\ 1..SlotsPerPage \subseteq Slots
  BY <1>1, <1>2 DEF Slots, SlotsOf
<1>4. ListTyped
  <2>1. next \in [Slots -> Slots \cup {Null}]
    <3>1. \A s \in Slots : s < SlotsPerPage => s + 1 \in Slots
      BY <1>1, <1>2, <1>3 DEF Slots
    <3> QED
      BY <3>1 DEF Init
  <2>2. head \in Slots /\ tail \in Slots \cup {Null}
    BY <1>1, <1>2 DEF Init, Slots
  <2> QED
    BY <2>1, <2>2, <1>1 DEF Init, ListTyped
<1>5. PagesLaid
  BY <1>1, <1>2, <1>3 DEF Init, PagesLaid, Slots
<1>6. Links(q, SlotsPerPage)
  BY <1>1, <1>3 DEF Init, Links
<1>7. TailOf(q, SlotsPerPage)
  BY <1>1, <1>3 DEF Init, TailOf
<1>8. Complete(q, SlotsPerPage)
  BY <1>1, <1>3 DEF Init, Complete
<1>9. q \in [1..SlotsPerPage -> Slots]
  BY <1>3
<1> QED
  BY <1>1, <1>4, <1>5, <1>6, <1>7, <1>8, <1>9 DEF ListInv, ListPath, Path

(* Taking the head leaves the rest of the list.                            *)
LEMMA TakeListedKeeps ==
  ASSUME ListInv, NEW s, NEW m \in {"obj", "half"}, TakeListed(s, m), UNCHANGED Trace
  PROVE  ListInv' /\ s \in Slots /\ meta[s] = "free"
<1>0. PICK n \in Nat : \E q \in [1..n -> Slots] : Path(q, n)
  BY DEF ListInv, ListPath
<1>1. PICK q \in [1..n -> Slots] : Path(q, n)
  BY <1>0
<1>2. n > 0 /\ s = q[1] /\ s \in Slots /\ meta[s] = "free"
  BY <1>1 DEF TakeListed, Path, Links
<1>a. PICK r \in [1..(n - 1) -> Slots] : r = [i \in 1..(n - 1) |-> q[i + 1]]
  <2>1. [i \in 1..(n - 1) |-> q[i + 1]] \in [1..(n - 1) -> Slots]
    OBVIOUS
  <2> QED
    BY <2>1
<1>3. n - 1 \in Nat /\ \A i \in 1..(n - 1) : i + 1 \in 1..n /\ r[i] = q[i + 1] /\ r[i] # s
  BY <1>1, <1>2, <1>a DEF Path, Links
<1>4. ListTyped'
  BY <1>2 DEF ListInv, ListTyped, TakeListed
<1>5. PagesLaid'
  BY <1>2 DEF ListInv, PagesLaid, TakeListed, ListTyped
<1>6. Links(r, n - 1)'
  <2>1. head' = IF n - 1 = 0 THEN Null ELSE r[1]
    BY <1>1, <1>2, <1>3 DEF TakeListed, Path, Links
  <2>2. \A i \in 1..(n - 1) : meta'[r[i]] = "free"
    BY <1>1, <1>3 DEF TakeListed, Path, Links, ListInv, ListTyped
  <2>3. \A i \in 1..(n - 1) : next'[r[i]] = IF i = n - 1 THEN Null ELSE r[i + 1]
    BY <1>1, <1>3 DEF TakeListed, Path, Links
  <2>4. \A i, j \in 1..(n - 1) : r[i] = r[j] => i = j
    BY <1>1, <1>3 DEF Path, Links
  <2> QED
    BY <1>1, <1>3, <2>1, <2>2, <2>3, <2>4 DEF Links
<1>7. TailOf(r, n - 1)'
  <2>1. CASE ~Trace
    BY <1>1, <1>2, <2>1, HeapPoolAssumption DEF Path, TailOf, TakeListed, Slots
  <2>2. CASE Trace /\ tail = s
    <3>1. tail' = IF n = 1 THEN Null ELSE q[2]
      BY <1>1, <1>2, <2>2 DEF Path, Links, TakeListed
    <3>2. n > 1 => n = 2
      BY <1>1, <1>2, <2>2 DEF Path, TailOf, Links
    <3> QED
      BY <1>2, <1>3, <2>2, <3>1, <3>2 DEF TailOf
  <2>3. CASE Trace /\ tail # s
    <3>1. tail' = tail /\ n > 1
      BY <1>1, <1>2, <2>3 DEF Path, TailOf, TakeListed
    <3>2. tail = r[n - 1] \/ (n > 2 /\ tail = r[n - 2])
      BY <1>1, <1>2, <1>3, <2>3, <3>1 DEF Path, TailOf
    <3> QED
      BY <1>2, <2>3, <3>1, <3>2 DEF TailOf
  <2> QED
    BY <2>1, <2>2, <2>3 DEF ListInv, ListTyped
<1>8. Complete(r, n - 1)'
  <2> SUFFICES ASSUME ~Trace, ready = pages, NEW t \in Slots, meta'[t] = "free"
               PROVE  \E i \in 1..(n - 1) : r[i] = t
    BY DEF Complete, TakeListed
  <2>1. meta[t] = "free" /\ t # s
    BY <1>2 DEF TakeListed, ListInv, ListTyped
  <2>2. PICK i \in 1..n : q[i] = t
    BY <1>1, <2>1 DEF Path, Complete
  <2>3. i - 1 \in 1..(n - 1) /\ r[i - 1] = t
    BY <1>2, <1>3, <2>1, <2>2
  <2> QED
    BY <2>3
<1> QED
  BY <1>2, <1>3, <1>4, <1>5, <1>6, <1>7, <1>8 DEF ListInv, ListPath, Path

(* A slot given back to a list without Trace is its first.                 *)
LEMMA FreeAtFront ==
  ASSUME ListInv, ~Trace, UNCHANGED Trace, NEW s \in Slots, meta[s] \notin {"free", "none"}, FreeSlot(s)
  PROVE  ListPath'
<1>0. PICK n \in Nat : \E q \in [1..n -> Slots] : Path(q, n)
  BY DEF ListInv, ListPath
<1>1. PICK q \in [1..n -> Slots] : Path(q, n)
  BY <1>0
<1>a. PICK r \in [1..(n + 1) -> Slots] : r = [i \in 1..(n + 1) |-> IF i = 1 THEN s ELSE q[i - 1]]
  <2>1. [i \in 1..(n + 1) |-> IF i = 1 THEN s ELSE q[i - 1]] \in [1..(n + 1) -> Slots]
    OBVIOUS
  <2> QED
    BY <2>1
<1>2. r[1] = s /\ \A i \in 1..(n + 1) : i = 1 \/ (i - 1 \in 1..n /\ r[i] = q[i - 1])
  BY <1>1, <1>a
<1>3. \A i \in 1..n : q[i] # s /\ q[i] \in Slots
  BY <1>1 DEF Path, Links
<1>4. /\ meta' = [meta EXCEPT ![s] = "free"] /\ next' = [next EXCEPT ![s] = head]
      /\ head' = s /\ tail' = tail /\ UNCHANGED <<pages, ready>>
  BY DEF FreeSlot
<1>5. Links(r, n + 1)'
  <2>1. \A i \in 1..(n + 1) : meta'[r[i]] = "free"
    BY <1>1, <1>2, <1>3, <1>4 DEF Path, Links, ListInv, ListTyped
  <2>2. \A i, j \in 1..(n + 1) : r[i] = r[j] => i = j
    BY <1>1, <1>2, <1>3 DEF Path, Links
  <2>3. \A i \in 1..(n + 1) : next'[r[i]] = IF i = n + 1 THEN Null ELSE r[i + 1]
    <3> SUFFICES ASSUME NEW i \in 1..(n + 1) PROVE next'[r[i]] = IF i = n + 1 THEN Null ELSE r[i + 1]
      OBVIOUS
    <3>1. CASE i = 1
      <4>1. next'[s] = head /\ r[i] = s
        BY <1>2, <1>4, <3>1 DEF ListInv, ListTyped
      <4>2. n > 0 => 2 \in 1..(n + 1) /\ r[2] = q[1]
        BY <1>2
      <4> QED
        BY <1>1, <3>1, <4>1, <4>2 DEF Path, Links
    <3>2. CASE i # 1
      <4>1. i - 1 \in 1..n /\ r[i] = q[i - 1] /\ next'[r[i]] = next[q[i - 1]]
        BY <1>2, <1>3, <1>4, <3>2 DEF ListInv, ListTyped
      <4>2. i < n + 1 => r[i + 1] = q[i]
        BY <1>a, <3>2
      <4> QED
        BY <1>1, <4>1, <4>2 DEF Path, Links
    <3> QED
      BY <3>1, <3>2
  <2> QED
    BY <1>2, <1>4, <2>1, <2>2, <2>3 DEF Links
<1>6. TailOf(r, n + 1)'
  BY <1>1, <1>4 DEF TailOf, Path
<1>7. Complete(r, n + 1)'
  <2> SUFFICES ASSUME ready = pages, NEW t \in Slots, meta'[t] = "free"
               PROVE  \E i \in 1..(n + 1) : r[i] = t
    BY <1>4 DEF Complete
  <2>1. CASE t = s
    BY <1>2, <2>1
  <2>2. CASE t # s
    <3>1. PICK i \in 1..n : q[i] = t
      BY <1>1, <1>4, <2>2 DEF Path, Complete, ListInv, ListTyped
    <3>2. i + 1 \in 1..(n + 1) /\ r[i + 1] = t
      BY <1>a, <3>1
    <3> QED
      BY <3>2
  <2> QED
    BY <2>1, <2>2
<1> QED
  BY <1>2, <1>5, <1>6, <1>7 DEF ListPath, Path

(* In a Trace build it is put behind the slot that tail names: the last    *)
(* one, or the last but one, and then the last is lost.                    *)
LEMMA FreeAtBack ==
  ASSUME ListInv, Trace, UNCHANGED Trace, NEW s \in Slots, meta[s] \notin {"free", "none"}, FreeSlot(s)
  PROVE  ListPath'
<1>0. PICK n \in Nat : \E q \in [1..n -> Slots] : Path(q, n)
  BY DEF ListInv, ListPath
<1>1. PICK q \in [1..n -> Slots] : Path(q, n)
  BY <1>0
<1>2. Null \notin Slots
  BY HeapPoolAssumption DEF Slots
<1>3. \A i \in 1..n : q[i] # s /\ q[i] \in Slots /\ q[i] # Null
  BY <1>1, <1>2 DEF Path, Links
<1>4. CASE n = 0
  <2> DEFINE r == [i \in 1..1 |-> s]
  <2>1. tail = Null
    BY <1>1, <1>4 DEF Path, TailOf
  <2>2. /\ meta' = [meta EXCEPT ![s] = "free"] /\ next' = [next EXCEPT ![s] = Null]
        /\ head' = s /\ tail' = s
    BY <2>1 DEF FreeSlot
  <2>3. Links(r, 1)' /\ TailOf(r, 1)' /\ Complete(r, 1)'
    BY <2>2 DEF Links, TailOf, Complete, ListInv, ListTyped
  <2> QED
    BY <2>3 DEF ListPath, Path, Links
<1>5. CASE n > 0
  <2>a. PICK k \in Nat : k = IF tail = q[n] THEN n + 1 ELSE n
    OBVIOUS
  <2>b. PICK r \in [1..k -> Slots] : r = [i \in 1..k |-> IF i = k THEN s ELSE q[i]]
    <3>1. [i \in 1..k |-> IF i = k THEN s ELSE q[i]] \in [1..k -> Slots]
      BY <2>a
    <3> QED
      BY <3>1
  <2>1. k \in Nat /\ k > 1 /\ tail = q[k - 1] /\ k - 1 \in 1..n /\ k <= n + 1
    BY <1>1, <1>5, <2>a DEF Path, TailOf
  <2>2. /\ meta' = [meta EXCEPT ![s] = "free"]
        /\ next' = [next EXCEPT ![s] = Null, ![tail] = s]
        /\ UNCHANGED <<head, tail>>
    BY <1>3, <2>1 DEF FreeSlot
  <2>3. r[k] = s /\ \A i \in 1..k : i = k \/ (i \in 1..n /\ i < k /\ r[i] = q[i])
    BY <1>3, <2>1, <2>b
  <2>4. Links(r, k)'
    <3>1. \A i \in 1..k : meta'[r[i]] = "free"
      BY <1>1, <2>2, <2>3 DEF Path, Links, ListInv, ListTyped
    <3>2. \A i, j \in 1..k : r[i] = r[j] => i = j
      BY <1>1, <1>3, <2>3 DEF Path, Links
    <3>3. \A i \in 1..k : next'[r[i]] = IF i = k THEN Null ELSE r[i + 1]
      <4> SUFFICES ASSUME NEW i \in 1..k PROVE next'[r[i]] = IF i = k THEN Null ELSE r[i + 1]
        OBVIOUS
      <4>1. CASE i = k
        BY <1>3, <2>1, <2>2, <2>3, <4>1 DEF ListInv, ListTyped
      <4>2. CASE i = k - 1
        <5>1. r[i] = tail /\ tail \in Slots /\ tail # s
          BY <1>3, <2>1, <2>3, <4>2
        <5> QED
          BY <2>1, <2>2, <2>3, <4>2, <5>1 DEF ListInv, ListTyped
      <4>3. CASE i # k /\ i # k - 1
        <5>1. i \in 1..n /\ i < n /\ r[i] = q[i] /\ r[i + 1] = q[i + 1] /\ i + 1 < k
          BY <2>1, <2>3, <4>3
        <5>2. q[i] # s /\ q[i] # tail /\ q[i] \in Slots
          BY <1>1, <1>3, <2>1, <4>3, <5>1 DEF Path, Links
        <5>3. next[q[i]] = q[i + 1]
          BY <1>1, <5>1 DEF Path, Links
        <5> QED
          BY <2>2, <4>3, <5>1, <5>2, <5>3 DEF ListInv, ListTyped
      <4> QED
        BY <4>1, <4>2, <4>3
    <3>4. head' = r[1] /\ k # 0
      BY <1>1, <1>5, <2>1, <2>2, <2>3 DEF Path, Links
    <3> QED
      BY <2>1, <2>3, <3>1, <3>2, <3>3, <3>4 DEF Links
  <2>5. TailOf(r, k)'
    <3>1. r[k - 1] = tail
      BY <2>1, <2>3
    <3> QED
      BY <2>1, <2>2, <3>1 DEF TailOf
  <2>6. Complete(r, k)'
    BY DEF Complete
  <2> QED
    BY <2>1, <2>3, <2>4, <2>5, <2>6 DEF ListPath, Path
<1> QED
  BY <1>4, <1>5

LEMMA FreeSlotKeeps ==
  ASSUME ListInv, UNCHANGED Trace, NEW s \in Slots, meta[s] \notin {"free", "none"}, FreeSlot(s)
  PROVE  ListInv'
<1>1. ListPath'
  BY FreeAtFront, FreeAtBack
<1>2. ListTyped'
  BY DEF ListInv, ListTyped, FreeSlot
<1>3. PagesLaid'
  BY DEF ListInv, PagesLaid, FreeSlot, ListTyped
<1> QED
  BY <1>1, <1>2, <1>3 DEF ListInv

(* Growth doubles the pages; the slots of the new ones are the list, but   *)
(* for the one that is taken.                                              *)
LEMMA TakeGrownKeeps ==
  ASSUME ListInv, ready = pages, NEW s, NEW m \in {"obj", "half"}, TakeGrown(s, m), UNCHANGED Trace
  PROVE  ListInv' /\ ready' = pages' /\ s \in Slots /\ meta[s] = "none"
<1> DEFINE a == pages * SlotsPerPage
           b == 2 * pages * SlotsPerPage
<1>1. /\ SlotsPerPage \in Nat \ {0} /\ Null \notin Slots
      /\ pages \in Nat \ {0} /\ 2 * pages \in 1..MaxPages /\ pages < 2 * pages
  BY HeapPoolAssumption DEF ListInv, ListTyped, TakeGrown, Slots
<1>2. a \in Nat /\ b \in Nat /\ a + SlotsPerPage <= b /\ a + 1 <= b /\ a >= 1
  BY <1>1, PageBounds
<1>3. /\ SlotsOf(pages, 2 * pages) = (a + 1)..b
      /\ SlotsOf(pages, 2 * pages) \subseteq Slots
      /\ \A t \in Slots : t \in SlotsOf(pages, 2 * pages) <=> a < t /\ t <= b
  <2>1. pages <= 2 * pages
    BY <1>1
  <2> QED
    BY <1>1, <2>1, SlotsOfPages DEF SlotsOf
<1>4. /\ s = a + 1 /\ head = Null /\ pages' = 2 * pages /\ ready' = 2 * pages
      /\ next' = Chained(pages, 2 * pages) /\ head' = next'[s]
      /\ meta' = [t \in Slots |-> IF t = s THEN m
                                  ELSE IF t \in SlotsOf(pages, 2 * pages) THEN "free" ELSE meta[t]]
      /\ tail' = IF ~Trace THEN tail ELSE IF s = b THEN Null ELSE b
  BY DEF TakeGrown
<1>5. s \in Slots /\ s \in SlotsOf(pages, 2 * pages)
  BY <1>2, <1>3, <1>4
<1> HIDE DEF a, b
<1>6. \A t \in Slots : next'[t] = IF t \in SlotsOf(pages, 2 * pages)
                                  THEN IF t = b THEN Null ELSE t + 1 ELSE next[t]
  BY <1>4 DEF Chained, b
<1>7. ListTyped'
  <2>1. next' \in [Slots -> Slots \cup {Null}]
    <3>1. \A t \in Slots : t \in SlotsOf(pages, 2 * pages) /\ t # b => t + 1 \in Slots
      BY <1>2, <1>3
    <3>2. next' = [t \in Slots |-> next'[t]]
      BY <1>4 DEF Chained
    <3>3. \A t \in Slots : next'[t] \in Slots \cup {Null}
      BY <1>6, <3>1 DEF ListInv, ListTyped
    <3> QED
      BY <3>2, <3>3
  <2>2. tail' \in Slots \cup {Null}
    BY <1>2, <1>3, <1>4 DEF ListInv, ListTyped
  <2>3. meta' \in [Slots -> {"none", "free", "obj", "half"}]
    BY <1>4 DEF ListInv, ListTyped
  <2>4. pages' \in 1..MaxPages /\ ready' \in 1..pages'
    BY <1>1, <1>4
  <2> QED
    BY <1>4, <1>5, <2>1, <2>2, <2>3, <2>4 DEF ListInv, ListTyped
<1>8. PagesLaid'
  <2>1. \A t \in Slots : meta[t] = "none" <=> t > a
    BY DEF ListInv, PagesLaid, a
  <2>2. \A t \in Slots : meta'[t] = "none" <=> t > b
    <3> SUFFICES ASSUME NEW t \in Slots PROVE meta'[t] = "none" <=> t > b
      OBVIOUS
    <3>1. t \in Nat
      BY <1>1, PageBounds, HeapPoolAssumption DEF Slots
    <3>2. CASE t = s
      BY <1>2, <1>4, <3>2
    <3>3. CASE t # s /\ a < t /\ t <= b
      BY <1>2, <1>3, <1>4, <3>1, <3>3
    <3>4. CASE t <= a \/ t > b
      BY <1>2, <1>3, <1>4, <2>1, <3>1, <3>4
    <3> QED
      BY <1>2, <3>1, <3>2, <3>3, <3>4
  <2> QED
    BY <1>4, <2>2 DEF PagesLaid, b
<1>9. ListPath'
  <2>0. PICK n \in Nat : \E q \in [1..n -> Slots] : Path(q, n)
    BY DEF ListInv, ListPath
  <2>1. PICK q \in [1..n -> Slots] : Path(q, n)
    BY <2>0
  <2>2. n = 0
    BY <1>1, <1>4, <2>1 DEF Path, Links
  <2>a. PICK k \in Nat : k = b - a - 1
    BY <1>2
  <2>b. PICK e \in Nat : e = a + 1
    BY <1>2
  <2>3. \A i \in 1..k : e + i \in (a + 1)..b /\ e + i # s
    BY <1>2, <1>4, <2>a, <2>b
  <2>c. PICK r \in [1..k -> Slots] : r = [i \in 1..k |-> e + i]
    <3>1. [i \in 1..k |-> e + i] \in [1..k -> Slots]
      BY <1>3, <2>3
    <3> QED
      BY <3>1
  <2>4. \A i \in 1..k : r[i] = e + i /\ r[i] \in Slots /\ r[i] # s /\ r[i] \in SlotsOf(pages, 2 * pages)
    BY <1>3, <2>3, <2>c
  <2>5. Links(r, k)'
    <3>1. \A i \in 1..k : meta'[r[i]] = "free"
      BY <1>4, <2>4
    <3>2. \A i, j \in 1..k : r[i] = r[j] => i = j
      BY <2>4
    <3>3. \A i \in 1..k : next'[r[i]] = IF i = k THEN Null ELSE r[i + 1]
      <4> SUFFICES ASSUME NEW i \in 1..k PROVE next'[r[i]] = IF i = k THEN Null ELSE r[i + 1]
        OBVIOUS
      <4>1. r[i] = b <=> i = k
        BY <1>2, <2>a, <2>b, <2>4
      <4>2. i # k => r[i + 1] = r[i] + 1
        BY <2>4
      <4> QED
        BY <1>6, <2>4, <4>1, <4>2
    <3>4. head' = IF k = 0 THEN Null ELSE r[1]
      <4>1. s = b <=> k = 0
        BY <1>2, <1>4, <2>a
      <4>2. k # 0 => r[1] = s + 1
        BY <1>4, <2>b, <2>4
      <4> QED
        BY <1>4, <1>5, <1>6, <4>1, <4>2
    <3> QED
      BY <3>1, <3>2, <3>3, <3>4 DEF Links
  <2>6. TailOf(r, k)'
    <3>1. tail = Null
      BY <2>1, <2>2 DEF Path, TailOf
    <3>2. s = b <=> k = 0
      BY <1>2, <1>4, <2>a
    <3>3. k > 0 => r[k] = b
      BY <1>2, <2>a, <2>b, <2>4
    <3> QED
      BY <1>4, <3>1, <3>2, <3>3 DEF TailOf, ListInv, ListTyped
  <2>7. Complete(r, k)'
    <3> SUFFICES ASSUME ~Trace, NEW t \in Slots, meta'[t] = "free"
                 PROVE  \E i \in 1..k : r[i] = t
      BY DEF Complete
    <3>1. t # s
      BY <1>4
    <3>2. meta[t] # "free"
      BY <2>1, <2>2 DEF Path, Complete
    <3>3. t \in (a + 1)..b
      BY <1>3, <1>4, <3>1, <3>2
    <3>4. t - e \in 1..k
      BY <1>2, <1>4, <2>a, <2>b, <3>1, <3>3
    <3>5. r[t - e] = t
      BY <2>4, <2>b, <3>3, <3>4, <1>2
    <3> QED
      BY <3>4, <3>5
  <2> QED
    BY <2>5, <2>6, <2>7 DEF ListPath, Path
<1>10. meta[s] = "none"
  BY <1>2, <1>4, <1>5 DEF ListInv, PagesLaid, a
<1> QED
  BY <1>4, <1>5, <1>7, <1>8, <1>9, <1>10 DEF ListInv

(* When growth fails the list is still empty: what the new pages hold is   *)
(* not in it.                                                              *)
GrownPartly(n) ==
  /\ head = Null /\ 2 * pages <= MaxPages
  /\ pages' = 2 * pages /\ ready' = n
  /\ next' = Chained(pages, n)
  /\ meta' = [s \in Slots |-> IF s \in SlotsOf(pages, n) THEN "free" ELSE meta[s]]
  /\ UNCHANGED <<head, tail>>

LEMMA GrownPartlyKeeps ==
  ASSUME ListInv, ready = pages, NEW n \in pages..(2 * pages - 1), GrownPartly(n), UNCHANGED Trace
  PROVE  ListInv' /\ ready' < pages'
<1>1. /\ SlotsPerPage \in Nat \ {0} /\ Null \notin Slots
      /\ pages \in Nat \ {0} /\ 2 * pages \in 1..MaxPages /\ n \in 1..MaxPages /\ n < 2 * pages
      /\ pages <= n
  BY HeapPoolAssumption DEF ListInv, ListTyped, GrownPartly, Slots
<1>2. \A t \in Slots : t \in SlotsOf(pages, n) <=> pages * SlotsPerPage < t /\ t <= n * SlotsPerPage
  BY <1>1, SlotsOfPages
<1>3. pages * SlotsPerPage \in Nat /\ n * SlotsPerPage \in Nat /\ pages * SlotsPerPage <= n * SlotsPerPage
      /\ MaxPages * SlotsPerPage \in Nat /\ n * SlotsPerPage <= MaxPages * SlotsPerPage
  BY <1>1, PageBounds, HeapPoolAssumption
<1>4. ListTyped'
  <2>1. next' \in [Slots -> Slots \cup {Null}]
    <3>1. \A t \in Slots : t \in SlotsOf(pages, n) /\ t # n * SlotsPerPage => t + 1 \in Slots
      <4> SUFFICES ASSUME NEW t \in Slots, t <= n * SlotsPerPage, t # n * SlotsPerPage PROVE t + 1 \in Slots
        BY <1>2
      <4> QED
        BY <1>3 DEF Slots
    <3> QED
      BY <3>1 DEF GrownPartly, Chained, ListInv, ListTyped
  <2>2. meta' \in [Slots -> {"none", "free", "obj", "half"}]
    BY DEF GrownPartly, ListInv, ListTyped
  <2> QED
    BY <1>1, <2>1, <2>2 DEF GrownPartly, ListInv, ListTyped
<1>5. PagesLaid'
  <2> SUFFICES ASSUME NEW t \in Slots PROVE meta'[t] = "none" <=> t > n * SlotsPerPage
    BY DEF PagesLaid, GrownPartly
  <2>1. t \in Nat
    BY <1>3 DEF Slots
  <2>2. meta[t] = "none" <=> t > pages * SlotsPerPage
    BY DEF ListInv, PagesLaid
  <2> QED
    BY <1>2, <1>3, <2>1, <2>2 DEF GrownPartly
<1>6. ListPath'
  <2>0. PICK k \in Nat : \E q \in [1..k -> Slots] : Path(q, k)
    BY DEF ListInv, ListPath
  <2>1. PICK q \in [1..k -> Slots] : Path(q, k)
    BY <2>0
  <2>2. k = 0
    BY <1>1, <2>1 DEF Path, Links, GrownPartly
  <2>3. Links(q, 0)' /\ TailOf(q, 0)' /\ Complete(q, 0)'
    BY <1>1, <2>1, <2>2 DEF Path, Links, TailOf, Complete, GrownPartly
  <2> QED
    BY <2>2, <2>3 DEF ListPath, Path
<1> QED
  BY <1>1, <1>4, <1>5, <1>6 DEF ListInv, GrownPartly

LEMMA ListUnchanged == ListInv /\ UNCHANGED <<Trace, listVars, meta>> => ListInv'
<1> SUFFICES ASSUME ListInv, UNCHANGED <<Trace, listVars, meta>> PROVE ListInv'
  OBVIOUS
<1>1. ListTyped'
  BY DEF ListInv, ListTyped, listVars
<1>2. PagesLaid'
  BY DEF ListInv, PagesLaid, listVars
<1>3. ListPath'
  <2>0. PICK k \in Nat : \E q \in [1..k -> Slots] : Path(q, k)
    BY DEF ListInv, ListPath
  <2>1. PICK q \in [1..k -> Slots] : Path(q, k)
    BY <2>0
  <2>2. Links(q, k)' /\ TailOf(q, k)' /\ Complete(q, k)'
    BY <2>1 DEF Path, Links, TailOf, Complete, listVars
  <2> QED
    BY <2>2 DEF ListPath, Path
<1> QED
  BY <1>1, <1>2, <1>3 DEF ListInv

-----------------------------------------------------------------------------
(* No enumeration has more slots than there are.                           *)
LEMMA PathIsShort ==
  ASSUME NEW n \in Nat, NEW q \in [1..n -> Slots], Links(q, n)
  PROVE  /\ n <= MaxPages * SlotsPerPage
         /\ IsFiniteSet({q[i] : i \in 1..n}) /\ Cardinality({q[i] : i \in 1..n}) = n
<1>1. MaxPages * SlotsPerPage \in Nat
  BY PageBounds, HeapPoolAssumption
<1>2. IsFiniteSet(Slots) /\ Cardinality(Slots) = MaxPages * SlotsPerPage
  BY <1>1, FS_Interval DEF Slots
<1> DEFINE S == {q[i] : i \in 1..n}
<1>3. q \in [1..n -> S] /\ \A t \in S : \E i \in 1..n : q[i] = t
  <2>1. \A i \in 1..n : q[i] \in S
    OBVIOUS
  <2> QED
    BY <2>1
<1>4. q \in Bijection(1..n, S)
  BY <1>3, Fun_IsBij DEF Links
<1>5. ExistsBijection(1..n, S)
  BY <1>4 DEF ExistsBijection
<1>6. IsFiniteSet(1..n) /\ Cardinality(1..n) = n
  BY FS_Interval
<1>7. IsFiniteSet(S) /\ Cardinality(S) = n
  BY <1>5, <1>6, FS_Bijection
<1>8. S \in SUBSET Slots
  OBVIOUS
<1>9. Cardinality(S) <= Cardinality(Slots)
  BY <1>2, <1>8, FS_Subset
<1> QED
  BY <1>2, <1>7, <1>9

(* Walk follows the links: its values are the slots of the list in order,  *)
(* and Null from then on.                                                  *)
LEMMA WalkIsPath ==
  ASSUME ListTyped, NEW n \in Nat, NEW q \in [1..n -> Slots], Links(q, n)
  PROVE  /\ DOMAIN Walk = 0..(MaxPages * SlotsPerPage)
         /\ \A i \in 0..(MaxPages * SlotsPerPage) : Walk[i] = IF i < n THEN q[i + 1] ELSE Null
<1> DEFINE N == MaxPages * SlotsPerPage
           Follows(g) == g = [i \in 0..N |-> IF i = 0 THEN head
                                             ELSE IF g[i - 1] = Null THEN Null ELSE next[g[i - 1]]]
           h == [i \in 0..N |-> IF i < n THEN q[i + 1] ELSE Null]
<1>1. N \in Nat /\ Null \notin Slots
  BY PageBounds, HeapPoolAssumption DEF Slots
<1>2. n <= N
  BY PathIsShort
<1>3. Walk = CHOOSE g : Follows(g)
  BY DEF Walk
<1> HIDE DEF N
<1>4. \A i \in 0..N : h[i] = IF i = 0 THEN head ELSE IF h[i - 1] = Null THEN Null ELSE next[h[i - 1]]
  <2> SUFFICES ASSUME NEW i \in 0..N
               PROVE  h[i] = IF i = 0 THEN head ELSE IF h[i - 1] = Null THEN Null ELSE next[h[i - 1]]
    OBVIOUS
  <2>1. CASE i = 0
    BY <1>1, <2>1 DEF Links
  <2>2. CASE i # 0
    <3>1. i - 1 \in 0..N /\ h[i - 1] = IF i - 1 < n THEN q[i] ELSE Null
      BY <1>1, <2>2
    <3>2. i - 1 < n => i \in 1..n /\ q[i] # Null /\ next[q[i]] = IF i = n THEN Null ELSE q[i + 1]
      BY <1>1, <2>2 DEF Links
    <3> QED
      BY <1>1, <2>2, <3>1, <3>2
  <2> QED
    BY <2>1, <2>2
<1>5. Follows(h)
  BY <1>4
<1> HIDE DEF Follows
<1>6. Follows(Walk)
  BY <1>3, <1>5
<1>7. Walk = [i \in 0..N |-> IF i = 0 THEN head ELSE IF Walk[i - 1] = Null THEN Null ELSE next[Walk[i - 1]]]
  BY <1>6 DEF Follows
<1> HIDE DEF h
<1>8. \A i \in 0..N : Walk[i] = h[i]
  <2> DEFINE T == {i \in 0..N : Walk[i] # h[i]}
  <2> SUFFICES ASSUME T # {} PROVE FALSE
    OBVIOUS
  <2>1. T \subseteq Nat
    BY <1>1
  <2>2. PICK m \in T : \A i \in T : m <= i
    BY <2>1, LeastNumber
  <2>3. m \in 0..N /\ Walk[m] # h[m]
    BY <2>2
  <2>4. Walk[m] = IF m = 0 THEN head ELSE IF Walk[m - 1] = Null THEN Null ELSE next[Walk[m - 1]]
    BY <1>7, <2>3
  <2>5. m # 0
    BY <1>4, <2>3, <2>4
  <2>6. m - 1 \in 0..N /\ m - 1 \notin T
    BY <1>1, <2>2, <2>3, <2>5
  <2>7. Walk[m - 1] = h[m - 1]
    BY <2>6
  <2> QED
    BY <1>4, <2>3, <2>4, <2>7
<1> QED
  BY <1>1, <1>7, <1>8 DEF N, h

LEMMA ListedIsPath ==
  ASSUME ListTyped, NEW n \in Nat, NEW q \in [1..n -> Slots], Links(q, n)
  PROVE  /\ Listed = {q[i] : i \in 1..n}
         /\ Cardinality(Listed) = n
         /\ Walk[n] = Null
<1> DEFINE N == MaxPages * SlotsPerPage
<1>0. n <= N
  BY PathIsShort
<1>1. N \in Nat /\ Null \notin Slots /\ n <= N
  BY <1>0, PageBounds, HeapPoolAssumption DEF Slots
<1>2. DOMAIN Walk = 0..N /\ \A i \in 0..N : Walk[i] = IF i < n THEN q[i + 1] ELSE Null
  BY WalkIsPath
<1> HIDE DEF N
<1>3. \A i \in 1..n : q[i] \in Listed
  <2> SUFFICES ASSUME NEW i \in 1..n PROVE q[i] \in Listed
    OBVIOUS
  <2>1. i - 1 \in 0..N /\ Walk[i - 1] = q[i] /\ q[i] # Null
    BY <1>1, <1>2
  <2> QED
    BY <1>2, <2>1 DEF Listed
<1>4. \A t \in Listed : \E i \in 1..n : t = q[i]
  <2> SUFFICES ASSUME NEW t \in Listed PROVE \E i \in 1..n : t = q[i]
    OBVIOUS
  <2>1. PICK i \in 0..N : t = Walk[i] /\ t # Null
    BY <1>2 DEF Listed
  <2>2. i + 1 \in 1..n /\ t = q[i + 1]
    BY <1>1, <1>2, <2>1
  <2> QED
    BY <2>2
<1>5. Listed = {q[i] : i \in 1..n}
  BY <1>3, <1>4
<1>6. Cardinality({q[i] : i \in 1..n}) = n
  BY PathIsShort
<1>7. Walk[n] = Null
  BY <1>1, <1>2
<1> QED
  BY <1>5, <1>6, <1>7

(* The invariant says what ListSound says, and when all pages are          *)
(* initialised what FreeListExact says.                                    *)
LEMMA SoundIfInv == ListInv => ListSound
<1> SUFFICES ASSUME ListInv PROVE ListSound
  OBVIOUS
<1>0. PICK n \in Nat : \E q \in [1..n -> Slots] : Path(q, n)
  BY DEF ListInv, ListPath
<1>1. PICK q \in [1..n -> Slots] : Path(q, n)
  BY <1>0
<1>2. Listed = {q[i] : i \in 1..n} /\ Cardinality(Listed) = n /\ Walk[n] = Null
  BY <1>1, ListedIsPath DEF ListInv, Path
<1> QED
  BY <1>1, <1>2 DEF ListSound, Path, Links, Free

LEMMA ExactIfInv ==
  ListInv /\ ready = pages /\ ~Trace => Listed = Free /\ Walk[Cardinality(Free)] = Null
<1> SUFFICES ASSUME ListInv, ready = pages, ~Trace PROVE Listed = Free /\ Walk[Cardinality(Free)] = Null
  OBVIOUS
<1>0. PICK n \in Nat : \E q \in [1..n -> Slots] : Path(q, n)
  BY DEF ListInv, ListPath
<1>1. PICK q \in [1..n -> Slots] : Path(q, n)
  BY <1>0
<1>2. Listed = {q[i] : i \in 1..n} /\ Cardinality(Listed) = n /\ Walk[n] = Null
  BY <1>1, ListedIsPath DEF ListInv, Path
<1>3. Listed = Free
  BY <1>1, <1>2 DEF Path, Links, Complete, Free
<1> QED
  BY <1>2, <1>3

-----------------------------------------------------------------------------
(* The counts.                                                             *)
(* References to an object: in registers, and in the fields of objects.    *)
Held(s) == refs[s] + Cardinality(FieldsWith(s))

(* One pair for each unit of each count.                                   *)
Units == {r \in Live \X (1..MaxCount) : r[2] <= rc[r[1]]}

CountTyped ==
  /\ rc \in [Slots -> Nat]
  /\ fields \in [Slots -> Seq(Slots)]
  /\ \A p \in Slots : Len(fields[p]) <= MaxFields
  /\ refs \in [Slots -> 0..MaxRefs]
  /\ work \in Seq(Slots) /\ at \in Nat
  /\ mode \in {"run", "destroy", "sweep", "swept", "undefined"}

CountSum ==
  /\ \A s \in Live : rc[s] <= MaxCount
  /\ refCounts = IF Trace THEN Cardinality(Units) ELSE 0

(* Only objects that are alive refer, and are referred to.                 *)
References ==
  /\ \A s \in Slots : s \notin Live => refs[s] = 0 /\ fields[s] = <<>>
  /\ \A p \in Slots : \A i \in 1..Len(fields[p]) : fields[p][i] \in Live

Exact == \A s \in Live : rc[s] = Held(s)

(* The objects that are being destroyed are those with a count of zero.    *)
Dying ==
  /\ \A i, j \in 1..Len(work) : work[i] = work[j] => i = j
  /\ \A i \in 1..Len(work) : work[i] \in Live /\ rc[work[i]] = 0
  /\ \A s \in Live : rc[s] = 0 => \E i \in 1..Len(work) : work[i] = s
  /\ mode = "run" <=> work = <<>>

Whole == ready = pages /\ \A s \in Slots : meta[s] # "half"

RunInv == mode \in {"run", "destroy"} => Whole /\ References /\ Exact /\ Dying

(* From a panic on no reference is looked at; the slots the sweep has      *)
(* passed are free.                                                        *)
Unwound == work = <<>> /\ \A s \in Slots : refs[s] = 0 /\ fields[s] = <<>>

AfterInv == mode \in {"sweep", "swept", "undefined"} => Unwound

SweepInv ==
  /\ mode = "sweep" =>
       /\ at \in 1..(ready * SlotsPerPage + 1)
       /\ \A s \in Slots : s < at => meta[s] = "free"
  /\ mode = "swept" =>
       /\ ready = pages
       /\ \A s \in Slots : s <= pages * SlotsPerPage => meta[s] = "free"

IInv == ListInv /\ CountTyped /\ CountSum /\ RunInv /\ AfterInv /\ SweepInv

-----------------------------------------------------------------------------
LEMMA Sizes ==
  /\ SlotsPerPage \in Nat \ {0} /\ MaxPages \in Nat \ {0}
  /\ MaxFields \in Nat /\ MaxRefs \in Nat \ {0}
  /\ MaxPages * SlotsPerPage \in Nat
  /\ MaxCount \in Nat \ {0}
  /\ IsFiniteSet(Slots) /\ Cardinality(Slots) = MaxPages * SlotsPerPage
  /\ Slots \subseteq Nat \ {0}
<1>1. MaxPages * SlotsPerPage \in Nat
  BY PageBounds, HeapPoolAssumption
<1>2. MaxPages * SlotsPerPage * MaxFields \in Nat
  BY <1>1, HeapPoolAssumption
<1>3. IsFiniteSet(Slots) /\ Cardinality(Slots) = MaxPages * SlotsPerPage
  BY <1>1, FS_Interval DEF Slots
<1> QED
  BY <1>1, <1>2, <1>3, HeapPoolAssumption DEF MaxCount, Slots

(* The sets that are counted are finite, and not larger than the bound.    *)
LEMMA FieldsFinite ==
  ASSUME NEW s
  PROVE  /\ IsFiniteSet(FieldsWith(s))
         /\ Cardinality(FieldsWith(s)) \in Nat
         /\ Cardinality(FieldsWith(s)) <= MaxPages * SlotsPerPage * MaxFields
<1>1. IsFiniteSet(1..MaxFields) /\ Cardinality(1..MaxFields) = MaxFields
  BY Sizes, FS_Interval
<1>2. IsFiniteSet(Slots) /\ Cardinality(Slots) = MaxPages * SlotsPerPage
  BY Sizes
<1>3. /\ IsFiniteSet(Slots \X (1..MaxFields))
      /\ Cardinality(Slots \X (1..MaxFields)) = MaxPages * SlotsPerPage * MaxFields
  BY <1>1, <1>2, FS_Product
<1>4. FieldsWith(s) \in SUBSET (Slots \X (1..MaxFields))
  BY DEF FieldsWith, Live
<1> QED
  BY <1>3, <1>4, FS_Subset, FS_CardinalityType

LEMMA UnitsFinite == IsFiniteSet(Units) /\ Cardinality(Units) \in Nat
<1>1. IsFiniteSet(1..MaxCount)
  BY Sizes, FS_Interval
<1>2. IsFiniteSet(Slots \X (1..MaxCount))
  BY <1>1, Sizes, FS_Product
<1>3. Units \in SUBSET (Slots \X (1..MaxCount))
  BY DEF Units, Live
<1> QED
  BY <1>2, <1>3, FS_Subset, FS_CardinalityType

(* The sum when one count changes by one, or an object comes or goes.      *)
LEMMA UnitAdded ==
  ASSUME CountTyped, CountSum, NEW s \in Slots, UNCHANGED Trace,
         Live' = Live \cup {s},
         NEW c \in 1..MaxCount, rc' = [rc EXCEPT ![s] = c],
         IF s \in Live THEN rc[s] = c - 1 ELSE c = 1,
         refCounts' = Counted(1)
  PROVE  CountSum'
<1> USE DEF CountTyped
<1>1. \A t \in Live' : rc'[t] <= MaxCount
  BY Sizes DEF CountSum, Live
<1>2. Units' = Units \cup {<<s, c>>}
  <2>1. \A r \in Units' : r \in Units \/ r = <<s, c>>
    <3> SUFFICES ASSUME NEW r \in Units' PROVE r \in Units \/ r = <<s, c>>
      OBVIOUS
    <3>1. r \in (Live \cup {s}) \X (1..MaxCount) /\ r[2] <= rc'[r[1]]
      BY DEF Units
    <3>2. CASE r[1] = s
      BY <3>1, <3>2, Sizes DEF Units
    <3>3. CASE r[1] # s
      BY <3>1, <3>3 DEF Units, Live
    <3> QED
      BY <3>2, <3>3
  <2>2. \A r \in Units : r \in Units'
    <3> SUFFICES ASSUME NEW r \in Units PROVE r \in Units'
      OBVIOUS
    <3>1. r \in Live \X (1..MaxCount) /\ r[2] <= rc[r[1]]
      BY DEF Units
    <3>2. r[2] <= rc'[r[1]]
      BY <3>1, Sizes DEF Live
    <3> QED
      BY <3>1, <3>2 DEF Units
  <2>3. <<s, c>> \in Units'
    BY Sizes DEF Units
  <2> QED
    BY <2>1, <2>2, <2>3
<1>3. <<s, c>> \notin Units
  BY Sizes DEF Units
<1>4. Cardinality(Units') = Cardinality(Units) + 1
  BY <1>2, <1>3, UnitsFinite, FS_AddElement
<1> QED
  BY <1>1, <1>4, UnitsFinite DEF CountSum, Counted

LEMMA UnitTaken ==
  ASSUME CountTyped, CountSum, NEW s \in Live, UNCHANGED Trace, Live' = Live,
         rc[s] > 0, rc' = [rc EXCEPT ![s] = @ - 1], refCounts' = Counted(-1)
  PROVE  CountSum'
<1> USE DEF CountTyped
<1>0. s \in Slots /\ rc[s] \in 1..MaxCount
  BY Sizes DEF CountSum, Live
<1>1. \A t \in Live' : rc'[t] <= MaxCount
  BY <1>0, Sizes DEF CountSum, Live
<1>2. Units' = Units \ {<<s, rc[s]>>}
  <2>1. \A r \in Units' : r \in Units /\ r # <<s, rc[s]>>
    <3> SUFFICES ASSUME NEW r \in Units' PROVE r \in Units /\ r # <<s, rc[s]>>
      OBVIOUS
    <3>1. r \in Live \X (1..MaxCount) /\ r[2] <= rc'[r[1]]
      BY DEF Units
    <3>2. CASE r[1] = s
      BY <1>0, <3>1, <3>2, Sizes DEF Units
    <3>3. CASE r[1] # s
      BY <3>1, <3>3 DEF Units, Live
    <3> QED
      BY <3>2, <3>3
  <2>2. \A r \in Units : r # <<s, rc[s]>> => r \in Units'
    <3> SUFFICES ASSUME NEW r \in Units, r # <<s, rc[s]>> PROVE r \in Units'
      OBVIOUS
    <3>1. r \in Live \X (1..MaxCount) /\ r[2] <= rc[r[1]] /\ r = <<r[1], r[2]>>
      BY DEF Units
    <3>2. r[2] <= rc'[r[1]]
      BY <1>0, <3>1, Sizes DEF Live
    <3> QED
      BY <3>1, <3>2 DEF Units
  <2> QED
    BY <2>1, <2>2
<1>3. <<s, rc[s]>> \in Units
  BY <1>0 DEF Units
<1>4. Cardinality(Units') = Cardinality(Units) - 1
  BY <1>2, <1>3, UnitsFinite, FS_RemoveElement
<1> QED
  BY <1>1, <1>4, UnitsFinite DEF CountSum, Counted

(* The sum when an object goes with what is left of its count.             *)
LEMMA UnitsDropped ==
  ASSUME CountTyped, CountSum, NEW s \in Live, UNCHANGED Trace, Live' = Live \ {s},
         \A t \in Live \ {s} : rc'[t] = rc[t], refCounts' = Counted(0 - rc[s])
  PROVE  CountSum'
<1> USE DEF CountTyped
<1>0. s \in Slots /\ rc[s] \in 0..MaxCount
  BY Sizes DEF CountSum, Live
<1>1. \A t \in Live' : rc'[t] <= MaxCount
  BY DEF CountSum
<1> DEFINE D == {s} \X (1..rc[s])
<1>2. Units' = Units \ D
  <2>1. \A r \in Units' : r \in Units /\ r \notin D
    BY DEF Units
  <2>2. \A r \in Units : r \notin D => r \in Units'
    <3> SUFFICES ASSUME NEW r \in Units, r \notin D PROVE r \in Units'
      OBVIOUS
    <3>1. r \in Live \X (1..MaxCount) /\ r[2] <= rc[r[1]] /\ r = <<r[1], r[2]>>
      BY DEF Units
    <3>2. r[1] # s
      BY <1>0, <3>1, Sizes
    <3> QED
      BY <3>1, <3>2 DEF Units
  <2> QED
    BY <2>1, <2>2
<1>3. Units \cap D = D
  <2>1. \A r \in D : r \in Units
    BY <1>0, Sizes DEF Units
  <2> QED
    BY <2>1
<1>4. Cardinality(D) = rc[s]
  <2>1. IsFiniteSet(1..rc[s]) /\ Cardinality(1..rc[s]) = rc[s]
    <3>1. rc[s] \in Int /\ 1 \in Int /\ (1 > rc[s] => rc[s] = 0) /\ rc[s] - 1 + 1 = rc[s]
      BY <1>0, Sizes
    <3> QED
      BY <3>1, FS_Interval
  <2>2. IsFiniteSet({s}) /\ Cardinality({s}) = 1
    BY FS_Singleton
  <2>3. Cardinality(D) = 1 * rc[s]
    BY <2>1, <2>2, FS_Product
  <2> QED
    BY <1>0, <2>3
<1>5. Cardinality(Units') = Cardinality(Units) - rc[s]
  <2>1. Cardinality(Units \ D) = Cardinality(Units) - Cardinality(Units \cap D)
    BY UnitsFinite, FS_Difference
  <2> QED
    BY <1>2, <1>3, <1>4, <2>1
<1> QED
  BY <1>0, <1>1, <1>5, UnitsFinite DEF CountSum, Counted

-----------------------------------------------------------------------------
(* A reference more in a field of p, behind the others.                    *)
LEMMA FieldAppended ==
  ASSUME CountTyped, NEW p \in Live, NEW s \in Slots, Len(fields[p]) < MaxFields,
         fields' = [fields EXCEPT ![p] = Append(@, s)], Live' = Live
  PROVE  /\ Cardinality(FieldsWith(s)') = Cardinality(FieldsWith(s)) + 1
         /\ \A t : t # s => FieldsWith(t)' = FieldsWith(t)
<1> DEFINE k == Len(fields[p]) + 1
<1>1. p \in Slots /\ fields[p] \in Seq(Slots) /\ k \in 1..MaxFields
  BY Sizes DEF CountTyped, Live
<1>2. /\ Len(fields'[p]) = k /\ fields'[p][k] = s
      /\ \A i \in 1..(k - 1) : fields'[p][i] = fields[p][i]
      /\ \A q \in Slots : q # p => fields'[q] = fields[q]
  BY <1>1 DEF CountTyped
<1> HIDE DEF k
<1>3. k - 1 = Len(fields[p])
  BY <1>1 DEF k
<1>4. ASSUME NEW t, NEW q \in Live, NEW i \in 1..MaxFields
      PROVE  <<q, i>> \in FieldsWith(t)' <=> <<q, i>> \in FieldsWith(t) \/ (t = s /\ <<q, i>> = <<p, k>>)
  <2>1. <<q, i>> \in FieldsWith(t) <=> i <= Len(fields[q]) /\ fields[q][i] = t
    BY DEF FieldsWith
  <2>2. <<q, i>> \in FieldsWith(t)' <=> i <= Len(fields'[q]) /\ fields'[q][i] = t
    BY DEF FieldsWith
  <2>3. q \in Slots
    BY DEF Live
  <2>4. CASE q # p
    BY <1>2, <2>1, <2>2, <2>3, <2>4
  <2>5. CASE q = p /\ i = k
    BY <1>1, <1>2, <1>3, <2>1, <2>2, <2>5
  <2>6. CASE q = p /\ i # k
    BY <1>1, <1>2, <1>3, <2>1, <2>2, <2>6
  <2> QED
    BY <2>4, <2>5, <2>6
<1>5. \A t : FieldsWith(t) \subseteq Live \X (1..MaxFields) /\ FieldsWith(t)' \subseteq Live \X (1..MaxFields)
  BY DEF FieldsWith
<1>6. \A t : t # s => FieldsWith(t)' = FieldsWith(t)
  <2> SUFFICES ASSUME NEW t, t # s PROVE FieldsWith(t)' = FieldsWith(t)
    OBVIOUS
  <2>1. \A r \in Live \X (1..MaxFields) : r \in FieldsWith(t)' <=> r \in FieldsWith(t)
    BY <1>4
  <2>2. FieldsWith(t) \subseteq Live \X (1..MaxFields) /\ FieldsWith(t)' \subseteq Live \X (1..MaxFields)
    BY <1>5
  <2> QED
    BY <2>1, <2>2
<1>7. FieldsWith(s)' = FieldsWith(s) \cup {<<p, k>>}
  BY <1>1, <1>4, <1>5
<1>8. <<p, k>> \notin FieldsWith(s)
  BY <1>1, <1>3 DEF FieldsWith
<1>9. Cardinality(FieldsWith(s)') = Cardinality(FieldsWith(s)) + 1
  BY <1>7, <1>8, FieldsFinite, FS_AddElement
<1> QED
  BY <1>6, <1>9

(* The first reference of p is gone: the others move up by one.            *)
LEMMA FieldDropped ==
  ASSUME CountTyped, NEW p \in Live, fields[p] # <<>>,
         fields' = [fields EXCEPT ![p] = Tail(@)], Live' = Live, NEW t
  PROVE  IF t = Head(fields[p])
         THEN Cardinality(FieldsWith(t)') = Cardinality(FieldsWith(t)) - 1 /\ Cardinality(FieldsWith(t)) > 0
         ELSE Cardinality(FieldsWith(t)') = Cardinality(FieldsWith(t))
<1> DEFINE n == Len(fields[p])
           A == FieldsWith(t) \ {<<p, 1>>}
           B == FieldsWith(t)'
           f == [r \in A |-> IF r[1] = p THEN <<p, r[2] - 1>> ELSE r]
<1>1. p \in Slots /\ fields[p] \in Seq(Slots) /\ n \in 1..MaxFields
  BY Sizes DEF CountTyped, Live
<1>2. /\ Len(fields'[p]) = n - 1 /\ Head(fields[p]) = fields[p][1]
      /\ \A i \in 1..(n - 1) : fields'[p][i] = fields[p][i + 1]
      /\ \A q \in Slots : q # p => fields'[q] = fields[q]
  BY <1>1 DEF CountTyped
<1>3. \A q, i : <<q, i>> \in FieldsWith(t) <=> q \in Live /\ i \in 1..MaxFields /\ i <= Len(fields[q]) /\ fields[q][i] = t
  BY DEF FieldsWith
<1>4. \A q, i : <<q, i>> \in B <=> q \in Live /\ i \in 1..MaxFields /\ i <= Len(fields'[q]) /\ fields'[q][i] = t
  BY DEF FieldsWith
<1>5. \A r \in A : r = <<r[1], r[2]>> /\ r[1] \in Slots /\ r[2] \in Nat
  BY DEF FieldsWith, Live
<1>6. \A r \in B : r = <<r[1], r[2]>> /\ r[1] \in Slots /\ r[2] \in Nat
  BY DEF FieldsWith, Live
<1>7. n \in Nat /\ n = Len(fields[p])
  BY <1>1
<1> HIDE DEF n, B
<1>8. \A q \in Live, i \in Nat : q # p => (<<q, i>> \in B <=> <<q, i>> \in A)
  BY <1>2, <1>3, <1>4 DEF Live
<1>9. \A i \in Nat : i > 1 => (<<p, i>> \in A <=> <<p, i - 1>> \in B)
  <2> SUFFICES ASSUME NEW i \in Nat, i > 1 PROVE <<p, i>> \in A <=> <<p, i - 1>> \in B
    OBVIOUS
  <2>1. <<p, i>> \in A <=> i \in 1..MaxFields /\ i <= n /\ fields[p][i] = t
    BY <1>3, <1>7
  <2>2. <<p, i - 1>> \in B <=> i - 1 \in 1..MaxFields /\ i - 1 <= n - 1 /\ fields'[p][i - 1] = t
    BY <1>2, <1>4
  <2>3. i <= n => fields'[p][i - 1] = fields[p][i]
    BY <1>2, <1>7
  <2> QED
    BY <1>1, <1>7, <2>1, <2>2, <2>3, Sizes
<1>10. \A i \in Nat : <<p, i>> \in A => i > 1
  BY <1>3
<1>10a. \A i \in Nat : <<p, i>> \in B => i > 0
  BY <1>4
<1>11. \A r \in A : r[1] \in Live
  BY <1>3, <1>5
<1>12. \A r \in B : r[1] \in Live
  BY <1>4, <1>6
<1> HIDE DEF A
<1>13. \A r \in A : f[r] \in B
  <2> SUFFICES ASSUME NEW r \in A PROVE f[r] \in B
    OBVIOUS
  <2>1. r = <<r[1], r[2]>> /\ r[2] \in Nat /\ r[1] \in Live
    BY <1>5, <1>11
  <2>2. CASE r[1] = p
    BY <1>9, <1>10, <2>1, <2>2
  <2>3. CASE r[1] # p
    BY <1>8, <2>1, <2>3
  <2> QED
    BY <2>2, <2>3
<1>14. \A r, u \in A : f[r] = f[u] => r = u
  <2> SUFFICES ASSUME NEW r \in A, NEW u \in A, f[r] = f[u] PROVE r = u
    OBVIOUS
  <2>1. r = <<r[1], r[2]>> /\ r[2] \in Nat /\ u = <<u[1], u[2]>> /\ u[2] \in Nat
    BY <1>5
  <2>2. f[r] = (IF r[1] = p THEN <<p, r[2] - 1>> ELSE r) /\ f[u] = (IF u[1] = p THEN <<p, u[2] - 1>> ELSE u)
    OBVIOUS
  <2>3. CASE r[1] = p /\ u[1] = p
    <3>1. r[2] - 1 = u[2] - 1
      BY <2>2, <2>3
    <3> QED
      BY <2>1, <2>3, <3>1
  <2>4. CASE r[1] # p /\ u[1] # p
    BY <2>2, <2>4
  <2>5. CASE r[1] # p /\ u[1] = p
    <3>1. r = <<p, u[2] - 1>>
      BY <2>2, <2>5
    <3> QED
      BY <3>1, <2>5
  <2>6. CASE r[1] = p /\ u[1] # p
    <3>1. u = <<p, r[2] - 1>>
      BY <2>2, <2>6
    <3> QED
      BY <3>1, <2>6
  <2> QED
    BY <2>3, <2>4, <2>5, <2>6
<1>15. \A u \in B : \E r \in A : f[r] = u
  <2> SUFFICES ASSUME NEW u \in B PROVE \E r \in A : f[r] = u
    OBVIOUS
  <2>1. u = <<u[1], u[2]>> /\ u[2] \in Nat /\ u[1] \in Live
    BY <1>6, <1>12
  <2>2. CASE u[1] = p
    <3>1. PICK i \in Nat : i = u[2]
      BY <2>1
    <3>2. u = <<p, i>> /\ i > 0
      BY <1>10a, <2>1, <2>2, <3>1
    <3>3. PICK j \in Nat : j > 1 /\ j - 1 = i
      <4>1. i + 1 \in Nat /\ i + 1 > 1 /\ (i + 1) - 1 = i
        BY <3>2
      <4> QED
        BY <4>1
    <3>4. <<p, j>> \in A
      BY <1>9, <3>2, <3>3
    <3>5. f[<<p, j>>] = u
      BY <3>2, <3>3, <3>4
    <3> QED
      BY <3>4, <3>5
  <2>3. CASE u[1] # p
    <3>1. u \in A
      BY <1>8, <2>1, <2>3
    <3> QED
      BY <2>3, <3>1
  <2> QED
    BY <2>2, <2>3
<1>16. f \in Bijection(A, B)
  BY <1>13, <1>14, <1>15, Fun_IsBij
<1>17. ExistsBijection(A, B)
  BY <1>16 DEF ExistsBijection
<1>18. /\ IsFiniteSet(A)
       /\ Cardinality(A) = IF <<p, 1>> \in FieldsWith(t) THEN Cardinality(FieldsWith(t)) - 1 ELSE Cardinality(FieldsWith(t))
  BY FieldsFinite, FS_RemoveElement DEF A
<1>19. Cardinality(B) = Cardinality(A)
  BY <1>17, <1>18, FS_Bijection
<1>20. <<p, 1>> \in FieldsWith(t) <=> t = Head(fields[p])
  <2>1. 1 \in 1..MaxFields /\ 1 <= Len(fields[p])
    BY <1>1, <1>7, Sizes
  <2>2. <<p, 1>> \in FieldsWith(t) <=> fields[p][1] = t
    BY <1>3, <2>1
  <2> QED
    BY <1>2, <2>2
<1>21. t = Head(fields[p]) => Cardinality(FieldsWith(t)) > 0
  <2>1. t = Head(fields[p]) => FieldsWith(t) # {}
    BY <1>20
  <2> QED
    BY <2>1, FieldsFinite, FS_EmptySet
<1> QED
  BY <1>18, <1>19, <1>20, <1>21 DEF B

(* An object without fields comes or goes: no reference in a field does.   *)
LEMMA FieldsSame ==
  ASSUME NEW s \in Slots, UNCHANGED fields, fields[s] = <<>>, Live' \ {s} = Live \ {s}, NEW t
  PROVE  FieldsWith(t)' = FieldsWith(t)
<1>1. \A q, i : q # s => (<<q, i>> \in FieldsWith(t)' <=> <<q, i>> \in FieldsWith(t))
  BY DEF FieldsWith
<1>2. \A i : <<s, i>> \notin FieldsWith(t)' /\ <<s, i>> \notin FieldsWith(t)
  BY DEF FieldsWith
<1>3. \A q, i : <<q, i>> \in FieldsWith(t)' <=> <<q, i>> \in FieldsWith(t)
  BY <1>1, <1>2
<1>4. \A r \in FieldsWith(t) : r = <<r[1], r[2]>>
  BY DEF FieldsWith
<1>5. \A r \in FieldsWith(t)' : r = <<r[1], r[2]>>
  BY DEF FieldsWith
<1>6. \A r \in FieldsWith(t) : r \in FieldsWith(t)'
  BY <1>3, <1>4
<1>7. \A r \in FieldsWith(t)' : r \in FieldsWith(t)
  BY <1>3, <1>5
<1> QED
  BY <1>6, <1>7

LEMMA HeldType ==
  ASSUME CountTyped, NEW s \in Slots
  PROVE  Held(s) \in Nat /\ Held(s) <= MaxCount /\ refs[s] \in Nat /\ refs[s] <= MaxRefs
         /\ Cardinality(FieldsWith(s)) \in Nat
<1>1. refs[s] \in 0..MaxRefs
  BY DEF CountTyped
<1>2. MaxPages * SlotsPerPage * MaxFields \in Nat
  BY Sizes
<1>3. /\ Cardinality(FieldsWith(s)) \in Nat
      /\ Cardinality(FieldsWith(s)) <= MaxPages * SlotsPerPage * MaxFields
  BY FieldsFinite
<1> QED
  BY <1>1, <1>2, <1>3, Sizes DEF Held, MaxCount

(* What holds of the objects while the program runs or destroys.           *)
Counts == CountTyped /\ CountSum /\ References /\ Exact /\ Dying /\ mode \in {"run", "destroy"}

(* releaseOnly: a reference to t is gone, and so is one of its count; with *)
(* the last, t is among those that are destroyed.                          *)
LEMMA ReleaseOnlyKeeps ==
  ASSUME Counts, UNCHANGED Trace, NEW t \in Live, ReleaseOnly(t), Live' = Live,
         Held(t) > 0, Held(t)' = Held(t) - 1,
         \A s \in Live : s # t => Held(s)' = Held(s),
         mode' = IF mode = "destroy" \/ rc[t] = 1 THEN "destroy" ELSE "run"
  PROVE  /\ CountSum' /\ Exact' /\ Dying'
         /\ rc' \in [Slots -> Nat] /\ work' \in Seq(Slots)
<1>1. /\ rc \in [Slots -> Nat] /\ work \in Seq(Slots) /\ t \in Slots
      /\ rc' = [rc EXCEPT ![t] = @ - 1] /\ refCounts' = Counted(-1)
      /\ work' = IF rc[t] = 1 THEN <<t>> \o work ELSE work
  BY DEF Counts, CountTyped, Live, ReleaseOnly
<1>2. rc[t] = Held(t) /\ rc[t] > 0 /\ rc[t] \in Nat
  BY <1>1 DEF Counts, Exact
<1>3. CountSum'
  BY <1>1, <1>2, UnitTaken DEF Counts
<1>4. Exact'
  BY <1>1, <1>2 DEF Counts, Exact, Live
<1>5. rc' \in [Slots -> Nat] /\ work' \in Seq(Slots)
  BY <1>1, <1>2
<1>6. Dying'
  <2>1. CASE rc[t] # 1
    <3>1. work' = work /\ mode' = mode /\ rc'[t] # 0 /\ \A s \in Slots : s # t => rc'[s] = rc[s]
      BY <1>1, <1>2, <2>1 DEF Counts
    <3>2. \A i \in 1..Len(work) : work[i] \in Slots /\ work[i] # t
      BY <1>1, <1>2 DEF Counts, Dying
    <3>3. \A i \in 1..Len(work) : rc'[work[i]] = rc[work[i]]
      BY <3>1, <3>2
    <3>4. \A s \in Live : rc'[s] = 0 => rc[s] = 0
      BY <3>1, <2>1 DEF Live
    <3> QED
      BY <3>1, <3>3, <3>4 DEF Counts, Dying
  <2>2. CASE rc[t] = 1
    <3>1. /\ work' = <<t>> \o work /\ mode' = "destroy" /\ rc'[t] = 0
          /\ \A s \in Slots : s # t => rc'[s] = rc[s]
      BY <1>1, <1>2, <2>2 DEF Counts
    <3>2. \A i \in 1..Len(work) : work[i] \in Slots /\ work[i] # t /\ work[i] \in Live /\ rc[work[i]] = 0
      BY <1>1, <1>2 DEF Counts, Dying
    <3>3. /\ Len(work') = Len(work) + 1 /\ Len(work) \in Nat /\ work'[1] = t
          /\ \A i \in 1..Len(work') : i = 1 \/ (i - 1 \in 1..Len(work) /\ work'[i] = work[i - 1])
          /\ \A i \in 1..Len(work) : i + 1 \in 1..Len(work') /\ work'[i + 1] = work[i]
      BY <1>1, <3>1
    <3>4. \A i, j \in 1..Len(work') : work'[i] = work'[j] => i = j
      <4> SUFFICES ASSUME NEW i \in 1..Len(work'), NEW j \in 1..Len(work'), work'[i] = work'[j] PROVE i = j
        OBVIOUS
      <4>1. CASE i = 1 \/ j = 1
        BY <3>2, <3>3, <4>1
      <4>2. CASE i # 1 /\ j # 1
        <5>1. i - 1 \in 1..Len(work) /\ j - 1 \in 1..Len(work) /\ work[i - 1] = work[j - 1]
          BY <3>3, <4>2
        <5>2. i - 1 = j - 1
          BY <5>1 DEF Counts, Dying
        <5> QED
          BY <5>2
      <4> QED
        BY <4>1, <4>2
    <3>5. \A i \in 1..Len(work') : work'[i] \in Live' /\ rc'[work'[i]] = 0
      BY <3>1, <3>2, <3>3
    <3>6. \A s \in Live' : rc'[s] = 0 => \E i \in 1..Len(work') : work'[i] = s
      <4> SUFFICES ASSUME NEW s \in Live, rc'[s] = 0 PROVE \E i \in 1..Len(work') : work'[i] = s
        OBVIOUS
      <4>1. CASE s = t
        BY <3>3, <4>1
      <4>2. CASE s # t
        <5>1. PICK i \in 1..Len(work) : work[i] = s
          BY <3>1, <4>2 DEF Counts, Dying, Live
        <5> QED
          BY <3>3, <5>1
      <4> QED
        BY <4>1, <4>2
    <3>7. work' # <<>> /\ mode' # "run"
      BY <3>1, <3>3
    <3> QED
      BY <3>4, <3>5, <3>6, <3>7 DEF Dying
  <2> QED
    BY <2>1, <2>2
<1> QED
  BY <1>3, <1>4, <1>5, <1>6

(* Taking a slot: what it was, and what else is alive.                     *)
LEMMA TakeKeeps ==
  ASSUME ListInv, ready = pages, NEW s, NEW m \in {"obj", "half"}, Take(s, m), UNCHANGED Trace
  PROVE  /\ ListInv' /\ ready' = pages'
         /\ s \in Slots /\ s \notin Live
         /\ Live' = IF m = "obj" THEN Live \cup {s} ELSE Live
         /\ m = "obj" => \A t \in Slots : meta'[t] = "half" => meta[t] = "half"
<1>1. CASE TakeListed(s, m)
  <2>1. ListInv' /\ s \in Slots /\ meta[s] = "free"
    BY <1>1, TakeListedKeeps
  <2> QED
    BY <1>1, <2>1 DEF TakeListed, Live, ListInv, ListTyped
<1>2. CASE TakeGrown(s, m)
  <2>1. ListInv' /\ ready' = pages' /\ s \in Slots /\ meta[s] = "none"
    BY <1>2, TakeGrownKeeps
  <2>2. \A t \in Slots : t \in SlotsOf(pages, 2 * pages) => meta[t] = "none"
    <3> SUFFICES ASSUME NEW t \in Slots, t \in SlotsOf(pages, 2 * pages) PROVE meta[t] = "none"
      OBVIOUS
    <3>1. pages \in Nat /\ 2 * pages \in 0..MaxPages /\ pages <= 2 * pages
      BY <1>2, Sizes DEF TakeGrown, ListInv, ListTyped
    <3>2. pages * SlotsPerPage < t
      BY <3>1, SlotsOfPages
    <3> QED
      BY <3>2 DEF ListInv, PagesLaid
  <2>3. meta' = [t \in Slots |-> IF t = s THEN m
                                 ELSE IF t \in SlotsOf(pages, 2 * pages) THEN "free" ELSE meta[t]]
    BY <1>2 DEF TakeGrown
  <2> QED
    BY <2>1, <2>2, <2>3 DEF Live
<1> QED
  BY <1>1, <1>2 DEF Take

LEMMA RunFacts == IInv /\ mode \in {"run", "destroy"} => ListInv /\ Counts /\ Whole
BY DEF IInv, RunInv, Counts

LEMMA NewKeeps ==
  ASSUME IInv, NEW s \in Slots, New(s), UNCHANGED Trace
  PROVE  IInv'
<1>1. mode = "run" /\ mode' = "run" /\ ListInv /\ Counts /\ Whole /\ work = <<>>
  BY RunFacts DEF New, Counts, Dying
<1>2. /\ Take(s, "obj") /\ rc' = [rc EXCEPT ![s] = 1] /\ refs' = [refs EXCEPT ![s] = 1]
      /\ refCounts' = Counted(1) /\ UNCHANGED <<fields, work, at, mode>>
  BY DEF New
<1>3. /\ ListInv' /\ ready' = pages' /\ s \notin Live /\ Live' = Live \cup {s}
      /\ \A t \in Slots : meta'[t] = "half" => meta[t] = "half"
  BY <1>1, <1>2, TakeKeeps DEF Whole
<1>4. CountTyped'
  BY <1>1, <1>2, Sizes DEF Counts, CountTyped
<1>5. CountSum'
  <2>1. 1 \in 1..MaxCount
    BY Sizes
  <2>2. IF s \in Live THEN rc[s] = 1 - 1 ELSE 1 = 1
    BY <1>3
  <2> QED
    BY <1>1, <1>2, <1>3, <2>1, <2>2, UnitAdded DEF Counts
<1>6. References'
  BY <1>1, <1>2, <1>3 DEF Counts, References, CountTyped
<1>7. Exact'
  <2>1. \A t : FieldsWith(t)' = FieldsWith(t)
    BY <1>1, <1>2, <1>3, FieldsSame DEF Counts, References
  <2>2. FieldsWith(s) = {}
    <3>1. \A f \in FieldsWith(s) : f[1] \in Live /\ f[2] \in 1..Len(fields[f[1]]) /\ fields[f[1]][f[2]] = s
      BY Sizes DEF FieldsWith
    <3> QED
      BY <1>1, <1>3, <3>1 DEF Counts, References, Live
  <2>3. rc'[s] = Held(s)'
    <3>1. rc'[s] = 1 /\ refs'[s] = 1
      BY <1>1, <1>2 DEF Counts, CountTyped
    <3>2. FieldsWith(s)' = {}
      BY <2>1, <2>2
    <3>3. Cardinality(FieldsWith(s)') = 0
      BY <3>2, FS_EmptySet
    <3> QED
      BY <3>1, <3>3 DEF Held
  <2>4. \A t \in Live : rc'[t] = Held(t)'
    <3> SUFFICES ASSUME NEW t \in Live PROVE rc'[t] = Held(t)'
      OBVIOUS
    <3>1. rc'[t] = rc[t] /\ refs'[t] = refs[t]
      BY <1>1, <1>2, <1>3 DEF Live, Counts, CountTyped
    <3> QED
      BY <1>1, <2>1, <3>1 DEF Held, Counts, Exact
  <2> QED
    BY <1>3, <2>3, <2>4 DEF Exact
<1>8. Dying'
  <2>1. \A t \in Live' : rc'[t] # 0
    BY <1>1, <1>2, <1>3 DEF Counts, Dying, CountTyped, Live
  <2> QED
    BY <1>1, <1>2, <2>1 DEF Dying
<1> QED
  BY <1>1, <1>3, <1>4, <1>5, <1>6, <1>7, <1>8 DEF IInv, RunInv, AfterInv, SweepInv, Whole

LEMMA CopyKeeps ==
  ASSUME IInv, NEW s \in Slots, Copy(s), UNCHANGED Trace
  PROVE  IInv'
<1>1. mode = "run" /\ mode' = "run" /\ ListInv /\ Counts /\ Whole /\ work = <<>>
  BY RunFacts DEF Copy, Counts, Dying
<1>2. /\ refs[s] < MaxRefs /\ rc' = [rc EXCEPT ![s] = @ + 1] /\ refs' = [refs EXCEPT ![s] = @ + 1]
      /\ refCounts' = Counted(1) /\ UNCHANGED <<listVars, meta, fields, work, at, mode>>
  BY DEF Copy
<1>3. s \in Live /\ Live' = Live
  <2>1. Live' = Live
    BY <1>2 DEF Live
  <2>2. CASE refs[s] > 0
    BY <1>1, <2>1, <2>2 DEF Counts, References
  <2>3. CASE \E p \in Slots : refs[p] > 0 /\ \E i \in DOMAIN fields[p] : fields[p][i] = s
    <3>1. PICK p \in Slots : \E i \in DOMAIN fields[p] : fields[p][i] = s
      BY <2>3
    <3>2. DOMAIN fields[p] = 1..Len(fields[p])
      BY <1>1 DEF Counts, CountTyped
    <3> QED
      BY <1>1, <2>1, <3>1, <3>2 DEF Counts, References
  <2> QED
    BY <2>2, <2>3 DEF Copy, InReach
<1>4. ListInv'
  BY <1>1, <1>2, ListUnchanged
<1>5. rc[s] = Held(s) /\ rc[s] \in Nat /\ rc[s] + 1 \in 1..MaxCount
  <2>1. rc[s] = Held(s) /\ rc[s] \in Nat
    BY <1>1, <1>3 DEF Counts, Exact, CountTyped
  <2>2. refs[s] \in Nat
    BY <1>1, HeldType DEF Counts
  <2>3. /\ Cardinality(FieldsWith(s)) \in Nat
        /\ Cardinality(FieldsWith(s)) <= MaxPages * SlotsPerPage * MaxFields
    BY FieldsFinite
  <2>4. MaxPages * SlotsPerPage * MaxFields \in Nat /\ MaxRefs \in Nat
    BY Sizes
  <2> QED
    BY <1>2, <2>1, <2>2, <2>3, <2>4 DEF Held, MaxCount
<1>6. CountTyped'
  BY <1>1, <1>2, <1>5, Sizes DEF Counts, CountTyped
<1>7. CountSum'
  <2>1. rc' = [rc EXCEPT ![s] = rc[s] + 1]
    BY <1>2
  <2>2. rc[s] = (rc[s] + 1) - 1 /\ Live' = Live \cup {s}
    BY <1>3, <1>5
  <2> QED
    BY <1>1, <1>2, <1>3, <1>5, <2>1, <2>2, UnitAdded DEF Counts
<1>8. References'
  BY <1>1, <1>2, <1>3 DEF Counts, References, CountTyped
<1>9. Exact'
  <2> SUFFICES ASSUME NEW t \in Live PROVE rc'[t] = Held(t)'
    BY <1>3 DEF Exact
  <2>1. FieldsWith(t)' = FieldsWith(t)
    BY <1>2, <1>3 DEF FieldsWith
  <2>2. rc[t] = refs[t] + Cardinality(FieldsWith(t)) /\ t \in Slots
    BY <1>1 DEF Counts, Exact, Held, Live
  <2>3. CASE t = s
    <3>1. rc'[s] = rc[s] + 1 /\ refs'[s] = refs[s] + 1
      BY <1>1, <1>2 DEF Counts, CountTyped
    <3>2. refs[s] \in Nat /\ Cardinality(FieldsWith(s)) \in Nat
      BY <1>1, HeldType DEF Counts
    <3> QED
      BY <2>1, <2>2, <2>3, <3>1, <3>2 DEF Held
  <2>4. CASE t # s
    <3>1. rc'[t] = rc[t] /\ refs'[t] = refs[t]
      BY <1>1, <1>2, <2>2, <2>4 DEF Counts, CountTyped
    <3> QED
      BY <2>1, <2>2, <3>1 DEF Held
  <2> QED
    BY <2>3, <2>4
<1>10. Dying'
  <2>1. \A t \in Live' : rc'[t] # 0
    BY <1>1, <1>2, <1>3, <1>5 DEF Counts, Dying, CountTyped, Live
  <2> QED
    BY <1>1, <1>2, <2>1 DEF Dying
<1> QED
  BY <1>1, <1>2, <1>4, <1>6, <1>7, <1>8, <1>9, <1>10 DEF IInv, RunInv, AfterInv, SweepInv, Whole, listVars

LEMMA StoreKeeps ==
  ASSUME IInv, NEW p \in Slots, NEW s \in Slots, Store(p, s), UNCHANGED Trace
  PROVE  IInv'
<1>1. mode = "run" /\ mode' = "run" /\ ListInv /\ Counts /\ Whole /\ work = <<>>
  BY RunFacts DEF Store, Counts, Dying
<1>2. /\ refs[s] > 0 /\ refs[p] > 0 /\ Len(fields[p]) < MaxFields
      /\ refs' = [refs EXCEPT ![s] = @ - 1] /\ fields' = [fields EXCEPT ![p] = Append(@, s)]
      /\ UNCHANGED <<listVars, meta, rc, refCounts, work, at, mode>>
  <2>1. \A r \in Slots : refs[r] \in Nat
    BY <1>1, HeldType DEF Counts
  <2> QED
    BY <2>1 DEF Store
<1>3. s \in Live /\ p \in Live /\ Live' = Live
  BY <1>1, <1>2 DEF Counts, References, CountTyped, Live
<1>4. ListInv'
  BY <1>1, <1>2, ListUnchanged
<1>5. /\ fields[p] \in Seq(Slots) /\ Len(fields'[p]) = Len(fields[p]) + 1 /\ fields'[p] = Append(fields[p], s)
      /\ \A q \in Slots : q # p => fields'[q] = fields[q]
  BY <1>1, <1>2 DEF Counts, CountTyped
<1>6. CountTyped'
  <2>1. fields' \in [Slots -> Seq(Slots)]
    BY <1>1, <1>2, <1>5 DEF Counts, CountTyped
  <2>2. \A q \in Slots : Len(fields'[q]) <= MaxFields
    BY <1>1, <1>2, <1>5, Sizes DEF Counts, CountTyped
  <2>3. refs' \in [Slots -> 0..MaxRefs]
    BY <1>1, <1>2, Sizes DEF Counts, CountTyped
  <2> QED
    BY <1>1, <1>2, <2>1, <2>2, <2>3 DEF Counts, CountTyped
<1>7. CountSum'
  BY <1>1, <1>2, <1>3 DEF Counts, CountSum, Counted, Units
<1>8. References'
  <2>1. \A q \in Slots : \A i \in 1..Len(fields'[q]) : fields'[q][i] \in Live
    <3> SUFFICES ASSUME NEW q \in Slots, NEW i \in 1..Len(fields'[q]) PROVE fields'[q][i] \in Live
      OBVIOUS
    <3>1. CASE q # p
      BY <1>1, <1>5, <3>1 DEF Counts, References
    <3>2. CASE q = p /\ i = Len(fields[p]) + 1
      BY <1>3, <1>5, <3>2
    <3>3. CASE q = p /\ i # Len(fields[p]) + 1
      <4>1. i \in 1..Len(fields[p]) /\ fields'[p][i] = fields[p][i]
        BY <1>5, <3>3
      <4> QED
        BY <1>1, <3>3, <4>1 DEF Counts, References
    <3> QED
      BY <3>1, <3>2, <3>3
  <2>2. \A t \in Slots : t \notin Live => refs'[t] = 0 /\ fields'[t] = <<>>
    BY <1>1, <1>2, <1>3, <1>5 DEF Counts, References, CountTyped
  <2> QED
    BY <1>3, <2>1, <2>2 DEF References
<1>9. Exact'
  <2> SUFFICES ASSUME NEW t \in Live PROVE rc'[t] = Held(t)'
    BY <1>3 DEF Exact
  <2>1. rc'[t] = refs[t] + Cardinality(FieldsWith(t)) /\ t \in Slots
    BY <1>1, <1>2 DEF Counts, Exact, Held, Live
  <2>2. refs[t] \in Nat /\ Cardinality(FieldsWith(t)) \in Nat
    BY <1>1, <2>1, HeldType DEF Counts
  <2>3. /\ Cardinality(FieldsWith(s)') = Cardinality(FieldsWith(s)) + 1
        /\ t # s => FieldsWith(t)' = FieldsWith(t)
    BY <1>1, <1>2, <1>3, FieldAppended DEF Counts
  <2>4. CASE t = s
    <3>1. refs'[s] = refs[s] - 1
      BY <1>1, <1>2 DEF Counts, CountTyped
    <3> QED
      BY <2>1, <2>2, <2>3, <2>4, <3>1 DEF Held
  <2>5. CASE t # s
    <3>1. refs'[t] = refs[t]
      BY <1>1, <1>2, <2>1, <2>5 DEF Counts, CountTyped
    <3> QED
      BY <2>1, <2>3, <2>5, <3>1 DEF Held
  <2> QED
    BY <2>4, <2>5
<1>10. Dying'
  BY <1>1, <1>2, <1>3 DEF Counts, Dying
<1> QED
  BY <1>1, <1>2, <1>4, <1>6, <1>7, <1>8, <1>9, <1>10 DEF IInv, RunInv, AfterInv, SweepInv, Whole, listVars

LEMMA ReleaseKeeps ==
  ASSUME IInv, NEW s \in Slots, Release(s), UNCHANGED Trace
  PROVE  IInv'
<1>1. mode = "run" /\ ListInv /\ Counts /\ Whole
  BY RunFacts DEF Release
<1>2. /\ refs[s] > 0 /\ refs' = [refs EXCEPT ![s] = @ - 1] /\ ReleaseOnly(s)
      /\ mode' = IF rc[s] = 1 THEN "destroy" ELSE "run"
      /\ UNCHANGED <<listVars, meta, fields, at>>
  BY DEF Release
<1>3. /\ s \in Live /\ Live' = Live /\ refs[s] \in Nat /\ Cardinality(FieldsWith(s)) \in Nat
      /\ \A t : FieldsWith(t)' = FieldsWith(t)
  <2>1. s \in Live
    BY <1>1, <1>2 DEF Counts, References
  <2>2. Live' = Live
    BY <1>2 DEF Live
  <2>3. \A t : FieldsWith(t)' = FieldsWith(t)
    BY <1>2, <2>2 DEF FieldsWith
  <2> QED
    BY <1>1, <2>1, <2>2, <2>3, HeldType DEF Counts
<1>4. ListInv'
  BY <1>1, <1>2, ListUnchanged
<1>5. /\ refs' \in [Slots -> 0..MaxRefs] /\ refs'[s] = refs[s] - 1
      /\ \A t \in Slots : t # s => refs'[t] = refs[t]
  BY <1>1, <1>2, <1>3, Sizes DEF Counts, CountTyped
<1>6. Held(s) > 0 /\ Held(s)' = Held(s) - 1 /\ \A t \in Live : t # s => Held(t)' = Held(t)
  BY <1>2, <1>3, <1>5 DEF Held, Live
<1>7. /\ CountSum' /\ Exact' /\ Dying'
      /\ rc' \in [Slots -> Nat] /\ work' \in Seq(Slots)
  BY <1>1, <1>2, <1>3, <1>6, ReleaseOnlyKeeps
<1>8. CountTyped'
  BY <1>1, <1>2, <1>5, <1>7 DEF Counts, CountTyped
<1>9. References'
  BY <1>1, <1>2, <1>3, <1>5 DEF Counts, References
<1> QED
  BY <1>1, <1>2, <1>4, <1>7, <1>8, <1>9 DEF IInv, RunInv, AfterInv, SweepInv, Whole, listVars

(* The first field of p is released, by the program or by a destruction.   *)
LEMMA DropKeeps ==
  ASSUME IInv, UNCHANGED Trace, mode \in {"run", "destroy"},
         NEW p \in Live, fields[p] # <<>>,
         fields' = [fields EXCEPT ![p] = Tail(@)],
         ReleaseOnly(Head(fields[p])),
         mode' = IF mode = "destroy" \/ rc[Head(fields[p])] = 1 THEN "destroy" ELSE "run",
         UNCHANGED <<listVars, meta, refs, at>>
  PROVE  IInv'
<1>1. ListInv /\ Counts /\ Whole
  BY RunFacts
<1>0. PICK t \in Slots : t = Head(fields[p])
  <2>1. fields[p] \in Seq(Slots)
    BY <1>1 DEF Counts, CountTyped, Live
  <2> QED
    BY <2>1
<1>2. /\ p \in Slots /\ fields[p] \in Seq(Slots) /\ t = fields[p][1] /\ 1 \in 1..Len(fields[p])
      /\ fields'[p] = Tail(fields[p]) /\ fields'[p] \in Seq(Slots)
      /\ Len(fields'[p]) = Len(fields[p]) - 1
      /\ \A i \in 1..Len(fields'[p]) : i + 1 \in 1..Len(fields[p]) /\ fields'[p][i] = fields[p][i + 1]
      /\ \A q \in Slots : q # p => fields'[q] = fields[q]
  BY <1>0, <1>1 DEF Counts, CountTyped, Live
<1>3. t \in Live /\ Live' = Live
  BY <1>1, <1>2 DEF Counts, References, Live
<1>4. ListInv'
  BY <1>1, ListUnchanged
<1>5. \A s : IF s = t
             THEN Cardinality(FieldsWith(s)') = Cardinality(FieldsWith(s)) - 1 /\ Cardinality(FieldsWith(s)) > 0
             ELSE Cardinality(FieldsWith(s)') = Cardinality(FieldsWith(s))
  BY <1>0, <1>1, <1>3, FieldDropped DEF Counts
<1>6. refs[t] \in Nat /\ Cardinality(FieldsWith(t)) \in Nat
  BY <1>1, <1>3, HeldType DEF Counts
<1>7. Held(t) > 0 /\ Held(t)' = Held(t) - 1 /\ \A s \in Live : s # t => Held(s)' = Held(s)
  BY <1>5, <1>6 DEF Held
<1>8. /\ CountSum' /\ Exact' /\ Dying'
      /\ rc' \in [Slots -> Nat] /\ work' \in Seq(Slots)
  BY <1>0, <1>1, <1>3, <1>7, ReleaseOnlyKeeps
<1>9. CountTyped'
  <2>1. fields' \in [Slots -> Seq(Slots)]
    BY <1>1, <1>2 DEF Counts, CountTyped
  <2>2. \A q \in Slots : Len(fields'[q]) <= MaxFields
    BY <1>1, <1>2, Sizes DEF Counts, CountTyped
  <2> QED
    BY <1>1, <1>8, <2>1, <2>2 DEF Counts, CountTyped
<1>10. References'
  <2>1. \A q \in Slots : \A i \in 1..Len(fields'[q]) : fields'[q][i] \in Live
    BY <1>1, <1>2 DEF Counts, References
  <2>2. \A s \in Slots : s \notin Live => refs'[s] = 0 /\ fields'[s] = <<>>
    BY <1>1, <1>2 DEF Counts, References
  <2> QED
    BY <1>3, <2>1, <2>2 DEF References
<1>11. mode' \in {"run", "destroy"}
  OBVIOUS
<1> QED
  BY <1>1, <1>4, <1>8, <1>9, <1>10, <1>11 DEF IInv, RunInv, AfterInv, SweepInv, Whole, listVars

LEMMA ClearKeeps ==
  ASSUME IInv, NEW p \in Slots, Clear(p), UNCHANGED Trace
  PROVE  IInv'
<1>1. mode = "run" /\ Counts
  BY RunFacts DEF Clear
<1>2. p \in Live
  BY <1>1 DEF Clear, Counts, References
<1>3. /\ fields[p] # <<>> /\ fields' = [fields EXCEPT ![p] = Tail(@)]
      /\ ReleaseOnly(Head(fields[p]))
      /\ mode' = IF mode = "destroy" \/ rc[Head(fields[p])] = 1 THEN "destroy" ELSE "run"
      /\ UNCHANGED <<listVars, meta, refs, at>>
  BY <1>1 DEF Clear
<1> QED
  BY <1>1, <1>2, <1>3, DropKeeps

LEMMA DestroyFieldKeeps ==
  ASSUME IInv, NEW s \in Slots, DestroyField(s), UNCHANGED Trace
  PROVE  IInv'
<1>1. mode = "destroy" /\ Counts
  BY RunFacts DEF DestroyField
<1>2. s \in Live
  <2>1. work # <<>> /\ work \in Seq(Slots)
    BY <1>1 DEF Counts, CountTyped, Dying
  <2>2. s = work[1] /\ 1 \in 1..Len(work)
    BY <2>1 DEF DestroyField
  <2> QED
    BY <1>1, <2>2 DEF Counts, Dying
<1>3. /\ fields[s] # <<>> /\ fields' = [fields EXCEPT ![s] = Tail(@)]
      /\ ReleaseOnly(Head(fields[s]))
      /\ mode' = IF mode = "destroy" \/ rc[Head(fields[s])] = 1 THEN "destroy" ELSE "run"
      /\ UNCHANGED <<listVars, meta, refs, at>>
  BY <1>1 DEF DestroyField
<1> QED
  BY <1>1, <1>2, <1>3, DropKeeps

LEMMA DestroyFreeKeeps ==
  ASSUME IInv, NEW s \in Slots, DestroyFree(s), UNCHANGED Trace
  PROVE  IInv'
<1>1. mode = "destroy" /\ ListInv /\ Counts /\ Whole
  BY RunFacts DEF DestroyFree
<1>2. work \in Seq(Slots) /\ work # <<>>
  BY <1>1 DEF Counts, CountTyped, Dying
<1>3. /\ s = work[1] /\ 1 \in 1..Len(work) /\ fields[s] = <<>> /\ FreeSlot(s) /\ work' = Tail(work)
      /\ mode' = IF Len(work) = 1 THEN "run" ELSE "destroy"
      /\ UNCHANGED <<rc, fields, refs, refCounts, at>>
  BY <1>2 DEF DestroyFree
<1>4. s \in Live /\ rc[s] = 0 /\ meta[s] = "obj"
  BY <1>1, <1>3 DEF Counts, Dying, Live
<1>5. ListInv'
  BY <1>1, <1>3, <1>4, FreeSlotKeeps
<1>6. /\ Live' = Live \ {s} /\ UNCHANGED <<pages, ready>>
      /\ \A t \in Slots : meta'[t] = "half" => meta[t] = "half"
  BY <1>1, <1>3 DEF FreeSlot, Live, ListInv, ListTyped
<1>7. CountTyped'
  BY <1>1, <1>2, <1>3 DEF Counts, CountTyped
<1>8. CountSum'
  <2>1. refCounts' = Counted(0 - rc[s])
    <3>1. Trace => refCounts \in Nat
      BY <1>1, UnitsFinite DEF Counts, CountSum
    <3> QED
      BY <1>3, <1>4, <3>1 DEF Counted
  <2> QED
    BY <1>1, <1>3, <1>4, <1>6, <2>1, UnitsDropped DEF Counts
<1>9. refs[s] = 0 /\ FieldsWith(s) = {}
  <2>1. rc[s] = refs[s] + Cardinality(FieldsWith(s)) /\ refs[s] \in Nat /\ Cardinality(FieldsWith(s)) \in Nat
    BY <1>1, <1>4, HeldType DEF Counts, Exact, Held
  <2>2. refs[s] = 0 /\ Cardinality(FieldsWith(s)) = 0
    BY <1>4, <2>1
  <2> QED
    BY <2>2, FieldsFinite, FS_EmptySet
<1>10. References'
  <2>1. \A q \in Slots : \A i \in 1..Len(fields[q]) : fields[q][i] \in Live \ {s}
    <3> SUFFICES ASSUME NEW q \in Slots, NEW i \in 1..Len(fields[q]) PROVE fields[q][i] \in Live \ {s}
      OBVIOUS
    <3>1. fields[q][i] \in Live /\ q \in Live
      BY <1>1 DEF Counts, References
    <3>2. i \in 1..MaxFields /\ i <= Len(fields[q])
      BY <1>1, Sizes DEF Counts, CountTyped
    <3>3. <<q, i>> \notin FieldsWith(s)
      BY <1>9
    <3> QED
      BY <3>1, <3>2, <3>3 DEF FieldsWith
  <2> QED
    BY <1>1, <1>3, <1>6, <1>9, <2>1 DEF Counts, References
<1>11. Exact'
  <2>1. \A t : FieldsWith(t)' = FieldsWith(t)
    BY <1>3, <1>6, FieldsSame
  <2> QED
    BY <1>1, <1>3, <1>6, <2>1 DEF Counts, Exact, Held
<1>12. Dying'
  <2>1. /\ Len(work') = Len(work) - 1
        /\ \A i \in 1..Len(work') : i + 1 \in 1..Len(work) /\ work'[i] = work[i + 1]
        /\ \A i \in 1..Len(work) : i = 1 \/ (i - 1 \in 1..Len(work') /\ work'[i - 1] = work[i])
    BY <1>2, <1>3
  <2>2. \A i, j \in 1..Len(work') : work'[i] = work'[j] => i = j
    <3> SUFFICES ASSUME NEW i \in 1..Len(work'), NEW j \in 1..Len(work'), work'[i] = work'[j] PROVE i = j
      OBVIOUS
    <3>1. i + 1 = j + 1
      BY <1>1, <2>1 DEF Counts, Dying
    <3> QED
      BY <3>1
  <2>3. \A i \in 1..Len(work') : work'[i] \in Live' /\ rc'[work'[i]] = 0
    <3> SUFFICES ASSUME NEW i \in 1..Len(work') PROVE work'[i] \in Live' /\ rc'[work'[i]] = 0
      OBVIOUS
    <3>1. i + 1 \in 1..Len(work) /\ i + 1 # 1 /\ work'[i] = work[i + 1]
      BY <2>1
    <3>2. work[i + 1] # s
      BY <1>1, <1>3, <3>1 DEF Counts, Dying
    <3> QED
      BY <1>1, <1>3, <1>6, <3>1, <3>2 DEF Counts, Dying
  <2>4. \A t \in Live' : rc'[t] = 0 => \E i \in 1..Len(work') : work'[i] = t
    <3> SUFFICES ASSUME NEW t \in Live', rc'[t] = 0 PROVE \E i \in 1..Len(work') : work'[i] = t
      OBVIOUS
    <3>1. PICK i \in 1..Len(work) : work[i] = t
      BY <1>1, <1>3, <1>6 DEF Counts, Dying
    <3>2. i # 1
      BY <1>3, <1>6, <3>1
    <3> QED
      BY <2>1, <3>1, <3>2
  <2>5. mode' = "run" <=> work' = <<>>
    <3>0. work' \in Seq(Slots)
      BY <1>2, <1>3
    <3>1. work' = <<>> <=> Len(work') = 0
      BY <3>0
    <3> QED
      BY <1>2, <1>3, <2>1, <3>1
  <2> QED
    BY <2>2, <2>3, <2>4, <2>5 DEF Dying
<1> QED
  BY <1>1, <1>3, <1>5, <1>6, <1>7, <1>8, <1>10, <1>11, <1>12 DEF IInv, RunInv, AfterInv, SweepInv, Whole

-----------------------------------------------------------------------------
(* Failures: counts and the sum stay as they are when the sweep begins.    *)
LEMMA UnwindKeeps ==
  ASSUME IInv, Unwind, UNCHANGED Trace, ListInv', Live' = Live
  PROVE  IInv'
<1>1. mode = "run" /\ Counts /\ work = <<>>
  BY RunFacts DEF Unwind, Counts, Dying
<1>2. /\ mode' = "sweep" /\ at' = 1 /\ refs' = [s \in Slots |-> 0] /\ fields' = [s \in Slots |-> <<>>]
      /\ UNCHANGED <<rc, refCounts, work>>
  BY DEF Unwind
<1>3. CountTyped'
  <2>1. fields' \in [Slots -> Seq(Slots)] /\ \A p \in Slots : Len(fields'[p]) <= MaxFields
    BY <1>2, Sizes
  <2> QED
    BY <1>1, <1>2, <2>1, Sizes DEF Counts, CountTyped
<1>4. CountSum'
  BY <1>1, <1>2 DEF Counts, CountSum, Units
<1>5. AfterInv' /\ RunInv'
  BY <1>1, <1>2 DEF AfterInv, RunInv, Unwound
<1>6. SweepInv'
  <2>1. ready' * SlotsPerPage \in Nat
    <3>1. ready' \in Nat
      BY DEF ListInv, ListTyped
    <3> QED
      BY <3>1, PageBounds
  <2>2. \A s \in Slots : ~(s < at')
    BY <1>2, Sizes
  <2> QED
    BY <1>2, <2>1, <2>2 DEF SweepInv
<1> QED
  BY <1>3, <1>4, <1>5, <1>6 DEF IInv

LEMMA PanicKeeps == IInv /\ Panic /\ UNCHANGED Trace => IInv'
<1> SUFFICES ASSUME IInv, Panic, UNCHANGED Trace PROVE IInv'
  OBVIOUS
<1>1. ListInv' /\ Live' = Live
  BY ListUnchanged DEF IInv, Panic, Live
<1> QED
  BY <1>1, UnwindKeeps DEF Panic

LEMMA GrowFailsKeeps == IInv /\ GrowFails /\ UNCHANGED Trace => IInv'
<1> SUFFICES ASSUME IInv, GrowFails, UNCHANGED Trace PROVE IInv'
  OBVIOUS
<1>1. ListInv /\ ready = pages /\ Unwind
  BY RunFacts DEF GrowFails, Unwind, Whole
<1>2. CASE UNCHANGED <<pages, ready, next, meta>>
  <2>1. UNCHANGED <<Trace, listVars, meta>>
    BY <1>2 DEF GrowFails, listVars
  <2>2. ListInv' /\ Live' = Live
    BY <1>1, <2>1, ListUnchanged DEF Live
  <2> QED
    BY <1>1, <2>2, UnwindKeeps
<1>3. CASE \E n \in pages..(2 * pages - 1) : GrownPartly(n)
  <2>1. PICK n \in pages..(2 * pages - 1) : GrownPartly(n)
    BY <1>3
  <2>2. ListInv'
    BY <1>1, <2>1, GrownPartlyKeeps
  <2>3. \A t \in Slots : t \in SlotsOf(pages, n) => meta[t] = "none"
    <3>1. pages \in Nat /\ n \in 0..MaxPages /\ pages <= n
      BY <1>1, <2>1, Sizes DEF GrownPartly, ListInv, ListTyped
    <3> QED
      BY <1>1, <3>1, SlotsOfPages DEF ListInv, PagesLaid
  <2>4. Live' = Live
    BY <2>1, <2>3 DEF GrownPartly, Live
  <2> QED
    BY <1>1, <2>2, <2>4, UnwindKeeps
<1> QED
  BY <1>2, <1>3 DEF GrowFails, GrownPartly

LEMMA BigFailsKeeps ==
  ASSUME IInv, NEW s \in Slots, BigFails(s), UNCHANGED Trace
  PROVE  IInv'
<1>1. ListInv /\ ready = pages /\ Unwind /\ Take(s, "half")
  BY RunFacts DEF BigFails, Unwind, Whole
<1>2. ListInv' /\ Live' = Live
  BY <1>1, TakeKeeps
<1> QED
  BY <1>1, <1>2, UnwindKeeps

(* The sweep: the slot it looks at is free afterwards.                     *)
LEMMA SweepSlotKeeps == IInv /\ SweepSlot /\ UNCHANGED Trace => IInv'
<1> SUFFICES ASSUME IInv, SweepSlot, UNCHANGED Trace PROVE IInv'
  OBVIOUS
<1>1. /\ mode = "sweep" /\ at \in SlotsOf(0, ready) /\ meta[at] # "half"
      /\ rc' = [rc EXCEPT ![at] = 0] /\ at' = at + 1 /\ UNCHANGED <<fields, refs, work, mode>>
      /\ ListInv /\ CountTyped /\ CountSum /\ SweepInv /\ AfterInv
  BY DEF SweepSlot, IInv
<1>2. ready \in Nat /\ ready \in 0..MaxPages /\ ready * SlotsPerPage \in Nat
  BY <1>1, PageBounds, Sizes DEF ListInv, ListTyped
<1>3. at \in Slots /\ at \in 1..(ready * SlotsPerPage)
  <2>1. 0 * SlotsPerPage = 0
    BY Sizes
  <2> QED
    BY <1>1, <1>2, <2>1, SlotsOfPages DEF SlotsOf
<1>4. CountTyped'
  <2>1. rc' \in [Slots -> Nat] /\ at' \in Nat
    BY <1>1, <1>2, <1>3 DEF CountTyped
  <2> QED
    BY <1>1, <2>1 DEF CountTyped
<1>5. /\ ListInv' /\ CountSum' /\ UNCHANGED <<pages, ready>>
      /\ meta'[at] = "free" /\ \A s \in Slots : s # at => meta'[s] = meta[s]
  <2>1. CASE meta[at] = "obj"
    <3>1. FreeSlot(at) /\ refCounts' = Counted(0 - rc[at]) /\ at \in Live
      BY <1>3, <2>1 DEF SweepSlot, Swept, Live
    <3>2. ListInv'
      BY <1>1, <1>3, <2>1, <3>1, FreeSlotKeeps
    <3>3. /\ UNCHANGED <<pages, ready>>
          /\ meta'[at] = "free" /\ \A s \in Slots : s # at => meta'[s] = meta[s]
      BY <1>1, <1>3, <3>1 DEF FreeSlot, ListInv, ListTyped
    <3>4. Live' = Live \ {at} /\ \A t \in Live \ {at} : rc'[t] = rc[t]
      BY <1>1, <3>3 DEF Live, CountTyped
    <3>5. CountSum'
      BY <1>1, <3>1, <3>4, UnitsDropped
    <3> QED
      BY <3>2, <3>3, <3>5
  <2>2. CASE meta[at] # "obj"
    <3>1. UNCHANGED <<listVars, meta, refCounts>>
      BY <2>2 DEF SweepSlot, Swept
    <3>2. ListInv'
      BY <1>1, <3>1, ListUnchanged
    <3>3. meta[at] = "free"
      BY <1>1, <1>2, <1>3, <2>2 DEF ListInv, ListTyped, PagesLaid
    <3>4. Live' = Live /\ \A t \in Live : rc'[t] = rc[t]
      BY <1>1, <2>2, <3>1 DEF Live, CountTyped
    <3>5. CountSum'
      BY <1>1, <3>1, <3>4 DEF CountSum, Units
    <3> QED
      BY <3>1, <3>2, <3>3, <3>5 DEF listVars
  <2> QED
    BY <2>1, <2>2
<1>6. SweepInv'
  <2>1. \A s \in Slots : s < at + 1 => s = at \/ s < at
    BY <1>3, Sizes
  <2>2. \A s \in Slots : s < at' => meta'[s] = "free"
    BY <1>1, <1>5, <2>1 DEF SweepInv
  <2> QED
    BY <1>1, <1>2, <1>3, <1>5, <2>2 DEF SweepInv
<1> QED
  BY <1>1, <1>4, <1>5, <1>6 DEF IInv, RunInv, AfterInv, Unwound

LEMMA SweepLostKeeps == IInv /\ SweepLost /\ UNCHANGED Trace => IInv'
<1> SUFFICES ASSUME IInv, SweepLost, UNCHANGED Trace PROVE IInv'
  OBVIOUS
<1>1. ListInv' /\ Live' = Live
  BY ListUnchanged DEF IInv, SweepLost, Live
<1>2. CountTyped' /\ CountSum'
  BY <1>1 DEF IInv, SweepLost, CountTyped, CountSum, Units
<1> QED
  BY <1>1, <1>2 DEF IInv, SweepLost, RunInv, AfterInv, SweepInv, Unwound

LEMMA SweepEndsKeeps == IInv /\ SweepEnds /\ UNCHANGED Trace => IInv'
<1> SUFFICES ASSUME IInv, SweepEnds, UNCHANGED Trace PROVE IInv'
  OBVIOUS
<1>1. ListInv' /\ Live' = Live
  BY ListUnchanged DEF IInv, SweepEnds, Live
<1>2. CountTyped' /\ CountSum'
  BY <1>1 DEF IInv, SweepEnds, CountTyped, CountSum, Units
<1>3. /\ pages \in Nat /\ ready \in Nat /\ ready <= pages /\ at > pages * SlotsPerPage
      /\ at \in 1..(ready * SlotsPerPage + 1)
      /\ \A s \in Slots : s < at => meta[s] = "free"
  BY DEF IInv, SweepEnds, SweepInv, ListInv, ListTyped
<1>4. ready = pages
  <2>1. /\ ready * SlotsPerPage \in Nat /\ pages * SlotsPerPage \in Nat
        /\ ready < pages => ready * SlotsPerPage + SlotsPerPage <= pages * SlotsPerPage
    BY <1>3, PageBounds
  <2> QED
    BY <1>3, <2>1, Sizes
<1>5. \A s \in Slots : s <= pages * SlotsPerPage => meta[s] = "free"
  <2>1. pages * SlotsPerPage \in Nat
    BY <1>3, PageBounds
  <2> QED
    BY <1>3, <2>1, Sizes
<1>6. SweepInv'
  BY <1>4, <1>5 DEF SweepInv, SweepEnds, listVars
<1> QED
  BY <1>1, <1>2, <1>6 DEF IInv, SweepEnds, RunInv, AfterInv, Unwound

-----------------------------------------------------------------------------
LEMMA InitInv == Init => IInv
<1> SUFFICES ASSUME Init PROVE IInv
  OBVIOUS
<1>1. ListInv
  BY InitList
<1>2. Live = {}
  BY DEF Init, Live
<1>3. CountTyped
  <2>1. fields \in [Slots -> Seq(Slots)] /\ \A p \in Slots : Len(fields[p]) <= MaxFields
    BY Sizes DEF Init
  <2> QED
    BY <2>1, Sizes DEF Init, CountTyped
<1>4. CountSum
  <2>1. Units = {}
    BY <1>2 DEF Units
  <2> QED
    BY <1>2, <2>1, FS_EmptySet DEF Init, CountSum
<1>5. References
  <2>1. \A p \in Slots : Len(fields[p]) = 0 /\ refs[p] = 0 /\ fields[p] = <<>>
    BY DEF Init
  <2> QED
    BY <2>1 DEF References
<1>6. Exact /\ Dying
  BY <1>2 DEF Exact, Dying, Init
<1>7. Whole
  BY DEF Whole, Init
<1> QED
  BY <1>1, <1>3, <1>4, <1>5, <1>6, <1>7 DEF IInv, RunInv, AfterInv, SweepInv, Init

LEMMA StutterKeeps == IInv /\ UNCHANGED vars => IInv'
<1> SUFFICES ASSUME IInv, UNCHANGED vars PROVE IInv'
  OBVIOUS
<1>1. ListInv' /\ Live' = Live
  BY ListUnchanged DEF IInv, vars, Live
<1>2. \A t : FieldsWith(t)' = FieldsWith(t)
  BY <1>1 DEF vars, FieldsWith
<1>3. CountTyped' /\ CountSum'
  BY <1>1 DEF IInv, vars, CountTyped, CountSum, Units
<1>4. RunInv'
  BY <1>1, <1>2 DEF IInv, vars, listVars, RunInv, Whole, References, Exact, Held, Dying
<1>5. AfterInv' /\ SweepInv'
  BY DEF IInv, vars, listVars, AfterInv, Unwound, SweepInv
<1> QED
  BY <1>1, <1>3, <1>4, <1>5 DEF IInv

LEMMA StepKeeps == IInv /\ [Next]_vars => IInv'
<1> SUFFICES ASSUME IInv, [Next]_vars PROVE IInv'
  OBVIOUS
<1>1. CASE UNCHANGED vars
  BY <1>1, StutterKeeps
<1>2. CASE UserStep /\ UNCHANGED Trace
  BY <1>2, NewKeeps, CopyKeeps, ReleaseKeeps, ClearKeeps, BigFailsKeeps, StoreKeeps, PanicKeeps,
     GrowFailsKeeps DEF UserStep
<1>3. CASE HeapStep /\ UNCHANGED Trace
  BY <1>3, DestroyFieldKeeps, DestroyFreeKeeps, SweepSlotKeeps, SweepLostKeeps, SweepEndsKeeps DEF HeapStep
<1> QED
  BY <1>1, <1>2, <1>3 DEF Next

(* The invariant holds in every state of every behaviour of the heap.      *)
THEOREM Invariant == Spec => []IInv
BY InitInv, StepKeeps, PTL DEF Spec

(* Every variable of the heap keeps its type; what is in registers never   *)
(* exceeds its bound, and Heap.c.refCounts never goes below zero.          *)
THEOREM HeapTypes == Spec => []TypeOK
<1>1. IInv => TypeOK
  <2> SUFFICES ASSUME IInv PROVE TypeOK
    OBVIOUS
  <2>1. refCounts \in Nat
    BY UnitsFinite DEF IInv, CountSum
  <2> QED
    BY <2>1 DEF IInv, ListInv, ListTyped, CountTyped, TypeOK
<1> QED
  BY <1>1, Invariant, PTL

(* allocPoolObject never takes the slot of an object that is alive, and    *)
(* the list it takes it from ends.                                         *)
THEOREM FreeListIsSound == Spec => []ListSound
<1>1. IInv => ListSound
  BY SoundIfInv DEF IInv
<1> QED
  BY <1>1, Invariant, PTL

(* Without Trace no free slot is ever lost: every slot that freePoolObject *)
(* or growHeapPages gave is on the list, once.                             *)
THEOREM FreeListIsExact == Spec => []FreeListExact
<1>1. IInv => FreeListExact
  <2> SUFFICES ASSUME IInv, ~Trace, mode \in {"run", "destroy", "swept"}
               PROVE  Listed = Free /\ Walk[Cardinality(Free)] = Null
    BY DEF FreeListExact
  <2>1. ready = pages
    BY DEF IInv, RunInv, Whole, SweepInv
  <2> QED
    BY <2>1, ExactIfInv DEF IInv
<1> QED
  BY <1>1, Invariant, PTL

(* retain, release and destroyObject keep the count of every object equal  *)
(* to the references to it; what has a count of zero is being destroyed.   *)
THEOREM CountsAreExact == Spec => []RcExact
<1>1. IInv => RcExact
  <2> SUFFICES ASSUME IInv, mode \in {"run", "destroy"}, NEW s \in Live
               PROVE  /\ rc[s] = refs[s] + Cardinality(FieldsWith(s))
                      /\ rc[s] = 0 <=> \E i \in DOMAIN work : work[i] = s
    BY DEF RcExact
  <2>1. Counts
    BY RunFacts
  <2>2. DOMAIN work = 1..Len(work)
    BY <2>1 DEF Counts, CountTyped
  <2> QED
    BY <2>1, <2>2 DEF Counts, Exact, Held, Dying
<1> QED
  BY <1>1, Invariant, PTL

(* destroyObject frees no object that a register or a field refers to.     *)
THEOREM NothingDangles == Spec => []NoDangling
<1>1. IInv => NoDangling
  <2> SUFFICES ASSUME IInv, mode \in {"run", "destroy"}
               PROVE  /\ \A s \in Slots : refs[s] > 0 => s \in Live
                      /\ \A p \in Live : \A i \in DOMAIN fields[p] : fields[p][i] \in Live
    BY DEF NoDangling
  <2>1. Counts
    BY RunFacts
  <2>2. \A s \in Slots : refs[s] > 0 => s \in Live
    BY <2>1 DEF Counts, References
  <2>3. \A p \in Live : p \in Slots /\ DOMAIN fields[p] = 1..Len(fields[p])
    BY <2>1 DEF Counts, CountTyped, Live
  <2> QED
    BY <2>1, <2>2, <2>3 DEF Counts, References
<1> QED
  BY <1>1, Invariant, PTL

(* Heap.c.refCounts is the sum of all counts, through destructions and     *)
(* through the sweep of a panic.                                           *)
THEOREM SumIsExact == Spec => []RefCountsMatch
<1>1. IInv => RefCountsMatch
  BY DEF IInv, CountSum, Units, RefCountsMatch
<1> QED
  BY <1>1, Invariant, PTL

(* freeHeapPages, when it comes to its end, leaves no object, no reference *)
(* counted, and every slot of every page free.                             *)
THEOREM SweepIsComplete == Spec => []SweepFreesAll
<1>1. IInv => SweepFreesAll
  <2> SUFFICES ASSUME IInv, mode = "swept"
               PROVE  Live = {} /\ refCounts = 0 /\ Cardinality(Free) = pages * SlotsPerPage
    BY DEF SweepFreesAll
  <2>1. /\ ready = pages /\ pages \in 1..MaxPages
        /\ \A s \in Slots : s <= pages * SlotsPerPage => meta[s] = "free"
        /\ \A s \in Slots : s > pages * SlotsPerPage => meta[s] = "none"
    BY DEF IInv, SweepInv, ListInv, ListTyped, PagesLaid
  <2>2. pages * SlotsPerPage \in Nat /\ pages * SlotsPerPage <= MaxPages * SlotsPerPage
    BY <2>1, PageBounds, Sizes
  <2>3. \A s \in Slots : s \in 1..(pages * SlotsPerPage) \/ s > pages * SlotsPerPage
    BY <2>2, Sizes
  <2>4. Live = {}
    BY <2>1, <2>3 DEF Live
  <2>5. refCounts = 0
    <3>1. Units = {}
      BY <2>4 DEF Units
    <3> QED
      BY <3>1, FS_EmptySet DEF IInv, CountSum
  <2>6. Free = 1..(pages * SlotsPerPage)
    <3>1. 1..(pages * SlotsPerPage) \subseteq Slots
      BY <2>2, Sizes DEF Slots
    <3>2. \A s \in Free : s \in 1..(pages * SlotsPerPage)
      BY <2>1, <2>3 DEF Free
    <3>3. \A s \in 1..(pages * SlotsPerPage) : s \in Free
      BY <2>1, <2>2, <3>1 DEF Free
    <3> QED
      BY <3>2, <3>3
  <2>7. Cardinality(1..(pages * SlotsPerPage)) = pages * SlotsPerPage
    BY <2>2, FS_Interval
  <2> QED
    BY <2>4, <2>5, <2>6, <2>7
<1> QED
  BY <1>1, Invariant, PTL
=============================================================================
