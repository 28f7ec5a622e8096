---------------------------- MODULE PageHeapProofs ----------------------------
(***************************************************************************)
(* Proofs about the page table of PageHeap and about its types, for every  *)
(* number of pages, slots, cards and objects, any client and any mix of    *)
(* cycles.                                                                 *)
(***************************************************************************)
EXTENDS PageHeap, OrderProofs

-----------------------------------------------------------------------------
(* The invariant.                                                          *)

Desc == [gen : Generation \cup {"Free"}, kind : {"free", "small", "large"},
         span : 0 .. LargeSpan, pins : BOOLEAN]

\* FreePagesListed with the types of descriptors and list.
TableListed ==
  /\ desc \in [Page -> Desc]
  /\ freeList \in Seq(Int)
  /\ FreePagesListed

PassType == [from : Generation, dest : Generation,
             scan : {"fresh", "kept", "none"}]

\* What the chunk loop works on: pages, and a generation they move to.
LoopTyped ==
  /\ dest \in Generation
  /\ passes \in Seq(PassType)
  /\ fromPages \in Seq(Page)
  /\ next \in Nat \ {0}
  /\ chunk \subseteq Page

ListInv == TableListed /\ LoopTyped

\* Sets of pages are finite sets of integers.
LEMMA PagesFinite ==
  ASSUME NEW S \in SUBSET Page
  PROVE  S \in SUBSET Int /\ IsFiniteSet(S) /\ Cardinality(S) \in Nat
<1>1. IsFiniteSet(Page)
  BY PageTableAssumption, FS_Interval DEF Page
<1>2. IsFiniteSet(S)
  BY <1>1, FS_Subset
<1>3. QED
  BY <1>2, PageTableAssumption, FS_CardinalityType DEF Page

\* Opening a page takes one entry off the list, the stale ones above it, and
\* no other Free page.
LEMMA ClaimLists ==
  ASSUME TableListed, NEW g \in Generation, Claim(g)
  PROVE  TableListed'
<1>1. CASE HasRoom(g)
  BY <1>1 DEF TableListed, Claim, FreePagesListed, PagesIn, GenOf, ImageOf
<1>2. CASE ~HasRoom(g)
  <2>1. /\ desc' = [desc EXCEPT ![NextFree] = SmallDesc(g)]
        /\ freeList' = AfterPop
    BY <1>2 DEF Claim
  <2>2. SmallDesc(g) \in Desc
    BY PageTableAssumption DEF SmallDesc, Desc
  <2>3. desc' \in [Page -> Desc]
    BY <2>1, <2>2 DEF TableListed
  <2>4. /\ DOMAIN freeList = 1 .. Len(freeList)
        /\ Len(freeList) \in Nat
        /\ Acquirable \subseteq DOMAIN freeList
        /\ Acquirable \in SUBSET Int
    BY DEF TableListed, Acquirable
  <2>5. IsFiniteSet(Acquirable)
    <3>1. IsFiniteSet(1 .. Len(freeList))
      BY <2>4, FS_Interval
    <3>2. QED
      BY <2>4, <3>1, FS_Subset
  <2> DEFINE k == Greatest(Acquirable)
  <2>6. Acquirable # {} => k \in Acquirable /\ \A i \in Acquirable : k >= i
    BY <2>4, <2>5, GreatestIs
  <2>7. Acquirable # {} =>
          /\ SubSeq(freeList, 1, k - 1) \in Seq(Int)
          /\ \A i \in 1 .. k - 1 :
               /\ i \in DOMAIN SubSeq(freeList, 1, k - 1)
               /\ SubSeq(freeList, 1, k - 1)[i] = freeList[i]
    <3> SUFFICES ASSUME Acquirable # {} PROVE
          /\ SubSeq(freeList, 1, k - 1) \in Seq(Int)
          /\ \A i \in 1 .. k - 1 :
               /\ i \in DOMAIN SubSeq(freeList, 1, k - 1)
               /\ SubSeq(freeList, 1, k - 1)[i] = freeList[i]
      OBVIOUS
    <3>1. k \in 1 .. Len(freeList)
      BY <2>4, <2>6
    <3> HIDE DEF k
    <3>2. QED
      BY <2>4, <3>1 DEF TableListed
  <2>8. freeList' \in Seq(Int)
    BY <2>1, <2>7 DEF AfterPop
  <2>9. ASSUME NEW p \in Page, desc'[p].gen = "Free"
        PROVE  p \in ImageOf(freeList')
    <3>1. p # NextFree /\ desc[p].gen = "Free"
      BY <2>1, <2>9 DEF SmallDesc, TableListed, Generation
    <3>2. PICK i \in DOMAIN freeList : freeList[i] = p
      BY <3>1 DEF TableListed, FreePagesListed, PagesIn, GenOf, ImageOf
    <3>3. i \in Acquirable
      BY <3>1, <3>2 DEF Acquirable, GenOf
    <3>4. NextFree = freeList[k] /\ freeList' = SubSeq(freeList, 1, k - 1)
      BY <2>1, <3>3 DEF NextFree, AfterPop
    <3>5. k \in Int /\ i \in 1 .. k - 1
      BY <2>4, <2>6, <3>1, <3>2, <3>3, <3>4
    <3>6. i \in DOMAIN freeList' /\ freeList'[i] = p
      BY <2>7, <3>2, <3>3, <3>4, <3>5
    <3>7. QED
      BY <3>6 DEF ImageOf
  <2>10. QED
    BY <2>3, <2>8, <2>9 DEF TableListed, FreePagesListed, PagesIn, GenOf
<1>3. QED
  BY <1>1, <1>2

\* Released pages are appended to the list.
LEMMA ReleaseLists ==
  ASSUME TableListed, NEW R, R \subseteq Int, IsFiniteSet(R),
         desc' \in [Page -> Desc],
         \A p \in Page : desc'[p].gen = "Free" => desc[p].gen = "Free" \/ p \in R,
         freeList' = freeList \o Ascending(R)
  PROVE  TableListed'
<1>1. Ascending(R) \in Seq(Int) /\ R \subseteq ImageOf(Ascending(R))
  BY AscendingLists
<1> DEFINE more == Ascending(R)
<1>2. more \in Seq(Int)
  BY <1>1
<1>3. R \subseteq ImageOf(more)
  BY <1>1
<1> HIDE DEF more
<1>4. freeList \in Seq(Int) /\ freeList' = freeList \o more
  BY DEF TableListed, more
<1>5. freeList' \in Seq(Int)
  BY <1>2, <1>4
<1>6. ASSUME NEW p \in ImageOf(freeList) PROVE p \in ImageOf(freeList')
  <2>1. PICK i \in DOMAIN freeList : freeList[i] = p
    BY DEF ImageOf
  <2>2. i \in DOMAIN freeList' /\ freeList'[i] = p
    BY <1>2, <1>4, <2>1
  <2>3. QED
    BY <2>2 DEF ImageOf
<1>7. ASSUME NEW p \in ImageOf(more) PROVE p \in ImageOf(freeList')
  <2>1. PICK i \in DOMAIN more : more[i] = p
    BY DEF ImageOf
  <2> DEFINE j == Len(freeList) + i
  <2>2. /\ j \in 1 .. Len(freeList) + Len(more)
        /\ j > Len(freeList) /\ j - Len(freeList) = i
    BY <1>2, <1>4, <2>1
  <2>3. j \in DOMAIN freeList' /\ freeList'[j] = p
    BY <1>2, <1>4, <2>1, <2>2
  <2>4. QED
    BY <2>3 DEF ImageOf
<1>8. QED
  BY <1>3, <1>5, <1>6, <1>7 DEF TableListed, FreePagesListed, PagesIn, GenOf

-----------------------------------------------------------------------------
(* Init and the steps.                                                     *)

\* A heap of Free pages, all of them listed, satisfies the invariant.
LEMMA ListInit == Init => ListInv
<1> SUFFICES ASSUME Init PROVE ListInv
  OBVIOUS
<1> USE DEF Init, TableInit
<1>1. desc \in [Page -> Desc]
  BY PageTableAssumption DEF FreeDesc, Desc
<1>2. /\ freeList = [i \in 1 .. NPages |-> NPages - i]
      /\ NPages \in Nat
  BY PageTableAssumption
<1>3. freeList \in [1 .. NPages -> Int]
  BY <1>2
<1>4. freeList \in Seq(Int)
  BY <1>2, <1>3
<1>5. ASSUME NEW p \in Page PROVE p \in ImageOf(freeList)
  <2>1. NPages - p \in 1 .. NPages /\ NPages - (NPages - p) = p
    BY <1>2 DEF Page
  <2>2. NPages - p \in DOMAIN freeList /\ freeList[NPages - p] = p
    BY <1>2, <2>1
  <2>3. QED
    BY <2>2 DEF ImageOf
<1>6. LoopTyped
  BY DEF LoopTyped, Generation
<1>7. QED
  BY <1>1, <1>4, <1>5, <1>6 DEF ListInv, TableListed, FreePagesListed, PagesIn

\* Steps that leave table and loop alone.
LEMMA ListStutter ==
  ASSUME ListInv, UNCHANGED <<desc, freeList, dest, passes, fromPages, next, chunk>>
  PROVE  ListInv'
BY DEF ListInv, TableListed, LoopTyped, FreePagesListed, PagesIn, GenOf

\* Setting and clearing the pin bytes.
LEMMA PinsListed ==
  ASSUME TableListed, NEW S, NEW b \in BOOLEAN, UNCHANGED freeList,
         desc' = [p \in Page |-> IF p \in S THEN [desc[p] EXCEPT !.pins = b]
                                            ELSE desc[p]]
  PROVE  TableListed'
<1>1. desc' \in [Page -> Desc]
  BY DEF TableListed, Desc
<1>2. \A p \in Page : desc'[p].gen = desc[p].gen
  BY DEF TableListed, Desc
<1>3. QED
  BY <1>1, <1>2, Zenon DEF TableListed, FreePagesListed, PagesIn, GenOf

\* The client's steps.
LEMMA ClientListed == ListInv /\ Client => ListInv'
<1> SUFFICES ASSUME ListInv, Client PROVE ListInv'
  OBVIOUS
<1> USE DEF heapVars, tableVars, holderVars, collectorVars, passVars, loopVars,
       cycleVars
<1>1. ASSUME NEW r \in Root, NEW i \in Id, NEW w \in Values, Alloc(r, i, w)
      PROVE  ListInv'
  <2>1. Claim("G0") /\ "G0" \in Generation
    BY <1>1 DEF Alloc, Generation
  <2>2. TableListed'
    BY <2>1, ClaimLists DEF ListInv
  <2>3. LoopTyped'
    BY <1>1 DEF Alloc, ListInv, LoopTyped
  <2>4. QED
    BY <2>2, <2>3 DEF ListInv
<1>2. ASSUME NEW r \in Root, NEW i \in Id, NEW w \in Values, AllocLarge(r, i, w)
      PROVE  ListInv'
  <2>1. ClaimLarge("G0") /\ UNCHANGED freeList
    BY <1>2 DEF AllocLarge
  <2>2. desc' \in [Page -> Desc]
    BY <2>1, PageTableAssumption
       DEF ClaimLarge, LargeDesc, ListInv, TableListed, Desc, Generation
  <2>3. \A p \in Page : desc'[p].gen = "Free" => desc[p].gen = "Free"
    BY <2>1 DEF ClaimLarge, LargeDesc
  <2>4. TableListed'
    BY <2>1, <2>2, <2>3
       DEF ListInv, TableListed, FreePagesListed, PagesIn, GenOf
  <2>5. LoopTyped'
    BY <1>2 DEF AllocLarge, ListInv, LoopTyped
  <2>6. QED
    BY <2>4, <2>5 DEF ListInv
<1>3. ASSUME NEW r \in Root, NEW w, Store(r, w) \/ SetRoot(r, w) PROVE ListInv'
  BY <1>3, ListStutter DEF Store, SetRoot
<1>4. ASSUME NEW s \in Static, NEW w, StoreStatic(s, w) PROVE ListInv'
  BY <1>4, ListStutter DEF StoreStatic
<1>5. ASSUME NEW s \in Stack, NEW w, Spill(s, w) PROVE ListInv'
  BY <1>5, ListStutter DEF Spill
<1>6. ASSUME NEW h \in Handle, NEW w, Unpin(h) \/ Pin(h, w) PROVE ListInv'
  BY <1>6, ListStutter DEF Unpin, Pin
<1>7. QED
  BY <1>1, <1>2, <1>3, <1>4, <1>5, <1>6 DEF Client

\* The lists of passes each cycle is made of.
LEMMA PassesTyped ==
  /\ MinorPasses \in Seq(PassType)
  /\ MajorPasses \in Seq(PassType)
  /\ FullPasses \in Seq(PassType)
<1>1. \A f, d \in Generation, scan \in {"fresh", "kept", "none"} :
        Pass(f, d, scan) \in PassType
  BY DEF Pass, PassType
<1>2. \A a, b, c \in PassType : /\ <<a>> \in Seq(PassType)
                               /\ <<a, b>> \in Seq(PassType)
                               /\ <<a, b, c>> \in Seq(PassType)
  OBVIOUS
<1>3. {"G0", "G1", "Tenured"} \subseteq Generation
  BY DEF Generation
<1>4. QED
  BY <1>1, <1>2, <1>3 DEF MinorPasses, MajorPasses, FullPasses

\* The beginning of a cycle pins and queues its passes.
LEMMA BeginListed ==
  ASSUME ListInv, NEW kind, NEW sequence \in Seq(PassType), NEW gens,
         Begin(kind, sequence, gens)
  PROVE  ListInv'
<1> DEFINE S == {PageOf(a) : a \in StackPins(gens)}
<1>1. /\ desc' = [p \in Page |-> IF p \in S THEN [desc[p] EXCEPT !.pins = TRUE]
                                           ELSE desc[p]]
      /\ UNCHANGED freeList
  BY DEF Begin
<1> HIDE DEF S
<1>2. TableListed'
  BY <1>1, PinsListed DEF ListInv
<1>3. LoopTyped'
  BY DEF Begin, ListInv, LoopTyped, passVars, loopVars
<1>4. QED
  BY <1>2, <1>3 DEF ListInv

\* The coordinator's minor releases pages of its own before the passes.
LEMMA CoordinatorListed ==
  ListInv /\ (MarkMinorWithStatic \/ CollectMinorWithStatic) => ListInv'
<1>1. ASSUME ListInv, MarkMinorWithStatic PROVE ListInv'
  BY <1>1, ListStutter DEF MarkMinorWithStatic, heapVars, tableVars, cycleVars
<1>2. ASSUME ListInv, CollectMinorWithStatic PROVE ListInv'
  <2> DEFINE pins == StackPins({"G0", "G1"})
             live == Closure(marks \cup pins \cup Pointers(pins))
             drained == IF premarked THEN ZeroLive(live) ELSE {}
             P == {PageOf(a) : a \in pins}
  <2>1. /\ desc' = [p \in Page |->
                      CASE p \in drained -> FreeDesc
                        [] p \in P -> [desc[p] EXCEPT !.pins = TRUE]
                        [] OTHER -> desc[p]]
        /\ freeList' = freeList \o Ascending(drained)
    BY <1>2 DEF CollectMinorWithStatic
  <2>2. drained \subseteq Page
    BY DEF ZeroLive, PagesIn
  <2> HIDE DEF drained, P
  <2>3. drained \subseteq Int /\ IsFiniteSet(drained)
    BY <2>2, PagesFinite
  <2>4. \A p \in Page :
          /\ desc'[p] \in Desc
          /\ desc'[p].gen = "Free" => desc[p].gen = "Free" \/ p \in drained
    <3>1. FreeDesc \in Desc
      BY PageTableAssumption DEF FreeDesc, Desc
    <3>2. \A p \in Page : desc[p] \in Desc
      BY <1>2 DEF ListInv, TableListed
    <3>3. \A d \in Desc : /\ [d EXCEPT !.pins = TRUE] \in Desc
                          /\ [d EXCEPT !.pins = TRUE].gen = d.gen
      BY DEF Desc
    <3>4. QED
      BY <2>1, <3>1, <3>2, <3>3
  <2>5. desc' \in [Page -> Desc]
    BY <2>1, <2>4
  <2>6. TableListed'
    BY <1>2, <2>1, <2>3, <2>4, <2>5, ReleaseLists DEF ListInv
  <2>7. LoopTyped'
    BY <1>2, PassesTyped
       DEF CollectMinorWithStatic, ListInv, LoopTyped, passVars
  <2>8. QED
    BY <2>6, <2>7 DEF ListInv
<1>3. QED
  BY <1>1, <1>2

\* The chunk that is picked lies within fromPages.
LEMMA ChunkListed == ListInv /\ PickChunk /\ UNCHANGED cycleVars => ListInv'
<1> SUFFICES ASSUME ListInv, PickChunk, UNCHANGED cycleVars PROVE ListInv'
  OBVIOUS
<1>1. TableListed'
  BY DEF PickChunk, ListInv, TableListed, FreePagesListed, PagesIn, GenOf,
         heapVars, tableVars
<1>2. /\ fromPages \in Seq(Page)
      /\ next \in Nat \ {0}
      /\ next <= Len(fromPages)
      /\ Len(fromPages) \in Nat
  BY DEF PickChunk, ListInv, LoopTyped
<1>3. EffectiveFree \in Nat
  <2> DEFINE free == PagesIn("Free")
             held == {PageOf(a) : a \in pinned} \cap PagesIn(from)
  <2>1. free \in SUBSET Page /\ held \in SUBSET Page
    BY DEF PagesIn
  <2> HIDE DEF free, held
  <2>2. Cardinality(free) \in Nat /\ Cardinality(held) \in Nat
    BY <2>1, PagesFinite
  <2>3. EffectiveFree = AtLeast(0, Cardinality(free) - Cardinality(held))
    BY DEF EffectiveFree, free, held
  <2>4. QED
    BY <2>2, <2>3 DEF AtLeast
<1>4. ChunkSize \in Nat \ {0} /\ ChunkSize <= Len(fromPages) - next + 1
  <2> DEFINE most == (EffectiveFree * 7) \div 8
  <2>1. most \in Int
    BY <1>3
  <2> HIDE DEF most
  <2>2. ChunkSize = AtMost(AtLeast(1, most), Len(fromPages) - next + 1)
    BY DEF ChunkSize, most
  <2>3. QED
    BY <1>2, <2>1, <2>2 DEF AtMost, AtLeast
<1>5. chunk' \subseteq Page
  <2>1. \A i \in next .. next + ChunkSize - 1 : i \in 1 .. Len(fromPages)
    BY <1>2, <1>4
  <2>2. \A i \in 1 .. Len(fromPages) : fromPages[i] \in Page
    BY <1>2
  <2>3. QED
    BY <2>1, <2>2 DEF PickChunk
<1>6. next' \in Nat \ {0}
  BY <1>2, <1>4 DEF PickChunk
<1>7. QED
  BY <1>1, <1>5, <1>6 DEF PickChunk, ListInv, LoopTyped, passVars, cycleVars

\* The pages that phase 3 releases, of Large runs too, are finitely many.
LEMMA ReleasedFinite ==
  ASSUME ListInv
  PROVE  Released \subseteq Int /\ IsFiniteSet(Released)
<1> DEFINE most == 0 .. NPages + LargeSpan
<1>1. NPages \in Nat /\ LargeSpan \in Nat
  BY PageTableAssumption
<1>2. \A p \in chunk : p \in 0 .. NPages - 1 /\ desc[p].span \in 0 .. LargeSpan
  BY DEF ListInv, TableListed, LoopTyped, Desc, Page
<1>3. \A p \in chunk : Run(p, desc[p].span) \subseteq most /\ p \in most
  BY <1>1, <1>2 DEF Run
<1>4. Released \subseteq most
  BY <1>3 DEF Released, LargeRuns
<1>5. IsFiniteSet(most) /\ most \subseteq Int
  BY <1>1, FS_Interval
<1>6. QED
  BY <1>4, <1>5, FS_Subset

\* The steps of a pass and of a cycle's end.
LEMMA CollectorListed == ListInv /\ Collector => ListInv'
<1> SUFFICES ASSUME ListInv, Collector PROVE ListInv'
  OBVIOUS
<1> USE DEF heapVars, tableVars, holderVars, passVars, loopVars, evacVars,
       cycleVars, counters
<1>1. CASE BeginPass
  <2>1. TableListed'
    BY <1>1 DEF BeginPass, ListInv, TableListed, FreePagesListed, PagesIn, GenOf
  <2>2. /\ passes \in Seq(PassType) /\ passes # <<>>
        /\ dest' = Head(passes).dest /\ passes' = Tail(passes)
    BY <1>1 DEF BeginPass, ListInv, LoopTyped
  <2>3. Head(passes) \in PassType /\ passes' \in Seq(PassType)
    BY <2>2
  <2>4. dest' \in Generation
    BY <2>2, <2>3 DEF PassType
  <2>5. QED
    BY <1>1, <2>1, <2>3, <2>4 DEF BeginPass, ListInv, LoopTyped
<1>2. CASE Mark /\ UNCHANGED cycleVars
  <2> DEFINE S == PinnedPages
  <2>1. /\ desc' = [p \in Page |-> IF p \in S THEN [desc[p] EXCEPT !.pins = TRUE]
                                             ELSE desc[p]]
        /\ UNCHANGED freeList
    BY <1>2 DEF Mark
  <2> HIDE DEF S
  <2>2. TableListed'
    BY <2>1, PinsListed DEF ListInv
  <2> DEFINE old == PagesIn(from)
  <2>3. old \in SUBSET Page
    BY DEF PagesIn
  <2>4. fromPages' = Ascending(old)
    BY <1>2 DEF Mark
  <2> HIDE DEF old
  <2>5. fromPages' \in Seq(Page)
    BY <2>3, <2>4, PagesFinite, AscendingLists
  <2>6. QED
    BY <1>2, <2>2, <2>5 DEF Mark, ListInv, LoopTyped
<1>3. CASE PickChunk /\ UNCHANGED cycleVars
  BY <1>3, ChunkListed
<1>4. CASE CopyObject /\ UNCHANGED cycleVars
  <2>1. Claim(dest) /\ dest \in Generation
    BY <1>4 DEF CopyObject, ListInv, LoopTyped
  <2>2. TableListed'
    BY <2>1, ClaimLists DEF ListInv
  <2>3. QED
    BY <1>4, <2>2 DEF CopyObject, ListInv, LoopTyped
<1>5. CASE (MidEvacOom \/ Rewrite) /\ UNCHANGED cycleVars
  BY <1>5, ListStutter DEF MidEvacOom, Rewrite
<1>6. CASE Reclaim /\ UNCHANGED cycleVars
  <2> DEFINE R == Released
             runs == LargeRuns(LargeFlips)
  <2>1. /\ desc' = [p \in Page |->
             CASE p \in R -> FreeDesc
               [] p \in SmallFlips -> [desc[p] EXCEPT !.gen = dest]
               [] p \in runs -> [desc[p] EXCEPT !.gen = dest, !.pins = FALSE]
               [] OTHER -> desc[p]]
        /\ freeList' = freeList \o Ascending(R)
    BY <1>6 DEF Reclaim
  <2>2. R \subseteq Int /\ IsFiniteSet(R)
    BY ReleasedFinite
  <2> HIDE DEF R, runs
  <2>3. \A p \in Page :
          /\ desc'[p] \in Desc
          /\ desc'[p].gen = "Free" => desc[p].gen = "Free" \/ p \in R
    <3>1. FreeDesc \in Desc
      BY PageTableAssumption DEF FreeDesc, Desc
    <3>2. \A p \in Page : desc[p] \in Desc
      BY DEF ListInv, TableListed
    <3>3. \A d \in Desc :
            /\ [d EXCEPT !.gen = dest] \in Desc
            /\ [d EXCEPT !.gen = dest].gen # "Free"
            /\ [d EXCEPT !.gen = dest, !.pins = FALSE] \in Desc
            /\ [d EXCEPT !.gen = dest, !.pins = FALSE].gen # "Free"
      BY DEF Desc, ListInv, LoopTyped, Generation
    <3>4. QED
      BY <2>1, <3>1, <3>2, <3>3
  <2>4. desc' \in [Page -> Desc]
    BY <2>1, <2>3
  <2>5. TableListed'
    BY <2>1, <2>2, <2>3, <2>4, ReleaseLists DEF ListInv
  <2>6. QED
    BY <1>6, <2>5 DEF Reclaim, ListInv, LoopTyped
<1>7. CASE EndCycle
  <2>1. /\ desc' = [p \in Page |-> [desc[p] EXCEPT !.pins = FALSE]]
        /\ UNCHANGED freeList
    BY <1>7 DEF EndCycle
  <2>2. desc' = [p \in Page |-> IF p \in Page THEN [desc[p] EXCEPT !.pins = FALSE]
                                             ELSE desc[p]]
    BY <2>1
  <2>3. TableListed'
    BY <2>1, <2>2, PinsListed DEF ListInv
  <2>4. dest' \in Generation
    BY <1>7 DEF EndCycle, Generation
  <2>5. QED
    BY <1>7, <2>3, <2>4 DEF EndCycle, ListInv, LoopTyped
<1>8. QED
  BY <1>1, <1>2, <1>3, <1>4, <1>5, <1>6, <1>7 DEF Collector

-----------------------------------------------------------------------------
\* Every step of the client and of every cycle keeps the invariant.
LEMMA ListStep == ListInv /\ [Next]_vars => ListInv'
<1> SUFFICES ASSUME ListInv, [Next]_vars PROVE ListInv'
  OBVIOUS
<1>1. CASE Client
  BY <1>1, ClientListed
<1>2. CASE StartMinor \/ StartMajor \/ StartFull
  BY <1>2, BeginListed, PassesTyped DEF StartMinor, StartMajor, StartFull
<1>3. CASE MarkMinorWithStatic \/ CollectMinorWithStatic
  BY <1>3, CoordinatorListed
<1>4. CASE Collector
  BY <1>4, CollectorListed
<1>5. CASE UNCHANGED vars
  BY <1>5, ListStutter
     DEF vars, heapVars, tableVars, evacVars, cycleVars, passVars, loopVars
<1>6. QED
  BY <1>1, <1>2, <1>3, <1>4, <1>5 DEF Next

\* ListInv holds in every reachable state.
THEOREM ListInvariance == Spec => []ListInv
<1>1. QED
  BY ListInit, ListStep, PTL DEF Spec

\* No Free page is ever missing from free_page_list, so the fallback scan of
\* acquire_free_page finds nothing that the list does not offer (the debug
\* assertion there): for any heap, any client and any cycles, early release,
\* flips of Large runs and stale entries included.
THEOREM FreePagesStayListed == Spec => []FreePagesListed
<1>1. ListInv => FreePagesListed
  BY DEF ListInv, TableListed
<1>2. QED
  BY <1>1, ListInvariance, PTL

-----------------------------------------------------------------------------
(* Addresses.                                                              *)

\* An address lies on a page of the reservation.
LEMMA PageOfIn ==
  ASSUME NEW a \in Addr
  PROVE  PageOf(a) \in Page
BY QuotientBelow, PageTableAssumption DEF Addr, PageOf, Page

\* The slots of a page.
LEMMA SlotIn ==
  ASSUME NEW p \in Page, NEW k \in 0 .. PageSize - 1
  PROVE  /\ Base(p) + k \in Addr
         /\ PageOf(Base(p) + k) = p
<1>1. p \in Nat /\ p <= NPages - 1 /\ PageSize \in Nat \ {0} /\ NPages \in Nat
  BY PageTableAssumption DEF Page
<1>2. p * PageSize <= (NPages - 1) * PageSize
  BY <1>1
<1>3. (NPages - 1) * PageSize = NPages * PageSize - PageSize
  BY <1>1
<1>4. p * PageSize \in Nat /\ NPages * PageSize \in Nat
  BY <1>1
<1>5. QED
  BY <1>1, <1>2, <1>3, <1>4, QuotientIs DEF Base, PageOf, Addr

\* ... and on a card of the reservation.
LEMMA CardOfIn ==
  ASSUME NEW a \in Addr
  PROVE  CardOf(a) \in Card
<1>1. PageSize \in Nat \ {0} /\ NPages \in Nat \ {0} /\ CardSize \in Nat \ {0} /\ PageSize % CardSize = 0
  BY PageTableAssumption
<1>2. PICK m \in Nat : PageSize = m * CardSize
  <2>1. PageSize = CardSize * (PageSize \div CardSize) + (PageSize % CardSize)
    BY <1>1
  <2>2. PageSize \div CardSize \in Nat
    BY <1>1
  <2>3. QED
    BY <1>1, <2>1, <2>2
<1>3. NPages * PageSize = (NPages * m) * CardSize /\ NPages * m \in Nat
  BY <1>1, <1>2
<1>4. (NPages * PageSize) \div CardSize = NPages * m
  <2>1. (NPages * m) * CardSize + 0 = NPages * PageSize /\ 0 \in 0 .. CardSize - 1
    BY <1>1, <1>3
  <2>2. ((NPages * m) * CardSize + 0) \div CardSize = NPages * m
    BY <1>1, <1>3, <2>1, QuotientIs
  <2>3. QED
    BY <2>1, <2>2
<1>5. QED
  BY <1>1, <1>3, <1>4, QuotientBelow DEF Addr, Card, CardOf

\* What the mark queue yields is marked, leads to nothing else that can be
\* marked, and holds nothing that another such set need not hold.
LEMMA ClosureIs ==
  ASSUME NEW seeds, starts \subseteq Addr
  PROVE  /\ Markable(seeds) \subseteq Closure(seeds)
         /\ Closure(seeds) \subseteq starts
         /\ Markable(Pointers(Closure(seeds))) \subseteq Closure(seeds)
         /\ \A T : /\ Markable(seeds) \subseteq T
                   /\ Markable(Pointers(T)) \subseteq T
                   => Closure(seeds) \subseteq T
<1> DEFINE n == Cardinality(starts)
           step(S) == Markable(Pointers(S))
           first == Markable(seeds)
           more == [W \in SUBSET starts |-> step(W)]
           Chain(f) == f = [k \in 0 .. n |-> IF k = 0 THEN first
                                            ELSE f[k - 1] \cup step(f[k - 1])]
<1>1. IsFiniteSet(starts) /\ n \in Nat
  <2>1. IsFiniteSet(Addr)
    BY PageTableAssumption, FS_Interval DEF Addr
  <2>2. QED
    BY <2>1, FS_Subset, FS_CardinalityType
<1>2. /\ first \in SUBSET starts
      /\ \A S : step(S) \subseteq starts
  BY DEF Markable
<1>3. ASSUME NEW S, NEW T, S \subseteq T PROVE step(S) \subseteq step(T)
  <2>1. Pointers(S) \subseteq Pointers(T)
    BY <1>3 DEF Pointers
  <2>2. QED
    BY <2>1 DEF Markable
<1>4. Closure(seeds) = LET f == CHOOSE f : Chain(f) IN f[n]
  BY DEF Closure, Leads
<1> HIDE DEF first, step, n
<1>5. more \in [SUBSET starts -> SUBSET starts] /\ \A W \in SUBSET starts : more[W] = step(W)
  BY <1>2
<1> HIDE DEF more
<1>6. Growth(n, starts, first, more)
  BY <1>1, <1>2, <1>5 DEF Growth
<1>7. \E f : Chain(f)
  <2>1. PICK f : Grown(f, n, starts, first, more)
    BY <1>6, GrowthExists
  <2>2. \A k \in 0 .. n : f[k] = IF k = 0 THEN first ELSE f[k - 1] \cup step(f[k - 1])
    <3> USE DEF Grown
    <3> SUFFICES ASSUME NEW k \in 0 .. n, k # 0 PROVE f[k] = f[k - 1] \cup step(f[k - 1])
      BY <2>1
    <3>1. k - 1 \in 0 .. n
      BY <1>1
    <3>2. f[k - 1] \in SUBSET starts
      BY <2>1, <3>1
    <3>3. QED
      BY <1>5, <2>1, <3>2
  <2>3. f = [k \in 0 .. n |-> f[k]]
    BY <2>1 DEF Grown
  <2>4. QED
    BY <2>2, <2>3
<1>8. PICK f : Chain(f) /\ Closure(seeds) = f[n]
  <2> HIDE DEF Chain
  <2>1. QED
    BY <1>7, <1>4
<1>9. Grows(f, n, starts, first, more)
  <2>1. \A k \in 0 .. n : f[k] = IF k = 0 THEN first ELSE f[k - 1] \cup step(f[k - 1])
    BY <1>8
  <2>2. f[0] = first
    <3>1. 0 \in 0 .. n
      BY <1>1
    <3>2. QED
      BY <2>1, <3>1
  <2>3. ASSUME NEW k \in Nat, k + 1 <= n, f[k] \in SUBSET starts
        PROVE  f[k + 1] = f[k] \cup more[f[k]]
    <3>1. k + 1 \in 0 .. n /\ (k + 1) - 1 = k /\ k + 1 # 0
      BY <1>1, <2>3
    <3>2. f[k + 1] = f[k] \cup step(f[k])
      BY <2>1, <3>1
    <3>3. QED
      BY <1>5, <2>3, <3>2
  <2>4. QED
    BY <2>2, <2>3 DEF Grows
<1>10. /\ first \subseteq f[n] /\ f[n] \subseteq starts /\ more[f[n]] \subseteq f[n]
      /\ \A T : /\ first \subseteq T
                /\ \A W \in SUBSET starts : W \subseteq T => more[W] \subseteq T
                => f[n] \subseteq T
  <2>1. Cardinality(starts) <= n
    BY <1>1 DEF n
  <2>2. QED
    BY <1>1, <1>6, <1>9, <2>1, GrowthEnds
<1>11. ASSUME NEW T, first \subseteq T, step(T) \subseteq T
       PROVE  Closure(seeds) \subseteq T
  <2>1. ASSUME NEW W \in SUBSET starts, W \subseteq T PROVE more[W] \subseteq T
    BY <1>3, <1>5, <1>11, <2>1
  <2>2. f[n] \subseteq T
    BY <1>10, <1>11, <2>1
  <2>3. QED
    BY <1>8, <2>2
<1>12. step(f[n]) \subseteq f[n]
  BY <1>5, <1>10
<1>13. /\ first \subseteq Closure(seeds) /\ Closure(seeds) \subseteq starts
       /\ step(Closure(seeds)) \subseteq Closure(seeds)
  BY <1>8, <1>10, <1>12
<1>14. QED
  BY <1>11, <1>13 DEF first, step

\* Whatever Closure gathers has a start bit.
LEMMA ClosureStarts ==
  ASSUME NEW seeds, starts \subseteq Addr
  PROVE  Closure(seeds) \subseteq starts
BY ClosureIs

-----------------------------------------------------------------------------
(* The invariant.                                                          *)

\* No run leaves the reservation: what phase 3 releases are pages.
SpansFit == \A p \in Page : p + desc[p].span <= NPages

TableTyped ==
  /\ desc \in [Page -> Desc]
  /\ SpansFit
  /\ freeList \in Seq(Page)
  /\ region \in [Generation -> [page : Page \cup {Null}, offset : 0 .. PageSize]]

MemoryTyped ==
  /\ cell \in [Addr -> Contents]
  /\ starts \subseteq Addr
  /\ cards \subseteq Card

HoldersTyped ==
  /\ root \in [Root -> Word]
  /\ static \in [Static -> Word]
  /\ staticCards \subseteq Static
  /\ stack \in [Stack -> Word]
  /\ handle \in [Handle -> Word]

PassTyped ==
  /\ pinned \subseteq Addr
  /\ from \in Generation /\ dest \in Generation
  /\ snapshot \in [Page -> Generation \cup {"Free"}]
  /\ scanning \in BOOLEAN
  /\ premarked \in BOOLEAN
  /\ marks \subseteq Addr
  /\ fromPages \in Seq(Page)
  /\ next \in 1 .. Len(fromPages) + 1
  /\ chunk \subseteq Page
  /\ phase \in Phases

CycleTyped ==
  /\ minors_since_g0_promote \in 0 .. G0Threshold - 1
  /\ g0_promotes_since_g1_promote \in 0 .. G1Threshold - 1
  /\ cycle \in {"none", "minor", "major", "full", "static"}
  /\ passes \in Seq(PassType)

TypeInv == TableTyped /\ MemoryTyped /\ HoldersTyped /\ PassTyped /\ CycleTyped

\* The types the runs check.
LEMMA TypesHold == TypeInv => TypeOK
BY DEF TypeInv, TableTyped, MemoryTyped, HoldersTyped, PassTyped, CycleTyped,
       TypeOK, Desc, PassType

\* A heap of Free, zeroed pages is well typed.
LEMMA TypeInit == Init => TypeInv
<1> SUFFICES ASSUME Init PROVE TypeInv
  OBVIOUS
<1> USE DEF Init, TableInit
<1>1. TableTyped
  <2>1. desc \in [Page -> Desc] /\ \A p \in Page : desc[p].span = 0
    BY PageTableAssumption DEF FreeDesc, Desc
  <2>2. SpansFit
    <3>1. \A p \in Page : p + 0 <= NPages
      BY PageTableAssumption DEF Page
    <3>2. QED
      BY <2>1, <3>1 DEF SpansFit
  <2>3. /\ freeList = [i \in 1 .. NPages |-> NPages - i]
        /\ NPages \in Nat
    BY PageTableAssumption
  <2>4. freeList \in [1 .. NPages -> Page]
    BY <2>3 DEF Page
  <2>5. freeList \in Seq(Page)
    BY <2>3, <2>4
  <2>6. region \in [Generation -> [page : Page \cup {Null}, offset : 0 .. PageSize]]
    BY PageTableAssumption DEF NoRegion
  <2>7. QED
    BY <2>1, <2>2, <2>5, <2>6 DEF TableTyped
<1>2. MemoryTyped
  BY DEF MemoryTyped, Contents
<1>3. HoldersTyped
  BY DEF HoldersTyped, Word
<1>4. PassTyped
  <2>1. fromPages \in Seq(Page) /\ next \in 1 .. Len(fromPages) + 1
    OBVIOUS
  <2>2. "G0" \in Generation /\ "idle" \in Phases
    BY DEF Generation, Phases
  <2>3. snapshot \in [Page -> Generation \cup {"Free"}]
    OBVIOUS
  <2>4. QED
    BY <2>1, <2>2, <2>3 DEF PassTyped
<1>5. CycleTyped
  BY PageHeapAssumption DEF CycleTyped
<1>6. QED
  BY <1>1, <1>2, <1>3, <1>4, <1>5 DEF TypeInv

-----------------------------------------------------------------------------
(* Allocation.                                                             *)

\* The page acquire_free_page hands out is a Free page, and the entries left on
\* the list are pages.
LEMMA NextFreeIs ==
  ASSUME TableTyped, PagesIn("Free") # {}
  PROVE  /\ NextFree \in Page
         /\ GenOf(NextFree) = "Free"
         /\ AfterPop \in Seq(Page)
<1>1. /\ DOMAIN freeList = 1 .. Len(freeList)
      /\ Len(freeList) \in Nat
      /\ Acquirable \subseteq DOMAIN freeList
      /\ Acquirable \in SUBSET Int
  BY DEF TableTyped, Acquirable
<1>2. IsFiniteSet(Acquirable)
  <2>1. IsFiniteSet(1 .. Len(freeList))
    BY <1>1, FS_Interval
  <2>2. QED
    BY <1>1, <2>1, FS_Subset
<1>3. CASE Acquirable # {}
  <2> DEFINE k == Greatest(Acquirable)
  <2>1. k \in Acquirable
    BY <1>1, <1>2, <1>3, GreatestIs
  <2>2. k \in 1 .. Len(freeList) /\ GenOf(freeList[k]) = "Free"
    BY <1>1, <2>1 DEF Acquirable
  <2> HIDE DEF k
  <2>3. freeList[k] \in Page /\ SubSeq(freeList, 1, k - 1) \in Seq(Page)
    BY <1>1, <2>2 DEF TableTyped
  <2>4. QED
    BY <1>3, <2>2, <2>3 DEF NextFree, AfterPop, k
<1>4. CASE Acquirable = {}
  <2> DEFINE F == PagesIn("Free")
  <2>1. F \in SUBSET Page
    BY DEF PagesIn
  <2>2. F \in SUBSET Int /\ IsFiniteSet(F)
    BY <2>1, PagesFinite
  <2>3. Least(F) \in F
    <3> HIDE DEF F
    <3>1. QED
      BY <2>2, LeastIs DEF F
  <2>4. QED
    BY <1>4, <2>3 DEF NextFree, AfterPop, PagesIn
<1>5. QED
  BY <1>3, <1>4

\* Taking the next slot keeps the table well typed; the slot is an address.
LEMMA ClaimTyped ==
  ASSUME TableTyped, NEW g \in Generation, CanPlace(g), Claim(g)
  PROVE  TableTyped' /\ NextSlot(g) \in Addr
<1>1. PageSize \in Nat \ {0} /\ NPages \in Nat /\ LargeSpan \in Nat \ {0}
  BY PageTableAssumption
<1>2. CASE HasRoom(g)
  <2>1. /\ region[g].page \in Page
        /\ region[g].offset \in 0 .. PageSize - 1
        /\ [region[g] EXCEPT !.offset = @ + 1]
             \in [page : Page \cup {Null}, offset : 0 .. PageSize]
    BY <1>1, <1>2 DEF HasRoom, TableTyped
  <2>2. /\ region' = [region EXCEPT ![g] = [region[g] EXCEPT !.offset = @ + 1]]
        /\ UNCHANGED <<desc, freeList>>
    BY <1>2 DEF Claim
  <2>3. TableTyped'
    BY <2>1, <2>2 DEF TableTyped, SpansFit
  <2>4. QED
    BY <1>2, <2>1, <2>3, SlotIn DEF NextSlot
<1>3. CASE ~HasRoom(g)
  <2>1. NextFree \in Page /\ AfterPop \in Seq(Page)
    BY <1>3, NextFreeIs DEF CanPlace
  <2>2. /\ region' = [region EXCEPT ![g] = [page |-> NextFree, offset |-> 1]]
        /\ desc' = [desc EXCEPT ![NextFree] = SmallDesc(g)]
        /\ freeList' = AfterPop
    BY <1>3 DEF Claim
  <2>3. SmallDesc(g) \in Desc /\ SmallDesc(g).span = 1
    BY <1>1 DEF SmallDesc, Desc
  <2>4. [page |-> NextFree, offset |-> 1]
          \in [page : Page \cup {Null}, offset : 0 .. PageSize]
    BY <1>1, <2>1
  <2>5. desc' \in [Page -> Desc]
    BY <2>1, <2>2, <2>3 DEF TableTyped
  <2> DEFINE q == NextFree
  <2> HIDE DEF q
  <2>10. \A p \in Page : p + desc'[p].span <= NPages
    <3>1. \A p \in Page : p + 1 <= NPages
      BY <1>1 DEF Page
    <3>2. \A p \in Page : desc'[p].span = IF p = q THEN 1 ELSE desc[p].span
      BY <2>1, <2>2, <2>3 DEF TableTyped, q
    <3>3. QED
      BY <3>1, <3>2 DEF TableTyped, SpansFit
  <2>11. SpansFit'
    BY <2>10 DEF SpansFit
  <2>6. TableTyped'
    BY <2>1, <2>2, <2>4, <2>5, <2>11 DEF TableTyped
  <2>7. 0 \in 0 .. PageSize - 1 /\ Base(NextFree) + 0 = Base(NextFree)
    BY <1>1, <2>1 DEF Base, Page
  <2>8. NextSlot(g) \in Addr
    BY <1>3, <2>1, <2>7, SlotIn DEF NextSlot
  <2>9. QED
    BY <2>6, <2>8
<1>4. QED
  BY <1>2, <1>3

\* The memory beside it.
LEMMA CellsTyped ==
  ASSUME MemoryTyped, NEW g, NextSlot(g) \in Addr, NEW c \in Contents
  PROVE  /\ CellsWithNext(g, c) \in [Addr -> Contents]
         /\ StartsWithNext(g) \subseteq Addr
         /\ cards \cup {CardOf(NextSlot(g))} \subseteq Card
<1>1. Zero \in Contents
  BY DEF Contents
<1>2. CellsWithNext(g, c) \in [Addr -> Contents]
  BY <1>1 DEF CellsWithNext, MemoryTyped
<1>3. CardOf(NextSlot(g)) \in Card
  BY CardOfIn
<1>4. QED
  BY <1>2, <1>3 DEF StartsWithNext, MemoryTyped

\* Storing a pointer yields contents again, whatever was there.
LEMMA StoreTyped ==
  ASSUME NEW c \in Contents, NEW w \in Word
  PROVE  [c EXCEPT !.ptr = w] \in Contents
<1>1. CASE c = Zero
  <2>1. [c EXCEPT !.ptr = w] = Zero
    BY <1>1 DEF Zero
  <2>2. QED
    BY <2>1 DEF Contents
<1>2. ASSUME NEW i \in Id, NEW v \in Word, c = Object(i, v)
      PROVE  [c EXCEPT !.ptr = w] \in Contents
  <2>1. [c EXCEPT !.ptr = w] = Object(i, w)
    BY <1>2 DEF Object
  <2>2. QED
    BY <2>1 DEF Contents
<1>3. ASSUME NEW a \in Addr, c = Forward(a)
      PROVE  [c EXCEPT !.ptr = w] \in Contents
  <2>1. [c EXCEPT !.ptr = w] = Forward(a)
    BY <1>3 DEF Forward
  <2>2. QED
    BY <2>1 DEF Contents
<1>4. QED
  BY <1>1, <1>2, <1>3 DEF Contents

\* What an object points at and where a forwarding marker leads.
LEMMA ContentsAre ==
  ASSUME MemoryTyped, NEW a \in Addr
  PROVE  /\ IsObject(a) => cell[a].ptr \in Word /\ cell[a].id \in Id
         /\ IsForward(a) => cell[a].to \in Addr
<1>1. cell[a] \in Contents
  BY DEF MemoryTyped
<1>2. CASE cell[a] = Zero
  BY <1>2 DEF Zero, IsObject, IsForward
<1>3. CASE \E i \in Id, w \in Word : cell[a] = Object(i, w)
  BY <1>3 DEF Object, IsObject, IsForward
<1>4. CASE \E b \in Addr : cell[a] = Forward(b)
  BY <1>4 DEF Forward, IsObject, IsForward
<1>5. QED
  BY <1>1, <1>2, <1>3, <1>4 DEF Contents

\* What a set of slots points at.
LEMMA PointersAre ==
  ASSUME MemoryTyped, NEW S \in SUBSET Addr
  PROVE  Pointers(S) \subseteq Word
BY ContentsAre DEF Pointers

\* Words the client can store or load.
LEMMA ValuesAre ==
  ASSUME MemoryTyped, HoldersTyped
  PROVE  Values \subseteq Word /\ Loadable \subseteq Word
<1>1. ImageOf(root) \subseteq Word /\ ImageOf(static) \subseteq Word
        /\ ImageOf(stack) \subseteq Word
  BY DEF HoldersTyped, ImageOf
<1>2. ImageOf(root) \ {Null} \subseteq Addr
  BY <1>1 DEF Word
<1>3. Pointers(ImageOf(root) \ {Null}) \subseteq Word
  BY <1>2, PointersAre
<1>4. QED
  BY <1>1, <1>3 DEF Values, Loadable, Word

-----------------------------------------------------------------------------
(* The client's steps.                                                     *)

\* A small object: one slot, one word that names it.
LEMMA AllocTyped ==
  ASSUME TypeInv, NEW r \in Root, NEW i \in Id, NEW w \in Values, Alloc(r, i, w)
  PROVE  TypeInv'
<1> USE DEF TypeInv
<1>1. /\ CanPlace("G0") /\ Claim("G0") /\ "G0" \in Generation
      /\ starts' = StartsWithNext("G0")
      /\ cell' = CellsWithNext("G0", Object(i, w))
      /\ cards' = cards \cup {CardOf(NextSlot("G0"))}
      /\ root' = [root EXCEPT ![r] = NextSlot("G0")]
      /\ UNCHANGED <<static, staticCards, stack, handle, collectorVars>>
  BY DEF Alloc, CanPlace, Generation
<1>2. TableTyped' /\ NextSlot("G0") \in Addr
  BY <1>1, ClaimTyped
<1>3. Object(i, w) \in Contents
  BY ValuesAre DEF Contents
<1>4. MemoryTyped'
  BY <1>1, <1>2, <1>3, CellsTyped DEF MemoryTyped
<1>5. HoldersTyped'
  BY <1>1, <1>2 DEF HoldersTyped, Word
<1>6. PassTyped' /\ CycleTyped'
  BY <1>1 DEF PassTyped, CycleTyped, collectorVars, passVars, loopVars, cycleVars,
              counters
<1>7. QED
  BY <1>2, <1>4, <1>5, <1>6

\* Where try_alloc_large puts a run: on Free pages of the reservation.
LEMMA FirstFitIs ==
  ASSUME LargeFits # {}
  PROVE  /\ Least(LargeFits) \in Page
         /\ Least(LargeFits) + LargeSpan <= NPages
         /\ Run(Least(LargeFits), LargeSpan) \subseteq PagesIn("Free")
<1> DEFINE head == Least(LargeFits)
<1>1. head \in LargeFits
  <2>1. LargeFits \in SUBSET Page
    BY DEF LargeFits
  <2>2. LargeFits \in SUBSET Int /\ IsFiniteSet(LargeFits)
    BY <2>1, PagesFinite
  <2>3. QED
    BY <2>2, LeastIs
<1>2. /\ head \in Page /\ Run(head, LargeSpan) \subseteq PagesIn("Free")
      /\ LargeSpan \in Nat \ {0} /\ NPages \in Nat
  BY <1>1, PageTableAssumption DEF LargeFits
<1> HIDE DEF head
<1>3. head + LargeSpan - 1 \in Run(head, LargeSpan)
  BY <1>2 DEF Run, Page
<1>4. head + LargeSpan - 1 \in Page
  BY <1>2, <1>3 DEF PagesIn
<1>5. head + LargeSpan <= NPages
  BY <1>2, <1>4 DEF Page
<1>6. QED
  BY <1>2, <1>5 DEF head

\* A Large object: its run fits the reservation.
LEMMA AllocLargeTyped ==
  ASSUME TypeInv, NEW r \in Root, NEW i \in Id, NEW w \in Values, AllocLarge(r, i, w)
  PROVE  TypeInv'
<1> USE DEF TypeInv
<1> DEFINE head == Least(LargeFits)
<1>1. head \in Page /\ head + LargeSpan <= NPages
  BY FirstFitIs DEF AllocLarge
<1>2. Base(head) \in Addr
  <2>1. 0 \in 0 .. PageSize - 1 /\ Base(head) + 0 = Base(head)
    BY <1>1, PageTableAssumption DEF Base, Page
  <2>2. QED
    BY <1>1, <2>1, SlotIn
<1>3. /\ starts' = {a \in starts : PageOf(a) \notin Run(head, LargeSpan)}
                       \cup {Base(head)}
      /\ cell' = [a \in Addr |->
                      IF a = Base(head) THEN Object(i, w)
                      ELSE IF PageOf(a) \in Run(head, LargeSpan) THEN Zero
                      ELSE cell[a]]
      /\ cards' = cards \cup {CardOf(Base(head))}
      /\ root' = [root EXCEPT ![r] = Base(head)]
      /\ desc' = [p \in Page |->
             IF p \in Run(head, LargeSpan)
               THEN LargeDesc("G0", IF p = head THEN LargeSpan ELSE 0)
               ELSE desc[p]]
      /\ UNCHANGED <<freeList, region, static, staticCards, stack, handle,
                     collectorVars>>
  BY DEF AllocLarge, ClaimLarge
<1> HIDE DEF head
<1>4. TableTyped'
  <2>1. LargeSpan \in Nat \ {0} /\ NPages \in Nat
    BY PageTableAssumption
  <2>2. LargeDesc("G0", LargeSpan) \in Desc /\ LargeDesc("G0", 0) \in Desc
        /\ LargeDesc("G0", LargeSpan).span = LargeSpan
        /\ LargeDesc("G0", 0).span = 0
    BY <2>1 DEF LargeDesc, Desc, Generation
  <2>3. desc' \in [Page -> Desc]
    BY <1>3, <2>2 DEF TableTyped
  <2>4. \A p \in Page : p + 0 <= NPages
    BY <2>1 DEF Page
  <2>5. \A p \in Page : \/ desc'[p].span = desc[p].span
                        \/ desc'[p].span = 0
                        \/ desc'[p].span = LargeSpan /\ p = head
    BY <1>3, <2>2
  <2>6. \A p \in Page : p + desc'[p].span <= NPages
    BY <1>1, <2>4, <2>5 DEF TableTyped, SpansFit
  <2>7. QED
    BY <1>3, <2>3, <2>6 DEF TableTyped, SpansFit
<1>5. MemoryTyped'
  <2>1. Object(i, w) \in Contents /\ Zero \in Contents
    BY ValuesAre DEF Contents
  <2>2. cell' \in [Addr -> Contents]
    BY <1>3, <2>1 DEF MemoryTyped
  <2>3. QED
    BY <1>2, <1>3, <2>2, CardOfIn DEF MemoryTyped
<1>6. HoldersTyped'
  BY <1>2, <1>3 DEF HoldersTyped, Word
<1>7. PassTyped' /\ CycleTyped'
  BY <1>3 DEF PassTyped, CycleTyped, collectorVars, passVars, loopVars, cycleVars,
              counters
<1>8. QED
  BY <1>4, <1>5, <1>6, <1>7

\* Stores and moves of words.
LEMMA WordsTyped ==
  ASSUME TypeInv,
         \/ \E r \in Root, w \in Values : Store(r, w)
         \/ \E r \in Root, w \in Loadable : SetRoot(r, w)
         \/ \E s \in Static, w \in Values : StoreStatic(s, w)
         \/ \E s \in Stack, w \in Values : Spill(s, w)
         \/ \E h \in Handle : Unpin(h) \/ \E w \in Values \ {Null} : Pin(h, w)
  PROVE  TypeInv'
<1> USE DEF TypeInv
<1>1. Values \subseteq Word /\ Loadable \subseteq Word /\ Null \in Word
  BY ValuesAre DEF Word
<1>2. ASSUME NEW r \in Root, NEW w \in Values, Store(r, w) PROVE TypeInv'
  <2>1. /\ cell' = [cell EXCEPT ![root[r]] = [cell[root[r]] EXCEPT !.ptr = w]]
        /\ cards' = cards \cup {CardOf(root[r])}
        /\ UNCHANGED <<desc, freeList, region, starts, holderVars, collectorVars>>
        /\ root[r] # Null
    BY <1>2 DEF Store, tableVars
  <2>2. root[r] \in Addr
    BY <2>1 DEF HoldersTyped, Word
  <2>3. [cell[root[r]] EXCEPT !.ptr = w] \in Contents
    BY <1>1, <2>2, StoreTyped DEF MemoryTyped
  <2>4. MemoryTyped'
    BY <2>1, <2>2, <2>3, CardOfIn DEF MemoryTyped
  <2>5. TableTyped' /\ HoldersTyped'
    BY <2>1 DEF TableTyped, SpansFit, HoldersTyped, holderVars
  <2>6. PassTyped' /\ CycleTyped'
    BY <2>1 DEF PassTyped, CycleTyped, collectorVars, passVars, loopVars,
                cycleVars, counters
  <2>7. QED
    BY <2>4, <2>5, <2>6
<1>3. ASSUME UNCHANGED <<heapVars, collectorVars>>, HoldersTyped' PROVE TypeInv'
  <2>1. TableTyped' /\ MemoryTyped'
    BY <1>3 DEF TableTyped, SpansFit, MemoryTyped, heapVars, tableVars
  <2>2. PassTyped' /\ CycleTyped'
    BY <1>3 DEF PassTyped, CycleTyped, collectorVars, passVars, loopVars,
                cycleVars, counters
  <2>3. QED
    BY <1>3, <2>1, <2>2
<1>4. ASSUME NEW r \in Root, NEW w \in Loadable, SetRoot(r, w) PROVE TypeInv'
  BY <1>1, <1>3, <1>4 DEF SetRoot, HoldersTyped
<1>5. ASSUME NEW s \in Static, NEW w \in Values, StoreStatic(s, w) PROVE TypeInv'
  BY <1>1, <1>3, <1>5 DEF StoreStatic, HoldersTyped
<1>6. ASSUME NEW s \in Stack, NEW w \in Values, Spill(s, w) PROVE TypeInv'
  BY <1>1, <1>3, <1>6 DEF Spill, HoldersTyped
<1>7. ASSUME NEW h \in Handle, NEW w \in Values, Unpin(h) \/ Pin(h, w)
      PROVE  TypeInv'
  BY <1>1, <1>3, <1>7 DEF Pin, Unpin, HoldersTyped
<1>8. Null \in Values
  BY DEF Values
<1>9. QED
  BY <1>2, <1>4, <1>5, <1>6, <1>7, <1>8

-----------------------------------------------------------------------------
(* The beginning of a cycle.                                               *)

\* Setting and clearing pin bytes.
LEMMA PinsTyped ==
  ASSUME TableTyped, NEW S, NEW b \in BOOLEAN,
         desc' = [p \in Page |-> IF p \in S THEN [desc[p] EXCEPT !.pins = b]
                                            ELSE desc[p]]
  PROVE  desc' \in [Page -> Desc] /\ SpansFit'
<1>1. \A p \in Page : desc[p] \in Desc
  BY DEF TableTyped
<1>2. \A d \in Desc : /\ [d EXCEPT !.pins = b] \in Desc
                      /\ [d EXCEPT !.pins = b].span = d.span
  BY DEF Desc
<1>3. desc' \in [Page -> Desc]
  BY <1>1, <1>2
<1>4. \A p \in Page : desc'[p].span = desc[p].span
  BY <1>1, <1>2
<1>5. QED
  BY <1>3, <1>4 DEF TableTyped, SpansFit

\* The pins a stack window makes.
LEMMA StackPinsAre ==
  ASSUME HoldersTyped, NEW gens
  PROVE  StackPins(gens) \subseteq Addr
BY DEF HoldersTyped, StackPins, ImageOf, Word

\* The counters stay under their thresholds.
LEMMA CountTyped ==
  ASSUME CycleTyped, CountMinor
  PROVE  /\ minors_since_g0_promote' \in 0 .. G0Threshold - 1
         /\ g0_promotes_since_g1_promote' \in 0 .. G1Threshold - 1
BY PageHeapAssumption DEF CycleTyped, CountMinor, Promoting, Cascading

\* A minor, a major or a full collection begins.
LEMMA BeginTyped ==
  ASSUME TypeInv, StartMinor \/ StartMajor \/ StartFull
  PROVE  TypeInv'
<1> USE DEF TypeInv
<1>1. PICK kind, sequence, gens : /\ kind \in {"minor", "major", "full"}
                                   /\ sequence \in Seq(PassType)
                                   /\ Begin(kind, sequence, gens)
  BY PassesTyped DEF StartMinor, StartMajor, StartFull
<1>2. /\ minors_since_g0_promote' \in 0 .. G0Threshold - 1
      /\ g0_promotes_since_g1_promote' \in 0 .. G1Threshold - 1
  BY CountTyped, PageHeapAssumption DEF StartMinor, StartMajor, StartFull
<1> DEFINE S == {PageOf(a) : a \in StackPins(gens)}
<1>3. desc' = [p \in Page |-> IF p \in S THEN [desc[p] EXCEPT !.pins = TRUE]
                                         ELSE desc[p]]
  BY <1>1 DEF Begin
<1> HIDE DEF S
<1>4. TableTyped'
  BY <1>1, <1>3, PinsTyped DEF Begin, TableTyped
<1>5. MemoryTyped' /\ HoldersTyped'
  BY <1>1 DEF Begin, MemoryTyped, HoldersTyped, holderVars
<1>6. PassTyped'
  BY <1>1, StackPinsAre DEF Begin, PassTyped, passVars, loopVars, Phases
<1>7. CycleTyped'
  BY <1>1, <1>2 DEF Begin, CycleTyped
<1>8. QED
  BY <1>4, <1>5, <1>6, <1>7

\* The marks made in advance.
LEMMA MarkMinorTyped ==
  ASSUME TypeInv, MarkMinorWithStatic
  PROVE  TypeInv'
<1> USE DEF TypeInv
<1>1. marks' \subseteq Addr
  BY ClosureStarts DEF MarkMinorWithStatic, MemoryTyped
<1>2. PassTyped'
  BY <1>1 DEF MarkMinorWithStatic, PassTyped, Phases
<1>3. TableTyped' /\ MemoryTyped' /\ HoldersTyped' /\ CycleTyped'
  BY DEF MarkMinorWithStatic, TableTyped, SpansFit, MemoryTyped, HoldersTyped,
         CycleTyped, heapVars, tableVars, holderVars, cycleVars, counters
<1>4. QED
  BY <1>2, <1>3

\* Pages are appended to the free list.
LEMMA AppendTyped ==
  ASSUME TableTyped, NEW R \in SUBSET Page
  PROVE  freeList \o Ascending(R) \in Seq(Page)
<1>1. Ascending(R) \in Seq(Page)
  BY PagesFinite, AscendingLists
<1> DEFINE more == Ascending(R)
<1>2. more \in Seq(Page)
  BY <1>1
<1> HIDE DEF more
<1>3. freeList \o more \in Seq(Page)
  BY <1>2 DEF TableTyped
<1>4. QED
  BY <1>3 DEF more

\* The coordinator's minor: the pages it releases ahead are pages.
LEMMA CollectMinorTyped ==
  ASSUME TypeInv, CollectMinorWithStatic
  PROVE  TypeInv'
<1> USE DEF TypeInv
<1> DEFINE pins == StackPins({"G0", "G1"})
           live == Closure(marks \cup pins \cup Pointers(pins))
           drained == IF premarked THEN ZeroLive(live) ELSE {}
           P == {PageOf(a) : a \in pins}
<1>1. /\ desc' = [p \in Page |->
                    CASE p \in drained -> FreeDesc
                      [] p \in P -> [desc[p] EXCEPT !.pins = TRUE]
                      [] OTHER -> desc[p]]
      /\ freeList' = freeList \o Ascending(drained)
      /\ pinned' = pins
      /\ marks' = IF premarked THEN live ELSE marks
  BY DEF CollectMinorWithStatic
<1>2. drained \in SUBSET Page
  BY DEF ZeroLive, PagesIn
<1>3. pins \subseteq Addr /\ live \subseteq Addr
  BY StackPinsAre, ClosureStarts DEF MemoryTyped
<1> HIDE DEF drained, P, live, pins
<1>4. freeList' \in Seq(Page)
  BY <1>1, <1>2, AppendTyped
<1>5. \A p \in Page : /\ desc'[p] \in Desc
                      /\ desc'[p].span \in {0, desc[p].span}
  <2>1. FreeDesc \in Desc /\ FreeDesc.span = 0
    BY PageTableAssumption DEF FreeDesc, Desc
  <2>2. \A p \in Page : desc[p] \in Desc
    BY DEF TableTyped
  <2>3. \A d \in Desc : /\ [d EXCEPT !.pins = TRUE] \in Desc
                        /\ [d EXCEPT !.pins = TRUE].span = d.span
    BY DEF Desc
  <2>4. QED
    BY <1>1, <2>1, <2>2, <2>3
<1>6. desc' \in [Page -> Desc]
  BY <1>1, <1>5
<1>7. SpansFit'
  <2>1. \A p \in Page : p + 0 <= NPages
    BY PageTableAssumption DEF Page
  <2>2. QED
    BY <1>5, <2>1 DEF SpansFit, TableTyped
<1>8. TableTyped'
  BY <1>4, <1>6, <1>7 DEF TableTyped, CollectMinorWithStatic
<1>9. MemoryTyped' /\ HoldersTyped'
  BY DEF CollectMinorWithStatic, MemoryTyped, HoldersTyped, holderVars
<1>10. PassTyped'
  BY <1>1, <1>3 DEF CollectMinorWithStatic, PassTyped, passVars, Phases
<1>11. CycleTyped'
  BY PassesTyped, CountTyped DEF CollectMinorWithStatic, CycleTyped
<1>12. QED
  BY <1>8, <1>9, <1>10, <1>11

-----------------------------------------------------------------------------
(* The steps of a pass.                                                    *)

\* The next pass takes its generations from the queue.
LEMMA BeginPassTyped ==
  ASSUME TypeInv, BeginPass
  PROVE  TypeInv'
<1> USE DEF TypeInv
<1>1. /\ passes \in Seq(PassType) /\ passes # <<>>
      /\ passes' = Tail(passes)
      /\ from' = Head(passes).from
      /\ dest' = Head(passes).dest
  BY DEF BeginPass, CycleTyped
<1>2. Head(passes) \in PassType /\ passes' \in Seq(PassType)
  BY <1>1
<1>3. from' \in Generation /\ dest' \in Generation
  BY <1>1, <1>2 DEF PassType
<1>4. snapshot' \in [Page -> Generation \cup {"Free"}] /\ scanning' \in BOOLEAN
  <2>1. [p \in Page |-> GenOf(p)] \in [Page -> Generation \cup {"Free"}]
    BY DEF TableTyped, GenOf, Desc
  <2>2. QED
    BY <2>1 DEF BeginPass, PassTyped
<1>5. PassTyped'
  BY <1>3, <1>4 DEF BeginPass, PassTyped, loopVars, Phases
<1>6. CycleTyped'
  BY <1>2 DEF BeginPass, CycleTyped, counters
<1>7. TableTyped' /\ MemoryTyped' /\ HoldersTyped'
  BY DEF BeginPass, TableTyped, SpansFit, MemoryTyped, HoldersTyped, heapVars,
         tableVars, holderVars
<1>8. QED
  BY <1>5, <1>6, <1>7

\* What a pass pins and marks are slots.
LEMMA MarkTyped ==
  ASSUME TypeInv, Mark, UNCHANGED cycleVars
  PROVE  TypeInv'
<1> USE DEF TypeInv
<1> DEFINE S == PinnedPages
           old == PagesIn(from)
<1>1. /\ desc' = [p \in Page |-> IF p \in S THEN [desc[p] EXCEPT !.pins = TRUE]
                                           ELSE desc[p]]
      /\ fromPages' = Ascending(old)
      /\ old \in SUBSET Page
  BY DEF Mark, PagesIn
<1> HIDE DEF S, old
<1>2. desc' \in [Page -> Desc] /\ SpansFit'
  BY <1>1, PinsTyped
<1>3. region' \in [Generation -> [page : Page \cup {Null}, offset : 0 .. PageSize]]
  <2>1. NoRegion \in [page : Page \cup {Null}, offset : 0 .. PageSize]
    BY PageTableAssumption DEF NoRegion
  <2>2. QED
    BY <2>1 DEF Mark, TableTyped
<1>4. TableTyped'
  BY <1>2, <1>3 DEF Mark, TableTyped
<1>5. fromPages' \in Seq(Page) /\ 1 \in 1 .. Len(fromPages') + 1
  <2>1. fromPages' \in Seq(Page)
    BY <1>1, PagesFinite, AscendingLists
  <2>2. QED
    BY <2>1
<1>6. InternalMark \subseteq Addr
  BY ClosureStarts DEF InternalMark, PassTyped, MemoryTyped
<1>7. pinned' \subseteq Addr
  <2>1. MarkedLarge \subseteq Addr
    BY <1>6 DEF MarkedLarge
  <2>2. FoldedPins \subseteq Addr
    BY DEF FoldedPins, ExplicitPins, HoldersTyped, ImageOf, Word
  <2>3. QED
    BY <2>1, <2>2 DEF Mark, PinSet, PassTyped
<1>8. marks' \subseteq Addr
  BY ClosureStarts DEF Mark, ExtendedMark, MemoryTyped
<1>9. PassTyped'
  BY <1>5, <1>7, <1>8 DEF Mark, PassTyped, Phases
<1>10. MemoryTyped' /\ HoldersTyped' /\ CycleTyped'
  BY DEF Mark, MemoryTyped, HoldersTyped, holderVars, CycleTyped, cycleVars, counters
<1>11. QED
  BY <1>4, <1>9, <1>10

\* A chunk is picked within the pages that remain, and is not empty.
LEMMA ChunkIs ==
  ASSUME PassTyped, PickChunk
  PROVE  /\ ChunkSize \in Nat \ {0}
         /\ ChunkSize <= Len(fromPages) - next + 1
<1>1. /\ fromPages \in Seq(Page)
      /\ next \in Nat \ {0}
      /\ next <= Len(fromPages)
      /\ Len(fromPages) \in Nat
  BY DEF PickChunk, PassTyped
<1>2. EffectiveFree \in Nat
  <2> DEFINE free == PagesIn("Free")
             held == {PageOf(a) : a \in pinned} \cap PagesIn(from)
  <2>1. free \in SUBSET Page /\ held \in SUBSET Page
    BY DEF PagesIn
  <2> HIDE DEF free, held
  <2>2. Cardinality(free) \in Nat /\ Cardinality(held) \in Nat
    BY <2>1, PagesFinite
  <2>3. EffectiveFree = AtLeast(0, Cardinality(free) - Cardinality(held))
    BY DEF EffectiveFree, free, held
  <2>4. QED
    BY <2>2, <2>3 DEF AtLeast
<1> DEFINE most == (EffectiveFree * 7) \div 8
<1>3. most \in Int
  BY <1>2
<1> HIDE DEF most
<1>4. ChunkSize = AtMost(AtLeast(1, most), Len(fromPages) - next + 1)
  BY DEF ChunkSize, most
<1>5. QED
  BY <1>1, <1>3, <1>4 DEF AtMost, AtLeast

\* The next chunk keeps the types.
LEMMA PickTyped ==
  ASSUME TypeInv, PickChunk, UNCHANGED cycleVars
  PROVE  TypeInv'
<1> USE DEF TypeInv
<1>1. ChunkSize \in Nat \ {0} /\ ChunkSize <= Len(fromPages) - next + 1
  BY ChunkIs
<1>2. /\ fromPages \in Seq(Page)
      /\ next \in 1 .. Len(fromPages) + 1
      /\ Len(fromPages) \in Nat
  BY DEF PassTyped
<1>3. chunk' \subseteq Page
  <2>1. \A i \in next .. next + ChunkSize - 1 : i \in 1 .. Len(fromPages)
    BY <1>1, <1>2
  <2>2. \A i \in 1 .. Len(fromPages) : fromPages[i] \in Page
    BY <1>2
  <2>3. QED
    BY <2>1, <2>2 DEF PickChunk
<1>4. next' \in 1 .. Len(fromPages) + 1
  BY <1>1, <1>2 DEF PickChunk
<1>5. PassTyped'
  BY <1>3, <1>4 DEF PickChunk, PassTyped, passVars, Phases
<1>6. TableTyped' /\ MemoryTyped' /\ HoldersTyped' /\ CycleTyped'
  BY DEF PickChunk, TableTyped, SpansFit, MemoryTyped, HoldersTyped, CycleTyped,
         heapVars, tableVars, holderVars, cycleVars, counters
<1>7. QED
  BY <1>5, <1>6

\* The object copied next is the one at the least address.
LEMMA SourceIs ==
  ASSUME MemoryTyped, ToCopy # {}
  PROVE  /\ Least(ToCopy) \in ToCopy
         /\ \A a \in ToCopy : Least(ToCopy) <= a
         /\ Least(ToCopy) \in Addr
<1>1. ToCopy \subseteq Addr
  BY DEF ToCopy, MemoryTyped
<1>2. IsFiniteSet(Addr) /\ Addr \subseteq Int
  BY PageTableAssumption, FS_Interval DEF Addr
<1>3. ToCopy \in SUBSET Int /\ IsFiniteSet(ToCopy)
  BY <1>1, <1>2, FS_Subset
<1>4. QED
  BY <1>1, <1>3, LeastIs

\* A copy goes to a slot of the heap, and so does its marker.
LEMMA CopyTyped ==
  ASSUME TypeInv, CopyObject, UNCHANGED cycleVars
  PROVE  TypeInv'
<1> USE DEF TypeInv
<1> DEFINE src == Least(ToCopy)
           dst == NextSlot(dest)
           all == CellsWithNext(dest, cell[src])
<1>1. src \in Addr
  BY SourceIs DEF CopyObject
<1>2. /\ dest \in Generation
      /\ CanPlace(dest) /\ Claim(dest)
      /\ cell' = [all EXCEPT ![src] = Forward(dst)]
      /\ starts' = StartsWithNext(dest)
      /\ cards' = cards \cup {CardOf(NextSlot(dest))}
      /\ UNCHANGED evacVars
  BY DEF CopyObject, PassTyped
<1>3. TableTyped' /\ dst \in Addr
  BY <1>2, ClaimTyped
<1>4. cell[src] \in Contents
  BY <1>1 DEF MemoryTyped
<1> HIDE DEF src
<1>5. /\ all \in [Addr -> Contents]
      /\ StartsWithNext(dest) \subseteq Addr
      /\ cards \cup {CardOf(NextSlot(dest))} \subseteq Card
  BY <1>3, <1>4, CellsTyped
<1>6. Forward(dst) \in Contents
  BY <1>3 DEF Contents
<1> HIDE DEF dst, all
<1>7. MemoryTyped'
  BY <1>1, <1>2, <1>5, <1>6 DEF MemoryTyped
<1>8. HoldersTyped' /\ PassTyped' /\ CycleTyped'
  BY <1>2 DEF evacVars, HoldersTyped, PassTyped, CycleTyped, holderVars, passVars,
              loopVars, cycleVars, counters
<1>9. QED
  BY <1>3, <1>7, <1>8

\* A stall changes the control point only.
LEMMA OomTyped ==
  ASSUME TypeInv, MidEvacOom, UNCHANGED cycleVars
  PROVE  TypeInv'
BY DEF TypeInv, MidEvacOom, TableTyped, SpansFit, MemoryTyped, HoldersTyped,
       PassTyped, CycleTyped, heapVars, tableVars, holderVars, passVars,
       loopVars, cycleVars, counters, Phases

\* Following a forwarding marker leads to a slot.
LEMMA FollowedIs ==
  ASSUME MemoryTyped, NEW w \in Word
  PROVE  Followed(w) \in Word
<1>1. CASE w # Null /\ IsForward(w)
  <2>1. w \in Addr
    BY <1>1 DEF Word
  <2>2. cell[w].to \in Addr
    BY <1>1, <2>1, ContentsAre
  <2>3. QED
    BY <2>2 DEF Followed, Word
<1>2. CASE ~(w # Null /\ IsForward(w))
  BY <1>2 DEF Followed
<1>3. QED
  BY <1>1, <1>2

\* Phase 2 writes words.
LEMMA RewriteTyped ==
  ASSUME TypeInv, Rewrite, UNCHANGED cycleVars
  PROVE  TypeInv'
<1> USE DEF TypeInv
<1>1. \A w \in Word : Followed(w) \in Word
  BY FollowedIs
<1>2. ASSUME NEW a \in Addr
      PROVE  (IF a \in Rewritten /\ IsObject(a)
                THEN [cell[a] EXCEPT !.ptr = Followed(@)] ELSE cell[a]) \in Contents
  <2>1. cell[a] \in Contents
    BY DEF MemoryTyped
  <2>2. IsObject(a) => Followed(cell[a].ptr) \in Word
    BY <1>1, ContentsAre
  <2>3. IsObject(a) => [cell[a] EXCEPT !.ptr = Followed(cell[a].ptr)] \in Contents
    BY <2>1, <2>2, StoreTyped
  <2>4. QED
    BY <2>1, <2>3
<1>3. cell' \in [Addr -> Contents]
  BY <1>2 DEF Rewrite
<1>4. MemoryTyped'
  BY <1>3 DEF Rewrite, MemoryTyped
<1>5. HoldersTyped'
  BY <1>1 DEF Rewrite, HoldersTyped
<1>6. PassTyped' /\ CycleTyped' /\ TableTyped'
  BY DEF Rewrite, PassTyped, CycleTyped, TableTyped, SpansFit, tableVars, passVars,
         loopVars, cycleVars, counters, Phases
<1>7. QED
  BY <1>4, <1>5, <1>6

\* What phase 3 releases lies within the reservation.
LEMMA ReleasedAre ==
  ASSUME TableTyped, chunk \subseteq Page
  PROVE  Released \in SUBSET Page
<1>1. NPages \in Nat
  BY PageTableAssumption
<1>2. \A p \in chunk : Run(p, desc[p].span) \subseteq Page
  <2>1. \A p \in chunk : p \in Nat /\ desc[p].span \in Nat /\ p + desc[p].span <= NPages
    BY PageTableAssumption DEF TableTyped, SpansFit, Page, Desc
  <2>2. QED
    BY <1>1, <2>1 DEF Run, Page
<1>3. QED
  BY <1>2 DEF Released, LargeRuns

\* Phase 3 puts back, flips and zeroes pages of the reservation.
LEMMA ReclaimTyped ==
  ASSUME TypeInv, Reclaim, UNCHANGED cycleVars
  PROVE  TypeInv'
<1> USE DEF TypeInv
<1> DEFINE R == Released
           runs == LargeRuns(LargeFlips)
<1>1. /\ desc' = [p \in Page |->
             CASE p \in R -> FreeDesc
               [] p \in SmallFlips -> [desc[p] EXCEPT !.gen = dest]
               [] p \in runs -> [desc[p] EXCEPT !.gen = dest, !.pins = FALSE]
               [] OTHER -> desc[p]]
      /\ freeList' = freeList \o Ascending(R)
      /\ UNCHANGED region
  BY DEF Reclaim
<1>2. R \in SUBSET Page
  BY ReleasedAre DEF PassTyped
<1> HIDE DEF R, runs
<1>3. \A p \in Page : desc'[p] \in Desc /\ desc'[p].span \in {0, desc[p].span}
  <2>1. FreeDesc \in Desc /\ FreeDesc.span = 0
    BY PageTableAssumption DEF FreeDesc, Desc
  <2>2. \A p \in Page : desc[p] \in Desc
    BY DEF TableTyped
  <2>3. \A d \in Desc :
          /\ [d EXCEPT !.gen = dest] \in Desc
          /\ [d EXCEPT !.gen = dest].span = d.span
          /\ [d EXCEPT !.gen = dest, !.pins = FALSE] \in Desc
          /\ [d EXCEPT !.gen = dest, !.pins = FALSE].span = d.span
    BY DEF Desc, PassTyped
  <2>4. QED
    BY <1>1, <2>1, <2>2, <2>3
<1>4. desc' \in [Page -> Desc]
  BY <1>1, <1>3
<1>5. SpansFit'
  <2>1. \A p \in Page : p + 0 <= NPages
    BY PageTableAssumption DEF Page
  <2>2. QED
    BY <1>3, <2>1 DEF SpansFit, TableTyped
<1>6. freeList' \in Seq(Page)
  BY <1>1, <1>2, AppendTyped
<1>7. TableTyped'
  BY <1>1, <1>4, <1>5, <1>6 DEF TableTyped
<1>8. MemoryTyped'
  <2>1. Zero \in Contents
    BY DEF Contents
  <2>2. cell' \in [Addr -> Contents]
    BY <2>1 DEF Reclaim, MemoryTyped
  <2>3. starts' \subseteq Addr
    BY DEF Reclaim, MemoryTyped, PassTyped
  <2>4. cards' \subseteq Card
    BY CardOfIn DEF Reclaim, MemoryTyped, PassTyped
  <2>5. QED
    BY <2>2, <2>3, <2>4 DEF MemoryTyped
<1>9. HoldersTyped' /\ PassTyped' /\ CycleTyped'
  BY DEF Reclaim, HoldersTyped, PassTyped, CycleTyped, holderVars, passVars,
         loopVars, cycleVars, counters, Phases
<1>10. QED
  BY <1>7, <1>8, <1>9

\* The end of a cycle resets what belongs to it.
LEMMA EndTyped ==
  ASSUME TypeInv, EndCycle
  PROVE  TypeInv'
<1> USE DEF TypeInv
<1>1. desc' = [p \in Page |-> IF p \in Page THEN [desc[p] EXCEPT !.pins = FALSE]
                                           ELSE desc[p]]
  BY DEF EndCycle
<1>2. TableTyped'
  BY <1>1, PinsTyped DEF EndCycle, TableTyped
<1>3. MemoryTyped'
  BY DEF EndCycle, MemoryTyped
<1>4. HoldersTyped'
  BY DEF EndCycle, HoldersTyped, KeptStaticCards
<1>5. PassTyped'
  <2>1. fromPages' \in Seq(Page) /\ next' \in 1 .. Len(fromPages') + 1
    BY DEF EndCycle
  <2>2. snapshot' \in [Page -> Generation \cup {"Free"}]
    BY DEF EndCycle
  <2>3. QED
    BY <2>1, <2>2 DEF EndCycle, PassTyped, Generation, Phases
<1>6. CycleTyped'
  BY DEF EndCycle, CycleTyped, counters
<1>7. QED
  BY <1>2, <1>3, <1>4, <1>5, <1>6

-----------------------------------------------------------------------------
\* Every step of the client and of every cycle keeps the types.
LEMMA TypeStep == TypeInv /\ [Next]_vars => TypeInv'
<1> SUFFICES ASSUME TypeInv, [Next]_vars PROVE TypeInv'
  OBVIOUS
<1>1. CASE Client
  BY <1>1, AllocTyped, AllocLargeTyped, WordsTyped DEF Client
<1>2. CASE StartMinor \/ StartMajor \/ StartFull
  BY <1>2, BeginTyped
<1>3. CASE MarkMinorWithStatic \/ CollectMinorWithStatic
  BY <1>3, MarkMinorTyped, CollectMinorTyped
<1>4. CASE Collector
  BY <1>4, BeginPassTyped, MarkTyped, PickTyped, CopyTyped, OomTyped, RewriteTyped,
     ReclaimTyped, EndTyped DEF Collector
<1>5. CASE UNCHANGED vars
  BY <1>5 DEF TypeInv, TableTyped, SpansFit, MemoryTyped, HoldersTyped, PassTyped,
     CycleTyped, vars, heapVars, tableVars, evacVars, holderVars, passVars,
     loopVars, cycleVars, counters
<1>6. QED
  BY <1>1, <1>2, <1>3, <1>4, <1>5 DEF Next

\* TypeInv holds in every reachable state.
THEOREM TypeInvariance == Spec => []TypeInv
<1>1. QED
  BY TypeInit, TypeStep, PTL DEF Spec

\* The heap stays in its types, whatever its size, its client and the cycles
\* it runs: every word, pin, mark and forwarding target is a slot of the
\* reservation, no Large run leaves it, the loop index of
\* evacuate_with_roots stays on from_pages, and the promotion counters stay
\* below their thresholds.
THEOREM TypesKept == Spec => []TypeOK
<1>1. QED
  BY TypesHold, TypeInvariance, PTL
=============================================================================
