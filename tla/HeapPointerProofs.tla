--------------------------- MODULE HeapPointerProofs ---------------------------
(***************************************************************************)
(* What becomes of pointers in PageHeap: every word that the client or an  *)
(* object holds names an object between collections, and every pointer     *)
(* from one generation into another is remembered, whatever is moved.      *)
(*                                                                         *)
(* Beside the hypotheses of HeapCycleProofs there are two.  OneChunk is    *)
(* about the memory left: a promotion has room for its pages in one chunk, *)
(* since what waits in a later chunk is not rewritten when an earlier one  *)
(* is.  NoGaps is about pins and cards: the walk of a card ends at the     *)
(* first slot without a start bit, and pages that flip with pins have      *)
(* such slots.                                                             *)
(***************************************************************************)
EXTENDS HeapCycleProofs

OneChunk == Busy /\ from # dest => Pending = {}

NoPins == Stack = {} /\ Handle = {}
NoGaps == CardSize = 1 \/ NoPins

-----------------------------------------------------------------------------
(* What the card scan of a pass knows.                                     *)

\* Pages outside the generation of the pass are scanned under the generation
\* they have; those of the destination too, until copies open new ones.
ScanInv ==
  /\ phase = "mark" =>
       \A p \in Page : GenOf(p) \notin {"Free", from} => scanning /\ snapshot[p] = GenOf(p)
  /\ Looping =>
       \A p \in Page :
         GenOf(p) \notin {"Free", from, dest} => scanning /\ snapshot[p] = GenOf(p)

\* The pass that begins is the next of the plan.
LEMMA NextPass ==
  ASSUME CycleInv, BeginPass
  PROVE  \E k \in 0 .. Len(Plan) - 1 : /\ Stage(k)
                                       /\ k + 1 \in 1 .. Len(Plan)
                                       /\ Head(passes) = Plan[k + 1]
<1> DEFINE P == Plan
<1>1. PICK k \in 0 .. Len(P) : Stage(k)
  BY DEF CycleInv, PlanInv, BeginPass
<1>2. P \in Seq(PassType) /\ Len(P) \in Nat /\ passes = SubSeq(P, k + 1, Len(P)) /\ passes # <<>>
  BY <1>1, PlanIs DEF PlanSound, Stage, BeginPass
<1>3. k < Len(P) /\ Head(passes) = P[k + 1]
  <2> HIDE DEF P
  <2>1. QED
    BY <1>2, Suffix
<1>4. k \in 0 .. Len(P) - 1 /\ k + 1 \in 1 .. Len(P)
  <2> HIDE DEF P
  <2>1. QED
    BY <1>2, <1>3
<1>5. QED
  BY <1>1, <1>3, <1>4

\* The plans there are.
LEMMA PlanCases ==
  Plan \in {MajorPasses, FullPasses, <<Pass("G0", "G0", "fresh")>>,
            <<Pass("G0", "G1", "fresh")>>,
            <<Pass("G0", "G1", "fresh"), Pass("G1", "Tenured", "kept")>>}
BY DEF Plan

\* A pass that keeps the snapshot is the second of a cascade, one that does not
\* scan at all is the third of a full collection.
LEMMA ScanPass ==
  ASSUME CycleInv, CycleInv', ScanInv, BeginPass
  PROVE  ScanInv'
<1>1. PICK k \in 0 .. Len(Plan) - 1 :
        Stage(k) /\ k + 1 \in 1 .. Len(Plan) /\ Head(passes) = Plan[k + 1]
  BY NextPass
<1>2. /\ from' = Plan[k + 1].from /\ dest' = Plan[k + 1].dest
      /\ scanning' = (Plan[k + 1].scan # "none")
      /\ snapshot' = IF Plan[k + 1].scan = "fresh" THEN [p \in Page |-> GenOf(p)] ELSE snapshot
      /\ phase' = "mark" /\ UNCHANGED desc
  BY <1>1 DEF BeginPass, heapVars, tableVars
<1>3. Plan \in Seq(PassType) /\ Len(Plan) \in Nat /\ Plan[k + 1].scan \in {"fresh", "kept", "none"}
  BY <1>1, PlanIs DEF PlanSound, PassType
<1> SUFFICES ASSUME NEW p \in Page, GenOf(p) \notin {"Free", from'}
             PROVE  scanning' /\ snapshot'[p] = GenOf(p)
  BY <1>2 DEF ScanInv, Looping, Busy, GenOf
<1>4. CASE Plan[k + 1].scan = "fresh"
  BY <1>2, <1>4
<1>5. CASE Plan[k + 1].scan = "none"
  <2>1. ~scanning' /\ phase' = "mark"
    BY <1>2, <1>5
  <2>2. PagesIn("G0")' \cup PagesIn("G1")' = {}
    <3>1. CycleInv' => YoungEmptyBeforeCompaction'
      BY YoungLeft, PTL
    <3>2. QED
      BY <2>1, <3>1 DEF YoungEmptyBeforeCompaction
  <2>3. GenOf(p) \notin {"G0", "G1"}
    <3>1. \A g : PagesIn(g)' = PagesIn(g)
      BY <1>2 DEF PagesIn, GenOf
    <3>2. QED
      BY <2>2, <3>1 DEF PagesIn
  <2>4. GenOf(p) = "Tenured"
    BY <2>3 DEF CycleInv, TypeInv, TableTyped, Desc, Generation, GenOf
  <2>5. Plan[k + 1].from = "Tenured"
    <3>1. \A i \in 1 .. Len(Plan) : Plan[i].scan = "none" => Plan[i].from = "Tenured"
      <4>1. \A f, d, s : Pass(f, d, s).scan = s /\ Pass(f, d, s).from = f
        BY DEF Pass
      <4>2. QED
        BY <4>1, PlanCases DEF MajorPasses, FullPasses
    <3>2. QED
      BY <1>1, <1>5, <3>1
  <2>6. QED
    BY <1>2, <2>4, <2>5
<1>6. CASE Plan[k + 1].scan = "kept"
  <2>1. /\ k = 1
        /\ Plan[1].from = "G0" /\ Plan[1].dest = "G1"
        /\ Plan[2].from = "G1"
    <3>1. \A f, d, s : /\ Pass(f, d, s).scan = s /\ Pass(f, d, s).from = f
                       /\ Pass(f, d, s).dest = d
      BY DEF Pass
    <3>2. Plan = <<Pass("G0", "G1", "fresh"), Pass("G1", "Tenured", "kept")>>
      <4>1. SUFFICES ASSUME Plan # <<Pass("G0", "G1", "fresh"), Pass("G1", "Tenured", "kept")>>
                     PROVE  \A i \in 1 .. Len(Plan) : Plan[i].scan # "kept"
        BY <1>1, <1>6
      <4>2. QED
        BY <3>1, <4>1, PlanCases DEF MajorPasses, FullPasses
    <3>3. k + 1 = 1 \/ k + 1 = 2
      BY <1>1, <3>2
    <3>4. QED
      BY <1>1, <1>6, <3>1, <3>2, <3>3
  <2>2. from = "G0" /\ dest = "G1" /\ phase # "begin"
    BY <1>1, <2>1 DEF Stage
  <2>3. phase = "chunk" /\ next > Len(fromPages) /\ Looping
    BY <2>2 DEF BeginPass, Looping
  <2>4. PagesIn("G0") = {}
    BY <2>2, <2>3, Emptied DEF CycleInv, TypeInv, PassTyped
  <2>5. GenOf(p) \notin {"Free", "G0", "G1"}
    BY <1>2, <2>1, <2>4 DEF PagesIn
  <2>6. scanning /\ snapshot[p] = GenOf(p)
    BY <2>2, <2>3, <2>5 DEF ScanInv
  <2>7. QED
    BY <1>2, <1>6, <2>6
<1>7. QED
  BY <1>3, <1>4, <1>5, <1>6

\* Within a pass pages only join the destination or become Free.
LEMMA ScanStep ==
  ASSUME CycleInv, CycleInv', ScanInv, [Next]_vars
  PROVE  ScanInv'
<1>1. ASSUME UNCHANGED <<from, dest, scanning, snapshot>>,
             Looping' => Looping \/ phase = "mark",
             phase' = "mark" => phase = "mark" /\ UNCHANGED desc,
             \A p \in Page : GenOf(p)' \in {GenOf(p), "Free", dest}
      PROVE  ScanInv'
  <2>1. ASSUME NEW p \in Page, Looping', GenOf(p)' \notin {"Free", from, dest}
        PROVE  scanning /\ snapshot[p] = GenOf(p)'
    <3>1. GenOf(p)' = GenOf(p)
      BY <1>1, <2>1
    <3>2. QED
      BY <1>1, <2>1, <3>1 DEF ScanInv
  <2>2. phase' = "mark" =>
       \A p \in Page : GenOf(p)' \notin {"Free", from} => scanning /\ snapshot[p] = GenOf(p)'
    BY <1>1 DEF ScanInv, GenOf
  <2>3. QED
    BY <1>1, <2>1, <2>2 DEF ScanInv
<1>2. CASE ~(phase' = "mark") /\ ~Looping'
  BY <1>2 DEF ScanInv
<1>3. CASE UNCHANGED vars
  BY <1>1, <1>3 DEF vars, heapVars, tableVars, evacVars, passVars, GenOf, Looping, Busy
<1>4. CASE Client
  <2>1. phase' = "idle"
    BY <1>4 DEF Client, Alloc, AllocLarge, Store, SetRoot, StoreStatic, Spill, Pin, Unpin,
       Idle, collectorVars
  <2>2. QED
    BY <1>2, <2>1 DEF Looping, Busy
<1>5. CASE \/ StartMinor \/ StartMajor \/ StartFull
           \/ MarkMinorWithStatic \/ CollectMinorWithStatic \/ EndCycle
  <2>1. phase' \in {"begin", "marked", "idle"}
    BY <1>5 DEF StartMinor, StartMajor, StartFull, Begin, MarkMinorWithStatic,
       CollectMinorWithStatic, EndCycle
  <2>2. QED
    BY <1>2, <2>1 DEF Looping, Busy
<1>6. CASE Mark
  <2>1. \A p \in Page : GenOf(p)' = GenOf(p)
    BY <1>6 DEF Mark, CycleInv, TypeInv, TableTyped, Desc, GenOf
  <2>2. QED
    BY <1>1, <1>6, <2>1 DEF Mark, Looping, Busy
<1>7. CASE PickChunk \/ MidEvacOom \/ Rewrite
  BY <1>1, <1>7 DEF PickChunk, MidEvacOom, Rewrite, heapVars, tableVars, passVars, Looping, Busy,
     GenOf
<1>8. CASE CopyObject
  <2>1. \A p \in Page : GenOf(p)' = GenOf(p) \/ GenOf(p)' = dest
    BY <1>8, CopyEffect DEF CycleInv
  <2>2. QED
    BY <1>1, <1>8, <2>1 DEF CopyObject, evacVars, passVars, Looping, Busy
<1>9. CASE Reclaim
  <2>1. \A p \in Page : GenOf(p)' \in {GenOf(p), "Free", dest}
    BY <1>9, ReclaimEffect DEF CycleInv, FreeDesc, GenOf
  <2>2. QED
    BY <1>1, <1>9, <2>1 DEF Reclaim, passVars, Looping, Busy
<1>10. QED
  BY <1>3, <1>4, <1>5, <1>6, <1>7, <1>8, <1>9, ScanPass DEF Next, Collector

-----------------------------------------------------------------------------
(* The walk of a card.                                                     *)

\* Without pins the objects of a page lie next to each other from its start,
\* and so do the slots below the offset of a region.
Unpinned == pinned = {} /\ \A p \in Page : ~desc[p].pins

Dense ==
  /\ \A a \in Objects : Base(PageOf(a)) .. a \subseteq starts
  /\ \A g \in Generation : region[g].page # Null =>
       Base(region[g].page) .. Base(region[g].page) + region[g].offset - 1 \subseteq starts

GapInv == NoPins => Unpinned /\ Dense

\* A card lies within one page.
LEMMA CardIs ==
  ASSUME NEW a \in Addr
  PROVE  /\ CardOf(a) * CardSize \in Addr
         /\ PageOf(CardOf(a) * CardSize) = PageOf(a)
         /\ CardOf(a) * CardSize <= a
         /\ a \in CardSlots(CardOf(a))
<1> DEFINE c == CardOf(a)
           q == PageOf(a)
<1>1. PageSize \in Nat \ {0} /\ NPages \in Nat \ {0} /\ CardSize \in Nat \ {0} /\ PageSize % CardSize = 0
      /\ a \in Nat /\ a < NPages * PageSize
  BY PageTableAssumption DEF Addr
<1>2. PICK m \in Nat : PageSize = m * CardSize
  <2>1. PageSize = CardSize * (PageSize \div CardSize) + (PageSize % CardSize)
    BY <1>1
  <2>2. PageSize \div CardSize \in Nat
    BY <1>1
  <2>3. QED
    BY <1>1, <2>1, <2>2
<1>3. c \in Nat /\ CardSize * c <= a /\ a < CardSize * c + CardSize
  BY <1>1, Division DEF CardOf
<1>4. q \in Nat /\ PageSize * q <= a /\ a < PageSize * q + PageSize
  BY <1>1, Division DEF PageOf
<1> HIDE DEF c, q
<1>5. CardSize * (m * q) = PageSize * q /\ m * q \in Nat
  BY <1>1, <1>2, <1>4
<1>6. m * q <= c
  <2>1. CardSize * (m * q) < CardSize * (c + 1)
    BY <1>1, <1>3, <1>4, <1>5
  <2>2. m * q < c + 1
    <3>1. \A x, y \in Nat : y <= x => CardSize * y <= CardSize * x
      BY <1>1
    <3>2. CardSize * (m * q) \in Nat /\ CardSize * (c + 1) \in Nat /\ c + 1 \in Nat
      BY <1>1, <1>3, <1>5
    <3>3. QED
      BY <1>5, <2>1, <3>1, <3>2
  <2>3. QED
    BY <1>3, <1>5, <2>2
<1>7. PageSize * q <= CardSize * c
  <2>1. CardSize * (m * q) <= CardSize * c
    BY <1>1, <1>3, <1>5, <1>6
  <2>2. QED
    BY <1>5, <2>1
<1>8. CardSize * c \in Nat /\ PageSize * q \in Nat
  BY <1>1, <1>3, <1>4
<1>9. PICK k \in 0 .. PageSize - 1 : CardSize * c = q * PageSize + k
  <2>1. CardSize * c - PageSize * q \in 0 .. PageSize - 1
    BY <1>1, <1>3, <1>4, <1>7, <1>8
  <2>2. q * PageSize = PageSize * q
    BY <1>1, <1>4
  <2>3. QED
    BY <1>8, <2>1, <2>2
<1>10. PageOf(CardSize * c) = q
  BY <1>1, <1>4, <1>9, QuotientIs DEF PageOf
<1>11. c * CardSize = CardSize * c /\ (c + 1) * CardSize = CardSize * c + CardSize
  BY <1>1, <1>3
<1>12. a \in c * CardSize .. (c + 1) * CardSize - 1
  BY <1>1, <1>3, <1>8, <1>11
<1>13. CardSize * c \in Addr
  <2>1. NPages * PageSize \in Nat
    BY <1>1
  <2>2. QED
    BY <1>1, <1>3, <1>8, <2>1 DEF Addr
<1>14. QED
  BY <1>3, <1>10, <1>11, <1>12, <1>13 DEF c, q, CardSlots

\* Slots of a page up to one of them.
LEMMA SlotsUpTo ==
  ASSUME NEW a \in Addr
  PROVE  /\ a \in Slots(PageOf(a))
         /\ \A x \in Base(PageOf(a)) .. a : x \in Addr /\ PageOf(x) = PageOf(a)
<1>1. PageOf(a) \in Page
  BY PageOfIn
<1>2. a \in Slots(PageOf(a))
  BY <1>1, SlotsAre
<1>3. Base(PageOf(a)) \in Int /\ PageSize \in Nat
  BY <1>1, PageTableAssumption DEF Page, Base
<1>4. \A x \in Base(PageOf(a)) .. a : x \in Slots(PageOf(a))
  BY <1>2, <1>3 DEF Slots
<1>5. QED
  BY <1>1, <1>2, <1>4, SlotsAre

\* The walk of an object's card gets as far as the object: a card is one slot,
\* or the page has no gaps.
LEMMA WalkReaches ==
  ASSUME NoLarge, NoGaps, TypeInv, Shape, GapInv, NEW a \in Objects
  PROVE  a \in Walked(CardOf(a))
<1> DEFINE c == CardOf(a)
           first == c * CardSize
           before == {x \in starts : x <= first /\ PageOf(x) = PageOf(first)}
<1>1. a \in starts /\ a \in Addr /\ PageOf(a) \in Page
  BY ObjectsAre DEF TypeInv
<1>2. /\ first \in Addr /\ PageOf(first) = PageOf(a) /\ first <= a
      /\ a \in first .. (c + 1) * CardSize - 1
  BY <1>1, CardIs DEF CardSlots
<1>3. ~IsLargeHead(PageOf(a)) /\ ~IsLargeCont(PageOf(a))
  BY <1>1 DEF Shape, KindInv, IsLargeHead, IsLargeCont
<1>4. first .. a \subseteq starts /\ first \in first .. a
  <2>1. first \in Int /\ a \in Int
    BY <1>1, <1>2 DEF Addr
  <2>2. CASE CardSize = 1
    <3>1. first = a
      BY <1>1, <2>1, <2>2 DEF CardOf
    <3> HIDE DEF first
    <3>2. QED
      BY <1>1, <2>1, <3>1
  <2>3. CASE NoPins
    <3>1. Base(PageOf(a)) .. a \subseteq starts
      BY <2>3 DEF GapInv, Dense
    <3>2. first \in Slots(PageOf(a))
      BY <1>1, <1>2, SlotsAre
    <3>3. first \in Base(PageOf(a)) .. a
      BY <1>2, <2>1, <3>2 DEF Slots
    <3>4. Base(PageOf(a)) \in Int
      BY <1>1, PageTableAssumption DEF Page, Base
    <3> HIDE DEF first
    <3>5. QED
      BY <1>2, <2>1, <3>1, <3>3, <3>4
  <2>4. QED
    BY <2>2, <2>3 DEF NoGaps
<1> HIDE DEF first
<1>5. Greatest(before) = first
  <2>1. first \in before
    BY <1>2, <1>4 DEF Addr
  <2>2. before \in SUBSET Int /\ IsFiniteSet(before)
    <3>1. IsFiniteSet(Addr)
      BY PageTableAssumption, FS_Interval DEF Addr
    <3>2. before \subseteq starts /\ starts \subseteq Addr
      BY DEF TypeInv, MemoryTyped
    <3>3. Addr \subseteq Int
      BY DEF Addr
    <3>4. QED
      BY <3>1, <3>2, <3>3, FS_Subset
  <2>3. Greatest(before) \in before /\ \A y \in before : Greatest(before) >= y
    BY <2>1, <2>2, GreatestIs
  <2>4. QED
    BY <2>1, <2>2, <2>3
<1>6. WalkFrom(c) = first
  BY <1>2, <1>3, <1>4, <1>5 DEF WalkFrom, first
<1>7. Walked(c) = {x \in first .. (c + 1) * CardSize - 1 : first .. x \subseteq starts}
  BY <1>2, <1>3, <1>6 DEF Walked
<1>8. QED
  BY <1>2, <1>4, <1>7

\* No client that never pins gets a pinned object.
LEMMA UnpinnedStep ==
  ASSUME NoLarge, NoPins, CycleInv, CycleInv', Unpinned, [Next]_vars
  PROVE  Unpinned'
<1> USE DEF CycleInv, TypeInv
<1>1. ExplicitPins = {} /\ \A gens : StackPins(gens) = {}
  BY DEF NoPins, ExplicitPins, ImageOf, StackPins, HoldersTyped
<1>2. CASE UNCHANGED <<desc, pinned>>
  BY <1>2 DEF Unpinned
<1>3. CASE \E g \in Generation : CanPlace(g) /\ Claim(g) /\ pinned' = pinned
  <2>1. PICK g \in Generation : CanPlace(g) /\ Claim(g) /\ pinned' = pinned
    BY <1>3
  <2>2. CASE UNCHANGED desc
    BY <1>2, <2>1, <2>2
  <2>3. CASE desc' = [desc EXCEPT ![NextFree] = SmallDesc(g)]
    BY <2>1, <2>3 DEF Unpinned, SmallDesc, TableTyped
  <2>4. QED
    BY <2>1, <2>2, <2>3 DEF Claim
<1>4. CASE Client
  <2>1. CASE \E r \in Root, i \in Id, w \in Values : Alloc(r, i, w)
    <3>1. Claim("G0") /\ CanPlace("G0") /\ "G0" \in Generation /\ pinned' = pinned
      BY <2>1 DEF Alloc, CanPlace, Generation, collectorVars
    <3>2. QED
      BY <1>3, <3>1
  <2>2. CASE \E r \in Root, i \in Id, w \in Values : AllocLarge(r, i, w)
    BY <2>2, ShapeLarge DEF AllocLarge
  <2>3. QED
    BY <1>2, <1>4, <2>1, <2>2 DEF Client, Store, SetRoot, StoreStatic, Spill, Pin, Unpin,
       collectorVars, heapVars, tableVars
<1>5. CASE StartMinor \/ StartMajor \/ StartFull
  <2>1. \E kind, sequence, gens : Begin(kind, sequence, gens)
    BY <1>5 DEF StartMinor, StartMajor, StartFull
  <2>2. pinned' = {} /\ desc' = [p \in Page |-> desc[p]]
    BY <1>1, <2>1 DEF Begin
  <2>3. QED
    BY <2>2 DEF Unpinned
<1>6. CASE CollectMinorWithStatic
  <2>1. /\ pinned' = {}
        /\ \A p \in Page : desc'[p] \in {desc[p], FreeDesc}
    BY <1>1, <1>6 DEF CollectMinorWithStatic
  <2>2. QED
    BY <2>1 DEF Unpinned, FreeDesc
<1>7. CASE Mark
  <2>1. MarkedLarge = {}
    <3>1. \A a \in InternalMark : PageOf(a) \in Page
      BY ClosureStarts, PageOfIn DEF InternalMark, PassTyped, MemoryTyped
    <3>2. QED
      BY <3>1 DEF MarkedLarge, Shape, KindInv, IsLargeHead
  <2>2. PinnedPages = {} /\ PinSet = pinned
    BY <1>1, <2>1 DEF PinnedPages, PinSet, FoldedPins
  <2>3. QED
    BY <1>7, <2>2 DEF Mark, Unpinned
<1>8. CASE CopyObject
  <2>1. dest \in Generation /\ CanPlace(dest) /\ Claim(dest) /\ pinned' = pinned
    BY <1>8 DEF CopyObject, evacVars, PassTyped
  <2>2. QED
    BY <1>3, <2>1
<1>9. CASE Reclaim
  <2>1. \A d \in Desc : ~d.pins => /\ ~[d EXCEPT !.gen = dest].pins
                                  /\ ~[d EXCEPT !.gen = dest, !.pins = FALSE].pins
    BY DEF Desc
  <2>2. ~FreeDesc.pins /\ \A p \in Page : desc[p] \in Desc
    BY DEF FreeDesc, TableTyped
  <2>3. ASSUME NEW p \in Page PROVE ~desc'[p].pins
    <3>1. desc'[p] \in {desc[p], FreeDesc, [desc[p] EXCEPT !.gen = dest],
                        [desc[p] EXCEPT !.gen = dest, !.pins = FALSE]}
      BY <1>9 DEF Reclaim
    <3>2. ~desc[p].pins /\ desc[p] \in Desc
      BY <2>2 DEF Unpinned
    <3>3. QED
      BY <2>1, <2>2, <3>1, <3>2, Zenon
  <2>4. QED
    BY <1>9, <2>3 DEF Reclaim, Unpinned
<1>10. CASE EndCycle
  <2>1. \A p \in Page : ~[desc[p] EXCEPT !.pins = FALSE].pins
    BY DEF TableTyped, Desc
  <2>2. QED
    BY <1>10, <2>1 DEF EndCycle, Unpinned
<1>11. CASE UNCHANGED vars \/ MarkMinorWithStatic \/ BeginPass \/ PickChunk \/ MidEvacOom \/ Rewrite
  BY <1>2, <1>11 DEF vars, evacVars, MarkMinorWithStatic, BeginPass, PickChunk, MidEvacOom,
     Rewrite, heapVars, tableVars
<1>12. QED
  BY <1>4, <1>5, <1>6, <1>7, <1>8, <1>9, <1>10, <1>11 DEF Next, Collector

\* Objects after a step.
LEMMA ObjectsNext ==
  ASSUME MemoryTyped'
  PROVE  \A a : a \in Objects' <=>
           a \in starts' /\ a \in Addr /\ PageOf(a) \in Page /\ desc'[PageOf(a)].gen # "Free"
<1>1. \A a \in starts' : a \in Addr
  BY DEF MemoryTyped
<1>2. QED
  BY <1>1, PageOfIn DEF Objects, GenOf

\* An object placed in a region goes next to the last of its page, or to the
\* first slot of a fresh one.
LEMMA DensePlaced ==
  ASSUME TypeInv, TypeInv', \A h \in Generation : Exclusive(h), Dense,
         NEW g \in Generation, CanPlace(g), Claim(g), starts' = StartsWithNext(g)
  PROVE  Dense'
<1> USE DEF TypeInv
<1>1. /\ NextSlot(g) \in Addr
      /\ Objects' = Objects \cup {NextSlot(g)}
  BY ObjectPlaced
<1> SUFFICES /\ \A a \in Objects' : Base(PageOf(a)) .. a \subseteq starts'
             /\ \A h \in Generation : region'[h].page # Null =>
                  Base(region'[h].page) .. Base(region'[h].page) + region'[h].offset - 1
                    \subseteq starts'
  BY DEF Dense, Base, PageOf
<1>2. \A h \in Generation : /\ region[h].page \in Page \cup {Null}
                            /\ region[h].offset \in 0 .. PageSize
  BY RegionIs
<1>3. PageSize \in Nat \ {0} /\ \A q \in Page : Base(q) \in Nat
  BY PageTableAssumption DEF Page, Base
<1>4. CASE HasRoom(g)
  <2> DEFINE p == region[g].page
             o == region[g].offset
  <2>1. /\ p \in Page /\ o \in 0 .. PageSize - 1 /\ NextSlot(g) = Base(p) + o
        /\ region' = [region EXCEPT ![g].offset = @ + 1]
        /\ starts' = starts \cup {Base(p) + o}
    BY <1>2, <1>3, <1>4 DEF HasRoom, NextSlot, Claim, StartsWithNext
  <2>2. PageOf(NextSlot(g)) = p
    BY <2>1, SlotIn
  <2>3. Base(p) .. Base(p) + o - 1 \subseteq starts
    BY <1>4 DEF Dense, HasRoom
  <2>4. region'[g].page = p /\ region'[g].offset = o + 1
        /\ \A h \in Generation : h # g => region'[h] = region[h]
    BY <2>1 DEF TableTyped
  <2> HIDE DEF p, o
  <2>5. Base(p) .. Base(p) + o \subseteq starts'
    BY <1>3, <2>1, <2>3
  <2>6. Base(p) + (o + 1) - 1 = Base(p) + o
    BY <1>3, <2>1
  <2>7. ASSUME NEW h \in Generation, region'[h].page # Null
        PROVE  Base(region'[h].page) .. Base(region'[h].page) + region'[h].offset - 1
                 \subseteq starts'
    BY <2>1, <2>4, <2>5, <2>6, <2>7 DEF Dense
  <2>8. ASSUME NEW a \in Objects' PROVE Base(PageOf(a)) .. a \subseteq starts'
    BY <1>1, <2>1, <2>2, <2>5, <2>8 DEF Dense
  <2>9. QED
    BY <2>7, <2>8
<1>5. CASE ~HasRoom(g)
  <2>1. PICK n \in Page : /\ GenOf(n) = "Free" /\ NextSlot(g) = Base(n)
                          /\ region' = [region EXCEPT ![g] = [page |-> n, offset |-> 1]]
                          /\ starts' = (starts \ Slots(n)) \cup {Base(n)}
    BY <1>5, NextFreeIs DEF CanPlace, Claim, NextSlot, StartsWithNext
  <2>2. PageOf(Base(n)) = n
    <3>1. 0 \in 0 .. PageSize - 1 /\ Base(n) + 0 = Base(n)
      BY <1>3
    <3>2. QED
      BY <3>1, SlotIn
  <2>3. Base(n) .. Base(n) = {Base(n)} /\ Base(n) + 1 - 1 = Base(n)
    BY <1>3
  <2>4. /\ region'[g].page = n /\ region'[g].offset = 1
        /\ \A h \in Generation : h # g => region'[h] = region[h]
    BY <2>1 DEF TableTyped
  <2>5. \A x : x \in starts /\ PageOf(x) # n => x \in starts'
    BY <2>1, SlotsAre
  <2>6. ASSUME NEW h \in Generation, region'[h].page # Null
        PROVE  Base(region'[h].page) .. Base(region'[h].page) + region'[h].offset - 1
                 \subseteq starts'
    <3>1. CASE h = g
      BY <2>1, <2>3, <2>4, <3>1
    <3>2. CASE h # g
      <4> DEFINE q == region[h].page
                 o == region[h].offset
      <4>1. /\ region'[h] = region[h] /\ q \in Page /\ o \in 0 .. PageSize
            /\ Base(q) .. Base(q) + o - 1 \subseteq starts
        BY <1>2, <2>4, <2>6, <3>2 DEF Dense
      <4>2. q # n
        BY <2>1, <2>4, <2>6, <3>2 DEF Exclusive, Owns, Generation
      <4> HIDE DEF q, o
      <4>3. \A x \in Base(q) .. Base(q) + o - 1 : x \in Slots(q)
        BY <1>3, <4>1 DEF Slots
      <4>4. \A x \in Base(q) .. Base(q) + o - 1 : PageOf(x) = q
        BY <4>1, <4>3, SlotsAre
      <4>5. Base(q) .. Base(q) + o - 1 \subseteq starts'
        BY <2>5, <4>1, <4>2, <4>4
      <4>6. QED
        BY <4>1, <4>5 DEF q, o
    <3>3. QED
      BY <3>1, <3>2
  <2>7. ASSUME NEW a \in Objects' PROVE Base(PageOf(a)) .. a \subseteq starts'
    <3>1. CASE a = Base(n)
      BY <2>1, <2>2, <2>3, <3>1
    <3>2. CASE a \in Objects
      <4>1. a \in Addr /\ PageOf(a) # n
        BY <2>1, <3>2, ObjectsAre DEF GenOf
      <4>2. \A x \in Base(PageOf(a)) .. a : x \in starts /\ PageOf(x) # n
        BY <3>2, <4>1, SlotsUpTo DEF Dense
      <4>3. QED
        BY <2>5, <4>2
    <3>3. QED
      BY <1>1, <2>1, <2>7, <3>1, <3>2
  <2>8. QED
    BY <2>6, <2>7
<1>6. QED
  BY <1>4, <1>5

\* Phase 3 takes away whole pages, where nothing is pinned.
LEMMA DenseReclaim ==
  ASSUME NoLarge, CycleInv, CycleInv', RegionInv, Unpinned, Dense, Reclaim
  PROVE  Dense'
<1> USE DEF CycleInv, TypeInv
<1>1. /\ phase = "reclaim" /\ chunk \subseteq Page /\ UNCHANGED region
  BY DEF Reclaim, PassTyped
<1>2. /\ SmallFlips = {} /\ LargeFlips = {} /\ Flipped = {}
      /\ Released \subseteq chunk
  <2>1. \A p \in chunk : ~IsLargeHead(p) /\ ~desc[p].pins
    BY <1>1 DEF Shape, KindInv, IsLargeHead, Unpinned
  <2>2. QED
    BY <2>1 DEF Released, Flipped, SmallFlips, LargeFlips, LargeRuns
<1>3. starts' = {a \in starts : PageOf(a) \notin Released}
  BY <1>2 DEF Reclaim
<1>4. ASSUME NEW a \in Objects'
      PROVE  Base(PageOf(a)) .. a \subseteq starts'
  <2>1. a \in starts /\ a \in Addr /\ PageOf(a) \in Page /\ PageOf(a) \notin Released
        /\ desc'[PageOf(a)].gen # "Free"
    BY <1>3, <1>4, ObjectsNext
  <2>2. a \in Objects
    BY <1>2, <2>1, ReclaimEffect, ObjectsAre
  <2>3. \A x \in Base(PageOf(a)) .. a : x \in starts /\ PageOf(x) = PageOf(a)
    BY <2>1, <2>2, SlotsUpTo DEF Dense
  <2>4. QED
    BY <1>3, <2>1, <2>3
<1>5. ASSUME NEW g \in Generation, region[g].page # Null
      PROVE  Base(region[g].page) .. Base(region[g].page) + region[g].offset - 1 \subseteq starts'
  <2> DEFINE q == region[g].page
             o == region[g].offset
  <2>1. q \in Page /\ o \in 0 .. PageSize /\ Base(q) .. Base(q) + o - 1 \subseteq starts
    BY <1>5, RegionIs DEF Dense
  <2>2. q \notin Released
    BY <1>1, <1>2, <1>5 DEF RegionInv, Withdrawn, Looping, Busy, Unmoved
  <2> HIDE DEF q, o
  <2>3. PageSize \in Nat /\ Base(q) \in Nat
    BY <2>1, PageTableAssumption DEF Page, Base
  <2>4. \A x \in Base(q) .. Base(q) + o - 1 : x \in Slots(q)
    BY <2>1, <2>3 DEF Slots
  <2>5. \A x \in Base(q) .. Base(q) + o - 1 : PageOf(x) = q
    BY <2>1, <2>4, SlotsAre
  <2>6. Base(q) .. Base(q) + o - 1 \subseteq starts'
    BY <1>3, <2>1, <2>2, <2>5
  <2>7. QED
    BY <2>6 DEF q, o
<1>6. QED
  BY <1>1, <1>4, <1>5 DEF Dense, Base, PageOf

\* Objects stay next to each other while nothing is pinned.
LEMMA DenseStep ==
  ASSUME NoLarge, CycleInv, CycleInv', RegionInv, Unpinned, Dense, [Next]_vars
  PROVE  Dense'
<1> USE DEF CycleInv, TypeInv
<1>1. ASSUME UNCHANGED starts,
             \A p \in Page : desc'[p].gen # "Free" => desc[p].gen # "Free",
             \A g \in Generation : region'[g] = region[g] \/ region'[g].page = Null
      PROVE  Dense'
  <2>1. \A a \in Objects' : a \in Objects
    BY <1>1, ObjectsNext, ObjectsAre
  <2>2. QED
    BY <1>1, <2>1 DEF Dense, Base, PageOf
<1>2. CASE UNCHANGED <<desc, starts, region>>
  BY <1>1, <1>2
<1>3. CASE Client
  <2>1. CASE \E r \in Root, i \in Id, w \in Values : Alloc(r, i, w)
    <3>1. /\ Claim("G0") /\ CanPlace("G0") /\ "G0" \in Generation
          /\ starts' = StartsWithNext("G0") /\ phase = "idle"
      BY <2>1 DEF Alloc, CanPlace, Generation, Idle
    <3>2. \A h \in Generation : Exclusive(h)
      BY <3>1 DEF RegionInv, Handed
    <3>3. QED
      BY <3>1, <3>2, DensePlaced
  <2>2. CASE \E r \in Root, i \in Id, w \in Values : AllocLarge(r, i, w)
    BY <2>2, ShapeLarge DEF AllocLarge
  <2>3. QED
    BY <1>2, <1>3, <2>1, <2>2 DEF Client, Store, SetRoot, StoreStatic, Spill, Pin, Unpin,
       heapVars, tableVars
<1>4. CASE StartMinor \/ StartMajor \/ StartFull
  <2>1. \E kind, sequence, gens : Begin(kind, sequence, gens)
    BY <1>4 DEF StartMinor, StartMajor, StartFull
  <2>2. UNCHANGED <<starts, region>>
        /\ \A p \in Page : desc'[p] \in {desc[p], [desc[p] EXCEPT !.pins = TRUE]}
    BY <2>1 DEF Begin
  <2>3. ASSUME NEW p \in Page PROVE desc'[p].gen = desc[p].gen
    <3>1. [desc[p] EXCEPT !.pins = TRUE].gen = desc[p].gen
      BY DEF TableTyped, Desc
    <3>2. QED
      BY <2>2, <3>1
  <2>4. QED
    BY <1>1, <2>2, <2>3
<1>5. CASE CollectMinorWithStatic
  <2>1. UNCHANGED <<starts, region>>
        /\ \A p \in Page : desc'[p] \in {FreeDesc, desc[p], [desc[p] EXCEPT !.pins = TRUE]}
    BY <1>5 DEF CollectMinorWithStatic
  <2>2. \A p \in Page : desc'[p].gen # "Free" => desc[p].gen # "Free"
    BY <2>1 DEF FreeDesc, TableTyped, Desc
  <2>3. QED
    BY <1>1, <2>1, <2>2
<1>6. CASE Mark
  <2>1. \A p \in Page : desc'[p].gen = desc[p].gen
    BY <1>6 DEF Mark, TableTyped, Desc
  <2>2. \A g \in Generation : region'[g] = region[g] \/ region'[g].page = Null
    BY <1>6 DEF Mark, TableTyped, NoRegion
  <2>3. QED
    BY <1>1, <1>6, <2>1, <2>2 DEF Mark
<1>7. CASE CopyObject
  <2>1. dest \in Generation /\ CanPlace(dest) /\ Claim(dest) /\ starts' = StartsWithNext(dest)
        /\ phase = "copy"
    BY <1>7 DEF CopyObject, PassTyped
  <2>2. \A h \in Generation : Exclusive(h)
    BY <2>1 DEF RegionInv, Handed
  <2>3. QED
    BY <2>1, <2>2, DensePlaced
<1>8. CASE EndCycle
  <2>1. \A p \in Page : desc'[p].gen = desc[p].gen
    BY <1>8 DEF EndCycle, TableTyped, Desc
  <2>2. QED
    BY <1>1, <1>8, <2>1 DEF EndCycle
<1>9. CASE UNCHANGED vars \/ MarkMinorWithStatic \/ BeginPass \/ PickChunk \/ MidEvacOom \/ Rewrite
  BY <1>2, <1>9 DEF vars, MarkMinorWithStatic, BeginPass, PickChunk, MidEvacOom,
     Rewrite, heapVars, tableVars
<1>10. QED
  BY <1>3, <1>4, <1>5, <1>6, <1>7, <1>8, <1>9, DenseReclaim DEF Next, Collector

\* Both hold of an empty heap.
LEMMA ScanInit == Init => ScanInv /\ GapInv
<1> SUFFICES ASSUME Init PROVE ScanInv /\ GapInv
  OBVIOUS
<1>1. /\ starts = {} /\ pinned = {} /\ phase = "idle"
      /\ desc = [p \in Page |-> FreeDesc]
      /\ region = [g \in Generation |-> NoRegion]
  BY DEF Init, TableInit
<1>2. QED
  BY <1>1 DEF ScanInv, GapInv, Unpinned, Dense, Objects, Looping, Busy, NoRegion, FreeDesc

\* What holds of table, regions, objects and cards at every step.
Sound == CycleInv /\ RegionInv /\ ObjectInv /\ ScanInv /\ GapInv /\ CycleKnown

\* ... of a client without Large objects that pins by handles or has static
\* words, not both.
LEMMA SoundAlways ==
  ASSUME NoLarge, PinsKnown
  PROVE  Spec => []Sound
<1>1. CycleInv /\ CycleInv' /\ RegionInv /\ ScanInv /\ GapInv /\ [Next]_vars
        => ScanInv' /\ GapInv'
  BY ScanStep, UnpinnedStep, DenseStep DEF GapInv
<1>2. QED
  BY <1>1, ScanInit, ObjectInvariance, CycleIsKnown, PTL DEF Spec, Sound

-----------------------------------------------------------------------------
(* The invariant.                                                          *)

\* Pages that the loop releases unless their objects are marked or pinned; the
\* coordinator's minor knows them before its first pass.
Doomed ==
  IF Looping THEN Unmoved
  ELSE IF premarked /\ phase \in {"begin", "mark"} THEN PagesIn("G0")
  ELSE {}

\* Objects that outlive the pass, where they are or as a copy.
Kept == {a \in Objects : PageOf(a) \in Doomed => a \in marks}

Safe(w) == w = Null \/ w \in Kept
HeldWords == ImageOf(root) \cup ImageOf(static) \cup ImageOf(stack) \cup ImageOf(handle)

\* What is kept points at what is kept.
KeptInv ==
  /\ \A a \in Kept : IsObject(a) => Safe(cell[a].ptr)
  /\ \A w \in HeldWords : Safe(w)
  /\ pinned \subseteq Kept

\* A forwarding marker leads to a copy that the loop is done with.
FollowInv == \A a \in Objects : IsForward(a) =>
  /\ a \in marks
  /\ cell[a].to \in Objects /\ IsObject(cell[a].to)
  /\ PageOf(cell[a].to) \notin Unmoved
  /\ GenOf(PageOf(cell[a].to)) = dest

\* When phase 2 is done no word leads to a forwarding marker, and what is left
\* on the chunk is pinned.
Still(w) == w = Null \/ (w \in Kept /\ IsObject(w))
RewrittenInv == phase = "reclaim" =>
  /\ \A a \in Kept : IsObject(a) =>
       Still(cell[a].ptr) /\ (PageOf(a) \in chunk => a \in pinned)
  /\ \A w \in HeldWords : Still(w)

\* What stack words name is pinned, or where the cycle moves nothing.
StackInv == phase \notin {"idle", "marked"} =>
  \A w \in ImageOf(stack) \ {Null} :
    w \in pinned \/ (GenOf(PageOf(w)) = "Tenured" /\ cycle \in {"minor", "static"})

\* Pointers between generations, and those of static words, are on dirty cards,
\* but for the pages that are being moved.
Strays(a) ==
  cell[a].ptr # Null /\ GenOf(PageOf(cell[a].ptr)) # GenOf(PageOf(a))
DirtyInv ==
  /\ \A a \in Kept :
       IsObject(a) /\ ~(Busy /\ PageOf(a) \in chunk) /\ Strays(a) => CardOf(a) \in cards
  /\ \A s \in Static : static[s] # Null => s \in staticCards

\* Marks made in advance cover G0, and are for a pass about G0.
MarkedInv ==
  /\ phase \in {"idle", "marked", "begin"} => from = "G0"
  /\ premarked => /\ "static" \in Cycles /\ from = "G0"
                  /\ \/ phase = "marked"
                     \/ phase \in {"begin", "mark"} /\ cycle = "static"
  /\ phase = "marked" =>
       /\ premarked
       /\ \A w \in ImageOf(root) \cup ImageOf(static) :
            w # Null /\ GenOf(PageOf(w)) = "G0" => w \in marks
       /\ \A a \in Objects :
            LET w == cell[a].ptr IN
            /\ w # Null /\ GenOf(PageOf(w)) = "G0"
            /\ GenOf(PageOf(a)) = "G0" => a \in marks
            => w \in marks

PointerInv ==
  KeptInv /\ FollowInv /\ RewrittenInv /\ StackInv /\ DirtyInv /\ MarkedInv

-----------------------------------------------------------------------------
(* The client.                                                             *)

\* Between collections the invariant is about all objects.
Rest ==
  /\ \A a \in Objects : cell[a].ptr = Null \/ cell[a].ptr \in Objects
  /\ \A w \in HeldWords : w = Null \/ w \in Objects
  /\ \A a \in Objects : Strays(a) => CardOf(a) \in cards
  /\ \A s \in Static : static[s] # Null => s \in staticCards
  /\ from = "G0" /\ ~premarked

\* ... which is the invariant then.
LEMMA RestIs == Sound /\ phase = "idle" => (PointerInv <=> Rest)
<1> SUFFICES ASSUME Sound, phase = "idle" PROVE PointerInv <=> Rest
  OBVIOUS
<1>1. ~Looping /\ ~Busy /\ Doomed = {} /\ Kept = Objects
  BY DEF Looping, Busy, Doomed, Kept
<1>2. pinned = {} /\ \A a \in Objects : IsObject(a) /\ ~IsForward(a)
  <2>1. pinned = {} /\ \A a \in Objects : IsObject(a)
    BY <1>1 DEF Sound, ObjectInv, PinInv, ForwardInv
  <2>2. QED
    BY <2>1 DEF IsObject, IsForward
<1>3. FollowInv /\ RewrittenInv /\ StackInv
  BY <1>2 DEF FollowInv, RewrittenInv, StackInv
<1>4. KeptInv <=> /\ \A a \in Objects : cell[a].ptr = Null \/ cell[a].ptr \in Objects
                  /\ \A w \in HeldWords : w = Null \/ w \in Objects
  BY <1>1, <1>2 DEF KeptInv, Safe
<1>5. DirtyInv <=> /\ \A a \in Objects : Strays(a) => CardOf(a) \in cards
                   /\ \A s \in Static : static[s] # Null => s \in staticCards
  BY <1>1, <1>2 DEF DirtyInv
<1>6. MarkedInv <=> from = "G0" /\ ~premarked
  BY DEF MarkedInv
<1>7. QED
  BY <1>3, <1>4, <1>5, <1>6 DEF PointerInv, Rest

\* A step that moves words between holders, all of them words of objects.
LEMMA RestWords ==
  ASSUME Rest, UNCHANGED <<desc, cell, starts, cards, from, premarked>>,
         \A w \in HeldWords' : w = Null \/ w \in Objects,
         \A s \in Static : static'[s] # Null => s \in staticCards'
  PROVE  Rest'
<1>1. Objects' = Objects /\ \A a : Strays(a)' = Strays(a)
  BY DEF Objects, Strays, GenOf, PageOf
<1>2. QED
  BY <1>1 DEF Rest, CardOf

\* The client keeps to words that name objects, and marks the cards it writes.
LEMMA RestClient ==
  ASSUME NoLarge, Sound, Sound', Rest, Client
  PROVE  Rest'
<1> USE DEF Sound, CycleInv, TypeInv
<1>1. phase = "idle" /\ from' = from /\ premarked' = premarked
  BY DEF Client, Alloc, AllocLarge, Store, SetRoot, StoreStatic, Spill, Pin, Unpin,
         Idle, collectorVars, passVars
<1>2. ~Busy /\ ~Handed /\ \A a \in Objects : IsObject(a)
  BY <1>1 DEF Handed, Busy, ObjectInv, ForwardInv
<1>3. \A w \in Values : w = Null \/ w \in Objects
  BY DEF Values, Rest, HeldWords
<1>4. \A w \in Loadable : w = Null \/ w \in Objects
  <2>1. \A w \in Pointers(ImageOf(root) \ {Null}) : w = Null \/ w \in Objects
    BY DEF Pointers, Rest, HeldWords
  <2>2. QED
    BY <1>3, <2>1 DEF Loadable, Rest, HeldWords
<1>5. CASE \E r \in Root, i \in Id, w \in Values : Alloc(r, i, w)
  <2>1. PICK r \in Root, i \in Id, w \in Values : Alloc(r, i, w)
    BY <1>5
  <2>2. /\ Claim("G0") /\ CanPlace("G0") /\ "G0" \in Generation
        /\ starts' = StartsWithNext("G0")
        /\ cell' = CellsWithNext("G0", Object(i, w))
        /\ cards' = cards \cup {CardOf(NextSlot("G0"))}
        /\ root' = [root EXCEPT ![r] = NextSlot("G0")]
        /\ UNCHANGED <<static, staticCards, stack, handle>>
    BY <2>1 DEF Alloc, CanPlace, Generation
  <2>3. \A g \in Generation : Exclusive(g)
    BY <1>2 DEF RegionInv
  <2>4. PICK n \in Addr :
          /\ n = NextSlot("G0") /\ n \notin Objects /\ Objects' = Objects \cup {n}
          /\ \A a \in Objects : CellsWithNext("G0", Object(i, w))[a] = cell[a]
          /\ \A a \in Objects : desc'[PageOf(a)] = desc[PageOf(a)]
    BY <2>2, <2>3, ObjectPlaced
  <2>5. cell'[n] = Object(i, w) /\ cell'[n].ptr = w /\ \A a \in Objects : cell'[a] = cell[a]
    BY <2>2, <2>4 DEF CellsWithNext, Object
  <2>6. \A a \in Objects' : cell'[a].ptr = Null \/ cell'[a].ptr \in Objects'
    BY <1>3, <2>4, <2>5 DEF Rest
  <2>7. \A x \in HeldWords' : x = Null \/ x \in Objects'
    <3>1. HeldWords' \subseteq HeldWords \cup {n}
      BY <2>2, <2>4 DEF HeldWords, ImageOf, HoldersTyped
    <3>2. QED
      BY <2>4, <3>1 DEF Rest
  <2>8. ASSUME NEW a \in Objects', Strays(a)' PROVE CardOf(a) \in cards'
    <3>1. CASE a = n
      BY <2>2, <2>4, <3>1
    <3>2. CASE a \in Objects
      <4>1. Strays(a)
        BY <2>4, <2>5, <2>8, <3>2 DEF Strays, Rest, GenOf, PageOf
      <4>2. QED
        BY <2>2, <3>2, <4>1 DEF Rest
    <3>3. QED
      BY <2>4, <2>8, <3>1, <3>2
  <2>9. QED
    BY <1>1, <2>2, <2>6, <2>7, <2>8 DEF Rest, CardOf
<1>6. CASE \E r \in Root, i \in Id, w \in Values : AllocLarge(r, i, w)
  BY <1>6, ShapeLarge DEF AllocLarge
<1>7. CASE \E r \in Root, w \in Values : Store(r, w)
  <2>1. PICK r \in Root, w \in Values : Store(r, w)
    BY <1>7
  <2>2. /\ root[r] # Null
        /\ cell' = [cell EXCEPT ![root[r]] = [cell[root[r]] EXCEPT !.ptr = w]]
        /\ cards' = cards \cup {CardOf(root[r])}
        /\ UNCHANGED <<desc, starts, root, static, staticCards, stack, handle>>
    BY <2>1 DEF Store, tableVars, holderVars
  <2>3. PICK x \in Objects : x = root[r]
    BY <2>2 DEF Rest, HeldWords, ImageOf, HoldersTyped
  <2>4. Objects' = Objects /\ HeldWords' = HeldWords
    BY <2>2 DEF Objects, GenOf, PageOf, HeldWords
  <2>5. /\ cell'[x].ptr = w
        /\ \A a \in Objects : a # x => cell'[a] = cell[a]
    <3>1. x \in Addr /\ IsObject(x) /\ cell \in [Addr -> Contents]
      BY <1>2, <2>3, ObjectsAre DEF MemoryTyped
    <3>2. "ptr" \in DOMAIN cell[x]
      BY <3>1 DEF IsObject, Contents, Object, Zero, Forward
    <3>3. cell'[x] = [cell[x] EXCEPT !.ptr = w]
      BY <2>2, <2>3, <3>1
    <3>4. QED
      BY <2>2, <2>3, <3>1, <3>2, <3>3
  <2>6. \A a \in Objects : cell'[a].ptr = Null \/ cell'[a].ptr \in Objects
    BY <1>3, <2>5 DEF Rest
  <2>7. ASSUME NEW a \in Objects, Strays(a)' PROVE CardOf(a) \in cards'
    <3>1. a # x => Strays(a)
      BY <2>2, <2>5, <2>7 DEF Strays, GenOf, PageOf
    <3>2. QED
      BY <2>2, <2>3, <3>1 DEF Rest
  <2>8. QED
    BY <1>1, <2>2, <2>4, <2>6, <2>7 DEF Rest, CardOf
<1>8. CASE \/ \E r \in Root, w \in Loadable : SetRoot(r, w)
           \/ \E s \in Static, w \in Values : StoreStatic(s, w)
           \/ \E s \in Stack, w \in Values : Spill(s, w)
           \/ \E h \in Handle : Unpin(h) \/ \E w \in Values \ {Null} : Pin(h, w)
  <2>1. UNCHANGED <<desc, cell, starts, cards>>
    BY <1>8 DEF SetRoot, StoreStatic, Spill, Unpin, Pin, heapVars, tableVars
  <2>2. \E w \in Loadable \cup Values \cup {Null} : HeldWords' \subseteq HeldWords \cup {w}
    <3>1. CASE \E r \in Root, w \in Loadable : SetRoot(r, w)
      BY <3>1 DEF SetRoot, HeldWords, ImageOf, HoldersTyped
    <3>2. CASE \E s \in Static, w \in Values : StoreStatic(s, w)
      BY <3>2 DEF StoreStatic, HeldWords, ImageOf, HoldersTyped
    <3>3. CASE \E s \in Stack, w \in Values : Spill(s, w)
      BY <3>3 DEF Spill, HeldWords, ImageOf, HoldersTyped
    <3>4. CASE \E h \in Handle : Unpin(h)
      BY <3>4 DEF Unpin, HeldWords, ImageOf, HoldersTyped
    <3>5. CASE \E h \in Handle : \E w \in Values \ {Null} : Pin(h, w)
      BY <3>5 DEF Pin, HeldWords, ImageOf, HoldersTyped
    <3>6. QED
      BY <1>8, <3>1, <3>2, <3>3, <3>4, <3>5
  <2>3. \A w \in HeldWords' : w = Null \/ w \in Objects
    BY <1>3, <1>4, <2>2 DEF Rest
  <2>4. \A s \in Static : static'[s] # Null => s \in staticCards'
    <3>1. CASE \E s \in Static, w \in Values : StoreStatic(s, w)
      BY <3>1 DEF StoreStatic, Rest, HoldersTyped
    <3>2. CASE UNCHANGED <<static, staticCards>>
      BY <3>2 DEF Rest
    <3>3. QED
      BY <1>8, <3>1, <3>2 DEF SetRoot, Spill, Unpin, Pin
  <2>5. QED
    BY <1>1, <2>1, <2>3, <2>4, RestWords
<1>9. QED
  BY <1>5, <1>6, <1>7, <1>8 DEF Client

-----------------------------------------------------------------------------
(* A cycle begins.                                                         *)

\* Whatever a word names between collections is an object; so it is pinned, or
\* on a page that the cycle leaves alone.
LEMMA PointerBegins ==
  ASSUME NoLarge, Sound, Sound', Rest, StartMinor \/ StartMajor \/ StartFull
  PROVE  PointerInv'
<1> USE DEF Sound, CycleInv, TypeInv
<1>1. PICK kind, sequence, gens :
        /\ Begin(kind, sequence, gens)
        /\ \/ gens = {"G0", "G1"} /\ kind = "minor"
           \/ ImageOf(stack) \subseteq {Null}
           \/ gens = Generation
  BY DEF StartMinor, StartMajor, StartFull
<1>2. /\ phase = "idle" /\ phase' = "begin" /\ cycle' = kind
      /\ pinned' = StackPins(gens)
      /\ \A p \in Page : desc'[p] \in {desc[p], [desc[p] EXCEPT !.pins = TRUE]}
      /\ UNCHANGED <<cell, starts, cards, root, static, staticCards, stack, handle,
                     from, premarked>>
  BY <1>1 DEF Begin, Idle, holderVars, passVars
<1>3. \A p \in Page : desc'[p].gen = desc[p].gen
  <2>1. \A d \in Desc : [d EXCEPT !.pins = TRUE].gen = d.gen
    BY DEF Desc
  <2>2. \A p \in Page : desc[p] \in Desc
    BY DEF TableTyped
  <2>3. QED
    BY <1>2, <2>1, <2>2
<1>4. ~Busy /\ ~Busy' /\ ~Looping' /\ \A a \in Objects : IsObject(a) /\ ~IsForward(a)
  <2>1. ~Busy /\ ~Busy' /\ ~Looping'
    BY <1>2 DEF Looping, Busy
  <2>2. \A a \in Objects : IsObject(a)
    BY <2>1 DEF ObjectInv, ForwardInv
  <2>3. QED
    BY <2>1, <2>2 DEF IsObject, IsForward
<1>5. Objects' = Objects /\ Kept' = Objects
  <2>1. Objects' = Objects
    BY <1>2, <1>3, ObjectsNext, ObjectsAre
  <2>2. Doomed' = {}
    BY <1>2, <1>4 DEF Rest, Doomed
  <2>3. QED
    BY <2>1, <2>2 DEF Kept
<1>6. \A w \in Objects : PageOf(w) \in Page /\ desc'[PageOf(w)].gen = desc[PageOf(w)].gen
  BY <1>3, ObjectsAre
<1>7. StackPins(gens) \subseteq Objects
  BY <1>1, ObjectsAre DEF StackPins, Rest, HeldWords
<1>8. KeptInv'
  BY <1>2, <1>5, <1>7 DEF Rest, KeptInv, Safe, HeldWords, IsObject
<1>9. FollowInv' /\ RewrittenInv'
  BY <1>2, <1>4, <1>5 DEF FollowInv, RewrittenInv, IsForward
<1>10. StackInv'
  <2> SUFFICES ASSUME NEW w \in ImageOf(stack) \ {Null}
               PROVE  w \in pinned' \/ (desc'[PageOf(w)].gen = "Tenured" /\ kind = "minor")
    BY <1>2 DEF StackInv, GenOf, PageOf
  <2>1. w \in Objects /\ w \in starts /\ desc[PageOf(w)].gen \in Generation
    BY ObjectsAre DEF Rest, HeldWords, TableTyped, Desc
  <2>2. CASE desc[PageOf(w)].gen \in gens
    BY <1>2, <2>1, <2>2 DEF StackPins, GenOf
  <2>3. CASE desc[PageOf(w)].gen \notin gens
    BY <1>1, <1>6, <2>1, <2>3 DEF Generation
  <2>4. QED
    BY <2>2, <2>3
<1>11. DirtyInv'
  <2>1. ASSUME NEW a \in Objects, Strays(a)' PROVE CardOf(a) \in cards
    <3>1. Strays(a)
      BY <1>2, <1>6, <2>1 DEF Rest, Strays, GenOf, PageOf
    <3>2. QED
      BY <3>1 DEF Rest
  <2>2. QED
    BY <1>2, <1>5, <2>1 DEF Rest, DirtyInv, CardOf
<1>12. MarkedInv'
  BY <1>2 DEF Rest, MarkedInv
<1>13. QED
  BY <1>8, <1>9, <1>10, <1>11, <1>12 DEF PointerInv

\* The marks made in advance cover what G0 holds of what is reachable from the
\* holders and from every older object on a dirty card.
LEMMA PointerMarked ==
  ASSUME NoLarge, NoGaps, Sound, Sound', Rest, MarkMinorWithStatic
  PROVE  PointerInv'
<1> USE DEF Sound, CycleInv, TypeInv
<1> DEFINE old == {c \in cards : GenOf(PageOf(c * CardSize)) \in {"G1", "Tenured"}}
           seeds == VisitedWords \cup Pointers(UNION {Walked(c) : c \in old})
<1>1. /\ phase = "idle" /\ phase' = "marked" /\ "static" \in Cycles
      /\ marks' = Closure(seeds) /\ premarked'
      /\ UNCHANGED <<desc, cell, starts, cards, root, static, staticCards, stack, handle,
                     pinned, from>>
  BY DEF MarkMinorWithStatic, Idle, heapVars, tableVars, holderVars
<1>2. from = "G0" /\ pinned = {}
  BY <1>1 DEF Rest, ObjectInv, PinInv
<1>3. ~Busy /\ ~Busy' /\ ~Looping' /\ \A a \in Objects : IsObject(a) /\ ~IsForward(a)
  <2>1. ~Busy /\ ~Busy' /\ ~Looping'
    BY <1>1 DEF Looping, Busy
  <2>2. \A a \in Objects : IsObject(a)
    BY <2>1 DEF ObjectInv, ForwardInv
  <2>3. QED
    BY <2>1, <2>2 DEF IsObject, IsForward
<1>4. Objects' = Objects /\ Kept' = Objects
  <2>1. Objects' = Objects
    BY <1>1 DEF Objects, GenOf, PageOf
  <2>2. Doomed' = {}
    BY <1>1, <1>3 DEF Doomed
  <2>3. QED
    BY <2>1, <2>2 DEF Kept
<1>5. KeptInv' /\ FollowInv' /\ RewrittenInv' /\ StackInv' /\ DirtyInv'
  BY <1>1, <1>2, <1>3, <1>4 DEF Rest, KeptInv, Safe, HeldWords, IsObject, IsForward,
     FollowInv, RewrittenInv, StackInv, DirtyInv, Strays, GenOf, PageOf, CardOf
<1> DEFINE m == Closure(seeds)
<1>6. Markable(seeds) \subseteq m /\ m \subseteq starts /\ Markable(Pointers(m)) \subseteq m
  BY ClosureIs DEF MemoryTyped
<1>7. \A w \in Objects : GenOf(PageOf(w)) = "G0" /\ w \in seeds \cup Pointers(m) => w \in m
  <2> HIDE DEF m, seeds
  <2>1. \A w \in Objects : w # Null /\ w \in starts
    BY ObjectsAre, PageTableAssumption DEF Addr
  <2>2. QED
    BY <1>2, <1>6, <2>1 DEF Markable
<1>8. ASSUME NEW w \in ImageOf(root) \cup ImageOf(static), w # Null, GenOf(PageOf(w)) = "G0"
      PROVE  w \in m
  <2>1. w \in Objects
    BY <1>8 DEF Rest, HeldWords
  <2>2. w \in VisitedWords
    BY <1>8 DEF VisitedWords, Rest, ImageOf, HoldersTyped
  <2> HIDE DEF m
  <2>3. QED
    BY <1>7, <1>8, <2>1, <2>2
<1>9. ASSUME NEW a \in Objects, cell[a].ptr # Null, GenOf(PageOf(cell[a].ptr)) = "G0",
             GenOf(PageOf(a)) = "G0" => a \in m
      PROVE  cell[a].ptr \in m
  <2>1. cell[a].ptr \in Objects /\ IsObject(a)
    BY <1>3, <1>9 DEF Rest
  <2>2. CASE GenOf(PageOf(a)) = "G0"
    <3> HIDE DEF m
    <3>1. cell[a].ptr \in Pointers(m)
      BY <1>9, <2>1, <2>2 DEF Pointers
    <3>2. QED
      BY <1>7, <1>9, <2>1, <3>1
  <2>3. CASE GenOf(PageOf(a)) # "G0"
    <3>1. a \in Addr /\ GenOf(PageOf(a)) \in {"G1", "Tenured"}
      BY <2>3, ObjectsAre DEF TableTyped, Desc, Generation, GenOf
    <3>2. CardOf(a) \in cards
      BY <1>9, <2>3 DEF Rest, Strays
    <3>3. CardOf(a) \in old
      BY <3>1, <3>2, CardIs
    <3>4. a \in Walked(CardOf(a))
      BY WalkReaches
    <3>5. cell[a].ptr \in seeds
      BY <2>1, <3>3, <3>4 DEF Pointers
    <3> HIDE DEF m, seeds
    <3>6. QED
      BY <1>7, <1>9, <2>1, <3>5
  <2>4. QED
    BY <2>2, <2>3
<1>10. MarkedInv'
  <2>1. marks' = m
    BY <1>1
  <2> HIDE DEF m
  <2>2. QED
    BY <1>1, <1>2, <1>4, <1>8, <1>9, <2>1 DEF MarkedInv, GenOf, PageOf
<1>11. QED
  BY <1>5, <1>10 DEF PointerInv

\* The pages released ahead of the coordinator's minor hold nothing that what
\* is kept points at.
LEMMA PointerDrained ==
  ASSUME NoLarge, PinsKnown, Sound, Sound', PointerInv, CollectMinorWithStatic
  PROVE  PointerInv'
<1> USE DEF Sound, CycleInv, TypeInv
<1> DEFINE pins == StackPins({"G0", "G1"})
           live == Closure(marks \cup pins \cup Pointers(pins))
           drained == IF premarked THEN ZeroLive(live) ELSE {}
<1>1. /\ phase \in {"idle", "marked"} /\ phase' = "begin"
      /\ "static" \in Cycles /\ cycle' = "static"
      /\ pinned' = pins
      /\ marks' = IF premarked THEN live ELSE marks
      /\ desc' = [p \in Page |->
                    CASE p \in drained -> FreeDesc
                      [] \E a \in pins : PageOf(a) = p -> [desc[p] EXCEPT !.pins = TRUE]
                      [] OTHER -> desc[p]]
      /\ UNCHANGED <<cell, starts, cards, root, static, staticCards, stack, handle,
                     from, premarked>>
  BY DEF CollectMinorWithStatic, holderVars, passVars
<1>2. from = "G0" /\ (premarked <=> phase = "marked")
  BY <1>1 DEF PointerInv, MarkedInv
<1>3. ~Busy /\ ~Busy' /\ ~Looping' /\ \A a \in Objects : IsObject(a) /\ ~IsForward(a)
  <2>1. ~Busy /\ ~Busy' /\ ~Looping'
    BY <1>1 DEF Looping, Busy
  <2>2. \A a \in Objects : IsObject(a)
    BY <2>1 DEF ObjectInv, ForwardInv
  <2>3. QED
    BY <2>1, <2>2 DEF IsObject, IsForward
<1>4. Kept = Objects
  BY <1>1 DEF Kept, Doomed, Looping, Busy
<1>5. /\ \A a \in Objects : cell[a].ptr = Null \/ cell[a].ptr \in Objects
      /\ \A w \in HeldWords : w = Null \/ w \in Objects
  BY <1>3, <1>4 DEF PointerInv, KeptInv, Safe
<1>6. /\ Markable(marks \cup pins \cup Pointers(pins)) \subseteq live
      /\ Markable(Pointers(live)) \subseteq live
      /\ live \subseteq starts
  BY ClosureIs DEF MemoryTyped
<1>7. pins \subseteq Objects /\ \A a \in pins : desc[PageOf(a)].gen \in {"G0", "G1"}
      /\ PageOf(a) \notin drained
  BY ObjectsAre DEF StackPins, GenOf, Objects, ZeroLive
<1>8. \A a \in live : a \in Addr => PageOf(a) \notin drained
  BY <1>6, SlotsUpTo DEF ZeroLive
<1>9. drained \subseteq PagesIn("G0")
  BY DEF ZeroLive
<1> HIDE DEF pins, live, drained
<1>10. \A p \in Page : /\ p \in drained => desc'[p] = FreeDesc
                       /\ p \notin drained => desc'[p].gen = desc[p].gen
  <2>1. \A d \in Desc : [d EXCEPT !.pins = TRUE].gen = d.gen
    BY DEF Desc
  <2>2. \A p \in Page : desc[p] \in Desc
    BY DEF TableTyped
  <2>3. \A p \in Page : IF p \in drained THEN desc'[p] = FreeDesc
                       ELSE desc'[p] \in {desc[p], [desc[p] EXCEPT !.pins = TRUE]}
    <3> SUFFICES ASSUME NEW p \in Page
                 PROVE  IF p \in drained THEN desc'[p] = FreeDesc
                        ELSE desc'[p] \in {desc[p], [desc[p] EXCEPT !.pins = TRUE]}
      OBVIOUS
    <3>1. CASE p \in drained
      <4>1. ~(\E a \in pins : PageOf(a) = p)
        BY <1>7, <3>1
      <4>2. QED
        BY <1>1, <3>1, <4>1
    <3>2. CASE p \notin drained
      BY <1>1, <3>2
    <3>3. QED
      BY <3>1, <3>2
  <2>4. QED
    BY <2>1, <2>2, <2>3
<1>11. \A a : a \in Objects' <=> a \in Objects /\ PageOf(a) \notin drained
  <2>1. FreeDesc.gen = "Free"
    BY DEF FreeDesc
  <2>2. starts' = starts
    BY <1>1
  <2>3. QED
    BY <1>10, <2>1, <2>2, ObjectsAre, ObjectsNext
<1>12. \A a \in Objects' : GenOf(PageOf(a))' = GenOf(PageOf(a)) /\ a \in Objects
  BY <1>10, <1>11, ObjectsAre DEF GenOf, PageOf
<1>13. \A a : a \in Kept' <=> a \in Objects' /\ (premarked /\ GenOf(PageOf(a)) = "G0" => a \in live)
  <2>1. \A a : a \in Kept' <=> a \in Objects' /\ (PageOf(a) \in Doomed' => a \in marks')
    BY DEF Kept, PageOf
  <2>2. Doomed' = IF premarked THEN PagesIn("G0")' ELSE {}
    BY <1>1, <1>3 DEF Doomed
  <2>3. \A a \in Objects' : PageOf(a) \in PagesIn("G0")' <=> GenOf(PageOf(a)) = "G0"
    BY <1>12, ObjectsAre DEF PagesIn, GenOf, PageOf
  <2>4. QED
    BY <1>1, <2>1, <2>2, <2>3
\* An object of G0 that is live is kept; one of an older generation always.
<1>14. ASSUME NEW w \in Objects, premarked /\ GenOf(PageOf(w)) = "G0" => w \in live
       PROVE  w \in Kept'
  <2>1. w \in Addr /\ PageOf(w) \in Page
    BY ObjectsAre
  <2>2. PageOf(w) \notin drained
    <3>1. CASE GenOf(PageOf(w)) = "G0" /\ premarked
      BY <1>8, <1>14, <2>1, <3>1
    <3>2. CASE GenOf(PageOf(w)) # "G0"
      BY <1>9, <3>2 DEF PagesIn
    <3>3. CASE ~premarked
      BY <3>3 DEF drained
    <3>4. QED
      BY <3>1, <3>2, <3>3
  <2>3. QED
    BY <1>11, <1>13, <1>14, <2>2
<1>15. \A w \in Objects : GenOf(PageOf(w)) = "G0" /\ w \in marks \cup pins \cup Pointers(pins) \cup Pointers(live)
                          => w \in live
  <2>1. \A w \in Objects : w # Null /\ w \in starts
    BY ObjectsAre, PageTableAssumption DEF Addr
  <2>2. QED
    BY <1>2, <1>6, <2>1 DEF Markable
<1>16. ASSUME NEW a \in Kept' PROVE cell[a].ptr = Null \/ cell[a].ptr \in Kept'
  <2>1. a \in Objects /\ IsObject(a) /\ (premarked /\ GenOf(PageOf(a)) = "G0" => a \in live)
    BY <1>3, <1>12, <1>13
  <2> DEFINE w == cell[a].ptr
  <2>2. CASE w = Null
    BY <2>2
  <2>3. CASE w # Null /\ premarked /\ GenOf(PageOf(w)) = "G0"
    <3>1. w \in Objects
      BY <1>5, <2>1, <2>3
    <3>2. CASE GenOf(PageOf(a)) = "G0"
      <4>1. w \in Pointers(live)
        BY <2>1, <2>3, <3>2 DEF Pointers
      <4>2. QED
        BY <1>1, <1>14, <1>15, <2>3, <3>1, <4>1
    <3>3. CASE GenOf(PageOf(a)) # "G0"
      <4>1. w \in marks
        BY <1>2, <2>1, <2>3, <3>3 DEF PointerInv, MarkedInv
      <4>2. QED
        BY <1>1, <1>14, <1>15, <2>3, <3>1, <4>1
    <3>4. QED
      BY <3>2, <3>3
  <2>4. CASE w # Null /\ ~(premarked /\ GenOf(PageOf(w)) = "G0")
    BY <1>1, <1>5, <1>14, <2>1, <2>4
  <2>5. QED
    BY <2>2, <2>3, <2>4
<1>17. ASSUME NEW w \in HeldWords, w # Null PROVE w \in Kept'
  <2>1. w \in Objects
    BY <1>5, <1>17
  <2>2. ASSUME premarked, GenOf(PageOf(w)) = "G0" PROVE w \in live
    <3>1. CASE w \in ImageOf(root) \cup ImageOf(static)
      BY <1>2, <1>15, <1>17, <2>1, <2>2, <3>1 DEF PointerInv, MarkedInv
    <3>2. CASE w \in ImageOf(stack)
      BY <1>15, <1>17, <2>1, <2>2, <3>2, ObjectsAre DEF StackPins, pins
    <3>3. CASE w \in ImageOf(handle)
      BY <1>1, <1>17, <3>3 DEF PinsKnown, NoStatic, ImageOf, HoldersTyped
    <3>4. QED
      BY <3>1, <3>2, <3>3 DEF HeldWords
  <2>3. QED
    BY <1>14, <2>1, <2>2
<1>18. pins \subseteq Kept'
  <2> SUFFICES ASSUME NEW a \in pins PROVE a \in Kept'
    OBVIOUS
  <2>1. QED
    BY <1>7, <1>14, <1>15
<1>19. KeptInv'
  BY <1>1, <1>16, <1>17, <1>18 DEF KeptInv, Safe, HeldWords
<1>20. FollowInv' /\ RewrittenInv'
  BY <1>1, <1>3, <1>12 DEF FollowInv, RewrittenInv, IsForward
<1>21. StackInv'
  <2> SUFFICES ASSUME NEW w \in ImageOf(stack) \ {Null}
               PROVE  w \in pins \/ GenOf(PageOf(w))' = "Tenured"
    BY <1>1 DEF StackInv
  <2>1. w \in Objects /\ w \in starts /\ desc[PageOf(w)].gen \in Generation
    BY <1>5, ObjectsAre DEF HeldWords, TableTyped, Desc
  <2>2. w \in Kept'
    BY <1>17 DEF HeldWords
  <2>3. GenOf(PageOf(w))' = GenOf(PageOf(w))
    BY <1>12, <1>13, <2>2
  <2>4. QED
    BY <2>1, <2>3 DEF StackPins, pins, Generation, GenOf
<1>22. DirtyInv'
  <2>1. ASSUME NEW a \in Kept', Strays(a)' PROVE CardOf(a) \in cards
    <3>1. a \in Kept /\ IsObject(a) /\ a \in Objects'
      BY <1>3, <1>4, <1>12, <1>13
    <3>2. cell[a].ptr \in Objects' \cup {Null}
      BY <1>13, <1>16
    <3>3. Strays(a)
      BY <1>1, <1>12, <2>1, <3>1, <3>2 DEF Strays
    <3>4. QED
      BY <1>3, <3>1, <3>3 DEF PointerInv, DirtyInv
  <2>2. QED
    BY <1>1, <2>1 DEF PointerInv, DirtyInv, CardOf
<1>23. MarkedInv'
  BY <1>1, <1>2 DEF MarkedInv
<1>24. QED
  BY <1>19, <1>20, <1>21, <1>22, <1>23 DEF PointerInv

-----------------------------------------------------------------------------
(* A pass begins.                                                          *)

\* While nothing is being moved no object is a forwarding marker.
LEMMA NoMarkers ==
  ASSUME ObjectInv, ~Busy
  PROVE  \A a \in Objects : IsObject(a) /\ ~IsForward(a)
<1>1. \A a \in Objects : IsObject(a)
  BY DEF ObjectInv, ForwardInv
<1>2. QED
  BY <1>1 DEF IsObject, IsForward

\* The loop is done with all pages at its end.
LEMMA NonePending ==
  ASSUME PassTyped, phase = "chunk", next > Len(fromPages)
  PROVE  Unmoved = {}
<1>1. next \in Nat /\ Len(fromPages) \in Nat
  BY DEF PassTyped
<1>2. QED
  BY <1>1 DEF Unmoved, Pending, Busy

\* Minors move nothing in Tenured.
LEMMA MinorIsYoung ==
  ASSUME CycleInv, phase \notin {"idle", "marked", "begin"}, cycle \in {"minor", "static"}
  PROVE  from \in {"G0", "G1"}
<1>1. PICK k \in 0 .. Len(Plan) : Stage(k)
  BY DEF CycleInv, PlanInv
<1>2. Len(Plan) \in Nat /\ k \in 1 .. Len(Plan) /\ from = Plan[k].from
  <2>1. Len(Plan) \in Nat
    BY PlanIs DEF PlanSound
  <2>2. k # 0
    BY <1>1 DEF Stage
  <2>3. k > 0 /\ k \in 1 .. Len(Plan)
    BY <2>1, <2>2
  <2>4. QED
    BY <1>1, <2>1, <2>3 DEF Stage
<1>3. \A i \in 1 .. Len(Plan) : Plan[i].from \in {"G0", "G1"}
  <2>1. \A f, d, s : Pass(f, d, s).from = f
    BY DEF Pass
  <2>2. Plan \in {<<Pass("G0", "G0", "fresh")>>, <<Pass("G0", "G1", "fresh")>>,
                  <<Pass("G0", "G1", "fresh"), Pass("G1", "Tenured", "kept")>>}
    BY DEF Plan
  <2>3. QED
    BY <2>1, <2>2
<1>4. QED
  BY <1>2, <1>3

\* Marks made in advance are for the first pass of a minor.
LEMMA PointerPass ==
  ASSUME Sound, Sound', PointerInv, BeginPass
  PROVE  PointerInv'
<1> USE DEF Sound, CycleInv, TypeInv
<1>1. /\ \/ phase = "begin"
         \/ phase = "chunk" /\ next > Len(fromPages)
      /\ phase' = "mark"
      /\ from' = Head(passes).from
      /\ UNCHANGED <<desc, cell, starts, cards, root, static, staticCards, stack, handle,
                     pinned, premarked, marks, cycle>>
  BY DEF BeginPass, heapVars, tableVars, holderVars, loopVars
<1>2. ~Busy /\ ~Busy' /\ ~Looping'
  BY <1>1 DEF Looping, Busy
<1>3. \A a \in Objects : IsObject(a) /\ ~IsForward(a)
  BY <1>2, NoMarkers
<1>4. Objects' = Objects /\ Kept' = Kept
  <2>1. Objects' = Objects
    BY <1>1 DEF Objects, GenOf, PageOf
  <2>2. Doomed' = Doomed
    <3>1. CASE phase = "begin"
      BY <1>1, <1>2, <3>1 DEF Doomed, Looping, Busy, PagesIn, GenOf
    <3>2. CASE phase = "chunk"
      <4>1. ~premarked
        BY <3>2 DEF PointerInv, MarkedInv
      <4>2. Unmoved = {}
        BY <1>1, <3>2, NonePending
      <4>3. QED
        BY <1>1, <1>2, <3>2, <4>1, <4>2 DEF Doomed, Looping
    <3>3. QED
      BY <1>1, <3>1, <3>2
  <2>3. QED
    BY <1>1, <2>1, <2>2 DEF Kept, PageOf
<1>5. KeptInv'
  BY <1>1, <1>4 DEF PointerInv, KeptInv, Safe, HeldWords, IsObject
<1>6. FollowInv' /\ RewrittenInv'
  BY <1>1, <1>3, <1>4 DEF FollowInv, RewrittenInv, IsForward
<1>7. StackInv'
  BY <1>1 DEF PointerInv, StackInv, GenOf, PageOf
<1>8. DirtyInv'
  BY <1>1, <1>2, <1>4 DEF PointerInv, DirtyInv, Strays, IsObject, GenOf, PageOf, CardOf
<1>9. premarked => from' = "G0" /\ cycle = "static" /\ "static" \in Cycles
  <2> SUFFICES ASSUME premarked PROVE from' = "G0" /\ cycle = "static" /\ "static" \in Cycles
    OBVIOUS
  <2>1. phase = "begin" /\ cycle = "static" /\ "static" \in Cycles
    BY <1>1 DEF PointerInv, MarkedInv
  <2>2. PICK k \in 0 .. Len(Plan) - 1 : Stage(k) /\ Head(passes) = Plan[k + 1]
    BY NextPass
  <2>3. k = 0
    BY <2>1, <2>2 DEF Stage
  <2>4. Plan[1].from = "G0"
    BY <2>1, PlanIs DEF PlanSound
  <2>5. QED
    BY <1>1, <2>1, <2>2, <2>3, <2>4
<1>10. MarkedInv'
  BY <1>1, <1>9 DEF MarkedInv
<1>11. QED
  BY <1>5, <1>6, <1>7, <1>8, <1>10 DEF PointerInv

\* What the mark of a pass pins; there are no Large objects to pin.
LEMMA MarkPins ==
  ASSUME NoLarge, Sound
  PROVE  /\ MarkedLarge = {} /\ FoldedPins = ExplicitPins
         /\ PinSet = pinned \cup ExplicitPins /\ PinSet \subseteq Objects
<1> USE DEF Sound, CycleInv, TypeInv
<1>1. MarkedLarge = {}
  <2>1. \A a \in InternalMark : PageOf(a) \in Page
    BY ClosureStarts, PageOfIn DEF InternalMark, PassTyped, MemoryTyped
  <2>2. QED
    BY <2>1 DEF MarkedLarge, Shape, KindInv, IsLargeHead
<1>2. FoldedPins = ExplicitPins
  BY DEF FoldedPins, ObjectInv, HandleInv, Objects
<1>3. QED
  BY <1>1, <1>2 DEF PinSet, ObjectInv, HandleInv, PinInv

\* The chunk loop has every page of from_gen before it.
LEMMA MarkLists ==
  ASSUME Mark
  PROVE  Unmoved' = PagesIn(from)
<1>1. /\ phase' = "chunk" /\ next' = 1 /\ fromPages' = Ascending(PagesIn(from))
  BY DEF Mark
<1>2. PagesIn(from) \in SUBSET Page
  BY DEF PagesIn
<1>3. PagesIn(from) \in SUBSET Int /\ IsFiniteSet(PagesIn(from))
  BY <1>2, PagesFinite
<1>4. PagesIn(from) = {Ascending(PagesIn(from))[i] : i \in 1 .. Len(Ascending(PagesIn(from)))}
  <2>1. Ascending(PagesIn(from)) \in Seq(PagesIn(from))
        /\ PagesIn(from) \subseteq ImageOf(Ascending(PagesIn(from)))
    BY <1>3, AscendingLists
  <2>2. QED
    BY <2>1 DEF ImageOf
<1>5. QED
  BY <1>1, <1>4 DEF Unmoved, Pending, Busy

\* The mark of a pass covers what from_gen holds of what is kept: what the
\* holders name, what objects on dirty cards point at, and what is pinned.
LEMMA PointerMark ==
  ASSUME NoLarge, NoGaps, PinsKnown, Sound, Sound', PointerInv, Mark, UNCHANGED cycleVars
  PROVE  PointerInv'
<1> USE DEF Sound, CycleInv, TypeInv
<1>1. /\ phase = "mark" /\ phase' = "chunk"
      /\ marks' = ExtendedMark /\ pinned' = PinSet
      /\ fromPages' = Ascending(PagesIn(from)) /\ next' = 1
      /\ ~premarked' /\ cycle' = cycle
      /\ \A p \in Page : desc'[p] \in {desc[p], [desc[p] EXCEPT !.pins = TRUE]}
      /\ UNCHANGED <<cell, starts, cards, root, static, staticCards, stack, handle, from, dest>>
  BY DEF Mark, holderVars, cycleVars
<1>2. ~Busy /\ ~Busy' /\ ~Looping /\ Looping' /\ \A a \in Objects : IsObject(a) /\ ~IsForward(a)
  <2>1. ~Busy /\ ~Busy' /\ ~Looping /\ Looping'
    BY <1>1 DEF Looping, Busy
  <2>2. QED
    BY <2>1, NoMarkers
<1>3. \A p \in Page : desc'[p].gen = desc[p].gen
  <2>1. \A d \in Desc : [d EXCEPT !.pins = TRUE].gen = d.gen
    BY DEF Desc
  <2>2. \A p \in Page : desc[p] \in Desc
    BY DEF TableTyped
  <2>3. QED
    BY <1>1, <2>1, <2>2
<1>4. /\ Objects' = Objects
      /\ \A a \in Objects : /\ PageOf(a) \in Page
                            /\ GenOf(PageOf(a))' = GenOf(PageOf(a))
                            /\ a \in starts /\ a # Null
  <2>1. Objects' = Objects
    BY <1>1, <1>3, ObjectsAre, ObjectsNext
  <2>2. QED
    BY <1>3, <2>1, ObjectsAre, PageTableAssumption DEF GenOf, PageOf, Addr
<1>5. MarkedLarge = {} /\ FoldedPins = ExplicitPins /\ PinSet = pinned \cup ExplicitPins
      /\ PinSet \subseteq Objects
  BY MarkPins
<1> DEFINE seeds == InternalMark \cup PinSet \cup Pointers(PinSet \cap starts)
           m == Closure(seeds)
<1>6. marks' = m
  BY <1>1 DEF ExtendedMark
<1>7. Markable(seeds) \subseteq m /\ m \subseteq starts /\ Markable(Pointers(m)) \subseteq m
      /\ \A T : /\ Markable(seeds) \subseteq T
                /\ Markable(Pointers(T)) \subseteq T
                => m \subseteq T
  <2> HIDE DEF seeds
  <2>1. starts \subseteq Addr
    BY DEF MemoryTyped
  <2>2. QED
    BY <2>1, ClosureIs
<1> HIDE DEF m
<1>8. \A w \in Objects : GenOf(PageOf(w)) = from /\ w \in seeds \cup Pointers(m) => w \in m
  <2> HIDE DEF seeds
  <2>1. QED
    BY <1>4, <1>7 DEF Markable
<1>9. \A a : a \in Kept' <=> a \in Objects /\ (GenOf(PageOf(a)) = from => a \in m)
  <2>1. Unmoved' = PagesIn(from)
    BY MarkLists
  <2>2. \A a \in Objects : PageOf(a) \in PagesIn(from) <=> GenOf(PageOf(a)) = from
    BY <1>4 DEF PagesIn
  <2>3. QED
    BY <1>2, <1>4, <1>6, <2>1, <2>2 DEF Kept, Doomed, PageOf
\* Advance marks are final: what else the first pass would mark is marked.
<1>10. premarked => from = "G0" /\ m \cap Objects \subseteq marks /\ marks \subseteq seeds
  <2> SUFFICES ASSUME premarked
               PROVE  from = "G0" /\ m \cap Objects \subseteq marks /\ marks \subseteq seeds
    OBVIOUS
  <2>1. from = "G0" /\ "static" \in Cycles
    BY DEF PointerInv, MarkedInv
  <2>2. InternalMark = marks
    BY DEF InternalMark
  <2>3. ExplicitPins = {}
    BY <2>1 DEF PinsKnown, NoStatic, ExplicitPins, ImageOf, HoldersTyped
  <2>4. \A a : a \in Kept <=> a \in Objects /\ (GenOf(PageOf(a)) = "G0" => a \in marks)
    BY <1>1, <1>2, <1>4 DEF Kept, Doomed, PagesIn
  <2>5. \A a \in Kept : cell[a].ptr = Null \/ cell[a].ptr \in Kept
    BY <1>2, <2>4 DEF PointerInv, KeptInv, Safe
  <2> DEFINE T == marks \cap Objects
  <2>6. \A w : w \in starts /\ GenOf(PageOf(w)) = from /\ w \in Kept => w \in T
    BY <2>1, <2>4
  <2>7. Markable(seeds) \subseteq T
    <3> SUFFICES ASSUME NEW w \in seeds, w # Null, w \in starts, GenOf(PageOf(w)) = from
                 PROVE  w \in T
      BY DEF Markable
    <3>1. CASE w \in marks
      <4>1. w \in Objects
        BY <2>1 DEF Objects
      <4>2. QED
        BY <3>1, <4>1
    <3>2. CASE w \in pinned
      BY <2>6, <3>2 DEF PointerInv, KeptInv
    <3>3. CASE w \in Pointers(pinned \cap starts)
      <4>1. PICK a \in pinned : w = cell[a].ptr
        BY <3>3 DEF Pointers
      <4>2. w \in Kept
        BY <2>5, <4>1 DEF PointerInv, KeptInv
      <4>3. QED
        BY <2>6, <4>2
    <3>4. QED
      BY <1>5, <2>2, <2>3, <3>1, <3>2, <3>3
  <2>8. Markable(Pointers(T)) \subseteq T
    <3> SUFFICES ASSUME NEW a \in T, cell[a].ptr # Null, cell[a].ptr \in starts,
                        GenOf(PageOf(cell[a].ptr)) = from
                 PROVE  cell[a].ptr \in T
      BY DEF Markable, Pointers
    <3>1. cell[a].ptr \in Kept
      BY <2>4, <2>5
    <3>2. QED
      BY <2>6, <3>1
  <2>9. m \subseteq T
    <3> HIDE DEF T, seeds
    <3>1. QED
      BY <1>7, <2>7, <2>8
  <2>10. QED
    BY <2>1, <2>2, <2>9
<1>11. Kept' \subseteq Kept
  <2>1. CASE premarked
    BY <1>1, <1>2, <1>9, <1>10, <2>1 DEF Kept, Doomed, PagesIn
  <2>2. CASE ~premarked
    BY <1>2, <1>9, <2>2 DEF Kept, Doomed
  <2>3. QED
    BY <2>1, <2>2
<1>12. \A w \in Kept : GenOf(PageOf(w)) # from => w \in Kept'
  BY <1>9 DEF Kept
<1>13. \A w \in Kept : w \in seeds \cup Pointers(m) => w \in Kept'
  BY <1>8, <1>9 DEF Kept
\* In a pass that marks by itself everything is kept so far.
<1>14. \A w \in Kept : premarked => w \in Kept'
  <2>1. \A w \in Kept : premarked /\ GenOf(PageOf(w)) = "G0" => w \in marks
    BY <1>1, <1>2, <1>4 DEF Kept, Doomed, PagesIn
  <2> HIDE DEF seeds
  <2>2. QED
    BY <1>10, <1>12, <1>13, <2>1
<1>15. \A w \in VisitedWords \cup Pointers(ScannedObjects) : w \in Kept => w \in Kept'
  <2> SUFFICES ASSUME NEW w \in VisitedWords \cup Pointers(ScannedObjects), w \in Kept,
                      GenOf(PageOf(w)) = from, ~premarked
               PROVE  w \in seeds
    BY <1>12, <1>13, <1>14
  <2>1. w \in Markable(VisitedWords \cup Pointers(ScannedObjects))
    BY <1>4 DEF Markable, Kept
  <2>2. w \in InternalMark
    BY <2>1, ClosureIs DEF InternalMark, MemoryTyped
  <2>3. QED
    BY <2>2
<1>16. ASSUME NEW a \in Kept' PROVE cell[a].ptr = Null \/ cell[a].ptr \in Kept'
  <2>1. a \in Kept /\ a \in Objects /\ IsObject(a) /\ (cell[a].ptr = Null \/ cell[a].ptr \in Kept)
    BY <1>2, <1>9, <1>11, <1>16 DEF PointerInv, KeptInv, Safe
  <2>2. CASE GenOf(PageOf(a)) = from
    <3>1. cell[a].ptr \in Pointers(m)
      BY <1>9, <1>16, <2>1, <2>2 DEF Pointers
    <3>2. QED
      BY <1>13, <2>1, <3>1
  <2>3. CASE GenOf(PageOf(a)) # from /\ Strays(a)
    <3>1. CardOf(a) \in cards
      BY <1>2, <2>1, <2>3 DEF PointerInv, DirtyInv
    <3>2. GenOf(PageOf(a)) \notin {"Free", from} /\ a \in Addr
      BY <2>1, <2>3, ObjectsAre DEF GenOf
    <3>3. scanning /\ snapshot[PageOf(a)] \notin {"Free", from}
      BY <1>1, <1>4, <2>1, <3>2 DEF ScanInv
    <3>4. CardOf(a) \in ScannedCards
      BY <3>1, <3>2, <3>3, CardIs DEF ScannedCards
    <3>5. a \in Walked(CardOf(a))
      BY <2>1, WalkReaches
    <3>6. cell[a].ptr \in Pointers(ScannedObjects)
      BY <2>1, <3>4, <3>5 DEF Pointers, ScannedObjects
    <3>7. QED
      BY <1>15, <2>1, <3>6
  <2>4. CASE GenOf(PageOf(a)) # from /\ ~Strays(a)
    BY <1>12, <2>1, <2>4 DEF Strays
  <2>5. QED
    BY <2>2, <2>3, <2>4
<1>17. ASSUME NEW w \in HeldWords, w # Null PROVE w \in Kept'
  <2>1. w \in Kept
    BY <1>17 DEF PointerInv, KeptInv, Safe
  <2>2. CASE w \in ImageOf(root)
    BY <1>15, <2>1, <2>2 DEF VisitedWords
  <2>3. CASE w \in ImageOf(static)
    BY <1>15, <1>17, <2>1, <2>3 DEF VisitedWords, PointerInv, DirtyInv, ImageOf, HoldersTyped
  <2>4. CASE w \in ImageOf(stack)
    <3>1. CASE w \in pinned
      BY <1>5, <1>13, <2>1, <3>1
    <3>2. CASE w \notin pinned
      <4>1. GenOf(PageOf(w)) = "Tenured" /\ cycle \in {"minor", "static"}
        BY <1>1, <1>17, <2>4, <3>2 DEF PointerInv, StackInv
      <4>2. from \in {"G0", "G1"}
        BY <1>1, <4>1, MinorIsYoung
      <4>3. QED
        BY <1>12, <2>1, <4>1, <4>2
    <3>3. QED
      BY <3>1, <3>2
  <2>5. CASE w \in ImageOf(handle)
    <3>1. w \in PinSet
      BY <1>5, <1>17, <2>5 DEF ExplicitPins
    <3>2. QED
      BY <1>13, <2>1, <3>1
  <2>6. QED
    BY <2>2, <2>3, <2>4, <2>5 DEF HeldWords
<1>18. KeptInv'
  <2>1. PinSet \subseteq Kept'
    <3>1. ASSUME NEW w \in pinned PROVE w \in Kept'
      <4>1. w \in Kept
        BY DEF PointerInv, KeptInv
      <4>2. QED
        BY <1>5, <1>13, <4>1
    <3>2. ASSUME NEW w \in ExplicitPins PROVE w \in Kept'
      BY <1>17 DEF ExplicitPins, HeldWords
    <3>3. QED
      BY <1>5, <3>1, <3>2
  <2>2. QED
    BY <1>1, <1>16, <1>17, <2>1 DEF KeptInv, Safe, HeldWords
<1>19. FollowInv' /\ RewrittenInv'
  BY <1>1, <1>2, <1>4 DEF FollowInv, RewrittenInv, IsForward
<1>20. StackInv'
  <2> SUFFICES ASSUME NEW w \in ImageOf(stack) \ {Null}
               PROVE  w \in pinned' \/ (GenOf(PageOf(w))' = "Tenured" /\ cycle \in {"minor", "static"})
    BY <1>1 DEF StackInv
  <2>1. w \in Objects
    BY <1>9, <1>17 DEF HeldWords
  <2>2. w \in pinned \/ (GenOf(PageOf(w)) = "Tenured" /\ cycle \in {"minor", "static"})
    BY <1>1 DEF PointerInv, StackInv
  <2>3. QED
    BY <1>1, <1>4, <1>5, <2>1, <2>2
<1>21. DirtyInv'
  <2>1. ASSUME NEW a \in Kept', Strays(a)' PROVE CardOf(a) \in cards
    <3>1. a \in Kept /\ IsObject(a) /\ a \in Objects /\ cell[a].ptr \in Objects \cup {Null}
      BY <1>2, <1>9, <1>11, <1>16
    <3>2. Strays(a)
      BY <1>1, <1>4, <2>1, <3>1 DEF Strays
    <3>3. QED
      BY <1>2, <3>1, <3>2 DEF PointerInv, DirtyInv
  <2>2. QED
    BY <1>1, <2>1 DEF PointerInv, DirtyInv, CardOf
<1>22. MarkedInv'
  BY <1>1 DEF MarkedInv
<1>23. QED
  BY <1>18, <1>19, <1>20, <1>21, <1>22 DEF PointerInv

-----------------------------------------------------------------------------
(* The chunk loop.                                                         *)

\* A chunk is picked, or a copy finds no room.
LEMMA PointerStays ==
  ASSUME Sound, Sound', PointerInv, PickChunk \/ MidEvacOom, UNCHANGED cycleVars
  PROVE  PointerInv'
<1> USE DEF Sound, CycleInv, TypeInv
<1>1. /\ \/ phase = "chunk" /\ phase' = "copy"
         \/ phase = "copy" /\ phase' = "stalled" /\ UNCHANGED <<chunk, fromPages, next>>
      /\ UNCHANGED <<desc, cell, starts, cards, root, static, staticCards, stack, handle,
                     pinned, from, dest, premarked, marks, cycle>>
  BY DEF PickChunk, MidEvacOom, heapVars, tableVars, holderVars, passVars, loopVars, cycleVars
<1>2. Looping /\ Looping' /\ Unmoved' = Unmoved
  <2>1. CASE PickChunk
    BY <1>1, <2>1, LoopPick DEF PickChunk, Looping, Busy
  <2>2. CASE MidEvacOom
    BY <1>1, <2>2 DEF MidEvacOom, Looping, Busy, Unmoved, Pending
  <2>3. QED
    BY <2>1, <2>2
<1>3. Objects' = Objects /\ Kept' = Kept
  BY <1>1, <1>2 DEF Objects, Kept, Doomed, GenOf, PageOf
<1>4. \A p : Busy /\ p \in chunk => Busy' /\ p \in chunk'
  BY <1>1 DEF Busy
<1>5. KeptInv' /\ StackInv' /\ RewrittenInv' /\ MarkedInv'
  BY <1>1, <1>3 DEF PointerInv, KeptInv, StackInv, RewrittenInv, MarkedInv, Safe, HeldWords,
     IsObject, GenOf, PageOf
<1>6. FollowInv'
  BY <1>1, <1>2, <1>3 DEF PointerInv, FollowInv, IsForward, IsObject, GenOf, PageOf
<1>7. DirtyInv'
  BY <1>1, <1>3, <1>4 DEF PointerInv, DirtyInv, Strays, IsObject, GenOf, PageOf, CardOf
<1>8. QED
  BY <1>5, <1>6, <1>7 DEF PointerInv

\* A copied object leaves a marker and goes to a page that the loop does not
\* deal with.
LEMMA CopyMoves ==
  ASSUME Sound, Sound', CopyObject
  PROVE  \E src \in Objects, dst \in Addr :
           /\ IsObject(src) /\ src \in marks
           /\ PageOf(src) \in chunk /\ PageOf(src) \in Unmoved
           /\ dst = NextSlot(dest) /\ dst \notin Objects
           /\ Objects' = Objects \cup {dst}
           /\ cell'[src] = Forward(dst) /\ cell'[dst] = cell[src]
           /\ \A a \in Objects : a # src => cell'[a] = cell[a]
           /\ \A a \in Objects : desc'[PageOf(a)] = desc[PageOf(a)]
           /\ PageOf(dst) \notin Unmoved /\ desc'[PageOf(dst)].gen = dest
           /\ Looping /\ Looping' /\ Busy /\ Busy' /\ Unmoved' = Unmoved
<1> USE DEF Sound, CycleInv, TypeInv
<1>1. PICK src \in ToCopy :
        /\ cell' = [CellsWithNext(dest, cell[src]) EXCEPT ![src] = Forward(NextSlot(dest))]
        /\ src \in Addr
  <2>1. Least(ToCopy) \in ToCopy /\ Least(ToCopy) \in Addr
    BY SourceIs DEF CopyObject
  <2>2. QED
    BY <2>1 DEF CopyObject
<1>2. /\ CanPlace(dest) /\ Claim(dest) /\ dest \in Generation /\ from \in Generation
      /\ starts' = StartsWithNext(dest)
      /\ cards' = cards \cup {CardOf(NextSlot(dest))}
      /\ phase = "copy" /\ phase' = "copy"
      /\ UNCHANGED <<root, static, staticCards, stack, handle, pinned, from, dest, premarked,
                     marks, fromPages, next, chunk>>
  BY DEF CopyObject, PassTyped, evacVars, holderVars, passVars, loopVars
<1>3. Looping /\ Looping' /\ Busy /\ Busy' /\ Unmoved' = Unmoved
  BY <1>2, LoopCopy DEF Looping, Busy
<1>4. \A g \in Generation : Exclusive(g)
  BY <1>2 DEF RegionInv, Handed
<1>5. PICK dst \in Addr :
        /\ dst = NextSlot(dest) /\ dst \notin Objects
        /\ Objects' = Objects \cup {dst}
        /\ \A a \in Objects : \A c : CellsWithNext(dest, c)[a] = cell[a]
        /\ \A a \in Objects : desc'[PageOf(a)] = desc[PageOf(a)]
  BY <1>2, <1>4, ObjectPlaced
<1>6. /\ src \in Objects /\ IsObject(src) /\ src \in marks
      /\ PageOf(src) \in chunk /\ PageOf(src) \in Unmoved
  <2>1. /\ src \in starts /\ GenOf(PageOf(src)) = from /\ PageOf(src) \in chunk
        /\ ~IsForward(src) /\ src \in marks
    BY DEF ToCopy
  <2>2. src \in Objects
    BY <1>2, <2>1 DEF Objects, Generation
  <2>3. QED
    BY <1>3, <2>1, <2>2 DEF ObjectInv, ForwardInv, Unmoved
<1>7. /\ cell'[src] = Forward(dst) /\ cell'[dst] = cell[src]
      /\ \A a \in Objects : a # src => cell'[a] = cell[a]
  <2>1. \A a \in Addr : a \in DOMAIN CellsWithNext(dest, cell[src])
    BY DEF CellsWithNext
  <2>2. \A a \in Objects : a \in Addr
    BY ObjectsAre
  <2>3. dst # src
    BY <1>5, <1>6
  <2>4. CellsWithNext(dest, cell[src])[dst] = cell[src]
    BY <1>5 DEF CellsWithNext
  <2>5. QED
    BY <1>1, <1>5, <2>1, <2>2, <2>3, <2>4
<1>8. PageOf(dst) \notin Unmoved /\ desc'[PageOf(dst)].gen = dest
  <2>1. CASE HasRoom(dest)
    <3>1. region[dest].page \in Page /\ region[dest].offset \in 0 .. PageSize - 1
          /\ dst = Base(region[dest].page) + region[dest].offset /\ UNCHANGED desc
      BY <1>2, <1>5, <2>1, RegionIs, PageTableAssumption DEF HasRoom, NextSlot, Claim
    <3>2. PageOf(dst) = region[dest].page
      BY <3>1, SlotIn
    <3>3. region[dest].page \notin Unmoved
      BY <1>2, <1>3 DEF RegionInv, Withdrawn
    <3>4. GenOf(region[dest].page) = dest
      BY <1>2, <1>4, <2>1 DEF Exclusive, Owns, HasRoom
    <3>5. QED
      BY <3>1, <3>2, <3>3, <3>4 DEF GenOf, PageOf
  <2>2. CASE ~HasRoom(dest)
    <3>1. PICK n \in Page : /\ GenOf(n) = "Free" /\ dst = Base(n)
                            /\ desc' = [desc EXCEPT ![n] = SmallDesc(dest)]
      BY <1>2, <1>5, <2>2, NextFreeIs DEF CanPlace, Claim, NextSlot
    <3>2. PageOf(dst) = n
      <4>1. 0 \in 0 .. PageSize - 1 /\ Base(n) + 0 = Base(n)
        BY PageTableAssumption DEF Page, Base
      <4>2. QED
        BY <3>1, <4>1, SlotIn
    <3>3. n \notin Unmoved
      BY <1>2, <1>3, <3>1 DEF RegionInv, Withdrawn, Generation
    <3>4. desc'[n].gen = dest
      BY <3>1 DEF TableTyped, SmallDesc
    <3>5. QED
      BY <3>2, <3>3, <3>4 DEF GenOf, PageOf
  <2>3. QED
    BY <2>1, <2>2
<1>9. QED
  BY <1>3, <1>5, <1>6, <1>7, <1>8

\* A copy is on a dirty card of a page that the loop does not deal with, and
\* takes over the pointer of its source.
LEMMA PointerCopy ==
  ASSUME Sound, Sound', PointerInv, CopyObject, UNCHANGED cycleVars
  PROVE  PointerInv'
<1> USE DEF Sound, CycleInv, TypeInv
<1>1. PICK src \in Objects, dst \in Addr :
        /\ IsObject(src) /\ src \in marks
        /\ PageOf(src) \in chunk /\ PageOf(src) \in Unmoved
        /\ dst = NextSlot(dest) /\ dst \notin Objects
        /\ Objects' = Objects \cup {dst}
        /\ cell'[src] = Forward(dst) /\ cell'[dst] = cell[src]
        /\ \A a \in Objects : a # src => cell'[a] = cell[a]
        /\ \A a \in Objects : desc'[PageOf(a)] = desc[PageOf(a)]
        /\ PageOf(dst) \notin Unmoved /\ desc'[PageOf(dst)].gen = dest
        /\ Looping /\ Looping' /\ Busy /\ Busy' /\ Unmoved' = Unmoved
  BY CopyMoves
<1>2. /\ dest \in Generation /\ from \in Generation
      /\ cards' = cards \cup {CardOf(dst)}
      /\ phase = "copy" /\ phase' = "copy"
      /\ UNCHANGED <<root, static, staticCards, stack, handle, pinned, from, dest, premarked,
                     marks, fromPages, next, chunk, cycle>>
  BY <1>1 DEF CopyObject, PassTyped, evacVars, holderVars, passVars, loopVars, cycleVars
<1>3. Kept' = Kept \cup {dst}
  BY <1>1, <1>2 DEF Kept, Doomed, PageOf
<1>4. \A a \in Objects : GenOf(PageOf(a))' = GenOf(PageOf(a))
  BY <1>1 DEF GenOf, PageOf
<1>5. /\ \A a \in Kept : IsObject(a) => cell[a].ptr = Null \/ cell[a].ptr \in Kept
      /\ src \in Kept
  BY <1>1 DEF PointerInv, KeptInv, Safe, Kept
<1>6. \A a \in Kept' : IsObject(a)' =>
        /\ cell'[a].ptr = Null \/ cell'[a].ptr \in Kept
        /\ a = dst \/ (a \in Kept /\ a # src /\ IsObject(a) /\ cell'[a] = cell[a])
  <2> SUFFICES ASSUME NEW a \in Kept', cell'[a].tag = "object"
               PROVE  /\ cell'[a].ptr = Null \/ cell'[a].ptr \in Kept
                      /\ a = dst \/ (a \in Kept /\ a # src /\ IsObject(a) /\ cell'[a] = cell[a])
    BY DEF IsObject
  <2>1. CASE a = dst
    BY <1>1, <1>5, <2>1
  <2>2. CASE a # dst
    <3>1. a \in Kept /\ a \in Objects /\ a # src
      BY <1>1, <1>3, <2>2 DEF Kept, Forward
    <3>2. QED
      BY <1>1, <1>5, <3>1 DEF IsObject
  <2>3. QED
    BY <2>1, <2>2
<1>7. KeptInv'
  BY <1>2, <1>3, <1>6 DEF PointerInv, KeptInv, Safe, HeldWords
<1>8. FollowInv'
  <2>1. ASSUME NEW a \in Objects', cell'[a].tag = "forward"
        PROVE  \E t : /\ t = cell'[a].to /\ a \in marks
                      /\ t \in Objects' /\ cell'[t].tag = "object"
                      /\ PageOf(t) \notin Unmoved /\ desc'[PageOf(t)].gen = dest
    <3>1. CASE a = src
      <4>1. cell'[a].to = dst
        BY <1>1, <3>1 DEF Forward
      <4>2. QED
        BY <1>1, <3>1, <4>1 DEF IsObject, GenOf, PageOf
    <3>2. CASE a # src
      <4>1. a \in Objects /\ cell'[a] = cell[a] /\ IsForward(a)
        BY <1>1, <2>1, <3>2 DEF IsObject, IsForward
      <4> DEFINE t == cell[a].to
      <4>2. /\ a \in marks /\ t \in Objects /\ IsObject(t)
            /\ PageOf(t) \notin Unmoved /\ GenOf(PageOf(t)) = dest
        BY <4>1 DEF PointerInv, FollowInv
      <4>3. t # src
        BY <1>1, <4>2
      <4>4. cell'[t] = cell[t] /\ desc'[PageOf(t)] = desc[PageOf(t)] /\ t \in Objects'
        BY <1>1, <4>2, <4>3
      <4>5. QED
        BY <4>1, <4>2, <4>4 DEF IsObject, GenOf
    <3>3. QED
      BY <3>1, <3>2
  <2>2. QED
    BY <1>1, <1>2, <2>1 DEF FollowInv, IsForward, IsObject, GenOf, PageOf
<1>9. RewrittenInv' /\ MarkedInv'
  BY <1>2 DEF PointerInv, RewrittenInv, MarkedInv
<1>10. StackInv'
  <2> SUFFICES ASSUME NEW w \in ImageOf(stack) \ {Null}
               PROVE  w \in pinned \/ (GenOf(PageOf(w))' = "Tenured" /\ cycle \in {"minor", "static"})
    BY <1>2 DEF StackInv
  <2>1. w \in Objects
    BY DEF PointerInv, KeptInv, Safe, HeldWords, Kept
  <2>2. QED
    BY <1>2, <1>4, <2>1 DEF PointerInv, StackInv
<1>11. DirtyInv'
  <2>1. ASSUME NEW a \in Kept', IsObject(a)', PageOf(a) \notin chunk, Strays(a)'
        PROVE  CardOf(a) \in cards'
    <3>1. CASE a = dst
      BY <1>1, <1>2, <3>1
    <3>2. CASE a # dst
      <4>1. a \in Kept /\ IsObject(a) /\ cell'[a] = cell[a]
            /\ (cell[a].ptr = Null \/ cell[a].ptr \in Kept)
        BY <1>6, <2>1, <3>2
      <4>2. Strays(a)
        BY <1>4, <2>1, <4>1 DEF Strays, Kept
      <4>3. QED
        BY <1>2, <2>1, <4>1, <4>2 DEF PointerInv, DirtyInv
    <3>3. QED
      BY <3>1, <3>2
  <2>2. QED
    BY <1>1, <1>2, <2>1 DEF PointerInv, DirtyInv, CardOf, PageOf
<1>12. QED
  BY <1>7, <1>8, <1>9, <1>10, <1>11 DEF PointerInv

\* Storing a pointer in an object changes the pointer.
LEMMA PointerStored ==
  ASSUME MemoryTyped, NEW a \in Addr, IsObject(a), NEW w
  PROVE  [cell[a] EXCEPT !.ptr = w].ptr = w /\ [cell[a] EXCEPT !.ptr = w].id = cell[a].id
<1>1. cell[a] \in Contents
  BY DEF MemoryTyped
<1>2. PICK i \in Id, v \in Word : cell[a] = Object(i, v)
  BY <1>1 DEF Contents, IsObject, Zero, Forward
<1>3. QED
  BY <1>2 DEF Object

\* Once a chunk is copied, what is left on it is pinned.
LEMMA LeftOnChunk ==
  ASSUME Sound, phase = "copy", ToCopy = {}, NEW a \in Kept, IsObject(a), PageOf(a) \in chunk
  PROVE  a \in pinned
<1> USE DEF Sound, CycleInv, TypeInv
<1>1. Looping /\ Busy /\ PageOf(a) \in Unmoved
  BY DEF Looping, Busy, Unmoved
<1>2. a \in marks /\ a \in starts /\ ~IsForward(a)
  BY <1>1 DEF Kept, Doomed, Objects, IsObject, IsForward
<1>3. GenOf(PageOf(a)) = from /\ desc[PageOf(a)].kind = "small"
  BY <1>1 DEF RegionInv, Withdrawn
<1>4. a \notin ToCopy
  OBVIOUS
<1>5. IsPinnedCell(a)
  BY <1>2, <1>3, <1>4 DEF ToCopy
<1>6. QED
  BY <1>5 DEF IsPinnedCell

\* A marker that a kept object still points at is on the chunk, and phase 2
\* gets to that object.
LEMMA MarkersFound ==
  ASSUME NoLarge, NoGaps, Sound, OneChunk, PointerInv, phase = "copy", ToCopy = {},
         NEW a \in Kept, IsObject(a), cell[a].ptr # Null, IsForward(cell[a].ptr)
  PROVE  /\ a \in Rewritten
         /\ GenOf(PageOf(cell[a].ptr)) = from
         /\ GenOf(PageOf(a)) # dest /\ PageOf(a) \notin chunk => CardOf(a) \in cards
<1> USE DEF Sound, CycleInv, TypeInv
<1> DEFINE w == cell[a].ptr
<1>1. Looping /\ Busy /\ chunk \subseteq Unmoved
  BY DEF Looping, Busy, Unmoved
<1>2. w \in Objects /\ ~IsObject(w)
  BY DEF PointerInv, KeptInv, Safe, Kept, IsObject, IsForward
<1>3. GenOf(PageOf(w)) = from
  BY <1>1, <1>2 DEF ObjectInv, ForwardInv, RegionInv, Withdrawn
<1>4. /\ a \in Objects /\ a \in Addr /\ a \in starts
      /\ PageOf(a) \in Page /\ GenOf(PageOf(a)) # "Free"
  BY ObjectsAre DEF Kept, GenOf
<1>5. CASE GenOf(PageOf(a)) = dest
  BY <1>3, <1>4, <1>5 DEF Rewritten
<1>6. CASE GenOf(PageOf(a)) = from /\ from # dest
  <2>1. PageOf(a) \in Unmoved
    BY <1>1, <1>4, <1>6 DEF LoopInv, ListedInv, PagesIn
  <2>2. PageOf(a) \in chunk
    BY <1>1, <1>6, <2>1 DEF OneChunk, Unmoved
  <2>3. a \in pinned
    BY <2>2, LeftOnChunk
  <2>4. QED
    BY <1>3, <1>4, <2>2, <2>3 DEF Rewritten
<1>7. CASE GenOf(PageOf(a)) # from /\ GenOf(PageOf(a)) # dest
  <2>1. PageOf(a) \notin chunk
    BY <1>1, <1>7 DEF RegionInv, Withdrawn
  <2>2. CardOf(a) \in cards
    BY <1>3, <1>7, <2>1 DEF PointerInv, DirtyInv, Strays
  <2>3. scanning /\ snapshot[PageOf(a)] = GenOf(PageOf(a))
    BY <1>1, <1>4, <1>7 DEF ScanInv
  <2>4. CardOf(a) \in ScannedCards
    BY <1>4, <1>7, <2>2, <2>3, CardIs DEF ScannedCards
  <2>5. a \in Walked(CardOf(a))
    BY <1>4, WalkReaches
  <2>6. a \in ScannedObjects
    BY <2>4, <2>5 DEF ScannedObjects
  <2>7. QED
    BY <1>3, <2>2, <2>6 DEF Rewritten
<1>8. QED
  BY <1>5, <1>6, <1>7

\* Where a word leads: to the copy of what it names, or where it did.
LEMMA FollowedTo ==
  ASSUME Sound, PointerInv, phase = "copy", NEW w, Safe(w)
  PROVE  /\ w = Null => Followed(w) = Null
         /\ w # Null =>
              /\ Followed(w) \in Kept /\ IsObject(Followed(w)) /\ Followed(w) # Null
              /\ IsForward(w) => /\ Followed(w) = cell[w].to
                                 /\ GenOf(PageOf(Followed(w))) = dest
              /\ ~IsForward(w) => Followed(w) = w
<1> USE DEF Sound, CycleInv, TypeInv
<1>1. Looping /\ Busy /\ Doomed = Unmoved /\ Null \notin Int
  BY PageTableAssumption DEF Looping, Busy, Doomed
<1>2. CASE w = Null
  BY <1>2 DEF Followed
<1>3. CASE w # Null /\ IsForward(w)
  <2>1. w \in Objects /\ w \in starts /\ GenOf(PageOf(w)) # "Free"
    BY <1>3 DEF Safe, Kept, Objects
  <2>2. Followed(w) = cell[w].to
    BY <1>3, <2>1 DEF Followed
  <2>3. /\ cell[w].to \in Objects /\ IsObject(cell[w].to)
        /\ PageOf(cell[w].to) \notin Unmoved /\ GenOf(PageOf(cell[w].to)) = dest
    BY <1>3, <2>1 DEF PointerInv, FollowInv
  <2>4. cell[w].to \in Kept
    BY <1>1, <2>3 DEF Kept
  <2>5. cell[w].to # Null
    BY <1>1, <2>3, ObjectsAre DEF Addr
  <2>6. QED
    BY <1>3, <2>2, <2>3, <2>4, <2>5
<1>4. CASE w # Null /\ ~IsForward(w)
  <2>1. w \in Kept /\ IsObject(w)
    BY <1>4 DEF Safe, Kept, ObjectInv, ForwardInv
  <2>2. QED
    BY <1>4, <2>1 DEF Followed
<1>5. QED
  BY <1>2, <1>3, <1>4

\* Phase 2 follows every marker: in the holders that may be rewritten, and in
\* every object that is kept.
LEMMA RewriteFollows ==
  ASSUME NoLarge, NoGaps, Sound, OneChunk, PointerInv, Rewrite
  PROVE  /\ phase = "copy" /\ phase' = "reclaim" /\ ToCopy = {}
         /\ Looping /\ Looping' /\ Busy /\ Busy' /\ Unmoved' = Unmoved
         /\ Objects' = Objects /\ Kept' = Kept
         /\ \A a \in Objects : /\ a \in Addr
                               /\ cell'[a].tag = cell[a].tag
                               /\ ~IsObject(a) => cell'[a] = cell[a]
         /\ \A a \in Kept : IsObject(a) => /\ cell'[a].ptr = Followed(cell[a].ptr)
                                           /\ cell'[a].id = cell[a].id
                                           /\ Safe(cell[a].ptr)
         /\ \A w : Safe(w) => Followed(w) = Null \/ (Followed(w) \in Kept /\ IsObject(Followed(w)))
         /\ \A r \in Root : Safe(root[r]) /\ root'[r] = Followed(root[r])
         /\ \A x \in Static : Safe(static[x]) /\ static'[x] = Followed(static[x])
         /\ \A w \in ImageOf(stack) \cup ImageOf(handle) : w = Null \/ (w \in Kept /\ IsObject(w))
         /\ \A w \in HeldWords' : w = Null \/ (w \in Kept /\ IsObject(w))
<1> USE DEF Sound, CycleInv, TypeInv
<1>1. /\ phase = "copy" /\ phase' = "reclaim" /\ ToCopy = {}
      /\ UNCHANGED <<desc, starts, cards, staticCards, stack, handle, pinned, from, dest,
                     premarked, marks, fromPages, next, chunk>>
      /\ root' = [r \in Root |-> Followed(root[r])]
      /\ static' = [s \in Static |->
                      IF s \in staticCards THEN Followed(static[s]) ELSE static[s]]
      /\ cell' = [a \in Addr |->
                    IF a \in Rewritten /\ IsObject(a)
                      THEN [cell[a] EXCEPT !.ptr = Followed(cell[a].ptr)]
                      ELSE cell[a]]
  BY DEF Rewrite, tableVars, passVars, loopVars
<1>2. Looping /\ Looping' /\ Busy /\ Busy' /\ Unmoved' = Unmoved /\ ~premarked
  BY <1>1 DEF Looping, Busy, Unmoved, Pending, PointerInv, MarkedInv
<1>3. Objects' = Objects /\ Kept' = Kept /\ \A p : GenOf(p)' = GenOf(p)
  BY <1>1, <1>2 DEF Objects, Kept, Doomed, GenOf, PageOf
<1>4. \A a \in Objects : a \in Addr
  BY ObjectsAre
<1>5. \A a \in Objects : cell'[a].tag = cell[a].tag
  BY <1>1, <1>4, TagKept
<1>6. \A a \in Objects : ~IsObject(a) => cell'[a] = cell[a]
  BY <1>1, <1>4
<1>7. \A a \in Kept : IsObject(a) =>
        /\ cell'[a].ptr = Followed(cell[a].ptr) /\ cell'[a].id = cell[a].id
        /\ Safe(cell[a].ptr)
  <2> SUFFICES ASSUME NEW a \in Kept, IsObject(a)
               PROVE  cell'[a].ptr = Followed(cell[a].ptr) /\ cell'[a].id = cell[a].id
    BY DEF PointerInv, KeptInv
  <2>1. a \in Addr /\ Safe(cell[a].ptr)
    BY <1>4 DEF Kept, PointerInv, KeptInv
  <2>2. CASE a \in Rewritten
    BY <1>1, <2>1, <2>2, PointerStored
  <2>3. CASE a \notin Rewritten
    <3>1. cell'[a] = cell[a]
      BY <1>1, <2>1, <2>3
    <3>2. cell[a].ptr = Null \/ ~IsForward(cell[a].ptr)
      BY <1>1, <2>3, MarkersFound
    <3>3. Followed(cell[a].ptr) = cell[a].ptr
      BY <1>1, <2>1, <3>2, FollowedTo
    <3>4. QED
      BY <3>1, <3>3
  <2>4. QED
    BY <2>2, <2>3
<1>8. \A w : Safe(w) => Followed(w) = Null \/ (Followed(w) \in Kept /\ IsObject(Followed(w)))
  BY <1>1, FollowedTo
<1>9. \A r \in Root : Safe(root[r]) /\ root'[r] = Followed(root[r])
  BY <1>1 DEF PointerInv, KeptInv, HeldWords, ImageOf, HoldersTyped
<1>10. \A s \in Static : Safe(static[s]) /\ static'[s] = Followed(static[s])
  <2> SUFFICES ASSUME NEW s \in Static PROVE Safe(static[s]) /\ static'[s] = Followed(static[s])
    OBVIOUS
  <2>1. Safe(static[s]) /\ (static[s] = Null \/ s \in staticCards)
    BY DEF PointerInv, KeptInv, HeldWords, ImageOf, HoldersTyped, DirtyInv
  <2>2. static[s] = Null => Followed(static[s]) = Null
    BY DEF Followed
  <2>3. QED
    BY <1>1, <2>1, <2>2
<1>11. \A w \in ImageOf(stack) \cup ImageOf(handle) : w = Null \/ (w \in Kept /\ IsObject(w))
  <2>1. \A w \in ImageOf(stack) : w = Null \/ (w \in Kept /\ IsObject(w))
    <3> SUFFICES ASSUME NEW w \in ImageOf(stack), w # Null PROVE w \in Kept /\ IsObject(w)
      OBVIOUS
    <3>1. w \in Kept
      BY DEF PointerInv, KeptInv, HeldWords, Safe
    <3>2. CASE w \in pinned
      BY <3>1, <3>2 DEF ObjectInv, PinInv
    <3>3. CASE w \notin pinned
      <4>1. GenOf(PageOf(w)) = "Tenured" /\ cycle \in {"minor", "static"}
        BY <1>1, <3>3 DEF PointerInv, StackInv
      <4>2. from \in {"G0", "G1"}
        BY <1>1, <4>1, MinorIsYoung
      <4>3. PageOf(w) \notin chunk
        BY <1>2, <4>1, <4>2 DEF RegionInv, Withdrawn, Unmoved
      <4>4. QED
        BY <3>1, <4>3 DEF Kept, ObjectInv, ForwardInv
    <3>4. QED
      BY <3>2, <3>3
  <2>2. \A w \in ImageOf(handle) : w = Null \/ (w \in Kept /\ IsObject(w))
    <3>1. \A w \in ImageOf(handle) \ {Null} : w \in pinned
      BY <1>2 DEF ObjectInv, HandleInv, ExplicitPins
    <3>2. QED
      BY <3>1 DEF ObjectInv, PinInv, PointerInv, KeptInv
  <2>3. QED
    BY <2>1, <2>2
<1>12. \A w \in HeldWords' : w = Null \/ (w \in Kept /\ IsObject(w))
  <2>1. \A w \in ImageOf(root') : w = Null \/ (w \in Kept /\ IsObject(w))
    BY <1>1, <1>8, <1>9 DEF ImageOf
  <2>2. \A w \in ImageOf(static') : w = Null \/ (w \in Kept /\ IsObject(w))
    BY <1>1, <1>8, <1>10 DEF ImageOf
  <2>3. QED
    BY <1>1, <1>11, <2>1, <2>2 DEF HeldWords
<1>13. QED
  BY <1>1, <1>2, <1>3, <1>4, <1>5, <1>6, <1>7, <1>8, <1>9, <1>10, <1>11, <1>12

\* Phase 2 leaves no word that leads to a marker.
LEMMA PointerRewrite ==
  ASSUME NoLarge, NoGaps, Sound, Sound', OneChunk, PointerInv, Rewrite, UNCHANGED cycleVars
  PROVE  PointerInv'
<1> USE DEF Sound, CycleInv, TypeInv
<1>1. /\ phase = "copy" /\ phase' = "reclaim" /\ ToCopy = {}
      /\ Looping /\ Looping' /\ Busy /\ Busy' /\ Unmoved' = Unmoved
      /\ Objects' = Objects /\ Kept' = Kept
      /\ \A a \in Objects : /\ a \in Addr
                            /\ cell'[a].tag = cell[a].tag
                            /\ ~IsObject(a) => cell'[a] = cell[a]
      /\ \A a \in Kept : IsObject(a) => /\ cell'[a].ptr = Followed(cell[a].ptr)
                                        /\ cell'[a].id = cell[a].id
                                        /\ Safe(cell[a].ptr)
      /\ \A w : Safe(w) => Followed(w) = Null \/ (Followed(w) \in Kept /\ IsObject(Followed(w)))
      /\ \A r \in Root : Safe(root[r]) /\ root'[r] = Followed(root[r])
      /\ \A x \in Static : Safe(static[x]) /\ static'[x] = Followed(static[x])
      /\ \A w \in ImageOf(stack) \cup ImageOf(handle) : w = Null \/ (w \in Kept /\ IsObject(w))
      /\ \A w \in HeldWords' : w = Null \/ (w \in Kept /\ IsObject(w))
  BY RewriteFollows
<1>2. UNCHANGED <<desc, starts, cards, staticCards, stack, handle, pinned, from, dest,
                  premarked, marks, fromPages, next, chunk, cycle>>
  BY DEF Rewrite, tableVars, passVars, loopVars, cycleVars
<1>3. \A p : GenOf(p)' = GenOf(p)
  BY <1>2 DEF GenOf
<1>4. \A a \in Kept : IsObject(a) =>
        cell'[a].ptr = Null \/ (cell'[a].ptr \in Kept /\ IsObject(cell'[a].ptr))
  BY <1>1
<1>5. \A a \in Objects : IsObject(a)' <=> IsObject(a)
  BY <1>1 DEF IsObject
<1>6. KeptInv'
  BY <1>1, <1>2, <1>3, <1>4, <1>5 DEF PointerInv, KeptInv, Safe, Kept
<1>7. FollowInv'
  <2>1. ASSUME NEW a \in Objects, cell'[a].tag = "forward"
        PROVE  \E t : /\ t = cell'[a].to /\ a \in marks
                      /\ t \in Objects /\ cell'[t].tag = "object"
                      /\ PageOf(t) \notin Unmoved /\ desc[PageOf(t)].gen = dest
    <3>1. IsForward(a) /\ cell'[a] = cell[a]
      BY <1>1, <2>1 DEF IsForward, IsObject
    <3> DEFINE t == cell[a].to
    <3>2. /\ a \in marks /\ t \in Objects /\ IsObject(t)
          /\ PageOf(t) \notin Unmoved /\ GenOf(PageOf(t)) = dest
      BY <3>1 DEF PointerInv, FollowInv
    <3>3. cell'[t].tag = "object"
      BY <1>1, <3>2 DEF IsObject
    <3>4. QED
      BY <3>1, <3>2, <3>3 DEF GenOf
  <2>2. QED
    BY <1>1, <1>2, <1>3, <2>1 DEF FollowInv, IsForward, IsObject, GenOf, PageOf
<1>8. RewrittenInv'
  <2>1. \A a \in Kept : IsObject(a) /\ PageOf(a) \in chunk => a \in pinned
    BY <1>1, <1>2, LeftOnChunk
  <2>2. \A w : (w = Null \/ (w \in Kept /\ IsObject(w))) => Still(w)'
    BY <1>1, <1>3, <1>5 DEF Still, Kept
  <2>3. ASSUME NEW a \in Kept', IsObject(a)'
        PROVE  /\ \E w : w = cell'[a].ptr /\ Still(w)'
               /\ PageOf(a) \in chunk => a \in pinned
    <3>1. a \in Kept /\ IsObject(a)
      BY <1>1, <1>3, <1>5, <2>3 DEF Kept
    <3>2. QED
      BY <1>4, <2>1, <2>2, <3>1
  <2>4. \A w \in HeldWords' : Still(w)'
    BY <1>1, <2>2
  <2>5. QED
    BY <1>1, <1>2, <2>3, <2>4 DEF RewrittenInv, PageOf
<1>9. StackInv' /\ MarkedInv'
  BY <1>1, <1>2, <1>3 DEF PointerInv, StackInv, MarkedInv, PageOf
<1>10. DirtyInv'
  <2>1. ASSUME NEW a \in Kept, IsObject(a), PageOf(a) \notin chunk,
               cell'[a].ptr # Null, GenOf(PageOf(cell'[a].ptr)) # GenOf(PageOf(a))
        PROVE  CardOf(a) \in cards
    <3>1. cell'[a].ptr = Followed(cell[a].ptr) /\ Safe(cell[a].ptr) /\ cell[a].ptr # Null
      BY <1>1, <1>2, <2>1, FollowedTo
    <3>2. CASE IsForward(cell[a].ptr)
      <4>1. GenOf(PageOf(cell'[a].ptr)) = dest
        BY <1>1, <1>2, <3>1, <3>2, FollowedTo
      <4>2. QED
        BY <1>1, <1>2, <2>1, <3>1, <3>2, <4>1, MarkersFound
    <3>3. CASE ~IsForward(cell[a].ptr)
      <4>1. cell'[a].ptr = cell[a].ptr
        BY <1>1, <1>2, <3>1, <3>3, FollowedTo
      <4>2. QED
        BY <2>1, <4>1 DEF PointerInv, DirtyInv, Strays
    <3>4. QED
      BY <3>2, <3>3
  <2>2. \A s \in Static : static'[s] # Null => s \in staticCards'
    <3>1. \A s \in Static : static[s] # Null => s \in staticCards
      BY DEF PointerInv, DirtyInv
    <3>2. QED
      BY <1>1, <1>2, <3>1 DEF Followed
  <2>3. \A a \in Kept' : IsObject(a)' /\ ~(Busy' /\ PageOf(a) \in chunk') /\ Strays(a)'
          => CardOf(a) \in cards'
    <3> SUFFICES ASSUME NEW a \in Kept', IsObject(a)', PageOf(a) \notin chunk', Strays(a)'
                 PROVE  CardOf(a) \in cards'
      BY <1>1
    <3>1. /\ a \in Kept /\ IsObject(a) /\ PageOf(a) \notin chunk
          /\ cell'[a].ptr # Null
      BY <1>1, <1>2, <1>3, <1>5 DEF Kept, Strays
    <3>2. desc'[PageOf(cell'[a].ptr)].gen # desc'[PageOf(a)].gen
      BY DEF Strays, GenOf, PageOf
    <3>3. GenOf(PageOf(cell'[a].ptr)) # GenOf(PageOf(a))
      BY <1>1, <1>2, <3>2 DEF GenOf
    <3>4. QED
      BY <1>1, <1>2, <2>1, <3>1, <3>3
  <2>4. QED
    BY <2>2, <2>3 DEF DirtyInv, CardOf, PageOf
<1>11. QED
  BY <1>6, <1>7, <1>8, <1>9, <1>10 DEF PointerInv

\* Phase 3 keeps what is pinned on the chunk, and all that is not on it.
LEMMA ReclaimLeaves ==
  ASSUME NoLarge, Sound, PointerInv, Reclaim
  PROVE  /\ Looping /\ Busy /\ Looping' /\ ~Busy' /\ Unmoved = Pending \cup chunk
         /\ \A p \in chunk : GenOf(p) = from /\ p \in Page
         /\ \A p \in Page : p \notin chunk => desc'[p].gen = desc[p].gen
         /\ \A p \in SmallFlips : desc'[p].gen = dest /\ p \in chunk
         /\ \A a \in pinned : a \in Objects /\ (PageOf(a) \in chunk => PageOf(a) \in SmallFlips)
         /\ \A a \in Objects : a \in Addr /\ a \in starts /\ PageOf(a) \in Page
         /\ \A a \in Objects' : a \in Objects /\ cell'[a] = cell[a]
         /\ \A a : a \in Kept' <=> a \in Kept /\ (PageOf(a) \in chunk => a \in pinned)
<1> USE DEF Sound, CycleInv, TypeInv
<1> DEFINE kept == {a \in starts : \/ PageOf(a) \notin Released \cup Flipped
                                   \/ PageOf(a) \in LargeFlips}
                     \cup {a \in pinned : PageOf(a) \in SmallFlips}
<1>1. /\ phase = "reclaim" /\ phase' = "chunk"
      /\ chunk \subseteq Page /\ dest \in Generation /\ from \in Generation
      /\ UNCHANGED <<root, static, staticCards, stack, handle, pinned, from, dest, premarked,
                     marks, fromPages, next, chunk>>
      /\ starts' = kept
      /\ cell' = [a \in Addr |->
              IF PageOf(a) \in Released \cup SmallFlips /\ a \notin kept
                THEN Zero ELSE cell[a]]
      /\ cards' = cards \cup {CardOf(a) : a \in {b \in pinned : PageOf(b) \in SmallFlips}}
  BY DEF Reclaim, passVars, loopVars, holderVars, PassTyped
<1>2. \A p \in chunk : ~IsLargeHead(p)
  BY <1>1 DEF Shape, KindInv, IsLargeHead
<1>3. /\ LargeFlips = {}
      /\ Flipped = SmallFlips
      /\ Released = {p \in chunk : desc[p].kind = "small" /\ ~desc[p].pins}
  BY <1>2 DEF Released, Flipped, LargeFlips, LargeRuns
<1>4. /\ Looping /\ Busy /\ Looping' /\ ~Busy' /\ Unmoved = Pending \cup chunk
      /\ Unmoved' = Pending /\ Doomed = Unmoved /\ Doomed' = Pending
  BY <1>1 DEF Unmoved, Pending, Busy, Looping, Doomed
<1>5. \A p \in chunk : GenOf(p) = from /\ desc[p].kind = "small" /\ p \in Page
  BY <1>1, <1>4 DEF RegionInv, Withdrawn
<1>6. \A p \in chunk : p \in SmallFlips \/ p \in Released
  BY <1>3, <1>5 DEF SmallFlips
<1>7. /\ \A p \in Page : p \notin chunk => desc'[p].gen = desc[p].gen
      /\ \A p \in SmallFlips : desc'[p].gen = dest /\ p \in chunk /\ p \notin Released
  <2>1. \A p \in SmallFlips : p \in chunk /\ p \in Page /\ p \notin Released
    BY <1>3, <1>5 DEF SmallFlips
  <2>2. \A p \in Page : p \notin chunk => p \notin Released /\ p \notin Flipped
    BY <1>3 DEF SmallFlips
  <2>3. QED
    BY <1>3, <2>1, <2>2, ReclaimEffect
<1>8. \A a \in pinned : PageOf(a) \in chunk => PageOf(a) \in SmallFlips
  BY <1>5 DEF ObjectInv, PinInv, SmallFlips
<1>9. /\ \A a \in Objects : a \in Addr /\ a \in starts /\ PageOf(a) \in Page
                           /\ desc[PageOf(a)].gen # "Free"
      /\ pinned \subseteq Objects
  BY ObjectsAre DEF ObjectInv, PinInv
<1>10. \A a : a \in Objects' <=> a \in Objects /\ (PageOf(a) \in chunk => a \in pinned)
  <2>1. \A a : a \in Objects' <=> a \in kept /\ desc'[PageOf(a)].gen # "Free"
    BY <1>1 DEF Objects, GenOf, PageOf
  <2>2. ASSUME NEW a, a \in Objects' PROVE a \in Objects /\ (PageOf(a) \in chunk => a \in pinned)
    <3>1. CASE a \in pinned
      BY <1>9, <3>1
    <3>2. CASE a \notin pinned
      <4>1. a \in starts /\ PageOf(a) \notin Released \cup SmallFlips
        BY <1>3, <2>1, <2>2, <3>2
      <4>2. PageOf(a) \notin chunk
        BY <1>6, <4>1
      <4>3. PageOf(a) \in Page
        BY <4>1, PageOfIn DEF MemoryTyped
      <4>4. GenOf(PageOf(a)) # "Free"
        BY <1>7, <2>1, <2>2, <4>2, <4>3 DEF GenOf
      <4>5. QED
        BY <4>1, <4>2, <4>4 DEF Objects
    <3>3. QED
      BY <3>1, <3>2
  <2>3. ASSUME NEW a \in Objects, PageOf(a) \in chunk => a \in pinned PROVE a \in Objects'
    <3>1. CASE PageOf(a) \in chunk
      <4>1. a \in pinned /\ PageOf(a) \in SmallFlips
        BY <1>8, <2>3, <3>1
      <4>2. a \in kept /\ desc'[PageOf(a)].gen # "Free"
        BY <1>1, <1>7, <4>1 DEF Generation
      <4>3. QED
        BY <2>1, <4>2
    <3>2. CASE PageOf(a) \notin chunk
      <4>1. PageOf(a) \notin Released \cup Flipped
        BY <1>3, <3>2 DEF SmallFlips
      <4>2. a \in kept /\ desc'[PageOf(a)].gen # "Free"
        BY <1>7, <1>9, <3>2, <4>1
      <4>3. QED
        BY <2>1, <4>2
    <3>3. QED
      BY <3>1, <3>2
  <2>4. QED
    BY <2>2, <2>3
<1>11. \A a \in Objects' : a \in Objects /\ cell'[a] = cell[a]
  <2>1. \A a \in Objects' : a \in kept
    BY <1>1 DEF Objects
  <2> HIDE DEF kept
  <2>2. QED
    BY <1>1, <1>9, <1>10, <2>1
<1> HIDE DEF kept
<1>12. \A a : a \in Kept' <=> a \in Kept /\ (PageOf(a) \in chunk => a \in pinned)
  <2>1. \A a : a \in Kept' <=> a \in Objects' /\ (PageOf(a) \in Pending => a \in marks)
    BY <1>1, <1>4 DEF Kept, PageOf
  <2>2. pinned \subseteq Kept
    BY DEF PointerInv, KeptInv
  <2>3. QED
    BY <1>4, <1>10, <2>1, <2>2 DEF Kept
<1>13. QED
  BY <1>4, <1>5, <1>7, <1>8, <1>9, <1>11, <1>12

\* What phase 3 leaves of the chunk is pinned, in place and on a dirty card.
LEMMA PointerReclaim ==
  ASSUME NoLarge, Sound, Sound', OneChunk, PointerInv, Reclaim, UNCHANGED cycleVars
  PROVE  PointerInv'
<1> USE DEF Sound, CycleInv, TypeInv
<1>1. /\ Looping /\ Busy /\ Looping' /\ ~Busy' /\ Unmoved = Pending \cup chunk
      /\ \A p \in chunk : GenOf(p) = from /\ p \in Page
      /\ \A p \in Page : p \notin chunk => desc'[p].gen = desc[p].gen
      /\ \A p \in SmallFlips : desc'[p].gen = dest /\ p \in chunk
      /\ \A a \in pinned : a \in Objects /\ (PageOf(a) \in chunk => PageOf(a) \in SmallFlips)
      /\ \A a \in Objects : a \in Addr /\ a \in starts /\ PageOf(a) \in Page
      /\ \A a \in Objects' : a \in Objects /\ cell'[a] = cell[a]
      /\ \A a : a \in Kept' <=> a \in Kept /\ (PageOf(a) \in chunk => a \in pinned)
  BY ReclaimLeaves
<1>2. /\ phase = "reclaim" /\ phase' = "chunk"
      /\ chunk \subseteq Page /\ dest \in Generation /\ from \in Generation
      /\ UNCHANGED <<root, static, staticCards, stack, handle, pinned, from, dest, premarked,
                     marks, fromPages, next, chunk, cycle>>
      /\ cards' = cards \cup {CardOf(a) : a \in {b \in pinned : PageOf(b) \in SmallFlips}}
  BY DEF Reclaim, passVars, loopVars, holderVars, PassTyped, cycleVars
<1>3. \A w : Still(w) => Safe(w)'
  <2>1. \A w \in Kept : IsObject(w) /\ PageOf(w) \in chunk => w \in pinned
    BY <1>2 DEF PointerInv, RewrittenInv
  <2>2. QED
    BY <1>1, <2>1 DEF Still, Safe
<1>4. \A a \in Kept' : IsObject(a)' => a \in Kept /\ IsObject(a) /\ cell'[a] = cell[a]
  <2>1. \A a \in Kept' : a \in Objects'
    BY DEF Kept
  <2>2. QED
    BY <1>1, <2>1 DEF IsObject
<1>5. KeptInv'
  <2>1. ASSUME NEW a \in Kept', IsObject(a)' PROVE \E w : w = cell'[a].ptr /\ Safe(w)'
    BY <1>2, <1>3, <1>4, <2>1 DEF PointerInv, RewrittenInv
  <2>2. ASSUME NEW w \in HeldWords' PROVE Safe(w)'
    BY <1>2, <1>3 DEF PointerInv, RewrittenInv, HeldWords
  <2>3. pinned' \subseteq Kept'
    BY <1>1, <1>2 DEF PointerInv, KeptInv
  <2>4. QED
    BY <2>1, <2>2, <2>3 DEF KeptInv
<1>6. FollowInv'
  BY <1>1 DEF FollowInv, ObjectInv, ForwardInv, IsObject, IsForward
<1>7. RewrittenInv'
  BY <1>2 DEF RewrittenInv
<1>8. StackInv'
  <2> SUFFICES ASSUME NEW w \in ImageOf(stack) \ {Null}, w \notin pinned
               PROVE  desc'[PageOf(w)].gen = "Tenured" /\ cycle \in {"minor", "static"}
    BY <1>2 DEF StackInv, GenOf, PageOf
  <2>1. GenOf(PageOf(w)) = "Tenured" /\ cycle \in {"minor", "static"}
    BY <1>2 DEF PointerInv, StackInv
  <2>2. w \in Objects
    BY DEF PointerInv, KeptInv, HeldWords, Safe, Kept
  <2>3. from \in {"G0", "G1"}
    BY <1>2, <2>1, MinorIsYoung
  <2>4. PageOf(w) \notin chunk /\ PageOf(w) \in Page
    BY <1>1, <2>1, <2>2, <2>3
  <2>5. QED
    BY <1>1, <2>1, <2>4 DEF GenOf
<1>9. MarkedInv'
  BY <1>2 DEF PointerInv, MarkedInv
<1>10. ASSUME NEW a \in Kept, IsObject(a), PageOf(a) \in chunk => a \in pinned,
              cell[a].ptr # Null, desc'[PageOf(cell[a].ptr)].gen # desc'[PageOf(a)].gen
       PROVE  CardOf(a) \in cards'
  <2> DEFINE w == cell[a].ptr
  <2>1. a \in Objects /\ w \in Kept /\ w \in Objects /\ PageOf(a) \in Page /\ PageOf(w) \in Page
        /\ (PageOf(w) \in chunk => w \in pinned)
    BY <1>1, <1>2, <1>10 DEF PointerInv, RewrittenInv, Still, Kept
  <2>2. CASE PageOf(a) \in chunk
    BY <1>1, <1>2, <1>10, <2>2
  <2>3. CASE PageOf(a) \notin chunk
    <3>1. Strays(a) => CardOf(a) \in cards
      BY <1>10, <2>3 DEF PointerInv, DirtyInv
    <3>2. GenOf(PageOf(a)) = desc'[PageOf(a)].gen
      BY <1>1, <2>1, <2>3 DEF GenOf
    <3>3. CASE PageOf(w) \notin chunk
      <4>1. Strays(a)
        BY <1>1, <1>10, <2>1, <3>2, <3>3 DEF Strays, GenOf
      <4>2. QED
        BY <1>2, <3>1, <4>1
    <3>4. CASE PageOf(w) \in chunk
      <4>1. GenOf(PageOf(w)) = from /\ desc'[PageOf(w)].gen = dest
        BY <1>1, <2>1, <3>4
      <4>2. GenOf(PageOf(a)) # from
        <5> SUFFICES ASSUME GenOf(PageOf(a)) = from PROVE FALSE
          OBVIOUS
        <5>1. from # dest
          BY <1>10, <3>2, <4>1
        <5>2. PageOf(a) \in Unmoved
          BY <1>1, <2>1, <5>1 DEF LoopInv, ListedInv, PagesIn
        <5>3. QED
          BY <1>1, <2>3, <5>1, <5>2 DEF OneChunk
      <4>3. Strays(a)
        BY <1>10, <4>1, <4>2 DEF Strays
      <4>4. QED
        BY <1>2, <3>1, <4>3
    <3>5. QED
      BY <3>3, <3>4
  <2>4. QED
    BY <2>2, <2>3
<1>11. DirtyInv'
  <2>1. ASSUME NEW a \in Kept', IsObject(a)', Strays(a)' PROVE CardOf(a) \in cards'
    <3>1. a \in Kept /\ IsObject(a) /\ cell'[a] = cell[a] /\ (PageOf(a) \in chunk => a \in pinned)
      BY <1>1, <1>4, <2>1
    <3>2. cell'[a].ptr # Null /\ desc'[PageOf(cell'[a].ptr)].gen # desc'[PageOf(a)].gen
      BY <2>1 DEF Strays, GenOf, PageOf
    <3>3. QED
      BY <1>10, <3>1, <3>2
  <2>2. QED
    BY <1>2, <2>1 DEF PointerInv, DirtyInv, CardOf, PageOf
<1>12. QED
  BY <1>5, <1>6, <1>7, <1>8, <1>9, <1>11 DEF PointerInv

\* At the end of a cycle every object is kept, and the cards are those of the
\* objects that hold a pointer.
LEMMA PointerEnd ==
  ASSUME Sound, PointerInv, EndCycle
  PROVE  Rest'
<1> USE DEF Sound, CycleInv, TypeInv
<1>1. /\ phase = "chunk" /\ next > Len(fromPages)
      /\ cards' = {c \in Card : GenOf(PageOf(c * CardSize)) # "Free" /\ HasPointer(c)}
      /\ desc' = [p \in Page |-> [desc[p] EXCEPT !.pins = FALSE]]
      /\ staticCards' = KeptStaticCards
      /\ from' = "G0"
      /\ UNCHANGED <<cell, starts, root, static, stack, handle, premarked>>
  BY DEF EndCycle
<1>2. Unmoved = {} /\ Looping /\ ~Busy
  BY <1>1, NonePending DEF Looping, Busy
<1>3. Kept = Objects
  BY <1>2 DEF Kept, Doomed
<1>4. \A a \in Objects : IsObject(a)
  BY <1>2, NoMarkers
<1>5. \A p \in Page : desc'[p].gen = desc[p].gen
  <2>1. \A d \in Desc : [d EXCEPT !.pins = FALSE].gen = d.gen
    BY DEF Desc
  <2>2. \A p \in Page : desc[p] \in Desc
    BY DEF TableTyped
  <2>3. QED
    BY <1>1, <2>1, <2>2
<1>6. \A a : a \in Addr => PageOf(a) \in Page
  BY PageOfIn
<1>7. Objects' = Objects
  BY <1>1, <1>5, <1>6 DEF Objects, GenOf, PageOf, MemoryTyped
<1>8. \A a \in Objects : a \in Addr /\ GenOf(PageOf(a)) # "Free"
                         /\ (cell[a].ptr = Null \/ cell[a].ptr \in Objects)
  BY <1>3, <1>4, ObjectsAre DEF PointerInv, KeptInv, Safe, GenOf
<1>9. \A a \in Objects : Strays(a)' => CardOf(a) \in cards'
  <2> SUFFICES ASSUME NEW a \in Objects, cell[a].ptr # Null
               PROVE  CardOf(a) \in cards'
    BY <1>1 DEF Strays
  <2>1. a \in Addr /\ GenOf(PageOf(a)) # "Free"
    BY <1>8
  <2>2. HasPointer(CardOf(a))
    BY <1>4, <2>1, CardIs DEF HasPointer
  <2>3. QED
    BY <1>1, <2>1, <2>2, CardOfIn, CardIs
<1>10. \A w \in HeldWords' : w = Null \/ w \in Objects
  BY <1>1, <1>3 DEF PointerInv, KeptInv, HeldWords, Safe
<1>11. \A s \in Static : static'[s] # Null => s \in staticCards'
  BY <1>1 DEF PointerInv, DirtyInv, KeptStaticCards
<1>12. premarked' = premarked /\ ~premarked
  BY <1>1 DEF PointerInv, MarkedInv
<1>13. QED
  BY <1>1, <1>7, <1>8, <1>9, <1>10, <1>11, <1>12 DEF Rest, CardOf

\* An empty heap, at rest.
LEMMA PointerInit == Init => Rest /\ phase = "idle"
<1> SUFFICES ASSUME Init PROVE Rest /\ phase = "idle"
  OBVIOUS
<1>1. /\ starts = {} /\ phase = "idle" /\ from = "G0" /\ premarked = FALSE
      /\ root = [r \in Root |-> Null] /\ static = [s \in Static |-> Null]
      /\ stack = [s \in Stack |-> Null] /\ handle = [h \in Handle |-> Null]
  BY DEF Init, TableInit
<1>2. Objects = {} /\ \A w \in HeldWords : w = Null
  BY <1>1 DEF Objects, HeldWords, ImageOf
<1>3. QED
  BY <1>1, <1>2 DEF Rest

\* Where a step of the collector starts from.
LEMMA Rests ==
  ASSUME Sound, PointerInv, phase = "idle"
  PROVE  Rest
BY RestIs

\* ... and where it ends.
LEMMA RestsNext == Sound' /\ phase' = "idle" => (PointerInv' <=> Rest')
<1>1. Sound' /\ (phase = "idle")' => (PointerInv' <=> Rest')
  BY RestIs, PTL
<1>2. QED
  BY <1>1

\* Every step keeps the invariant.
LEMMA PointerStep ==
  ASSUME NoLarge, PinsKnown, NoGaps, OneChunk, Sound, Sound', PointerInv, [Next]_vars
  PROVE  PointerInv'
<1>1. Sound' /\ phase' = "idle" => (PointerInv' <=> Rest')
  BY RestsNext
<1>2. CASE Client
  <2>1. phase = "idle" /\ phase' = "idle"
    BY <1>2 DEF Client, Alloc, AllocLarge, Store, SetRoot, StoreStatic, Spill, Pin, Unpin,
         Idle, collectorVars
  <2>2. QED
    BY <1>1, <1>2, <2>1, Rests, RestClient
<1>3. CASE StartMinor \/ StartMajor \/ StartFull
  <2>1. phase = "idle"
    BY <1>3 DEF StartMinor, StartMajor, StartFull, Begin, Idle
  <2>2. QED
    BY <1>3, <2>1, Rests, PointerBegins
<1>4. CASE MarkMinorWithStatic
  <2>1. phase = "idle"
    BY <1>4 DEF MarkMinorWithStatic, Idle
  <2>2. QED
    BY <1>4, <2>1, Rests, PointerMarked
<1>5. CASE CollectMinorWithStatic
  BY <1>5, PointerDrained
<1>6. CASE BeginPass
  BY <1>6, PointerPass
<1>7. CASE Mark /\ UNCHANGED cycleVars
  BY <1>7, PointerMark
<1>8. CASE (PickChunk \/ MidEvacOom) /\ UNCHANGED cycleVars
  BY <1>8, PointerStays
<1>9. CASE CopyObject /\ UNCHANGED cycleVars
  BY <1>9, PointerCopy
<1>10. CASE Rewrite /\ UNCHANGED cycleVars
  BY <1>10, PointerRewrite
<1>11. CASE Reclaim /\ UNCHANGED cycleVars
  BY <1>11, PointerReclaim
<1>12. CASE EndCycle
  <2>1. phase' = "idle"
    BY <1>12 DEF EndCycle
  <2>2. QED
    BY <1>1, <1>12, <2>1, PointerEnd
<1>13. CASE UNCHANGED vars
  <2>1. UNCHANGED <<desc, cell, starts, cards, root, static, staticCards, stack, handle,
                    pinned, from, dest, premarked, marks, fromPages, next, chunk, phase, cycle>>
    BY <1>13 DEF vars, heapVars, tableVars, evacVars, holderVars, passVars, loopVars, cycleVars
  <2>2. /\ Objects' = Objects /\ Unmoved' = Unmoved /\ (Looping' <=> Looping)
        /\ (Busy' <=> Busy) /\ HeldWords' = HeldWords /\ PagesIn("G0")' = PagesIn("G0")
    BY <2>1 DEF Objects, Unmoved, Pending, Looping, Busy, GenOf, PageOf, HeldWords, PagesIn
  <2>3. Doomed' = Doomed /\ Kept' = Kept
    BY <2>1, <2>2 DEF Doomed, Kept, PageOf
  <2>4. KeptInv' /\ StackInv' /\ MarkedInv'
    BY <2>1, <2>2, <2>3 DEF PointerInv, KeptInv, StackInv, MarkedInv, Safe, IsObject, GenOf, PageOf
  <2>5. FollowInv'
    BY <2>1, <2>2 DEF PointerInv, FollowInv, IsForward, IsObject, GenOf, PageOf
  <2>6. RewrittenInv'
    BY <2>1, <2>2, <2>3 DEF PointerInv, RewrittenInv, Still, IsObject, PageOf
  <2>7. DirtyInv'
    BY <2>1, <2>2, <2>3 DEF PointerInv, DirtyInv, Strays, IsObject, GenOf, PageOf, CardOf
  <2>8. QED
    BY <2>4, <2>5, <2>6, <2>7 DEF PointerInv
<1>14. QED
  BY <1>2, <1>3, <1>4, <1>5, <1>6, <1>7, <1>8, <1>9, <1>10, <1>11, <1>12, <1>13
     DEF Next, Collector

\* Wherever a client has no Large objects, pins by handles or has static words
\* but not both, and either never pins or has cards of one slot: as long as
\* every promotion has room for its pages in one chunk, what the collector
\* keeps points at what it keeps, every pointer between generations is on a
\* dirty card, and no word is left that leads to a marker.
THEOREM PointersKept ==
  ASSUME NoLarge, PinsKnown, NoGaps
  PROVE  Spec /\ []OneChunk => []PointerInv
<1>1. Init => (phase = "idle" /\ Rest)
  BY PointerInit
<1>2. Sound /\ phase = "idle" => (PointerInv <=> Rest)
  BY RestIs
<1>3. Sound /\ Sound' /\ OneChunk /\ PointerInv /\ [Next]_vars => PointerInv'
  BY PointerStep
<1>4. Spec => []Sound
  BY SoundAlways
<1>5. QED
  BY <1>1, <1>2, <1>3, <1>4, PTL DEF Spec

-----------------------------------------------------------------------------
(* Between collections.                                                    *)

\* Every object is kept then, and none is a marker.
LEMMA ClosedNow == Sound /\ PointerInv => HeapClosed
<1> SUFFICES ASSUME Sound, PointerInv, phase = "idle"
             PROVE  \A a \in Objects : IsObject(a) /\ Names(cell[a].ptr)
  BY DEF HeapClosed, Idle
<1>1. \A a \in Objects : IsObject(a)
  BY NoMarkers DEF Sound, Busy
<1>2. \A a \in Objects : cell[a].ptr = Null \/ cell[a].ptr \in Objects
  BY RestIs DEF Rest
<1>3. QED
  BY <1>1, <1>2 DEF Names

\* Whatever the size of the heap, what is pinned and the cycles that ran:
\* between collections every object with a start bit, garbage included, points
\* at an object, as long as every promotion has room in one chunk.
THEOREM HeapStaysClosed ==
  ASSUME NoLarge, PinsKnown, NoGaps
  PROVE  Spec /\ []OneChunk => []HeapClosed
BY PointersKept, SoundAlways, ClosedNow, PTL

\* A dirty card is walked as far as any of its objects.
LEMMA RememberedNow ==
  ASSUME NoLarge, NoGaps
  PROVE  Sound /\ PointerInv => RememberedSet
<1> SUFFICES ASSUME Sound, PointerInv, phase = "idle", NEW a \in Objects, Strays(a)
             PROVE  CardOf(a) \in cards /\ a \in Walked(CardOf(a))
  BY DEF RememberedSet, Idle, Strays
<1>1. CardOf(a) \in cards
  BY RestIs DEF Rest
<1>2. a \in Walked(CardOf(a))
  BY WalkReaches DEF Sound, CycleInv
<1>3. QED
  BY <1>1, <1>2

\* Between collections every pointer from one generation into another is on a
\* dirty card whose walk gets to it: the barrier, the cards of copies and of
\* pages flipped in place, and the rebuilt cards leave none out.
THEOREM PointersRemembered ==
  ASSUME NoLarge, PinsKnown, NoGaps
  PROVE  Spec /\ []OneChunk => []RememberedSet
BY PointersKept, SoundAlways, RememberedNow, PTL

\* What the client can reach is within every set of slots that has what it
\* holds and what its members point at; it is such a set itself, if that one
\* has no more slots than there are identities.
LEMMA ReachedWithin ==
  ASSUME IsFiniteSet(Id), NEW D, HeldWords \ {Null} \subseteq D,
         \A a \in D : IsObject(a) => cell[a].ptr = Null \/ cell[a].ptr \in D
  PROVE  /\ Reached \subseteq D
         /\ IsFiniteSet(D) /\ Cardinality(D) <= Cardinality(Id) =>
              HeldWords \cup Pointers(Reached) \subseteq Reached \cup {Null}
<1> DEFINE n == Cardinality(Id)
           first == HeldWords \ {Null}
           follow(S) == Pointers(S) \ {Null}
           more == [W \in SUBSET D |-> follow(W)]
           Chain(f) == f = [k \in 0 .. n |-> IF k = 0 THEN first
                                            ELSE f[k - 1] \cup follow(f[k - 1])]
<1>1. n \in Nat
  BY FS_CardinalityType
<1>2. \A S \in SUBSET D : follow(S) \in SUBSET D
  BY DEF Pointers
<1>3. Reached = LET f == CHOOSE f : Chain(f) IN f[n]
  BY DEF Reached, Leads, HeldWords
<1>4. first \in SUBSET D
  OBVIOUS
<1> HIDE DEF first, follow, n
<1>5. more \in [SUBSET D -> SUBSET D] /\ \A W \in SUBSET D : more[W] = follow(W)
  BY <1>2
<1> HIDE DEF more
<1>6. Growth(n, D, first, more)
  BY <1>1, <1>4, <1>5 DEF Growth
<1>7. \E f : Chain(f)
  <2>1. PICK f : Grown(f, n, D, first, more)
    BY <1>6, GrowthExists
  <2>2. \A k \in 0 .. n : f[k] = IF k = 0 THEN first ELSE f[k - 1] \cup follow(f[k - 1])
    <3> USE DEF Grown
    <3> SUFFICES ASSUME NEW k \in 0 .. n, k # 0 PROVE f[k] = f[k - 1] \cup follow(f[k - 1])
      BY <2>1
    <3>1. k - 1 \in 0 .. n
      BY <1>1
    <3>2. f[k - 1] \in SUBSET D
      BY <2>1, <3>1
    <3>3. QED
      BY <1>5, <2>1, <3>2
  <2>3. f = [k \in 0 .. n |-> f[k]]
    BY <2>1 DEF Grown
  <2>4. QED
    BY <2>2, <2>3
<1>8. PICK f : Chain(f) /\ Reached = f[n]
  <2> HIDE DEF Chain
  <2>1. QED
    BY <1>7, <1>3
<1>9. Grows(f, n, D, first, more)
  <2>1. \A k \in 0 .. n : f[k] = IF k = 0 THEN first ELSE f[k - 1] \cup follow(f[k - 1])
    BY <1>8
  <2>2. f[0] = first
    <3>1. 0 \in 0 .. n
      BY <1>1
    <3>2. QED
      BY <2>1, <3>1
  <2>3. ASSUME NEW k \in Nat, k + 1 <= n, f[k] \in SUBSET D
        PROVE  f[k + 1] = f[k] \cup more[f[k]]
    <3>1. k + 1 \in 0 .. n /\ (k + 1) - 1 = k /\ k + 1 # 0
      BY <1>1, <2>3
    <3>2. f[k + 1] = f[k] \cup follow(f[k])
      BY <2>1, <3>1
    <3>3. QED
      BY <1>5, <2>3, <3>2
  <2>4. QED
    BY <2>2, <2>3 DEF Grows
<1>10. Reached \subseteq D
  BY <1>6, <1>8, <1>9, GrowthWithin
<1>11. ASSUME IsFiniteSet(D), Cardinality(D) <= n
       PROVE  first \subseteq Reached /\ follow(Reached) \subseteq Reached
  <2>1. first \subseteq f[n] /\ more[f[n]] \subseteq f[n]
    BY <1>6, <1>9, <1>11, GrowthEnds
  <2>2. QED
    BY <1>5, <1>8, <1>10, <2>1
<1>12. QED
  BY <1>10, <1>11 DEF first, follow, n

\* All of it is objects.
LEMMA FollowedNow ==
  ASSUME IsFiniteSet(Id)
  PROVE  Sound /\ PointerInv => PointersFollowed
<1> SUFFICES ASSUME Sound, PointerInv, phase = "idle"
             PROVE  \A a \in Reached : a \in Objects /\ IsObject(a) /\ Names(cell[a].ptr)
  BY DEF PointersFollowed, Idle
<1>1. \A a \in Objects : IsObject(a) /\ Names(cell[a].ptr)
  BY ClosedNow DEF HeapClosed, Idle
<1>2. HeldWords \ {Null} \subseteq Objects
  BY RestIs DEF Rest
<1>3. Reached \subseteq Objects
  BY <1>1, <1>2, ReachedWithin DEF Names
<1>4. QED
  BY <1>1, <1>3

\* Between collections everything the client can reach, from its roots, static
\* words, stack words and handles, is an object that points at objects: no pass
\* left an object behind that is still in use, or a reference to where it was.
THEOREM ReachedAreFollowed ==
  ASSUME NoLarge, PinsKnown, NoGaps, IsFiniteSet(Id)
  PROVE  Spec /\ []OneChunk => []PointersFollowed
BY PointersKept, SoundAlways, FollowedNow, PTL
=============================================================================
