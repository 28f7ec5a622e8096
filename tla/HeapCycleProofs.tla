--------------------------- MODULE HeapCycleProofs ---------------------------
(***************************************************************************)
(* What a whole cycle does to the page table of PageHeap: the passes of a  *)
(* promotion leave nothing behind, and bump regions and pinned objects     *)
(* come through, for every number of pages, slots and objects.             *)
(*                                                                         *)
(* The hypotheses are about what the client does.  NoLarge is a client     *)
(* without Large objects: a chunk that releases a run releases pages that  *)
(* a later chunk still lists.  NoStatic is one that does not use the entry *)
(* points with static words.  Whole asks for either: those entry points    *)
(* release the pages of a Large run one by one.  PinsKnown keeps handles   *)
(* from those entry points, whose minor knows of no handle.                *)
(***************************************************************************)
EXTENDS PageHeapProofs

NoLarge == LargeSpan > NPages
NoStatic == "static" \notin Cycles
Whole == NoLarge \/ NoStatic

Busy == phase \in {"copy", "reclaim", "stalled"}
Looping == phase = "chunk" \/ Busy

\* What the chunk loop has still to deal with.
Pending == {fromPages[i] : i \in next .. Len(fromPages)}
Unmoved == Pending \cup (IF Busy THEN chunk ELSE {})

-----------------------------------------------------------------------------
(* The page table.                                                         *)

\* A page is Free by its generation iff it is by its kind.
KindInv == \A p \in Page :
  /\ GenOf(p) = "Free" <=> desc[p].kind = "free"
  /\ NoLarge => desc[p].kind # "large"

\* A Large run is its head and continuation pages of the same generation.
RunInv == \A p \in Page :
  /\ IsLargeHead(p) =>
       \A q \in Run(p, desc[p].span) \ {p} : IsLargeCont(q) /\ GenOf(q) = GenOf(p)
  /\ IsLargeCont(p) =>
       \E h \in Page : h < p /\ IsLargeHead(h) /\ p \in Run(h, desc[h].span)

Shape == KindInv /\ RunInv

\* What a descriptor's run covers.
LEMMA RunIs ==
  ASSUME TableTyped, NEW p \in Page
  PROVE  /\ p \in Nat /\ desc[p].span \in Nat /\ p + desc[p].span <= NPages
         /\ Run(p, desc[p].span) \subseteq Page
         /\ \A q \in Int : q \in Run(p, desc[p].span) <=> p <= q /\ q < p + desc[p].span
<1>1. p \in Nat /\ desc[p].span \in Nat /\ p + desc[p].span <= NPages /\ NPages \in Nat
  BY PageTableAssumption DEF TableTyped, SpansFit, Page, Desc
<1>2. QED
  BY <1>1 DEF Run, Page

\* No page lies in two runs.
LEMMA RunsDisjoint ==
  ASSUME TableTyped, RunInv, NEW h \in Page, NEW k \in Page,
         IsLargeHead(h), IsLargeHead(k),
         NEW q \in Run(h, desc[h].span) \cap Run(k, desc[k].span)
  PROVE  h = k
<1>1. \A x, y \in Page :
        x < y /\ IsLargeHead(x) /\ IsLargeHead(y) =>
          y \notin Run(x, desc[x].span)
  BY RunIs DEF RunInv, IsLargeHead, IsLargeCont
<1>2. q \in Page /\ q \in Int
  BY RunIs, PageTableAssumption DEF Page
<1>3. /\ h <= q /\ q < h + desc[h].span /\ h \in Nat
      /\ k <= q /\ q < k + desc[k].span /\ k \in Nat
  BY <1>2, RunIs
<1>4. ~(h < k)
  <2> SUFFICES ASSUME h < k PROVE FALSE
    OBVIOUS
  <2>1. k \in Run(h, desc[h].span)
    BY <1>2, <1>3, RunIs
  <2>2. QED
    BY <1>1, <2>1
<1>5. ~(k < h)
  <2> SUFFICES ASSUME k < h PROVE FALSE
    OBVIOUS
  <2>1. h \in Run(k, desc[k].span)
    BY <1>2, <1>3, RunIs
  <2>2. QED
    BY <1>1, <2>1
<1>6. QED
  BY <1>3, <1>4, <1>5

\* Only generation, kind and span matter.
LEMMA ShapeKept ==
  ASSUME TableTyped, Shape,
         \A p \in Page : /\ desc'[p].gen = desc[p].gen
                         /\ desc'[p].kind = desc[p].kind
                         /\ desc'[p].span = desc[p].span
  PROVE  Shape'
<1>1. \A p \in Page : /\ GenOf(p)' = GenOf(p)
                      /\ IsLargeHead(p)' <=> IsLargeHead(p)
                      /\ IsLargeCont(p)' <=> IsLargeCont(p)
                      /\ Run(p, desc[p].span)' = Run(p, desc[p].span)
  BY DEF GenOf, IsLargeHead, IsLargeCont, Run
<1>2. \A p \in Page : Run(p, desc[p].span) \subseteq Page
  BY RunIs
<1>3. KindInv'
  BY <1>1 DEF Shape, KindInv, NoLarge
<1>4. RunInv'
  BY <1>1, <1>2 DEF Shape, RunInv
<1>5. QED
  BY <1>3, <1>4 DEF Shape

\* A page opened by a region was Free and in no run.
LEMMA ShapeClaimed ==
  ASSUME TableTyped, Shape, NEW g \in Generation, CanPlace(g), Claim(g)
  PROVE  Shape'
<1>1. CASE HasRoom(g)
  BY <1>1, ShapeKept DEF Claim
<1>2. CASE ~HasRoom(g)
  <2>1. PICK n \in Page : /\ GenOf(n) = "Free"
                          /\ desc' = [desc EXCEPT ![n] = SmallDesc(g)]
    BY <1>2, NextFreeIs DEF CanPlace, Claim
  <2>2. /\ desc'[n].gen = g /\ desc'[n].kind = "small"
        /\ \A p \in Page \ {n} : desc'[p] = desc[p]
    BY <2>1 DEF TableTyped, SmallDesc
  <2>3. KindInv'
    BY <2>2 DEF Shape, KindInv, GenOf, Generation, NoLarge
  <2>4. desc[n].kind = "free"
    BY <2>1 DEF Shape, KindInv
  <2>5. ~IsLargeHead(n)' /\ ~IsLargeCont(n)'
    BY <2>2 DEF IsLargeHead, IsLargeCont
  <2>6. ~IsLargeHead(n) /\ ~IsLargeCont(n)
    BY <2>4 DEF IsLargeHead, IsLargeCont
  <2>7. ASSUME NEW p \in Page, IsLargeHead(p)', NEW q \in Run(p, desc'[p].span) \ {p}
        PROVE  IsLargeCont(q)' /\ GenOf(q)' = GenOf(p)'
    <3>1. p # n /\ desc'[p] = desc[p] /\ IsLargeHead(p)
      BY <2>2, <2>5, <2>7 DEF IsLargeHead
    <3>2. q \in Run(p, desc[p].span) \ {p} /\ q \in Page
      BY <2>7, <3>1, RunIs
    <3>3. IsLargeCont(q) /\ GenOf(q) = GenOf(p)
      BY <3>1, <3>2 DEF Shape, RunInv
    <3>4. q # n
      BY <2>6, <3>3
    <3>5. QED
      BY <2>2, <3>1, <3>2, <3>3, <3>4 DEF GenOf, IsLargeCont
  <2>8. ASSUME NEW p \in Page, IsLargeCont(p)'
        PROVE  \E h \in Page : h < p /\ IsLargeHead(h)' /\ p \in Run(h, desc'[h].span)
    <3>1. p # n /\ IsLargeCont(p)
      BY <2>2, <2>5, <2>8 DEF IsLargeCont
    <3>2. PICK h \in Page : h < p /\ IsLargeHead(h) /\ p \in Run(h, desc[h].span)
      BY <3>1 DEF Shape, RunInv
    <3>3. h # n
      BY <2>6, <3>2
    <3>4. QED
      BY <2>2, <3>2, <3>3 DEF IsLargeHead
  <2>9. QED
    BY <2>3, <2>7, <2>8 DEF Shape, RunInv
<1>3. QED
  BY <1>1, <1>2

\* A new Large run takes Free pages, none of an older run.
LEMMA ShapeLarge ==
  ASSUME TableTyped, Shape, LargeFits # {}, ClaimLarge("G0")
  PROVE  Shape' /\ ~NoLarge
<1>1. PICK head \in Page : /\ head = Least(LargeFits)
                           /\ head + LargeSpan <= NPages
                           /\ Run(head, LargeSpan) \subseteq PagesIn("Free")
  BY FirstFitIs
<1> DEFINE R == Run(head, LargeSpan)
<1>2. \A p \in Page : desc'[p] = IF p \in R
             THEN LargeDesc("G0", IF p = head THEN LargeSpan ELSE 0) ELSE desc[p]
  BY <1>1 DEF ClaimLarge
<1>3. /\ LargeSpan \in Nat \ {0} /\ NPages \in Nat /\ head \in Nat
      /\ head \in R
      /\ \A q \in R : q \in Page /\ GenOf(q) = "Free" /\ q \in Nat
      /\ \A q \in R : q # head => head < q
  BY <1>1, PageTableAssumption DEF Run, Page, PagesIn
<1>4. ~NoLarge
  BY <1>1, <1>3 DEF NoLarge
<1>5. desc'[head] = LargeDesc("G0", LargeSpan)
  BY <1>1, <1>2, <1>3
<1>6. Run(head, desc'[head].span) = R
  BY <1>5 DEF LargeDesc
<1> HIDE DEF R
<1>7. \A q \in R : q # head => desc'[q] = LargeDesc("G0", 0)
  BY <1>2, <1>3
<1>8. \A q \in Page \ R : desc'[q] = desc[q]
  BY <1>2
<1>9. \A q \in R : desc[q].kind = "free"
  BY <1>3 DEF Shape, KindInv
<1>10. KindInv'
  <2>1. ASSUME NEW p \in Page PROVE GenOf(p)' = "Free" <=> desc'[p].kind = "free"
    BY <1>5, <1>7, <1>8 DEF Shape, KindInv, GenOf, LargeDesc
  <2>2. QED
    BY <1>4, <2>1 DEF KindInv, NoLarge
<1>11. ASSUME NEW p \in Page, IsLargeHead(p)', NEW q \in Run(p, desc'[p].span) \ {p}
       PROVE  IsLargeCont(q)' /\ GenOf(q)' = GenOf(p)'
  <2>1. CASE p \in R
    <3>1. p = head
      BY <1>3, <1>7, <1>11, <2>1 DEF IsLargeHead, LargeDesc
    <3>2. q \in R /\ q # head
      BY <1>6, <1>11, <3>1
    <3>3. QED
      BY <1>5, <1>7, <3>1, <3>2 DEF IsLargeCont, GenOf, LargeDesc
  <2>2. CASE p \notin R
    <3>1. desc'[p] = desc[p] /\ IsLargeHead(p)
      BY <1>8, <1>11, <2>2 DEF IsLargeHead
    <3>2. q \in Run(p, desc[p].span) \ {p} /\ q \in Page
      BY <1>11, <3>1, RunIs
    <3>3. IsLargeCont(q) /\ GenOf(q) = GenOf(p)
      BY <3>1, <3>2 DEF Shape, RunInv
    <3>4. q \notin R
      BY <1>9, <3>3 DEF IsLargeCont
    <3>5. QED
      BY <1>8, <3>1, <3>2, <3>3, <3>4 DEF GenOf, IsLargeCont
  <2>3. QED
    BY <2>1, <2>2
<1>12. ASSUME NEW p \in Page, IsLargeCont(p)'
       PROVE  \E h \in Page : h < p /\ IsLargeHead(h)' /\ p \in Run(h, desc'[h].span)
  <2>1. CASE p \in R
    <3>1. p # head
      BY <1>3, <1>5, <1>12 DEF IsLargeCont, LargeDesc
    <3>2. IsLargeHead(head)'
      BY <1>3, <1>5 DEF IsLargeHead, LargeDesc
    <3>3. head < p
      BY <1>3, <2>1, <3>1
    <3>4. QED
      BY <1>1, <1>6, <2>1, <3>2, <3>3
  <2>2. CASE p \notin R
    <3>1. IsLargeCont(p)
      BY <1>8, <1>12, <2>2 DEF IsLargeCont
    <3>2. PICK h \in Page : h < p /\ IsLargeHead(h) /\ p \in Run(h, desc[h].span)
      BY <3>1 DEF Shape, RunInv
    <3>3. h \notin R
      BY <1>9, <3>2 DEF IsLargeHead
    <3>4. QED
      BY <1>8, <3>2, <3>3 DEF IsLargeHead
  <2>3. QED
    BY <2>1, <2>2
<1>13. QED
  BY <1>4, <1>10, <1>11, <1>12 DEF Shape, RunInv

\* Pages released ahead of the coordinator's minor: none is Large.
LEMMA ShapeDrained ==
  ASSUME TypeInv, Shape, Whole, CollectMinorWithStatic
  PROVE  Shape'
<1> USE DEF TypeInv
<1> DEFINE pins == StackPins({"G0", "G1"})
           live == Closure(marks \cup pins \cup Pointers(pins))
           drained == IF premarked THEN ZeroLive(live) ELSE {}
           P == {PageOf(a) : a \in pins}
<1>1. /\ desc' = [p \in Page |->
                    CASE p \in drained -> FreeDesc
                      [] p \in P -> [desc[p] EXCEPT !.pins = TRUE]
                      [] OTHER -> desc[p]]
      /\ NoLarge
  BY DEF CollectMinorWithStatic, Whole, NoStatic
<1> HIDE DEF drained, P
<1>2. \A p \in Page : desc[p] \in Desc /\ desc[p].kind # "large"
  BY <1>1 DEF TableTyped, Shape, KindInv
<1>3. ASSUME NEW p \in Page
      PROVE  \/ desc'[p] = FreeDesc
             \/ desc'[p].gen = desc[p].gen /\ desc'[p].kind = desc[p].kind
  BY <1>1, <1>2 DEF Desc
<1>4. \A p \in Page : desc'[p].kind # "large"
  BY <1>2, <1>3 DEF FreeDesc
<1>5. KindInv'
  BY <1>3, <1>4 DEF Shape, KindInv, FreeDesc, GenOf
<1>6. RunInv'
  BY <1>4 DEF RunInv, IsLargeHead, IsLargeCont
<1>7. QED
  BY <1>5, <1>6 DEF Shape

\* Phase 3 treats a run as its head.
LEMMA RunsTogether ==
  ASSUME TableTyped, Shape, chunk \subseteq Page,
         NEW p \in Page, IsLargeHead(p), NEW q \in Run(p, desc[p].span)
  PROVE  /\ q \in Released <=> p \in chunk /\ ~desc[p].pins
         /\ q \in Flipped <=> p \in chunk /\ desc[p].pins
<1>1. q \in Page /\ desc[q].kind = "large"
  BY RunIs DEF Shape, RunInv, IsLargeHead, IsLargeCont
<1>2. \A h \in chunk : IsLargeHead(h) /\ q \in Run(h, desc[h].span) => h = p
  BY RunsDisjoint DEF Shape
<1>3. q \in Released => p \in chunk /\ ~desc[p].pins
  BY <1>1, <1>2 DEF Released, LargeRuns
<1>4. p \in chunk /\ ~desc[p].pins => q \in Released
  BY DEF Released, LargeRuns
<1>5. q \in Flipped => p \in chunk /\ desc[p].pins
  BY <1>1, <1>2 DEF Flipped, SmallFlips, LargeFlips, LargeRuns
<1>6. p \in chunk /\ desc[p].pins => q \in Flipped
  BY DEF Flipped, LargeFlips, LargeRuns
<1>7. QED
  BY <1>3, <1>4, <1>5, <1>6

\* A head lies in its own run.
LEMMA HeadInRun ==
  ASSUME TableTyped, NEW p \in Page, IsLargeHead(p)
  PROVE  p \in Run(p, desc[p].span)
<1>1. p \in Int /\ p <= p /\ p < p + desc[p].span
  BY RunIs DEF IsLargeHead
<1>2. QED
  BY <1>1, RunIs

\* What phase 3 does to a page.
LEMMA ReclaimEffect ==
  ASSUME TypeInv, Shape, Reclaim, NEW p \in Page
  PROVE  /\ p \in Released => desc'[p] = FreeDesc
         /\ p \notin Released =>
              /\ desc'[p].kind = desc[p].kind
              /\ desc'[p].span = desc[p].span
              /\ desc'[p].gen = IF p \in Flipped THEN dest ELSE desc[p].gen
<1> DEFINE R == Released
           small == SmallFlips
           runs == LargeRuns(LargeFlips)
<1>1. desc' = [q \in Page |->
         CASE q \in R -> FreeDesc
           [] q \in small -> [desc[q] EXCEPT !.gen = dest]
           [] q \in runs -> [desc[q] EXCEPT !.gen = dest, !.pins = FALSE]
           [] OTHER -> desc[q]]
  BY DEF Reclaim
<1>2. Flipped = small \cup runs
  BY DEF Flipped
<1>3. \A q \in Page : desc[q] \in Desc
  BY DEF TypeInv, TableTyped
<1>4. \A q \in runs : q \notin R /\ q \notin small
  <2>1. \A h \in LargeFlips : h \in chunk /\ h \in Page /\ IsLargeHead(h) /\ desc[h].pins
    BY DEF LargeFlips, TypeInv, PassTyped
  <2>2. ASSUME NEW h \in LargeFlips, NEW q \in Run(h, desc[h].span)
        PROVE  q \notin R /\ desc[q].kind = "large"
    BY <2>1, RunsTogether
       DEF Shape, RunInv, IsLargeHead, IsLargeCont, TypeInv, PassTyped
  <2>3. QED
    BY <2>2 DEF LargeRuns, SmallFlips
<1>5. \A q \in small : q \notin R
  <2>1. \A h \in chunk : IsLargeHead(h) =>
          \A q \in Run(h, desc[h].span) : desc[q].kind = "large"
    BY DEF Shape, RunInv, IsLargeHead, IsLargeCont, TypeInv, PassTyped
  <2>2. QED
    BY <2>1 DEF Released, LargeRuns, SmallFlips
<1> HIDE DEF R, small, runs
<1>6. \A q \in Page :
        /\ q \in R => desc'[q] = FreeDesc
        /\ q \notin R =>
              /\ desc'[q].kind = desc[q].kind
              /\ desc'[q].span = desc[q].span
              /\ desc'[q].gen = IF q \in small \cup runs THEN dest ELSE desc[q].gen
  <2>1. \A d \in Desc :
          /\ [d EXCEPT !.gen = dest].kind = d.kind
          /\ [d EXCEPT !.gen = dest].span = d.span
          /\ [d EXCEPT !.gen = dest].gen = dest
          /\ [d EXCEPT !.gen = dest, !.pins = FALSE].kind = d.kind
          /\ [d EXCEPT !.gen = dest, !.pins = FALSE].span = d.span
          /\ [d EXCEPT !.gen = dest, !.pins = FALSE].gen = dest
    BY DEF Desc
  <2>2. QED
    BY <1>1, <1>3, <1>4, <1>5, <2>1
<1>7. QED
  BY <1>2, <1>6 DEF R

\* Runs are released whole and flipped whole.
LEMMA ShapeReclaimed ==
  ASSUME TypeInv, Shape, Reclaim
  PROVE  Shape'
<1> USE DEF TypeInv
<1>1. chunk \subseteq Page /\ dest \in Generation
  BY DEF PassTyped
<1>2. KindInv'
  <2>1. \A p \in Page : p \in Flipped => desc[p].kind # "free"
    <3>1. \A h \in chunk : IsLargeHead(h) =>
            \A q \in Run(h, desc[h].span) : desc[q].kind = "large"
      BY <1>1 DEF Shape, RunInv, IsLargeHead, IsLargeCont
    <3>2. QED
      BY <3>1 DEF Flipped, SmallFlips, LargeFlips, LargeRuns
  <2>2. dest # "Free"
    BY <1>1 DEF Generation
  <2>3. ASSUME NEW p \in Page
        PROVE  /\ desc'[p].gen = "Free" <=> desc'[p].kind = "free"
               /\ NoLarge => desc'[p].kind # "large"
    <3>1. CASE p \in Released
      <4>1. desc'[p] = FreeDesc
        BY <3>1, ReclaimEffect
      <4>2. QED
        BY <4>1 DEF FreeDesc
    <3>2. CASE p \notin Released
      BY <2>1, <2>2, <3>2, ReclaimEffect DEF Shape, KindInv, GenOf
    <3>3. QED
      BY <3>1, <3>2
  <2>4. QED
    BY <2>3 DEF KindInv, GenOf, NoLarge
<1>3. ASSUME NEW p \in Page, desc'[p].kind = "large"
      PROVE  p \notin Released /\ desc[p].kind = "large" /\ desc'[p].span = desc[p].span
  BY <1>3, ReclaimEffect DEF FreeDesc
<1>4. ASSUME NEW p \in Page, IsLargeHead(p)', NEW q \in Run(p, desc'[p].span) \ {p}
      PROVE  IsLargeCont(q)' /\ GenOf(q)' = GenOf(p)'
  <2>1. p \notin Released /\ IsLargeHead(p) /\ desc'[p].span = desc[p].span
    BY <1>3, <1>4 DEF IsLargeHead
  <2>2. q \in Run(p, desc[p].span) \ {p} /\ q \in Page
    BY <1>4, <2>1, RunIs
  <2>3. IsLargeCont(q) /\ GenOf(q) = GenOf(p)
    BY <2>1, <2>2 DEF Shape, RunInv
  <2>4. p \in Run(p, desc[p].span)
    BY <2>1, HeadInRun
  <2>5. q \notin Released /\ (q \in Flipped <=> p \in Flipped)
    BY <1>1, <2>1, <2>2, <2>4, RunsTogether
  <2>6. QED
    BY <2>1, <2>2, <2>3, <2>5, ReclaimEffect DEF IsLargeCont, GenOf
<1>5. ASSUME NEW p \in Page, IsLargeCont(p)'
      PROVE  \E h \in Page : h < p /\ IsLargeHead(h)' /\ p \in Run(h, desc'[h].span)
  <2>1. p \notin Released /\ IsLargeCont(p)
    BY <1>3, <1>5 DEF IsLargeCont
  <2>2. PICK h \in Page : h < p /\ IsLargeHead(h) /\ p \in Run(h, desc[h].span)
    BY <2>1 DEF Shape, RunInv
  <2>3. h \in Run(h, desc[h].span)
    BY <2>2, HeadInRun
  <2>4. h \notin Released
    BY <1>1, <2>1, <2>2, <2>3, RunsTogether
  <2>5. desc'[h].kind = desc[h].kind /\ desc'[h].span = desc[h].span
    BY <2>4, ReclaimEffect
  <2>6. QED
    BY <2>2, <2>5 DEF IsLargeHead
<1>6. QED
  BY <1>2, <1>4, <1>5 DEF Shape, RunInv

-----------------------------------------------------------------------------
(* The chunk loop.                                                         *)

\* Pages are dealt with in ascending order, each once.
OrderInv == Looping =>
  /\ \A i \in 1 .. Len(fromPages) : \A j \in 1 .. Len(fromPages) :
       i < j => fromPages[i] < fromPages[j]
  /\ Busy => \A p \in chunk : \A i \in next .. Len(fromPages) : p < fromPages[i]

\* A promotion still lists every page of the generation it promotes.
ListedInv == Looping /\ from # dest => PagesIn(from) \subseteq Unmoved

LoopInv == OrderInv /\ ListedInv

\* Every page of from_gen is listed before the first chunk.
LEMMA LoopMark ==
  ASSUME TypeInv, Mark
  PROVE  LoopInv'
<1> DEFINE old == PagesIn(from)
<1>1. /\ fromPages' = Ascending(old) /\ next' = 1 /\ phase' = "chunk"
      /\ from' = from /\ \A p \in Page : GenOf(p)' = GenOf(p)
  <2>1. \A p \in Page : desc[p] \in Desc
    BY DEF TypeInv, TableTyped
  <2>2. \A p \in Page : desc'[p].gen = desc[p].gen
    BY <2>1 DEF Mark, Desc
  <2>3. QED
    BY <2>2 DEF Mark, GenOf
<1>2. PagesIn(from)' = old
  BY <1>1 DEF PagesIn
<1>3. old \in SUBSET Page
  BY DEF PagesIn
<1> HIDE DEF old
<1>4. /\ \A i, j \in 1 .. Len(fromPages') : i < j => fromPages'[i] < fromPages'[j]
      /\ Len(fromPages') \in Nat
      /\ DOMAIN fromPages' = 1 .. Len(fromPages')
      /\ old \subseteq ImageOf(fromPages')
  <2>1. old \in SUBSET Int /\ IsFiniteSet(old) /\ fromPages' \in Seq(Page)
    BY <1>1, <1>3, PagesFinite, AscendingLists
  <2>2. QED
    BY <1>1, <2>1, AscendingOrder, AscendingLists
<1>5. OrderInv'
  BY <1>1, <1>4 DEF OrderInv, Busy, Looping
<1>6. ListedInv'
  BY <1>1, <1>2, <1>4 DEF ListedInv, Unmoved, Pending, ImageOf
<1>7. QED
  BY <1>5, <1>6 DEF LoopInv

\* A chunk is the first of the pages that remain.
LEMMA LoopPick ==
  ASSUME TypeInv, LoopInv, PickChunk
  PROVE  /\ LoopInv'
         /\ Unmoved' = Unmoved
<1> USE DEF TypeInv
<1>1. /\ fromPages \in Seq(Page) /\ next \in Nat \ {0}
      /\ next <= Len(fromPages) /\ Len(fromPages) \in Nat
      /\ ChunkSize \in Nat \ {0}
      /\ ChunkSize <= Len(fromPages) - next + 1
  BY ChunkIs DEF PassTyped, PickChunk
<1>2. /\ phase = "chunk" /\ phase' = "copy"
      /\ chunk' = {fromPages[i] : i \in next .. next + ChunkSize - 1}
      /\ next' = next + ChunkSize
      /\ UNCHANGED <<desc, fromPages, from, dest>>
  BY DEF PickChunk, heapVars, tableVars, passVars
<1> DEFINE n == next + ChunkSize
<1>3. /\ n \in Nat /\ next' = n /\ n = next + ChunkSize
      /\ \A i \in next .. Len(fromPages) : i \in next .. n - 1 \/ i \in n .. Len(fromPages)
      /\ \A i \in n .. Len(fromPages) : i \in next .. Len(fromPages) /\ i \in 1 .. Len(fromPages)
      /\ \A i \in next .. n - 1 : i \in next .. Len(fromPages) /\ i \in 1 .. Len(fromPages)
      /\ \A i \in next .. n - 1, j \in n .. Len(fromPages) : i < j
  BY <1>1, <1>2
<1> HIDE DEF n
<1>4. /\ \A p \in chunk' : \E i \in next .. n - 1 : p = fromPages[i]
      /\ \A i \in next .. n - 1 : fromPages[i] \in chunk'
  BY <1>1, <1>2, <1>3
<1>5. Unmoved' = Unmoved
  <2>1. Unmoved = {fromPages[i] : i \in next .. Len(fromPages)}
    BY <1>2 DEF Unmoved, Pending, Busy
  <2>2. Unmoved' = {fromPages[i] : i \in n .. Len(fromPages)} \cup chunk'
    BY <1>2, <1>3 DEF Unmoved, Pending, Busy
  <2>3. QED
    BY <1>3, <1>4, <2>1, <2>2
<1>6. OrderInv'
  <2>1. \A i \in 1 .. Len(fromPages) : \A j \in 1 .. Len(fromPages) :
          i < j => fromPages[i] < fromPages[j]
    BY <1>2 DEF LoopInv, OrderInv, Looping
  <2>2. \A i \in next .. n - 1 : \A j \in n .. Len(fromPages) :
          fromPages[i] < fromPages[j]
    BY <1>3, <2>1
  <2>3. \A p \in chunk' : \A j \in n .. Len(fromPages) : p < fromPages[j]
    BY <1>4, <2>2
  <2>4. QED
    BY <1>2, <1>3, <2>1, <2>3 DEF OrderInv
<1>7. ListedInv'
  <2>1. PagesIn(from)' = PagesIn(from)
    BY <1>2 DEF PagesIn, GenOf
  <2>2. QED
    BY <1>2, <1>5, <2>1 DEF LoopInv, ListedInv, Looping
<1>8. QED
  BY <1>5, <1>6, <1>7 DEF LoopInv

\* Copies open pages of the destination and no others.
LEMMA CopyEffect ==
  ASSUME TypeInv, CopyObject
  PROVE  \A p \in Page : GenOf(p)' = GenOf(p) \/ GenOf(p)' = dest
<1>1. CanPlace(dest) /\ Claim(dest)
  BY DEF CopyObject
<1>2. CASE HasRoom(dest)
  BY <1>1, <1>2 DEF Claim, GenOf
<1>3. CASE ~HasRoom(dest)
  <2>1. PICK n \in Page : desc' = [desc EXCEPT ![n] = SmallDesc(dest)]
    BY <1>1, <1>3, NextFreeIs DEF CanPlace, Claim, TypeInv
  <2>2. QED
    BY <2>1 DEF GenOf, SmallDesc, TypeInv, TableTyped
<1>4. QED
  BY <1>2, <1>3

\* They do not change what the loop has to deal with.
LEMMA LoopCopy ==
  ASSUME TypeInv, LoopInv, CopyObject
  PROVE  LoopInv' /\ Unmoved' = Unmoved
<1>1. /\ CanPlace(dest) /\ Claim(dest) /\ dest \in Generation
      /\ UNCHANGED evacVars
  BY DEF CopyObject, TypeInv, PassTyped
<1>2. \A p \in Page : GenOf(p)' = GenOf(p) \/ GenOf(p)' = dest
  BY CopyEffect
<1>3. Unmoved' = Unmoved
  BY <1>1 DEF Unmoved, Pending, Busy, evacVars, loopVars
<1>4. OrderInv'
  BY <1>1 DEF LoopInv, OrderInv, Looping, Busy, evacVars, loopVars
<1>5. ListedInv'
  BY <1>1, <1>2, <1>3 DEF LoopInv, ListedInv, Looping, Busy, PagesIn, evacVars, passVars
<1>6. QED
  BY <1>3, <1>4, <1>5 DEF LoopInv

\* Steps that leave the generations of all pages alone.
LEMMA LoopStutter ==
  ASSUME LoopInv, UNCHANGED <<from, dest, fromPages, next, chunk>>,
         \A p \in Page : GenOf(p)' = GenOf(p),
         \/ UNCHANGED phase
         \/ phase = "copy" /\ phase' \in {"reclaim", "stalled"}
         \/ ~Looping'
  PROVE  LoopInv'
<1>1. PagesIn(from)' = PagesIn(from)
  BY DEF PagesIn
<1>2. Looping' => Looping /\ Busy' = Busy
  BY DEF Looping, Busy
<1>3. QED
  BY <1>1, <1>2 DEF LoopInv, OrderInv, ListedInv, Unmoved, Pending

\* No page of the chunk stays in the generation that is promoted: what phase
\* 3 does not release it flips.
LEMMA LoopReclaim ==
  ASSUME TypeInv, Shape, LoopInv, Reclaim
  PROVE  LoopInv'
<1> USE DEF TypeInv
<1>1. /\ phase = "reclaim" /\ phase' = "chunk" /\ dest \in Generation
      /\ chunk \subseteq Page
      /\ UNCHANGED <<from, dest, fromPages, next>>
  BY DEF Reclaim, passVars, loopVars, PassTyped
<1>2. OrderInv'
  BY <1>1 DEF LoopInv, OrderInv, Looping, Busy
<1>3. ASSUME from # dest, NEW p \in Page, GenOf(p)' = from
      PROVE  p \in Pending
  <2>1. p \notin Released /\ p \notin Flipped /\ GenOf(p) = from
    BY <1>1, <1>3, ReclaimEffect DEF GenOf, FreeDesc, PassTyped, Generation
  <2>2. p \in Pending \cup chunk
    BY <1>1, <1>3, <2>1 DEF LoopInv, ListedInv, Looping, Busy, Unmoved, PagesIn
  <2> SUFFICES ASSUME p \in chunk PROVE FALSE
    BY <2>2
  <2>3. desc[p].kind # "free" /\ desc[p] \in Desc
    BY <2>1 DEF Shape, KindInv, TableTyped, PassTyped, Generation
  <2>4. desc[p].kind # "small"
    BY <2>1 DEF Released, Flipped, SmallFlips
  <2>5. ~IsLargeHead(p)
    BY <1>1, <2>1, HeadInRun, RunsTogether
  <2>6. IsLargeCont(p)
    BY <2>3, <2>4, <2>5 DEF Desc, IsLargeHead, IsLargeCont
  <2>7. PICK h \in Page : h < p /\ IsLargeHead(h) /\ p \in Run(h, desc[h].span)
    BY <2>6 DEF Shape, RunInv
  <2>8. h \notin chunk
    BY <1>1, <2>1, <2>7, RunsTogether
  <2>9. h # p /\ GenOf(h) = from
    BY <2>1, <2>6, <2>7 DEF Shape, RunInv, IsLargeHead, IsLargeCont
  <2>10. h \in Pending
    BY <1>1, <1>3, <2>8, <2>9 DEF LoopInv, ListedInv, Looping, Busy, Unmoved, PagesIn
  <2>11. p < h
    BY <1>1, <2>10 DEF LoopInv, OrderInv, Looping, Busy, Pending
  <2>12. QED
    BY <2>7, <2>11 DEF Page
<1>4. ListedInv'
  BY <1>1, <1>3 DEF ListedInv, Unmoved, Busy, Pending, PagesIn
<1>5. QED
  BY <1>2, <1>4 DEF LoopInv

-----------------------------------------------------------------------------
(* The passes of a cycle.                                                  *)

\* The passes of the cycle in progress: those of a minor can be told from the
\* counters it left.
Plan ==
  CASE cycle = "major" -> MajorPasses
    [] cycle = "full" -> FullPasses
    [] OTHER ->
         IF minors_since_g0_promote > 0 THEN <<Pass("G0", "G0", "fresh")>>
         ELSE IF g0_promotes_since_g1_promote > 0
           THEN <<Pass("G0", "G1", "fresh")>>
         ELSE <<Pass("G0", "G1", "fresh"), Pass("G1", "Tenured", "kept")>>

\* k passes have begun, and the generations promoted by those before the
\* last are empty.
Stage(k) ==
  /\ passes = SubSeq(Plan, k + 1, Len(Plan))
  /\ phase = "begin" <=> k = 0
  /\ k > 0 => /\ from = Plan[k].from
              /\ dest = Plan[k].dest
              /\ scanning = (Plan[k].scan # "none")
  /\ \A j \in 1 .. k - 1 :
       Plan[j].from # Plan[j].dest => PagesIn(Plan[j].from) = {}

PlanInv ==
  phase \notin {"idle", "marked"} => \E k \in 0 .. Len(Plan) : Stage(k)

\* A plan starts with the nursery unless it is a major's, promotes no
\* generation into one it has emptied and scans cards but when G0 and G1 are
\* done.
PlanSound ==
  /\ Plan \in Seq(PassType)
  /\ Len(Plan) \in 1 .. 3
  /\ \A k \in 1 .. Len(Plan) : Plan[k] \in PassType
  /\ \A k \in 1 .. Len(Plan) : \A j \in 1 .. k - 1 :
       Plan[j].from # Plan[j].dest => Plan[k].dest # Plan[j].from
  /\ cycle # "major" => Plan[1].from = "G0"

\* Each of the five plans is sound.
LEMMA PlanIs == PlanSound
<1> DEFINE one == <<Pass("G0", "G0", "fresh")>>
           promote == <<Pass("G0", "G1", "fresh")>>
           cascade == <<Pass("G0", "G1", "fresh"), Pass("G1", "Tenured", "kept")>>
           Good(P) == /\ P \in Seq(PassType)
                      /\ Len(P) \in 1 .. 3
                      /\ \A k \in 1 .. Len(P) : P[k] \in PassType
                      /\ \A k \in 1 .. Len(P) : \A j \in 1 .. k - 1 :
                           P[j].from # P[j].dest => P[k].dest # P[j].from
<1>1. \A f, d \in Generation, scan \in {"fresh", "kept", "none"} :
        /\ Pass(f, d, scan) \in PassType
        /\ Pass(f, d, scan).from = f
        /\ Pass(f, d, scan).dest = d
  BY DEF Pass, PassType
<1>2. {"G0", "G1", "Tenured"} \subseteq Generation
  BY DEF Generation
<1>3. ASSUME NEW a \in PassType PROVE Good(<<a>>)
  OBVIOUS
<1>4. ASSUME NEW a \in PassType, NEW b \in PassType,
             a.from # a.dest => b.dest # a.from
      PROVE  Good(<<a, b>>)
  <2>1. /\ Len(<<a, b>>) = 2 /\ <<a, b>> \in Seq(PassType)
        /\ <<a, b>>[1] = a /\ <<a, b>>[2] = b
    OBVIOUS
  <2>2. \A k \in 1 .. 2 : k = 1 \/ k = 2
    OBVIOUS
  <2>3. \A k \in 1 .. 2 : \A j \in 1 .. k - 1 : j = 1 /\ k = 2
    OBVIOUS
  <2>4. QED
    BY <1>4, <2>1, <2>2, <2>3
<1>5. ASSUME NEW a \in PassType, NEW b \in PassType, NEW c \in PassType,
             a.from # a.dest => b.dest # a.from /\ c.dest # a.from,
             b.from # b.dest => c.dest # b.from
      PROVE  Good(<<a, b, c>>)
  <2>1. /\ Len(<<a, b, c>>) = 3 /\ <<a, b, c>> \in Seq(PassType)
        /\ <<a, b, c>>[1] = a /\ <<a, b, c>>[2] = b /\ <<a, b, c>>[3] = c
    OBVIOUS
  <2>2. \A k \in 1 .. 3 : k = 1 \/ k = 2 \/ k = 3
    OBVIOUS
  <2>3. \A k \in 1 .. 3 : \A j \in 1 .. k - 1 :
          \/ j = 1 /\ k = 2
          \/ j = 1 /\ k = 3
          \/ j = 2 /\ k = 3
    OBVIOUS
  <2>4. QED
    BY <1>5, <2>1, <2>2, <2>3
<1> HIDE DEF Good
<1>6. Good(one) /\ Good(promote) /\ Good(cascade)
  BY <1>1, <1>2, <1>3, <1>4
<1>7. Good(MajorPasses) /\ Good(FullPasses)
  BY <1>1, <1>2, <1>4, <1>5 DEF MajorPasses, FullPasses
<1>8. Plan \in {MajorPasses, FullPasses, one, promote, cascade}
  BY DEF Plan
<1>9. Good(Plan)
  BY <1>6, <1>7, <1>8
<1>10. cycle # "major" => Plan[1].from = "G0"
  <2>1. FullPasses[1].from = "G0"
    BY DEF FullPasses, Pass
  <2>2. one[1].from = "G0" /\ promote[1].from = "G0" /\ cascade[1].from = "G0"
    BY DEF Pass
  <2>3. cycle # "major" => Plan \in {FullPasses, one, promote, cascade}
    BY DEF Plan
  <2>4. QED
    BY <2>1, <2>2, <2>3
<1>11. QED
  BY <1>9, <1>10 DEF Good, PlanSound

\* Begun with its passes queued, a cycle is at stage 0.
LEMMA PlanBegins ==
  ASSUME phase' = "begin", passes' = Plan'
  PROVE  PlanInv'
<1>1. Plan' \in Seq(PassType) /\ Len(Plan') \in 1 .. 3
  <2>1. PlanSound'
    BY PlanIs, PTL
  <2>2. QED
    BY <2>1 DEF PlanSound
<1>2. SubSeq(Plan', 1, Len(Plan')) = Plan'
  BY <1>1
<1>3. Stage(0)'
  BY <1>1, <1>2 DEF Stage
<1>4. QED
  BY <1>1, <1>3 DEF PlanInv

\* The four ways to begin a cycle queue its plan.
LEMMA PlanQueued ==
  ASSUME CycleTyped,
         StartMinor \/ StartMajor \/ StartFull \/ CollectMinorWithStatic
  PROVE  PlanInv'
<1>1. CASE StartMajor
  BY <1>1, PlanBegins DEF StartMajor, Begin, Plan, MajorPasses, Pass
<1>2. CASE StartFull
  BY <1>2, PlanBegins DEF StartFull, Begin, Plan, FullPasses, Pass
<1>3. CASE StartMinor \/ CollectMinorWithStatic
  <2>1. /\ CountMinor
        /\ cycle' \in {"minor", "static"} /\ passes' = MinorPasses /\ phase' = "begin"
    BY <1>3 DEF StartMinor, Begin, CollectMinorWithStatic
  <2>2. minors_since_g0_promote \in Nat /\ g0_promotes_since_g1_promote \in Nat
    BY PageHeapAssumption DEF CycleTyped
  <2>3. /\ minors_since_g0_promote' > 0 <=> ~Promoting
        /\ Promoting => (g0_promotes_since_g1_promote' > 0 <=> ~Cascading)
        /\ Cascading => Promoting
    BY <2>1, <2>2 DEF CountMinor, Cascading
  <2>4. passes' = Plan'
    BY <2>1, <2>3 DEF Plan, MinorPasses, Pass
  <2>5. QED
    BY <2>1, <2>4, PlanBegins
<1>4. QED
  BY <1>1, <1>2, <1>3

\* The steps of a pass open, flip and release pages only.
LEMMA PlanKept ==
  ASSUME PlanInv, phase \notin {"idle", "marked", "begin"},
         phase' \notin {"idle", "marked", "begin"},
         UNCHANGED <<passes, from, dest, scanning, cycleVars>>,
         \A p \in Page : GenOf(p)' \in {GenOf(p), "Free", dest}
  PROVE  PlanInv'
<1>1. PICK k \in 0 .. Len(Plan) : Stage(k)
  BY DEF PlanInv
<1>2. Plan' = Plan
  BY DEF Plan, cycleVars, counters
<1>3. k # 0 /\ k \in 1 .. Len(Plan) /\ dest = Plan[k].dest
  BY <1>1 DEF Stage
<1>4. ASSUME NEW j \in 1 .. k - 1, Plan[j].from # Plan[j].dest
      PROVE  PagesIn(Plan[j].from)' = {}
  <2>1. Plan[j].from # dest /\ Plan[j].from # "Free" /\ PagesIn(Plan[j].from) = {}
    <3>1. Len(Plan) \in Nat /\ k \in 1 .. Len(Plan) /\ j \in 1 .. Len(Plan)
      BY <1>3, PlanIs DEF PlanSound
    <3>2. Plan[k].dest # Plan[j].from
      BY <1>4, <3>1, PlanIs DEF PlanSound
    <3>3. Plan[j].from # "Free"
      BY <3>1, PlanIs DEF PlanSound, PassType, Generation
    <3>4. PagesIn(Plan[j].from) = {}
      BY <1>1, <1>4 DEF Stage
    <3>5. QED
      BY <1>3, <3>2, <3>3, <3>4
  <2> DEFINE g == Plan[j].from
  <2>2. g' = g
    BY <1>2
  <2>3. \A p \in Page : GenOf(p) # g
    BY <2>1 DEF PagesIn
  <2> HIDE DEF g
  <2>4. \A p \in Page : GenOf(p)' # g
    BY <2>1, <2>3 DEF g
  <2>5. PagesIn(g)' = {}
    BY <2>2, <2>4 DEF PagesIn
  <2>6. QED
    BY <2>5 DEF g
<1>5. Stage(k)'
  BY <1>1, <1>2, <1>3, <1>4 DEF Stage
<1>6. QED
  BY <1>2, <1>5 DEF PlanInv

\* What is left of a list from a place on.
LEMMA Suffix ==
  ASSUME NEW T, NEW P \in Seq(T), NEW k \in 0 .. Len(P)
  PROVE  /\ SubSeq(P, k + 1, Len(P)) = <<>> <=> k = Len(P)
         /\ k < Len(P) =>
              /\ Head(SubSeq(P, k + 1, Len(P))) = P[k + 1]
              /\ Tail(SubSeq(P, k + 1, Len(P))) = SubSeq(P, k + 2, Len(P))
<1>1. Len(P) \in Nat /\ Len(SubSeq(P, k + 1, Len(P))) = Len(P) - k
  OBVIOUS
<1>2. SubSeq(P, k + 1, Len(P)) = <<>> <=> k = Len(P)
  BY <1>1
<1>3. ASSUME k < Len(P)
      PROVE  /\ Head(SubSeq(P, k + 1, Len(P))) = P[k + 1]
             /\ Tail(SubSeq(P, k + 1, Len(P))) = SubSeq(P, k + 2, Len(P))
  BY <1>1, <1>3
<1>4. QED
  BY <1>2, <1>3

\* At the end of a pass that promotes nothing is left where it began.
LEMMA Emptied ==
  ASSUME LoopInv, phase = "chunk", next > Len(fromPages), from # dest,
         fromPages \in Seq(Page), next \in Nat
  PROVE  PagesIn(from) = {}
<1>1. Pending = {}
  BY DEF Pending
<1>2. QED
  BY <1>1 DEF LoopInv, ListedInv, Looping, Unmoved, Busy

\* The next pass of the plan begins.
LEMMA PlanNext ==
  ASSUME TypeInv, LoopInv, PlanInv, BeginPass
  PROVE  PlanInv'
<1>1. PICK k \in 0 .. Len(Plan) : Stage(k)
  BY DEF PlanInv, BeginPass
<1>2. /\ Plan \in Seq(PassType) /\ Plan' = Plan /\ Len(Plan) \in Nat
      /\ phase' = "mark" /\ UNCHANGED desc
  BY PlanIs DEF PlanSound, Plan, BeginPass, counters, heapVars, tableVars
<1>3. /\ passes = SubSeq(Plan, k + 1, Len(Plan))
      /\ passes # <<>>
      /\ from' = Head(passes).from /\ dest' = Head(passes).dest
      /\ scanning' = (Head(passes).scan # "none")
      /\ passes' = Tail(passes)
  BY <1>1 DEF Stage, BeginPass
<1>4. /\ k < Len(Plan)
      /\ Head(passes) = Plan[k + 1]
      /\ passes' = SubSeq(Plan, k + 2, Len(Plan))
  <2> DEFINE P == Plan
  <2>1. P \in Seq(PassType) /\ k \in 0 .. Len(P) /\ passes = SubSeq(P, k + 1, Len(P))
    BY <1>2, <1>3
  <2> HIDE DEF P
  <2>2. k < Len(P)
    BY <1>3, <2>1, Suffix
  <2>3. /\ Head(SubSeq(P, k + 1, Len(P))) = P[k + 1]
        /\ Tail(SubSeq(P, k + 1, Len(P))) = SubSeq(P, k + 2, Len(P))
    BY <2>1, <2>2, Suffix
  <2>4. QED
    BY <1>3, <2>1, <2>2, <2>3 DEF P
<1>5. ASSUME NEW j \in 1 .. k, Plan[j].from # Plan[j].dest
      PROVE  PagesIn(Plan[j].from) = {}
  <2>1. CASE j = k
    <3>1. phase = "chunk" /\ next > Len(fromPages)
      BY <1>1, <2>1 DEF Stage, BeginPass
    <3>2. from = Plan[k].from /\ dest = Plan[k].dest
      BY <1>1, <2>1 DEF Stage
    <3>3. fromPages \in Seq(Page) /\ next \in Nat
      BY DEF TypeInv, PassTyped
    <3>4. QED
      BY <1>5, <2>1, <3>1, <3>2, <3>3, Emptied
  <2>2. CASE j # k
    <3>1. j \in 1 .. k - 1
      BY <1>2, <2>2
    <3>2. QED
      BY <1>1, <1>5, <3>1 DEF Stage
  <2>3. QED
    BY <2>1, <2>2
<1>6. \A j \in 1 .. k : Plan[j].from # Plan[j].dest => PagesIn(Plan[j].from)' = {}
  <2> SUFFICES ASSUME NEW j \in 1 .. k, Plan[j].from # Plan[j].dest
               PROVE  PagesIn(Plan[j].from)' = {}
    OBVIOUS
  <2>1. PagesIn(Plan[j].from)' = PagesIn(Plan[j].from)
    BY <1>2 DEF PagesIn, GenOf
  <2>2. QED
    BY <1>5, <2>1
<1>7. k + 1 \in 0 .. Len(Plan) /\ (k + 1) + 1 = k + 2 /\ (k + 1) - 1 = k /\ k + 1 # 0
  BY <1>2, <1>4
<1>8. Stage(k + 1)'
  BY <1>2, <1>3, <1>4, <1>6, <1>7 DEF Stage
<1>9. QED
  BY <1>2, <1>7, <1>8 DEF PlanInv

-----------------------------------------------------------------------------
(* Promotion leaves nothing behind.                                        *)

CycleInv == TypeInv /\ Shape /\ LoopInv /\ PlanInv

\* A heap of Free pages between cycles.
LEMMA CycleInit == Init => CycleInv
<1> SUFFICES ASSUME Init PROVE CycleInv
  OBVIOUS
<1>1. desc = [p \in Page |-> FreeDesc] /\ phase = "idle"
  BY DEF Init, TableInit
<1>2. Shape
  BY <1>1 DEF Shape, KindInv, RunInv, GenOf, IsLargeHead, IsLargeCont, FreeDesc
<1>3. LoopInv /\ PlanInv
  BY <1>1 DEF LoopInv, OrderInv, ListedInv, Looping, Busy, PlanInv
<1>4. QED
  BY <1>2, <1>3, TypeInit DEF CycleInv

\* The client's steps find the collector at rest and leave it so.
LEMMA CycleClient ==
  ASSUME CycleInv, Client, TypeInv'
  PROVE  CycleInv'
<1> USE DEF CycleInv
<1>1. phase = "idle" /\ UNCHANGED phase
  BY DEF Client, Alloc, AllocLarge, Store, SetRoot, StoreStatic, Spill, Pin, Unpin,
         Idle, collectorVars
<1>2. LoopInv' /\ PlanInv'
  BY <1>1 DEF LoopInv, OrderInv, ListedInv, Looping, Busy, PlanInv
<1>3. CASE \E r \in Root, i \in Id, w \in Values : Alloc(r, i, w)
  <2>1. Claim("G0") /\ CanPlace("G0") /\ "G0" \in Generation
    BY <1>3 DEF Alloc, CanPlace, Generation
  <2>2. QED
    BY <1>2, <2>1, ShapeClaimed DEF TypeInv
<1>4. CASE \E r \in Root, i \in Id, w \in Values : AllocLarge(r, i, w)
  <2>1. LargeFits # {} /\ ClaimLarge("G0")
    BY <1>4 DEF AllocLarge
  <2>2. QED
    BY <1>2, <2>1, ShapeLarge DEF TypeInv
<1>5. CASE UNCHANGED desc
  BY <1>2, <1>5, ShapeKept DEF TypeInv
<1>6. QED
  BY <1>3, <1>4, <1>5
     DEF Client, Store, SetRoot, StoreStatic, Spill, Pin, Unpin, heapVars, tableVars

\* A cycle begins.
LEMMA CycleBegins ==
  ASSUME Whole, CycleInv, TypeInv',
         \/ StartMinor \/ StartMajor \/ StartFull
         \/ MarkMinorWithStatic \/ CollectMinorWithStatic
  PROVE  CycleInv'
<1> USE DEF CycleInv
<1>1. phase' \in {"begin", "marked"}
  BY DEF StartMinor, StartMajor, StartFull, Begin, MarkMinorWithStatic,
         CollectMinorWithStatic
<1>2. LoopInv'
  BY <1>1 DEF LoopInv, OrderInv, ListedInv, Looping, Busy
<1>3. CASE MarkMinorWithStatic
  <2>1. PlanInv' /\ UNCHANGED desc
    BY <1>3 DEF MarkMinorWithStatic, PlanInv, heapVars, tableVars
  <2>2. QED
    BY <1>2, <2>1, ShapeKept DEF TypeInv
<1>4. CASE CollectMinorWithStatic
  BY <1>2, <1>4, PlanQueued, ShapeDrained DEF TypeInv
<1>5. CASE StartMinor \/ StartMajor \/ StartFull
  <2>1. PICK gens : desc' = [p \in Page |->
                IF \E a \in StackPins(gens) : PageOf(a) = p
                  THEN [desc[p] EXCEPT !.pins = TRUE] ELSE desc[p]]
    BY <1>5 DEF StartMinor, StartMajor, StartFull, Begin
  <2>2. \A p \in Page : desc[p] \in Desc
    BY DEF TypeInv, TableTyped
  <2>3. \A d \in Desc : /\ [d EXCEPT !.pins = TRUE].gen = d.gen
                        /\ [d EXCEPT !.pins = TRUE].kind = d.kind
                        /\ [d EXCEPT !.pins = TRUE].span = d.span
    BY DEF Desc
  <2>4. Shape'
    BY <2>1, <2>2, <2>3, ShapeKept DEF TypeInv
  <2>5. QED
    BY <1>2, <1>5, <2>4, PlanQueued DEF TypeInv
<1>6. QED
  BY <1>3, <1>4, <1>5

\* The steps of a pass, and the end of a cycle.
LEMMA CycleCollector ==
  ASSUME CycleInv, Collector, TypeInv'
  PROVE  CycleInv'
<1> USE DEF CycleInv
<1>1. ASSUME \A p \in Page : /\ desc'[p].gen = desc[p].gen
                             /\ desc'[p].kind = desc[p].kind
                             /\ desc'[p].span = desc[p].span
      PROVE  Shape' /\ \A p \in Page : GenOf(p)' = GenOf(p)
  BY <1>1, ShapeKept DEF TypeInv, GenOf
<1>2. \A d \in Desc, b \in BOOLEAN :
        /\ [d EXCEPT !.pins = b].gen = d.gen
        /\ [d EXCEPT !.pins = b].kind = d.kind
        /\ [d EXCEPT !.pins = b].span = d.span
  BY DEF Desc
<1>3. \A p \in Page : desc[p] \in Desc
  BY DEF TypeInv, TableTyped
<1>4. CASE BeginPass
  <2>1. LoopInv'
    BY <1>4 DEF BeginPass, LoopInv, OrderInv, ListedInv, Looping, Busy
  <2>2. Shape'
    BY <1>1, <1>4 DEF BeginPass, heapVars, tableVars
  <2>3. QED
    BY <1>4, <2>1, <2>2, PlanNext
<1>5. CASE Mark /\ UNCHANGED cycleVars
  <2>1. desc' = [p \in Page |-> IF p \in PinnedPages THEN [desc[p] EXCEPT !.pins = TRUE]
                                                     ELSE desc[p]]
    BY <1>5 DEF Mark
  <2>2. Shape' /\ \A p \in Page : GenOf(p)' = GenOf(p)
    BY <1>1, <1>2, <1>3, <2>1
  <2>3. PlanInv'
    BY <1>5, <2>2, PlanKept DEF Mark, cycleVars
  <2>4. QED
    BY <1>5, <2>2, <2>3, LoopMark
<1>6. CASE PickChunk /\ UNCHANGED cycleVars
  <2>1. UNCHANGED desc
    BY <1>6 DEF PickChunk, heapVars, tableVars
  <2>2. PlanInv'
    BY <1>6, <2>1, PlanKept DEF PickChunk, cycleVars, passVars, GenOf
  <2>3. QED
    BY <1>1, <1>6, <2>1, <2>2, LoopPick
<1>7. CASE CopyObject /\ UNCHANGED cycleVars
  <2>1. Shape'
    BY <1>7, ShapeClaimed DEF CopyObject, TypeInv, PassTyped
  <2>2. PlanInv'
    BY <1>7, CopyEffect, PlanKept DEF CopyObject, cycleVars, evacVars, passVars
  <2>3. QED
    BY <1>7, <2>1, <2>2, LoopCopy
<1>8. CASE (MidEvacOom \/ Rewrite) /\ UNCHANGED cycleVars
  <2>1. UNCHANGED desc
    BY <1>8 DEF MidEvacOom, Rewrite, heapVars, tableVars
  <2>2. PlanInv'
    BY <1>8, <2>1, PlanKept DEF MidEvacOom, Rewrite, cycleVars, passVars, GenOf
  <2>3. LoopInv'
    BY <1>8, <2>1, LoopStutter DEF MidEvacOom, Rewrite, passVars, loopVars, GenOf
  <2>4. QED
    BY <1>1, <2>1, <2>2, <2>3
<1>9. CASE Reclaim /\ UNCHANGED cycleVars
  <2>1. \A p \in Page : GenOf(p)' \in {GenOf(p), "Free", dest}
    BY <1>9, ReclaimEffect DEF GenOf, FreeDesc
  <2>2. PlanInv'
    BY <1>9, <2>1, PlanKept DEF Reclaim, cycleVars, passVars
  <2>3. QED
    BY <1>9, <2>2, LoopReclaim, ShapeReclaimed
<1>10. CASE EndCycle
  <2>1. desc' = [p \in Page |-> [desc[p] EXCEPT !.pins = FALSE]] /\ phase' = "idle"
    BY <1>10 DEF EndCycle
  <2>2. Shape'
    BY <1>1, <1>2, <1>3, <2>1
  <2>3. QED
    BY <2>1, <2>2 DEF LoopInv, OrderInv, ListedInv, Looping, Busy, PlanInv
<1>11. QED
  BY <1>4, <1>5, <1>6, <1>7, <1>8, <1>9, <1>10 DEF Collector

\* Every step keeps the invariant.
LEMMA CycleStep ==
  ASSUME Whole
  PROVE  CycleInv /\ [Next]_vars => CycleInv'
<1> SUFFICES ASSUME CycleInv, [Next]_vars PROVE CycleInv'
  OBVIOUS
<1>1. TypeInv'
  BY TypeStep DEF CycleInv
<1>2. CASE Next
  BY <1>1, <1>2, CycleClient, CycleBegins, CycleCollector DEF Next
<1>3. CASE UNCHANGED vars
  <2>1. UNCHANGED <<desc, phase, from, dest, scanning, passes, cycle,
                    minors_since_g0_promote, g0_promotes_since_g1_promote,
                    fromPages, next, chunk>>
    BY <1>3 DEF vars, heapVars, tableVars, evacVars, cycleVars, passVars, loopVars,
       counters
  <2>2. Shape' /\ LoopInv'
    BY <2>1, ShapeKept, LoopStutter DEF CycleInv, TypeInv, GenOf
  <2>3. PlanInv'
    <3>1. Plan' = Plan
      BY <2>1 DEF Plan
    <3>2. \A k : Stage(k) => Stage(k)'
      BY <2>1, <3>1 DEF Stage, PagesIn, GenOf
    <3>3. QED
      BY <2>1, <3>1, <3>2 DEF CycleInv, PlanInv
  <2>4. QED
    BY <1>1, <2>2, <2>3 DEF CycleInv
<1>4. QED
  BY <1>2, <1>3

\* CycleInv holds in every reachable state.
THEOREM CycleInvariance ==
  ASSUME Whole
  PROVE  Spec => []CycleInv
<1>1. CycleInv /\ [Next]_vars => CycleInv'
  BY CycleStep
<1>2. QED
  BY <1>1, CycleInit, PTL DEF Spec

\* What a pass without a card scan finds: its plan has emptied G0 and G1.
LEMMA YoungLeft ==
  CycleInv => YoungEmptyBeforeCompaction
<1> SUFFICES ASSUME CycleInv, phase = "mark", ~scanning
             PROVE  PagesIn("G0") \cup PagesIn("G1") = {}
  BY DEF YoungEmptyBeforeCompaction
<1>1. PICK k \in 0 .. Len(Plan) : Stage(k)
  BY DEF CycleInv, PlanInv
<1>2. Len(Plan) \in Nat /\ k # 0 /\ k \in 1 .. Len(Plan) /\ Plan[k].scan = "none"
  <2>1. Len(Plan) \in Nat /\ k # 0
    BY <1>1, PlanIs DEF Stage, PlanSound
  <2>2. k \in 1 .. Len(Plan) /\ k > 0
    BY <2>1
  <2>3. scanning = (Plan[k].scan # "none")
    BY <1>1, <2>2, Zenon DEF Stage
  <2>4. Plan[k].scan = "none"
    BY <2>3, Zenon
  <2>5. QED
    BY <2>1, <2>2, <2>4
<1>3. cycle = "full"
  <2>1. \A f, d, s : Pass(f, d, s).scan = s
    BY DEF Pass
  <2>2. SUFFICES ASSUME cycle # "full" PROVE \A i \in 1 .. Len(Plan) : Plan[i].scan # "none"
    BY <1>2
  <2>3. Plan \in {MajorPasses, <<Pass("G0", "G0", "fresh")>>, <<Pass("G0", "G1", "fresh")>>,
                  <<Pass("G0", "G1", "fresh"), Pass("G1", "Tenured", "kept")>>}
    BY <2>2 DEF Plan
  <2>4. QED
    BY <2>1, <2>3 DEF MajorPasses
<1>4. Plan = FullPasses
  BY <1>3 DEF Plan
<1>5. k = 3
  BY <1>2, <1>4 DEF FullPasses, Pass
<1>6. /\ Plan[1].from = "G0" /\ Plan[1].dest = "G1"
      /\ Plan[2].from = "G1" /\ Plan[2].dest = "Tenured"
  BY <1>4 DEF FullPasses, Pass
<1>7. 1 \in 1 .. k - 1 /\ 2 \in 1 .. k - 1
  BY <1>5
<1>8. PagesIn(Plan[1].from) = {} /\ PagesIn(Plan[2].from) = {}
  BY <1>1, <1>6, <1>7 DEF Stage
<1>9. QED
  BY <1>6, <1>8

\* When collect_full comes to its third pass, which scans no cards, G0 and G1
\* are empty, whatever stack words, handles and Large objects pinned there:
\* what earlier passes could not move they flipped.
THEOREM YoungIsEmpty ==
  ASSUME Whole
  PROVE  Spec => []YoungEmptyBeforeCompaction
BY YoungLeft, CycleInvariance, PTL

\* When the last pass is done, every generation its plan promotes is empty.
LEMMA AllEmptied ==
  ASSUME CycleInv, EndCycle
  PROVE  \A j \in 1 .. Len(Plan) :
           Plan[j].from # Plan[j].dest => PagesIn(Plan[j].from) = {}
<1>1. PICK k \in 0 .. Len(Plan) : Stage(k)
  BY DEF CycleInv, PlanInv, EndCycle
<1>2. /\ Plan \in Seq(PassType) /\ Len(Plan) \in Nat /\ Len(Plan) >= 1
      /\ phase = "chunk" /\ next > Len(fromPages) /\ passes = <<>>
  <2>1. Plan \in Seq(PassType) /\ Len(Plan) \in Nat /\ Len(Plan) >= 1
    BY PlanIs DEF PlanSound
  <2>2. phase = "chunk" /\ next > Len(fromPages) /\ passes = <<>>
    BY DEF EndCycle
  <2>3. QED
    BY <2>1, <2>2
<1>3. k = Len(Plan) /\ k \in 1 .. Len(Plan)
  BY <1>1, <1>2, Suffix DEF Stage
<1> SUFFICES ASSUME NEW j \in 1 .. Len(Plan), Plan[j].from # Plan[j].dest
             PROVE  PagesIn(Plan[j].from) = {}
  OBVIOUS
<1>4. CASE j = k
  <2>1. from = Plan[k].from /\ dest = Plan[k].dest
    BY <1>1, <1>3 DEF Stage
  <2>2. fromPages \in Seq(Page) /\ next \in Nat
    BY DEF CycleInv, TypeInv, PassTyped
  <2>3. QED
    BY <1>2, <1>4, <2>1, <2>2, Emptied DEF CycleInv
<1>5. CASE j # k
  <2>1. j \in 1 .. k - 1
    BY <1>2, <1>3, <1>5
  <2>2. QED
    BY <1>1, <2>1 DEF Stage
<1>6. QED
  BY <1>4, <1>5

\* Whatever is pinned, a promoting minor leaves nothing in G0, a cascading
\* one, a major and a full nothing in G1: an object survives at most
\* G0Threshold minors in G0.
THEOREM PromotionIsComplete ==
  ASSUME Whole
  PROVE  Spec => PromotionLeavesNothing
<1>1. ASSUME CycleInv, EndCycle
      PROVE  /\ cycle # "major" /\ minors_since_g0_promote = 0
                  => PagesIn("G0") = {}
             /\ cycle \in {"major", "full"} \/ (/\ minors_since_g0_promote = 0
                                                 /\ g0_promotes_since_g1_promote = 0)
                  => PagesIn("G1") = {}
  <2>1. \A j \in 1 .. Len(Plan) :
          Plan[j].from # Plan[j].dest => PagesIn(Plan[j].from) = {}
    BY <1>1, AllEmptied
  <2>2. minors_since_g0_promote \in Nat /\ g0_promotes_since_g1_promote \in Nat
    BY <1>1, PageHeapAssumption DEF CycleInv, TypeInv, CycleTyped
  <2>3. CASE cycle = "major"
    <3>1. /\ Len(Plan) = 2 /\ Plan[1].from = "G1" /\ Plan[1].dest = "Tenured"
      BY <2>3 DEF Plan, MajorPasses, Pass
    <3>2. PagesIn("G1") = {}
      BY <2>1, <3>1
    <3>3. QED
      BY <2>3, <3>2
  <2>4. CASE cycle = "full"
    <3>1. /\ Len(Plan) = 3 /\ Plan[1].from = "G0" /\ Plan[1].dest = "G1"
          /\ Plan[2].from = "G1" /\ Plan[2].dest = "Tenured"
      BY <2>4 DEF Plan, FullPasses, Pass
    <3>2. 1 \in 1 .. Len(Plan) /\ 2 \in 1 .. Len(Plan)
      BY <3>1
    <3>3. PagesIn(Plan[1].from) = {} /\ PagesIn(Plan[2].from) = {}
      BY <2>1, <3>1, <3>2
    <3>4. QED
      BY <3>1, <3>3
  <2>5. CASE cycle \notin {"major", "full"} /\ minors_since_g0_promote = 0
    <3>1. Plan = IF g0_promotes_since_g1_promote > 0
                   THEN <<Pass("G0", "G1", "fresh")>>
                   ELSE <<Pass("G0", "G1", "fresh"), Pass("G1", "Tenured", "kept")>>
      BY <2>5 DEF Plan
    <3>2. CASE g0_promotes_since_g1_promote = 0
      <4>1. /\ Len(Plan) = 2 /\ Plan[1].from = "G0" /\ Plan[1].dest = "G1"
            /\ Plan[2].from = "G1" /\ Plan[2].dest = "Tenured"
        BY <3>1, <3>2 DEF Pass
      <4>2. 1 \in 1 .. Len(Plan) /\ 2 \in 1 .. Len(Plan)
        BY <4>1
      <4>3. PagesIn(Plan[1].from) = {} /\ PagesIn(Plan[2].from) = {}
        BY <2>1, <4>1, <4>2
      <4>4. QED
        BY <4>1, <4>3
    <3>3. CASE g0_promotes_since_g1_promote # 0
      <4>1. Len(Plan) = 1 /\ Plan[1].from = "G0" /\ Plan[1].dest = "G1"
        BY <2>2, <3>1, <3>3 DEF Pass
      <4>2. PagesIn("G0") = {}
        BY <2>1, <4>1
      <4>3. QED
        BY <2>5, <3>3, <4>2
    <3>4. QED
      BY <3>2, <3>3
  <2>6. CASE cycle \notin {"major", "full"} /\ minors_since_g0_promote # 0
    BY <2>6
  <2>7. QED
    BY <2>3, <2>4, <2>5, <2>6
<1>2. CycleInv =>
        [ EndCycle =>
            /\ cycle # "major" /\ minors_since_g0_promote = 0
                 => PagesIn("G0") = {}
            /\ cycle \in {"major", "full"} \/ (/\ minors_since_g0_promote = 0
                                                /\ g0_promotes_since_g1_promote = 0)
                 => PagesIn("G1") = {} ]_vars
  BY <1>1
<1>3. QED
  BY <1>2, CycleInvariance, PTL DEF PromotionLeavesNothing

-----------------------------------------------------------------------------
(* Bump regions, without Large objects.                                    *)

\* The coordinator's minor has released pages, the one G0 bumps in perhaps
\* among them, and the first pass has not yet reset that region.
Handed == cycle = "static" /\ (phase = "begin" \/ (phase = "mark" /\ from = "G0"))

\* Page p belongs to g and is free of objects from offset o on.
Owns(g, p, o) ==
  /\ GenOf(p) = g
  /\ desc[p].kind = "small"
  /\ \A a \in Slots(p) : a >= Base(p) + o => a \notin starts

\* What BumpIsExclusive says of one generation.
Exclusive(g) ==
  region[g].page # Null => Owns(g, region[g].page, region[g].offset)

\* No region bumps in a page of the chunk or in one that waits for its turn.
Withdrawn == Looping =>
  \A p \in Unmoved : /\ GenOf(p) = from /\ desc[p].kind = "small"
                     /\ \A g \in Generation : region[g].page # p

RegionInv ==
  /\ \A g \in Generation : Exclusive(g) \/ (g = "G0" /\ Handed)
  /\ Withdrawn

\* The slots of a page are the addresses on it.
LEMMA SlotsAre ==
  ASSUME NEW p \in Page
  PROVE  \A a : a \in Slots(p) <=> a \in Addr /\ PageOf(a) = p
<1>1. PageSize \in Nat \ {0} /\ p \in Nat /\ NPages \in Nat
  BY PageTableAssumption DEF Page
<1>2. Base(p) \in Nat /\ Base(p) = p * PageSize
  BY <1>1 DEF Base
<1>3. ASSUME NEW a \in Slots(p) PROVE a \in Addr /\ PageOf(a) = p
  <2>1. a \in Int /\ a - Base(p) \in 0 .. PageSize - 1 /\ Base(p) + (a - Base(p)) = a
    BY <1>1, <1>2 DEF Slots
  <2>2. QED
    BY <2>1, SlotIn
<1>4. ASSUME NEW a \in Addr, PageOf(a) = p PROVE a \in Slots(p)
  <2>1. a \in Nat
    BY <1>1 DEF Addr
  <2>2. /\ PageSize * (a \div PageSize) <= a
        /\ a < PageSize * (a \div PageSize) + PageSize
    BY <1>1, <2>1, Division
  <2>3. a \div PageSize = p /\ PageSize * p = p * PageSize
    BY <1>1, <1>4 DEF PageOf
  <2>4. QED
    BY <1>1, <1>2, <2>1, <2>2, <2>3 DEF Slots
<1>5. QED
  BY <1>3, <1>4

\* Where a region bumps.
LEMMA RegionIs ==
  ASSUME TableTyped, NEW g \in Generation
  PROVE  /\ region[g].page \in Page \cup {Null}
         /\ region[g].offset \in 0 .. PageSize
         /\ Null \notin Page
BY PageTableAssumption DEF TableTyped, Page

\* What one generation owns, and the slots of its page, step by step.
LEMMA ExclusiveNow ==
  ASSUME TableTyped, NEW h \in Generation, NEW s \in Page, NEW o,
         region'[h].page = s, region'[h].offset = o, Owns(h, s, o)'
  PROVE  Exclusive(h)'
<1>1. \A p, k : Owns(h, p, k)' <=>
        /\ desc'[p].gen = h
        /\ desc'[p].kind = "small"
        /\ \A a \in Slots(p) : a >= Base(p) + k => a \notin starts'
  BY DEF Owns, GenOf, Slots, Base
<1>2. Owns(h, region[h].page, region[h].offset)' <=>
        /\ desc'[region'[h].page].gen = h
        /\ desc'[region'[h].page].kind = "small"
        /\ \A a \in Slots(region'[h].page) :
             a >= Base(region'[h].page) + region'[h].offset => a \notin starts'
  BY DEF Owns, GenOf, Slots, Base
<1>3. Owns(h, region[h].page, region[h].offset)'
  BY <1>1, <1>2
<1>4. QED
  BY <1>3 DEF Exclusive

\* A region of a page that keeps its generation, gains no object, stays
\* exclusive.
LEMMA RegionKept ==
  ASSUME TableTyped, NEW h \in Generation, Exclusive(h), region'[h] = region[h],
         \A p \in Page : p = region[h].page =>
            /\ desc'[p].gen = desc[p].gen
            /\ desc'[p].kind = desc[p].kind
            /\ \A a \in Slots(p) : a \in starts' => a \in starts
  PROVE  Exclusive(h)'
<1>1. CASE region[h].page = Null
  BY <1>1 DEF Exclusive
<1>2. CASE region[h].page # Null
  <2>1. PICK s, o : s \in Page /\ region[h].page = s /\ region[h].offset = o
    BY <1>2, RegionIs
  <2>2. Owns(h, s, o)
    BY <1>2, <2>1 DEF Exclusive
  <2>3. Owns(h, s, o)'
    BY <2>1, <2>2 DEF Owns, GenOf
  <2>4. QED
    BY <2>1, <2>3, ExclusiveNow
<1>3. QED
  BY <1>1, <1>2

\* Taking a slot keeps every region exclusive.
LEMMA RegionsClaimed ==
  ASSUME TableTyped, \A h \in Generation : Exclusive(h),
         NEW g \in Generation, CanPlace(g), Claim(g), starts' = StartsWithNext(g)
  PROVE  \A h \in Generation : Exclusive(h)'
<1>1. /\ PageSize \in Nat \ {0}
      /\ region \in [Generation -> [page : Page \cup {Null}, offset : 0 .. PageSize]]
  BY PageTableAssumption DEF TableTyped
<1>2. CASE HasRoom(g)
  <2>1. PICK r \in Page, o \in 0 .. PageSize - 1 :
          /\ region[g].page = r /\ region[g].offset = o
          /\ region'[g].page = r /\ region'[g].offset = o + 1
          /\ \A k \in Generation : k # g => region'[k] = region[k]
          /\ UNCHANGED desc
          /\ starts' = starts \cup {Base(r) + o}
          /\ Owns(g, r, o)
    <3>1. region[g].page # Null /\ region[g].offset < PageSize
      BY <1>2 DEF HasRoom
    <3>2. region[g].page \in Page /\ region[g].offset \in 0 .. PageSize - 1
      BY <1>1, <3>1
    <3>3. region' = [region EXCEPT ![g].offset = @ + 1] /\ UNCHANGED desc
      BY <1>2 DEF Claim
    <3>4. starts' = starts \cup {Base(region[g].page) + region[g].offset}
      BY <1>2 DEF StartsWithNext, NextSlot
    <3>5. Owns(g, region[g].page, region[g].offset)
      BY <3>1 DEF Exclusive
    <3>6. QED
      BY <1>1, <3>2, <3>3, <3>4, <3>5
  <2>2. Base(r) + o \in Addr /\ PageOf(Base(r) + o) = r
    BY <2>1, SlotIn
  <2>3. Exclusive(g)'
    <3>1. \A a \in Slots(r) : a \in Int
      BY SlotsAre DEF Addr
    <3>2. Base(r) \in Int
      BY <1>1 DEF Base, Page
    <3>3. \A a \in Slots(r) : a >= Base(r) + (o + 1) => a >= Base(r) + o /\ a # Base(r) + o
      BY <2>1, <3>1, <3>2
    <3>4. Owns(g, r, o + 1)'
      BY <2>1, <3>3 DEF Owns, GenOf
    <3>5. QED
      BY <2>1, <3>4, ExclusiveNow
  <2>4. ASSUME NEW h \in Generation, h # g PROVE Exclusive(h)'
    <3>1. ASSUME NEW p \in Page, p = region[h].page
          PROVE  \A a \in Slots(p) : a \in starts' => a \in starts
      <4>1. GenOf(p) = h /\ GenOf(r) = g
        BY <2>1, <3>1, RegionIs DEF Exclusive, Owns
      <4>2. Base(r) + o \notin Slots(p)
        BY <2>2, <2>4, <4>1, SlotsAre
      <4>3. QED
        BY <2>1, <4>2
    <3>2. QED
      BY <2>1, <2>4, <3>1, RegionKept
  <2>5. QED
    BY <2>3, <2>4
<1>3. CASE ~HasRoom(g)
  <2>1. PICK n \in Page :
          /\ GenOf(n) = "Free"
          /\ region'[g].page = n /\ region'[g].offset = 1
          /\ \A k \in Generation : k # g => region'[k] = region[k]
          /\ desc' = [desc EXCEPT ![n] = SmallDesc(g)]
          /\ starts' = (starts \ Slots(n)) \cup {Base(n)}
    <3>1. NextFree \in Page /\ GenOf(NextFree) = "Free"
      BY <1>3, NextFreeIs DEF CanPlace
    <3>2. /\ region' = [region EXCEPT ![g] = [page |-> NextFree, offset |-> 1]]
          /\ desc' = [desc EXCEPT ![NextFree] = SmallDesc(g)]
      BY <1>3 DEF Claim
    <3>3. starts' = (starts \ Slots(NextFree)) \cup {Base(NextFree)}
      BY <1>3 DEF StartsWithNext, NextSlot
    <3>4. QED
      BY <1>1, <3>1, <3>2, <3>3
  <2>2. Base(n) \in Addr /\ PageOf(Base(n)) = n /\ Base(n) \in Int
    <3>1. 0 \in 0 .. PageSize - 1 /\ Base(n) + 0 = Base(n) /\ Base(n) \in Int
      BY <1>1 DEF Base, Page
    <3>2. QED
      BY <3>1, SlotIn
  <2>3. Exclusive(g)'
    <3>1. desc'[n] = SmallDesc(g)
      BY <2>1 DEF TableTyped
    <3>2. \A a \in Slots(n) : a \in Int
      BY SlotsAre DEF Addr
    <3>3. \A a \in Slots(n) : a >= Base(n) + 1 => a \notin starts'
      BY <2>1, <2>2, <3>2
    <3>4. Owns(g, n, 1)'
      BY <3>1, <3>3 DEF Owns, GenOf, SmallDesc
    <3>5. QED
      BY <2>1, <3>4, ExclusiveNow
  <2>4. ASSUME NEW h \in Generation, h # g PROVE Exclusive(h)'
    <3>1. ASSUME NEW p \in Page, p = region[h].page
          PROVE  /\ desc'[p] = desc[p]
                 /\ \A a \in Slots(p) : a \in starts' => a \in starts
      <4>1. GenOf(p) = h
        BY <3>1, RegionIs DEF Exclusive, Owns
      <4>2. p # n
        BY <2>1, <4>1 DEF Generation
      <4>3. Base(n) \notin Slots(p)
        BY <2>2, <4>2, SlotsAre
      <4>4. QED
        BY <2>1, <4>2, <4>3 DEF TableTyped
    <3>2. QED
      BY <2>1, <2>4, <3>1, RegionKept
  <2>5. QED
    BY <2>3, <2>4
<1>4. QED
  BY <1>2, <1>3

\* The loop deals with pages.
LEMMA UnmovedPages ==
  ASSUME PassTyped
  PROVE  Unmoved \subseteq Page
<1>1. /\ fromPages \in Seq(Page) /\ chunk \subseteq Page
      /\ Len(fromPages) \in Nat /\ next \in 1 .. Len(fromPages) + 1
  BY DEF PassTyped
<1>2. \A i \in next .. Len(fromPages) : i \in 1 .. Len(fromPages)
  BY <1>1
<1>3. QED
  BY <1>1, <1>2 DEF Unmoved, Pending

\* While the collector rests or begins a cycle no page is withdrawn, and a step
\* that moves nothing keeps every region as it is.
LEMMA RegionsStay ==
  ASSUME TableTyped, PassTyped, RegionInv, UNCHANGED <<region, starts>>,
         \A p \in Page : /\ desc'[p].gen = desc[p].gen
                         /\ desc'[p].kind = desc[p].kind,
         Handed => Handed',
         Looping' => Looping /\ Unmoved' = Unmoved /\ UNCHANGED from
  PROVE  RegionInv'
<1>1. ASSUME NEW g \in Generation, Exclusive(g) PROVE Exclusive(g)'
  BY <1>1, RegionKept
<1>2. ASSUME NEW g \in Generation PROVE Exclusive(g)' \/ (g = "G0" /\ Handed')
  BY <1>1 DEF RegionInv
<1>3. Withdrawn'
  <2> SUFFICES ASSUME Looping', NEW p \in Unmoved'
               PROVE  /\ desc'[p].gen = from' /\ desc'[p].kind = "small"
                      /\ \A g \in Generation : region'[g].page # p
    BY DEF Withdrawn, GenOf
  <2>1. p \in Unmoved /\ Looping
    OBVIOUS
  <2>2. GenOf(p) = from /\ desc[p].kind = "small"
    BY <2>1 DEF RegionInv, Withdrawn
  <2>3. p \in Page
    BY <2>1, UnmovedPages
  <2>4. QED
    BY <2>1, <2>2, <2>3 DEF RegionInv, Withdrawn, GenOf
<1>4. QED
  BY <1>2, <1>3 DEF RegionInv

\* The client allocates in its own region; it has no Large objects.
LEMMA RegionClient ==
  ASSUME NoLarge, CycleInv, RegionInv, Client
  PROVE  RegionInv'
<1> USE DEF CycleInv, TypeInv
<1>1. phase = "idle" /\ UNCHANGED phase
  BY DEF Client, Alloc, AllocLarge, Store, SetRoot, StoreStatic, Spill, Pin, Unpin,
         Idle, collectorVars
<1>2. ~Handed /\ ~Looping'
  BY <1>1 DEF Handed, Looping, Busy
<1>3. CASE \E r \in Root, i \in Id, w \in Values : Alloc(r, i, w)
  <2>1. /\ Claim("G0") /\ CanPlace("G0") /\ "G0" \in Generation
        /\ starts' = StartsWithNext("G0")
    BY <1>3 DEF Alloc, CanPlace, Generation
  <2>2. \A g \in Generation : Exclusive(g)
    BY <1>2 DEF RegionInv
  <2>3. \A g \in Generation : Exclusive(g)'
    BY <2>1, <2>2, RegionsClaimed
  <2>4. QED
    BY <1>2, <2>3 DEF RegionInv, Withdrawn
<1>4. CASE \E r \in Root, i \in Id, w \in Values : AllocLarge(r, i, w)
  BY <1>4, ShapeLarge DEF AllocLarge
<1>5. CASE UNCHANGED <<desc, region, starts>>
  BY <1>2, <1>5, RegionsStay
<1>6. QED
  BY <1>3, <1>4, <1>5
     DEF Client, Store, SetRoot, StoreStatic, Spill, Pin, Unpin, heapVars, tableVars

\* A cycle begins; the coordinator's minor may release the page that G0 bumps
\* in.
LEMMA RegionBegins ==
  ASSUME CycleInv, RegionInv,
         \/ StartMinor \/ StartMajor \/ StartFull
         \/ MarkMinorWithStatic \/ CollectMinorWithStatic
  PROVE  RegionInv'
<1> USE DEF CycleInv, TypeInv
<1>1. /\ phase \in {"idle", "marked"} /\ phase' \in {"begin", "marked"}
      /\ UNCHANGED <<region, starts>>
  BY DEF StartMinor, StartMajor, StartFull, Begin, MarkMinorWithStatic,
         CollectMinorWithStatic, Idle, heapVars, tableVars
<1>2. ~Handed /\ ~Looping'
  BY <1>1 DEF Handed, Looping, Busy
<1>3. CASE MarkMinorWithStatic
  <2>1. UNCHANGED desc
    BY <1>3 DEF MarkMinorWithStatic, heapVars, tableVars
  <2>2. QED
    BY <1>1, <1>2, <2>1, RegionsStay
<1>4. CASE StartMinor \/ StartMajor \/ StartFull
  <2>1. PICK gens : desc' = [p \in Page |->
                IF \E a \in StackPins(gens) : PageOf(a) = p
                  THEN [desc[p] EXCEPT !.pins = TRUE] ELSE desc[p]]
    BY <1>4 DEF StartMinor, StartMajor, StartFull, Begin
  <2>2. \A p \in Page : desc[p] \in Desc
    BY DEF TableTyped
  <2>3. \A d \in Desc : /\ [d EXCEPT !.pins = TRUE].gen = d.gen
                        /\ [d EXCEPT !.pins = TRUE].kind = d.kind
    BY DEF Desc
  <2>4. QED
    BY <1>1, <1>2, <2>1, <2>2, <2>3, RegionsStay
<1>5. CASE CollectMinorWithStatic
  <2> DEFINE pins == StackPins({"G0", "G1"})
             live == Closure(marks \cup pins \cup Pointers(pins))
             drained == IF premarked THEN ZeroLive(live) ELSE {}
             P == {PageOf(a) : a \in pins}
  <2>1. /\ desc' = [p \in Page |->
                      CASE p \in drained -> FreeDesc
                        [] p \in P -> [desc[p] EXCEPT !.pins = TRUE]
                        [] OTHER -> desc[p]]
        /\ Handed'
    BY <1>5 DEF CollectMinorWithStatic, Handed
  <2>2. \A p \in drained : GenOf(p) = "G0"
    BY DEF ZeroLive, PagesIn
  <2> HIDE DEF drained, P
  <2>3. ASSUME NEW g \in Generation, g # "G0" PROVE Exclusive(g)'
    <3>1. ASSUME NEW p \in Page, p = region[g].page
          PROVE  desc'[p].gen = desc[p].gen /\ desc'[p].kind = desc[p].kind
      <4>1. GenOf(p) = g
        BY <1>2, <3>1, RegionIs DEF RegionInv, Exclusive, Owns
      <4>2. p \notin drained /\ desc[p] \in Desc
        BY <2>2, <2>3, <4>1 DEF TableTyped
      <4>3. QED
        BY <2>1, <4>2 DEF Desc
    <3>2. Exclusive(g)
      BY <1>2 DEF RegionInv
    <3>3. QED
      BY <1>1, <3>1, <3>2, RegionKept
  <2>4. QED
    BY <1>2, <2>1, <2>3 DEF RegionInv, Withdrawn
<1>6. QED
  BY <1>3, <1>4, <1>5

\* A pass begins; the first of a coordinator's minor is about G0.
LEMMA RegionPass ==
  ASSUME CycleInv, RegionInv, BeginPass
  PROVE  RegionInv'
<1> USE DEF CycleInv, TypeInv
<1>1. /\ phase' = "mark" /\ UNCHANGED <<desc, region, starts, cycle>>
      /\ phase \in {"begin", "chunk"}
      /\ from' = Head(passes).from
  BY DEF BeginPass, heapVars, tableVars
<1>2. ASSUME Handed PROVE Handed'
  <2>1. cycle = "static" /\ phase = "begin"
    BY <1>1, <1>2 DEF Handed
  <2>2. PICK k \in 0 .. Len(Plan) : Stage(k)
    BY <2>1 DEF PlanInv
  <2>3. k = 0 /\ passes = SubSeq(Plan, k + 1, Len(Plan))
    BY <2>1, <2>2 DEF Stage
  <2>4. Plan \in Seq(PassType) /\ k < Len(Plan) /\ Plan[1].from = "G0"
    BY <2>1, <2>3, PlanIs DEF PlanSound
  <2>5. Head(passes) = Plan[1]
    BY <2>3, <2>4, Suffix
  <2>6. QED
    BY <1>1, <2>1, <2>4, <2>5 DEF Handed
<1>3. ~Looping'
  BY <1>1 DEF Looping, Busy
<1>4. QED
  BY <1>1, <1>2, <1>3, RegionsStay

\* A pass gives up the region of the generation it collects.
LEMMA RegionMark ==
  ASSUME NoLarge, CycleInv, RegionInv, Mark, UNCHANGED cycleVars
  PROVE  RegionInv'
<1> USE DEF CycleInv, TypeInv
<1> DEFINE old == PagesIn(from)
<1>1. /\ phase = "mark" /\ phase' = "chunk" /\ next' = 1
      /\ UNCHANGED <<starts, from>>
      /\ fromPages' = Ascending(old)
      /\ from \in Generation
  BY DEF Mark, PassTyped
<1>2. \A p \in Page : desc'[p].gen = desc[p].gen /\ desc'[p].kind = desc[p].kind
  <2>1. \A p \in Page : desc[p] \in Desc
    BY DEF TableTyped
  <2>2. QED
    BY <2>1 DEF Mark, Desc
<1>3. /\ region'[from].page = Null
      /\ \A g \in Generation : g # from => region'[g] = region[g]
  BY <1>1 DEF Mark, TableTyped, NoRegion
<1>4. ASSUME NEW g \in Generation, g # from PROVE Exclusive(g) /\ Exclusive(g)'
  <2>1. Exclusive(g)
    BY <1>1, <1>4 DEF RegionInv, Handed
  <2>2. QED
    BY <1>1, <1>2, <1>3, <1>4, <2>1, RegionKept
<1>5. Exclusive(from)'
  BY <1>1, <1>3 DEF Exclusive
<1>6. \A g \in Generation : Exclusive(g)'
  <2>1. ASSUME NEW g \in Generation PROVE Exclusive(g)'
    <3>1. CASE g = from
      BY <1>1, <1>3, <3>1 DEF Exclusive
    <3>2. CASE g # from
      BY <1>4, <3>2
    <3>3. QED
      BY <3>1, <3>2
  <2>2. QED
    BY <2>1
<1>7. \A p \in old : p \in Page /\ desc[p].gen = from
  BY DEF PagesIn, GenOf
<1> HIDE DEF old
<1>8. ASSUME NEW p \in Unmoved' PROVE p \in old
  <2>1. old \in SUBSET Int /\ IsFiniteSet(old)
    <3>1. old \in SUBSET Page
      BY <1>7
    <3>2. QED
      BY <3>1, PagesFinite
  <2>2. PICK i \in 1 .. Len(fromPages') : p = fromPages'[i]
    BY <1>1 DEF Unmoved, Pending, Busy
  <2>3. QED
    BY <1>1, <2>1, <2>2, AscendingOrder
<1>9. ASSUME NEW p \in Unmoved'
      PROVE  /\ desc'[p].gen = from' /\ desc'[p].kind = "small"
             /\ \A g \in Generation : region'[g].page # p
  <2>1. p \in Page /\ desc[p].gen = from /\ desc[p] \in Desc
    BY <1>7, <1>8, <1>9 DEF TableTyped
  <2>2. desc[p].kind = "small"
    BY <1>1, <2>1 DEF Shape, KindInv, GenOf, Desc, Generation
  <2>3. ASSUME NEW g \in Generation, region'[g].page = p PROVE FALSE
    <3>1. g # from
      BY <1>3, <2>1, <2>3, RegionIs
    <3>2. region[g].page = p /\ region[g].page # Null
      BY <1>3, <2>1, <2>3, <3>1, RegionIs
    <3>3. GenOf(region[g].page) = g
      BY <1>4, <3>1, <3>2 DEF Exclusive, Owns
    <3>4. QED
      BY <2>1, <3>1, <3>2, <3>3 DEF GenOf
  <2>4. QED
    BY <1>1, <1>2, <2>1, <2>2, <2>3
<1>10. Withdrawn'
  BY <1>9 DEF Withdrawn, GenOf
<1>11. QED
  BY <1>6, <1>10 DEF RegionInv

\* The copies go to the region of the destination.
LEMMA RegionCopy ==
  ASSUME CycleInv, RegionInv, CopyObject
  PROVE  RegionInv'
<1> USE DEF CycleInv, TypeInv
<1>1. /\ CanPlace(dest) /\ Claim(dest) /\ dest \in Generation /\ from \in Generation
      /\ starts' = StartsWithNext(dest)
      /\ phase = "copy"
      /\ UNCHANGED <<phase, from, fromPages, next, chunk>>
  BY DEF CopyObject, PassTyped, evacVars, passVars, loopVars
<1>2. \A g \in Generation : Exclusive(g)
  BY <1>1 DEF RegionInv, Handed
<1>3. \A g \in Generation : Exclusive(g)'
  BY <1>1, <1>2, RegionsClaimed
<1>4. Unmoved' = Unmoved /\ Unmoved \subseteq Page
  BY LoopCopy, UnmovedPages
<1>5. ASSUME NEW p \in Unmoved
      PROVE  /\ desc'[p].gen = from /\ desc'[p].kind = "small"
             /\ \A g \in Generation : region'[g].page # p
  <2>1. /\ GenOf(p) = from /\ desc[p].kind = "small" /\ p \in Page
        /\ \A g \in Generation : region[g].page # p
    BY <1>1, <1>4, <1>5 DEF RegionInv, Withdrawn, Looping, Busy
  <2>2. CASE HasRoom(dest)
    BY <1>1, <2>1, <2>2 DEF Claim, TableTyped, GenOf
  <2>3. CASE ~HasRoom(dest)
    <3>1. PICK n \in Page : /\ GenOf(n) = "Free"
                            /\ desc' = [desc EXCEPT ![n] = SmallDesc(dest)]
                            /\ region' = [region EXCEPT ![dest] = [page |-> n, offset |-> 1]]
      BY <1>1, <2>3, NextFreeIs DEF CanPlace, Claim
    <3>2. p # n
      BY <1>1, <2>1, <3>1 DEF Generation
    <3>3. desc'[p] = desc[p]
      BY <3>1, <3>2 DEF TableTyped
    <3>4. \A g \in Generation : region'[g].page \in {n, region[g].page}
      BY <3>1 DEF TableTyped
    <3>5. QED
      BY <2>1, <3>2, <3>3, <3>4 DEF GenOf
  <2>4. QED
    BY <2>2, <2>3
<1>6. Withdrawn'
  BY <1>1, <1>4, <1>5 DEF Withdrawn, GenOf
<1>7. QED
  BY <1>3, <1>6 DEF RegionInv

\* Phase 3 leaves alone the pages that regions bump in and those that wait.
LEMMA RegionReclaim ==
  ASSUME NoLarge, CycleInv, RegionInv, Reclaim
  PROVE  RegionInv'
<1> USE DEF CycleInv, TypeInv
<1>1. /\ phase = "reclaim" /\ phase' = "chunk"
      /\ chunk \subseteq Page
      /\ UNCHANGED <<region, from, fromPages, next>>
  BY DEF Reclaim, passVars, loopVars, PassTyped
<1>2. Released \subseteq chunk /\ Flipped \subseteq chunk /\ SmallFlips \subseteq chunk
  <2>1. \A p \in chunk : ~IsLargeHead(p)
    BY <1>1 DEF Shape, KindInv, IsLargeHead
  <2>2. QED
    BY <2>1 DEF Released, Flipped, SmallFlips, LargeFlips, LargeRuns
<1>3. ASSUME NEW p \in Page, p \notin chunk
      PROVE  /\ desc'[p].gen = desc[p].gen
             /\ desc'[p].kind = desc[p].kind
             /\ \A a \in Slots(p) : a \in starts' => a \in starts
  <2>1. desc'[p].gen = desc[p].gen /\ desc'[p].kind = desc[p].kind
    BY <1>2, <1>3, ReclaimEffect
  <2>2. \A a \in Slots(p) : PageOf(a) = p
    BY SlotsAre
  <2>3. starts' \subseteq starts \cup {a \in pinned : PageOf(a) \in SmallFlips}
    BY DEF Reclaim
  <2>4. QED
    BY <1>2, <1>3, <2>1, <2>2, <2>3
<1>4. Unmoved = Pending \cup chunk /\ Unmoved' = Pending
  BY <1>1 DEF Unmoved, Pending, Busy
<1>5. /\ Pending \subseteq Page
      /\ \A p \in Pending : p \notin chunk
  <2>1. Pending \subseteq Page
    BY <1>4, UnmovedPages
  <2>2. \A p \in chunk : \A q \in Pending : p < q
    BY <1>1 DEF LoopInv, OrderInv, Looping, Busy, Pending
  <2>3. QED
    BY <2>1, <2>2, PageTableAssumption DEF Page
<1>6. ASSUME NEW g \in Generation PROVE Exclusive(g)'
  <2>1. Exclusive(g)
    BY <1>1 DEF RegionInv, Handed
  <2>2. region[g].page \notin chunk
    BY <1>1, <1>4 DEF RegionInv, Withdrawn, Looping, Busy
  <2>3. QED
    BY <1>1, <1>3, <2>1, <2>2, RegionKept
<1>7. Withdrawn'
  <2>1. ASSUME NEW p \in Pending
        PROVE  /\ desc'[p].gen = from /\ desc'[p].kind = "small"
               /\ \A g \in Generation : region'[g].page # p
    BY <1>1, <1>3, <1>4, <1>5 DEF RegionInv, Withdrawn, Looping, Busy, GenOf
  <2>2. QED
    BY <1>1, <1>4, <2>1 DEF Withdrawn, GenOf
<1>8. QED
  BY <1>6, <1>7 DEF RegionInv

\* Every step keeps the regions.
LEMMA RegionStep ==
  ASSUME NoLarge
  PROVE  CycleInv /\ RegionInv /\ [Next]_vars => RegionInv'
<1> SUFFICES ASSUME CycleInv, RegionInv, [Next]_vars PROVE RegionInv'
  OBVIOUS
<1> USE DEF CycleInv, TypeInv
<1>1. ASSUME UNCHANGED <<desc, region, starts, cycle, from, fromPages, next, chunk>>,
             \/ phase' = phase
             \/ phase = "copy" /\ phase' \in {"reclaim", "stalled"}
      PROVE  RegionInv'
  <2>1. Handed => Handed'
    BY <1>1 DEF Handed
  <2>2. Looping' => Looping /\ Unmoved' = Unmoved
    BY <1>1 DEF Looping, Busy, Unmoved, Pending
  <2>3. QED
    BY <1>1, <2>1, <2>2, RegionsStay
<1>2. CASE UNCHANGED vars
  <2>1. /\ UNCHANGED <<desc, region, starts, cycle, from, fromPages, next, chunk>>
        /\ phase' = phase
    BY <1>2 DEF vars, heapVars, tableVars, evacVars, cycleVars, passVars, loopVars
  <2>2. QED
    BY <1>1, <2>1
<1>3. CASE PickChunk /\ UNCHANGED cycleVars
  <2>1. /\ UNCHANGED <<desc, region, starts, from>>
        /\ phase = "chunk"
    BY <1>3 DEF PickChunk, heapVars, tableVars, passVars
  <2>2. ~Handed /\ Looping
    BY <2>1 DEF Handed, Looping
  <2>3. Unmoved' = Unmoved
    BY <1>3, LoopPick
  <2>4. QED
    BY <2>1, <2>2, <2>3, RegionsStay
<1>4. CASE (MidEvacOom \/ Rewrite) /\ UNCHANGED cycleVars
  BY <1>1, <1>4 DEF MidEvacOom, Rewrite, heapVars, tableVars, passVars, loopVars, cycleVars
<1>5. CASE EndCycle
  <2>1. /\ desc' = [p \in Page |-> [desc[p] EXCEPT !.pins = FALSE]]
        /\ phase = "chunk" /\ phase' = "idle"
        /\ UNCHANGED <<region, starts>>
    BY <1>5 DEF EndCycle
  <2>2. ~Handed /\ ~Looping'
    BY <2>1 DEF Handed, Looping, Busy
  <2>3. \A p \in Page : desc'[p].gen = desc[p].gen /\ desc'[p].kind = desc[p].kind
    BY <2>1 DEF TableTyped, Desc
  <2>4. QED
    BY <2>1, <2>2, <2>3, RegionsStay
<1>6. CASE Collector
  BY <1>3, <1>4, <1>5, <1>6, RegionPass, RegionMark, RegionCopy, RegionReclaim
     DEF Collector
<1>7. QED
  BY <1>2, <1>6, RegionClient, RegionBegins DEF Next

\* No region is open to begin with.
LEMMA RegionInit == Init => RegionInv
<1> SUFFICES ASSUME Init PROVE RegionInv
  OBVIOUS
<1>1. region = [g \in Generation |-> NoRegion] /\ phase = "idle"
  BY DEF Init, TableInit
<1>2. \A g \in Generation : Exclusive(g)
  BY <1>1 DEF Exclusive, NoRegion
<1>3. QED
  BY <1>1, <1>2 DEF RegionInv, Withdrawn, Looping, Busy

\* A client without Large objects gives up no more than the G0 region, and
\* that only between the release of the unmarked G0 pages and the mark of the
\* pass that follows, when nothing allocates.
THEOREM RegionsAreExclusive ==
  ASSUME NoLarge
  PROVE  Spec => [](Handed \/ BumpIsExclusive)
<1>1. Whole
  BY DEF Whole
<1>2. Spec => []CycleInv
  BY <1>1, CycleInvariance
<1>3. CycleInv /\ RegionInv /\ [Next]_vars => RegionInv'
  BY RegionStep
<1>4. RegionInv => Handed \/ BumpIsExclusive
  BY DEF RegionInv, Exclusive, Owns, BumpIsExclusive
<1>5. QED
  BY <1>2, <1>3, <1>4, RegionInit, PTL DEF Spec

\* The cycle in progress is one the client asks for.
CycleKnown == cycle \in Cycles \cup {"none"}

\* ... at every step.
LEMMA CycleIsKnown == Spec => []CycleKnown
<1>1. Init => CycleKnown
  BY DEF Init, CycleKnown
<1>2. CycleKnown /\ [Next]_vars => CycleKnown'
  <2> SUFFICES ASSUME CycleKnown, [Next]_vars PROVE CycleKnown'
    OBVIOUS
  <2>1. CASE UNCHANGED cycle
    BY <2>1 DEF CycleKnown
  <2>2. CASE StartMinor \/ StartMajor \/ StartFull
    BY <2>2 DEF StartMinor, StartMajor, StartFull, Begin, CycleKnown
  <2>3. CASE CollectMinorWithStatic
    BY <2>3 DEF CollectMinorWithStatic, CycleKnown
  <2>4. CASE EndCycle
    BY <2>4 DEF EndCycle, CycleKnown
  <2>5. CASE Client
    BY <2>1, <2>5 DEF Client, Alloc, AllocLarge, Store, SetRoot, StoreStatic, Spill, Pin,
       Unpin, collectorVars, cycleVars
  <2>6. CASE Collector
    BY <2>1, <2>4, <2>6 DEF Collector, BeginPass, cycleVars
  <2>7. QED
    BY <2>1, <2>2, <2>3, <2>5, <2>6 DEF Next, MarkMinorWithStatic, vars, cycleVars
<1>3. QED
  BY <1>1, <1>2, PTL DEF Spec

\* A client with neither Large objects nor static words: every bump region
\* owns the rest of its page at every moment, of every cycle too.
THEOREM BumpingIsExclusive ==
  ASSUME NoLarge, NoStatic
  PROVE  Spec => []BumpIsExclusive
<1>1. CycleKnown => ~Handed
  BY DEF CycleKnown, NoStatic, Handed
<1>2. QED
  BY <1>1, CycleIsKnown, RegionsAreExclusive, PTL

-----------------------------------------------------------------------------
(* Pinned objects, without Large objects.                                  *)

\* A client that pins by handles uses no static words: the coordinator's minor
\* releases pages that handles alone still name.
PinsKnown == NoStatic \/ Handle = {}

\* Forwarding markers are found on pages of the chunk only.
ForwardInv == \A a \in Objects :
  IsObject(a) \/ (Busy /\ IsForward(a) /\ PageOf(a) \in chunk)

\* Pinned slots hold objects, on pages that say so.
PinInv ==
  /\ phase \in {"idle", "marked"} => pinned = {}
  /\ \A a \in pinned : a \in Objects /\ IsObject(a) /\ desc[PageOf(a)].pins

\* Handles name objects, pinned ones while chunks are moved.
HandleInv ==
  /\ ExplicitPins \subseteq Objects
  /\ Looping => ExplicitPins \subseteq pinned

ObjectInv == ForwardInv /\ PinInv /\ HandleInv

\* Objects lie on pages in use.
LEMMA ObjectsAre ==
  ASSUME MemoryTyped
  PROVE  \A a : a \in Objects <=>
           a \in starts /\ a \in Addr /\ PageOf(a) \in Page /\ desc[PageOf(a)].gen # "Free"
BY PageOfIn DEF Objects, GenOf, MemoryTyped

\* A step that moves no object and changes no tag keeps them.
LEMMA ObjectsStay ==
  ASSUME MemoryTyped, MemoryTyped', ObjectInv, UNCHANGED <<starts, pinned, handle>>,
         \A p \in Page : /\ desc'[p].gen = desc[p].gen
                         /\ desc[p].pins => desc'[p].pins,
         \A a \in Objects : cell'[a].tag = cell[a].tag,
         Busy => Busy' /\ UNCHANGED chunk,
         Looping' => Looping,
         phase' \in {"idle", "marked"} => phase \in {"idle", "marked"}
  PROVE  ObjectInv'
<1>1. Objects' = Objects
  <2>1. \A a : a \in Objects' <=>
          a \in starts' /\ a \in Addr /\ PageOf(a) \in Page /\ desc'[PageOf(a)].gen # "Free"
    <3>1. \A a \in starts' : a \in Addr
      BY DEF MemoryTyped
    <3>2. QED
      BY <3>1, PageOfIn DEF Objects, GenOf
  <2>2. QED
    BY <2>1, ObjectsAre
<1>2. ForwardInv'
  <2> SUFFICES ASSUME NEW a \in Objects
               PROVE  IsObject(a)' \/ (Busy' /\ IsForward(a)' /\ PageOf(a) \in chunk')
    BY <1>1 DEF ForwardInv, PageOf
  <2>1. (IsObject(a)' <=> IsObject(a)) /\ (IsForward(a)' <=> IsForward(a))
    BY DEF IsObject, IsForward
  <2>2. QED
    BY <2>1 DEF ObjectInv, ForwardInv
<1>3. PinInv'
  <2>1. ASSUME NEW a \in pinned
        PROVE  a \in Objects' /\ IsObject(a)' /\ desc'[PageOf(a)].pins
    <3>1. a \in Objects /\ IsObject(a) /\ desc[PageOf(a)].pins /\ PageOf(a) \in Page
      BY ObjectsAre DEF ObjectInv, PinInv
    <3>2. QED
      BY <1>1, <3>1 DEF IsObject
  <2>2. QED
    BY <2>1 DEF ObjectInv, PinInv, PageOf
<1>4. HandleInv'
  BY <1>1 DEF ObjectInv, HandleInv, ExplicitPins
<1>5. QED
  BY <1>2, <1>3, <1>4 DEF ObjectInv

\* An object placed in the region of g disturbs no other.
LEMMA ObjectPlaced ==
  ASSUME TableTyped, MemoryTyped, MemoryTyped', \A h \in Generation : Exclusive(h),
         NEW g \in Generation, CanPlace(g), Claim(g), starts' = StartsWithNext(g)
  PROVE  /\ NextSlot(g) \in Addr /\ NextSlot(g) \notin Objects
         /\ Objects' = Objects \cup {NextSlot(g)}
         /\ \A a \in Objects : \A c : CellsWithNext(g, c)[a] = cell[a]
         /\ \A a \in Objects : desc'[PageOf(a)] = desc[PageOf(a)]
<1>1. NextSlot(g) \in Addr
  BY ClaimTyped
<1>2. \A a : a \in Objects' <=>
        a \in starts' /\ a \in Addr /\ PageOf(a) \in Page /\ desc'[PageOf(a)].gen # "Free"
  <2>1. \A a \in starts' : a \in Addr
    BY DEF MemoryTyped
  <2>2. QED
    BY <2>1, PageOfIn DEF Objects, GenOf
<1>3. CASE HasRoom(g)
  <2>1. PICK r \in Page, o \in 0 .. PageSize - 1 :
          /\ Owns(g, r, o) /\ NextSlot(g) = Base(r) + o /\ UNCHANGED desc
    <3>1. region[g].page # Null /\ region[g].offset < PageSize
      BY <1>3 DEF HasRoom
    <3>2. region[g].page \in Page /\ region[g].offset \in 0 .. PageSize - 1
      BY <3>1, RegionIs, PageTableAssumption
    <3>3. Owns(g, region[g].page, region[g].offset)
      BY <3>1 DEF Exclusive
    <3>4. QED
      BY <1>3, <3>2, <3>3 DEF NextSlot, Claim
  <2> DEFINE s == Base(r) + o
  <2>2. s \in Slots(r) /\ PageOf(s) = r /\ s >= Base(r) + o
    <3>1. s \in Addr /\ PageOf(s) = r /\ s \in Int
      BY SlotIn DEF Addr
    <3>2. QED
      BY <3>1, SlotsAre
  <2>3. s \notin starts
    BY <2>1, <2>2 DEF Owns
  <2>4. starts' = starts \cup {s} /\ s = NextSlot(g)
    BY <1>3, <2>1 DEF StartsWithNext
  <2>5. desc[r].gen # "Free"
    BY <2>1 DEF Owns, GenOf, Generation
  <2> HIDE DEF s
  <2>6. s \in Objects' /\ s \notin Objects
    BY <1>1, <1>2, <2>1, <2>2, <2>3, <2>4, <2>5, ObjectsAre
  <2>7. Objects' = Objects \cup {s}
    BY <1>2, <2>1, <2>4, <2>6, ObjectsAre
  <2>8. \A a \in Objects : \A c : CellsWithNext(g, c)[a] = cell[a]
    <3>1. \A a \in Objects : a \in Addr /\ a # NextSlot(g)
      BY <2>4, <2>6, ObjectsAre
    <3>2. QED
      BY <1>3, <3>1 DEF CellsWithNext
  <2>9. QED
    BY <1>1, <2>1, <2>4, <2>6, <2>7, <2>8
<1>4. CASE ~HasRoom(g)
  <2>1. PICK n \in Page :
          /\ n = NextFree /\ GenOf(n) = "Free" /\ NextSlot(g) = Base(n)
          /\ desc' = [desc EXCEPT ![n] = SmallDesc(g)]
          /\ starts' = (starts \ Slots(n)) \cup {Base(n)}
    BY <1>4, NextFreeIs DEF CanPlace, Claim, NextSlot, StartsWithNext
  <2> DEFINE s == Base(n)
  <2>2. PageOf(s) = n /\ s \in Addr
    <3>1. 0 \in 0 .. PageSize - 1 /\ s + 0 = s
      BY PageTableAssumption DEF Base, Page
    <3>2. QED
      BY <3>1, SlotIn
  <2>3. starts' = (starts \ Slots(n)) \cup {s} /\ s = NextSlot(g)
    BY <2>1
  <2> HIDE DEF s
  <2>4. \A a \in Objects : a \in Addr /\ PageOf(a) # n /\ a \notin Slots(n)
    BY <2>1, ObjectsAre, SlotsAre DEF GenOf
  <2>5. desc'[n].gen = g /\ \A p \in Page \ {n} : desc'[p] = desc[p]
    BY <2>1 DEF TableTyped, SmallDesc
  <2>6. s \notin Objects
    BY <2>2, <2>4
  <2>7. s \in Objects'
    BY <1>2, <2>2, <2>3, <2>5 DEF Generation
  <2>8. \A a \in Objects : desc'[PageOf(a)] = desc[PageOf(a)]
    BY <2>4, <2>5, ObjectsAre
  <2>9. Objects \subseteq Objects'
    BY <1>2, <2>3, <2>4, <2>8, ObjectsAre
  <2>10. \A a \in Objects' : a = s \/ a \in Objects
    <3> SUFFICES ASSUME NEW a \in Objects', a # s PROVE a \in Objects
      OBVIOUS
    <3>1. a \in starts /\ a \notin Slots(n) /\ a \in Addr /\ PageOf(a) \in Page
      BY <1>2, <2>3
    <3>2. PageOf(a) # n
      BY <3>1, SlotsAre
    <3>3. QED
      BY <1>2, <2>5, <3>1, <3>2, ObjectsAre
  <2>11. \A a \in Objects : \A c : CellsWithNext(g, c)[a] = cell[a]
    BY <2>1, <2>3, <2>4, <2>6 DEF CellsWithNext
  <2>12. QED
    BY <1>1, <2>3, <2>6, <2>7, <2>8, <2>9, <2>10, <2>11
<1>5. QED
  BY <1>3, <1>4

\* Changing the pointer of a slot leaves what the slot is.
LEMMA TagKept ==
  ASSUME MemoryTyped, NEW a \in Addr, NEW w
  PROVE  [cell[a] EXCEPT !.ptr = w].tag = cell[a].tag
<1>1. cell[a] \in Contents
  BY DEF MemoryTyped
<1>2. CASE cell[a] = Zero
  BY <1>2 DEF Zero
<1>3. CASE \E i \in Id, v \in Word : cell[a] = Object(i, v)
  BY <1>3 DEF Object
<1>4. CASE \E b \in Addr : cell[a] = Forward(b)
  BY <1>4 DEF Forward
<1>5. QED
  BY <1>1, <1>2, <1>3, <1>4 DEF Contents

\* The client allocates, stores, and pins what it holds.
LEMMA ObjectClient ==
  ASSUME NoLarge, CycleInv, RegionInv, ObjectInv, Client, MemoryTyped'
  PROVE  ObjectInv'
<1> USE DEF CycleInv, TypeInv
<1>1. phase = "idle" /\ phase' = phase /\ pinned' = pinned
  BY DEF Client, Alloc, AllocLarge, Store, SetRoot, StoreStatic, Spill, Pin, Unpin,
         Idle, collectorVars
<1>2. ~Busy /\ ~Looping /\ ~Looping' /\ ~Handed /\ pinned = {}
  BY <1>1 DEF Handed, Looping, Busy, ObjectInv, PinInv
<1>3. \A a \in Objects : IsObject(a)
  BY <1>2 DEF ObjectInv, ForwardInv
<1>4. ASSUME UNCHANGED <<desc, starts, handle>>, \A a \in Objects : cell'[a].tag = cell[a].tag
      PROVE  ObjectInv'
  BY <1>1, <1>2, <1>4, ObjectsStay
<1>5. CASE \E r \in Root, i \in Id, w \in Values : Alloc(r, i, w)
  <2>1. PICK c \in Contents : cell' = CellsWithNext("G0", c) /\ c.tag = "object"
    <3>1. PICK r \in Root, i \in Id, w \in Values : Alloc(r, i, w)
      BY <1>5
    <3>2. Object(i, w) \in Contents /\ Object(i, w).tag = "object"
      BY <3>1, ValuesAre DEF Contents, Object
    <3>3. QED
      BY <3>1, <3>2 DEF Alloc
  <2>2. /\ Claim("G0") /\ CanPlace("G0") /\ "G0" \in Generation
        /\ starts' = StartsWithNext("G0") /\ handle' = handle
    BY <1>5 DEF Alloc, CanPlace, Generation
  <2>3. \A g \in Generation : Exclusive(g)
    BY <1>2 DEF RegionInv
  <2>4. PICK s \in Addr :
          /\ Objects' = Objects \cup {s} /\ s = NextSlot("G0")
          /\ \A a \in Objects : CellsWithNext("G0", c)[a] = cell[a]
    BY <2>2, <2>3, ObjectPlaced
  <2>5. cell'[s] = c
    BY <2>1, <2>4 DEF CellsWithNext
  <2>6. ForwardInv'
    BY <1>3, <2>1, <2>4, <2>5 DEF ForwardInv, IsObject
  <2>7. HandleInv'
    BY <1>2, <2>2, <2>4 DEF ObjectInv, HandleInv, ExplicitPins
  <2>8. QED
    BY <1>1, <1>2, <2>6, <2>7 DEF ObjectInv, PinInv
<1>6. CASE \E r \in Root, i \in Id, w \in Values : AllocLarge(r, i, w)
  BY <1>6, ShapeLarge DEF AllocLarge
<1>7. CASE \E r \in Root, w \in Values : Store(r, w)
  <2>1. PICK x \in Word, w \in Values :
          /\ cell' = [cell EXCEPT ![x] = [cell[x] EXCEPT !.ptr = w]]
          /\ x # Null
          /\ UNCHANGED <<desc, starts, handle>>
    <3>1. PICK r \in Root, w \in Values : Store(r, w)
      BY <1>7
    <3>2. root[r] \in Word
      BY DEF HoldersTyped
    <3>3. /\ cell' = [cell EXCEPT ![root[r]] = [cell[root[r]] EXCEPT !.ptr = w]]
          /\ root[r] # Null
          /\ UNCHANGED <<desc, starts, handle>>
      BY <3>1 DEF Store, tableVars, holderVars
    <3>4. QED
      BY <3>2, <3>3
  <2>2. x \in Addr
    BY <2>1 DEF Word
  <2>3. [cell[x] EXCEPT !.ptr = w].tag = cell[x].tag
    BY <2>2, TagKept
  <2>4. \A a \in Objects : cell'[a].tag = cell[a].tag
    BY <2>1, <2>2, <2>3, ObjectsAre DEF MemoryTyped
  <2>5. QED
    BY <1>4, <2>1, <2>4
<1>8. CASE \/ \E r \in Root, w \in Loadable : SetRoot(r, w)
           \/ \E s \in Static, w \in Values : StoreStatic(s, w)
           \/ \E s \in Stack, w \in Values : Spill(s, w)
  BY <1>4, <1>8 DEF SetRoot, StoreStatic, Spill, heapVars, tableVars
<1>9. CASE \E h \in Handle : Unpin(h) \/ \E w \in Values \ {Null} : Pin(h, w)
  <2>1. /\ UNCHANGED <<desc, starts, cell, chunk>>
        /\ ExplicitPins' \subseteq ExplicitPins \cup Objects
    <3>1. CASE \E h \in Handle : Unpin(h)
      BY <3>1 DEF Unpin, heapVars, tableVars, collectorVars, loopVars, ExplicitPins,
                  ImageOf, HoldersTyped
    <3>2. CASE \E h \in Handle : \E w \in Values \ {Null} : Pin(h, w)
      BY <3>2 DEF Pin, heapVars, tableVars, collectorVars, loopVars, ExplicitPins,
                  ImageOf, HoldersTyped, Objects
    <3>3. QED
      BY <1>9, <3>1, <3>2
  <2>2. Objects' = Objects /\ \A a \in Objects : IsObject(a)'
    BY <1>3, <2>1 DEF Objects, IsObject, GenOf, PageOf
  <2>3. QED
    BY <1>1, <1>2, <2>1, <2>2 DEF ObjectInv, ForwardInv, HandleInv, PinInv
<1>10. QED
  BY <1>5, <1>6, <1>7, <1>8, <1>9 DEF Client

\* A cycle begins by pinning what stack words name; none of the pages released
\* ahead of the coordinator's minor holds a pin.
LEMMA ObjectBegins ==
  ASSUME PinsKnown, CycleInv, ObjectInv, MemoryTyped',
         \/ StartMinor \/ StartMajor \/ StartFull
         \/ MarkMinorWithStatic \/ CollectMinorWithStatic
  PROVE  ObjectInv'
<1> USE DEF CycleInv, TypeInv
<1>1. /\ phase \in {"idle", "marked"} /\ phase' \in {"begin", "marked"}
      /\ UNCHANGED <<cell, starts, handle, chunk>>
  BY DEF StartMinor, StartMajor, StartFull, Begin, MarkMinorWithStatic, loopVars,
         CollectMinorWithStatic, Idle, heapVars, tableVars, holderVars
<1>2. ~Busy /\ ~Looping /\ ~Looping' /\ pinned = {}
  BY <1>1 DEF Looping, Busy, ObjectInv, PinInv
<1>3. \A a \in Objects : IsObject(a)
  BY <1>2 DEF ObjectInv, ForwardInv
<1>4. \A d \in Desc : /\ [d EXCEPT !.pins = TRUE].gen = d.gen
                      /\ [d EXCEPT !.pins = TRUE].pins = TRUE
  BY DEF Desc
<1>5. \A p \in Page : desc[p] \in Desc
  BY DEF TableTyped
<1>6. \A a \in starts : a \in Addr /\ PageOf(a) \in Page
  BY PageOfIn DEF MemoryTyped
<1>7. \A a : a \in Objects' <=> a \in starts /\ desc'[PageOf(a)].gen # "Free"
  BY <1>1 DEF Objects, GenOf, PageOf
<1>8. \A a : a \in Objects <=> a \in starts /\ desc[PageOf(a)].gen # "Free"
  BY DEF Objects, GenOf
<1>9. CASE MarkMinorWithStatic
  <2>1. UNCHANGED <<desc, pinned>>
    BY <1>9 DEF MarkMinorWithStatic, heapVars, tableVars
  <2>2. QED
    BY <1>1, <1>2, <2>1, ObjectsStay
<1>10. CASE StartMinor \/ StartMajor \/ StartFull
  <2>1. PICK gens \in SUBSET Generation :
          /\ desc' = [p \in Page |->
                        IF \E a \in StackPins(gens) : PageOf(a) = p
                          THEN [desc[p] EXCEPT !.pins = TRUE] ELSE desc[p]]
          /\ pinned' = StackPins(gens)
          /\ phase' = "begin"
    BY <1>10 DEF StartMinor, StartMajor, StartFull, Begin, Generation
  <2>2. \A p \in Page : desc'[p].gen = desc[p].gen
    BY <1>4, <1>5, <2>1
  <2>3. Objects' = Objects
    BY <1>6, <1>7, <1>8, <2>2
  <2>4. \A a \in pinned' : a \in Objects /\ desc'[PageOf(a)].pins
    <3>1. \A a \in StackPins(gens) : a \in starts /\ desc[PageOf(a)].gen # "Free"
      BY <2>1 DEF StackPins, GenOf, Generation
    <3>2. QED
      BY <1>4, <1>5, <1>6, <1>8, <2>1, <3>1
  <2>5. PinInv'
    BY <1>1, <1>3, <2>1, <2>3, <2>4 DEF PinInv, IsObject, PageOf
  <2>6. ForwardInv' /\ HandleInv'
    BY <1>1, <1>2, <1>3, <2>3 DEF ForwardInv, IsObject, ObjectInv, HandleInv, ExplicitPins
  <2>7. QED
    BY <2>5, <2>6 DEF ObjectInv
<1>11. CASE CollectMinorWithStatic
  <2> DEFINE pins == StackPins({"G0", "G1"})
             live == Closure(marks \cup pins \cup Pointers(pins))
             drained == IF premarked THEN ZeroLive(live) ELSE {}
             P == {PageOf(a) : a \in pins}
  <2>1. /\ desc' = [p \in Page |->
                      CASE p \in drained -> FreeDesc
                        [] p \in P -> [desc[p] EXCEPT !.pins = TRUE]
                        [] OTHER -> desc[p]]
        /\ pinned' = pins /\ phase' = "begin" /\ "static" \in Cycles
    BY <1>11 DEF CollectMinorWithStatic
  <2>2. \A a \in pins : /\ a \in starts /\ desc[PageOf(a)].gen # "Free"
                        /\ PageOf(a) \notin drained /\ PageOf(a) \in P
    BY DEF ZeroLive, StackPins, GenOf
  <2> HIDE DEF pins, drained, P
  <2>3. \A p \in Page : desc'[p].gen # "Free" => desc[p].gen # "Free"
    BY <1>4, <1>5, <2>1 DEF FreeDesc
  <2>4. \A a \in Objects' : a \in Objects
    BY <1>6, <1>7, <1>8, <2>3
  <2>5. \A a \in pins : a \in Objects' /\ desc'[PageOf(a)].pins
    BY <1>4, <1>5, <1>6, <1>7, <2>1, <2>2
  <2>6. PinInv'
    BY <1>1, <1>3, <2>1, <2>4, <2>5 DEF PinInv, IsObject, PageOf
  <2>7. ForwardInv'
    BY <1>1, <1>3, <2>4 DEF ForwardInv, IsObject
  <2>8. HandleInv'
    <3>1. Handle = {}
      BY <2>1 DEF PinsKnown, NoStatic
    <3>2. ExplicitPins' = {}
      BY <1>1, <3>1 DEF ExplicitPins, ImageOf, HoldersTyped
    <3>3. QED
      BY <3>2 DEF HandleInv
  <2>9. QED
    BY <2>6, <2>7, <2>8 DEF ObjectInv
<1>12. QED
  BY <1>9, <1>10, <1>11

\* The mark folds in the handles.
LEMMA ObjectMark ==
  ASSUME NoLarge, CycleInv, ObjectInv, MemoryTyped', Mark
  PROVE  ObjectInv'
<1> USE DEF CycleInv, TypeInv
<1>1. /\ phase = "mark" /\ phase' = "chunk"
      /\ UNCHANGED <<cell, starts, handle, chunk>>
      /\ pinned' = PinSet
      /\ desc' = [p \in Page |-> IF p \in PinnedPages THEN [desc[p] EXCEPT !.pins = TRUE]
                                                      ELSE desc[p]]
  BY DEF Mark, holderVars
<1>2. ~Busy /\ ~Looping
  BY <1>1 DEF Looping, Busy
<1>3. \A a \in Objects : IsObject(a)
  BY <1>2 DEF ObjectInv, ForwardInv
<1>4. \A p \in Page : /\ desc'[p].gen = desc[p].gen
                      /\ p \in PinnedPages \/ desc[p].pins => desc'[p].pins
  BY <1>1 DEF TableTyped, Desc
<1>5. Objects' = Objects
  <2>1. \A a \in starts : PageOf(a) \in Page
    BY PageOfIn DEF MemoryTyped
  <2>2. QED
    BY <1>1, <1>4, <2>1 DEF Objects, GenOf, PageOf
<1>6. MarkedLarge = {}
  <2>1. \A a \in InternalMark : PageOf(a) \in Page
    <3>1. InternalMark \subseteq Addr
      BY ClosureStarts DEF InternalMark, PassTyped, MemoryTyped
    <3>2. QED
      BY <3>1, PageOfIn
  <2>2. QED
    BY <2>1 DEF MarkedLarge, Shape, KindInv, IsLargeHead
<1>7. FoldedPins = ExplicitPins /\ ExplicitPins \subseteq Objects
  BY DEF FoldedPins, ObjectInv, HandleInv, Objects
<1>8. /\ pinned' = pinned \cup ExplicitPins
      /\ \A a \in ExplicitPins : PageOf(a) \in PinnedPages
  BY <1>1, <1>6, <1>7 DEF PinSet, PinnedPages
<1>9. ASSUME NEW a \in pinned'
      PROVE  a \in Objects' /\ IsObject(a)' /\ desc'[PageOf(a)].pins
  <2>1. a \in Objects /\ IsObject(a)
    BY <1>3, <1>7, <1>8 DEF ObjectInv, PinInv
  <2>2. PageOf(a) \in Page /\ (PageOf(a) \in PinnedPages \/ desc[PageOf(a)].pins)
    BY <1>8, <2>1, ObjectsAre DEF ObjectInv, PinInv
  <2>3. QED
    BY <1>1, <1>4, <1>5, <2>1, <2>2 DEF IsObject
<1>10. PinInv'
  BY <1>1, <1>9 DEF PinInv, PageOf
<1>11. ForwardInv' /\ HandleInv'
  BY <1>1, <1>3, <1>5, <1>7, <1>8 DEF ForwardInv, HandleInv, IsObject, ExplicitPins
<1>12. QED
  BY <1>10, <1>11 DEF ObjectInv

\* An object that is copied is not pinned; its marker is on a page of the
\* chunk.
LEMMA ObjectCopied ==
  ASSUME CycleInv, RegionInv, ObjectInv, MemoryTyped', CopyObject
  PROVE  ObjectInv'
<1> USE DEF CycleInv, TypeInv
<1>1. PICK src \in ToCopy :
        /\ cell' = [CellsWithNext(dest, cell[src]) EXCEPT ![src] = Forward(NextSlot(dest))]
        /\ src \in Addr
  <2>1. Least(ToCopy) \in ToCopy /\ Least(ToCopy) \in Addr
    BY SourceIs DEF CopyObject
  <2>2. QED
    BY <2>1 DEF CopyObject
<1>2. /\ CanPlace(dest) /\ Claim(dest) /\ dest \in Generation /\ from \in Generation
      /\ starts' = StartsWithNext(dest)
      /\ phase = "copy" /\ phase' = "copy"
      /\ UNCHANGED <<chunk, handle, pinned>>
  BY DEF CopyObject, PassTyped, evacVars, loopVars, holderVars
<1>3. \A g \in Generation : Exclusive(g)
  BY <1>2 DEF RegionInv, Handed
<1>4. PICK dst \in Addr :
        /\ dst = NextSlot(dest) /\ dst \notin Objects
        /\ Objects' = Objects \cup {dst}
        /\ \A a \in Objects : \A c : CellsWithNext(dest, c)[a] = cell[a]
        /\ \A a \in Objects : desc'[PageOf(a)] = desc[PageOf(a)]
  BY <1>2, <1>3, ObjectPlaced
<1>5. src \in Objects /\ IsObject(src) /\ PageOf(src) \in chunk /\ src \notin pinned
  <2>1. /\ src \in starts /\ GenOf(PageOf(src)) = from /\ PageOf(src) \in chunk
        /\ ~IsForward(src) /\ ~IsPinnedCell(src)
    BY DEF ToCopy
  <2>2. src \in Objects
    BY <1>2, <2>1 DEF Objects, Generation
  <2>3. QED
    BY <2>1, <2>2 DEF ObjectInv, ForwardInv, PinInv, IsPinnedCell
<1>6. cell'[src] = Forward(dst)
  <2>1. src \in DOMAIN CellsWithNext(dest, cell[src])
    BY <1>1 DEF CellsWithNext
  <2>2. QED
    BY <1>1, <1>4, <2>1
<1>7. cell'[dst] = cell[src]
  <2>1. dst # src
    BY <1>4, <1>5
  <2>2. CellsWithNext(dest, cell[src])[dst] = cell[src]
    BY <1>4 DEF CellsWithNext
  <2>3. dst \in DOMAIN CellsWithNext(dest, cell[src])
    BY DEF CellsWithNext
  <2>4. QED
    BY <1>1, <2>1, <2>2, <2>3
<1>8. \A a \in Objects : a # src => cell'[a] = cell[a]
  <2>1. \A a \in Objects : a \in DOMAIN CellsWithNext(dest, cell[src])
    BY ObjectsAre DEF CellsWithNext
  <2>2. QED
    BY <1>1, <1>4, <2>1
<1>9. ForwardInv'
  <2>1. Busy /\ Busy'
    BY <1>2 DEF Busy
  <2>2. ASSUME NEW a \in Objects'
        PROVE  cell'[a].tag = "object" \/ (cell'[a].tag = "forward" /\ PageOf(a) \in chunk)
    <3>1. CASE a = dst
      BY <1>5, <1>7, <3>1 DEF IsObject
    <3>2. CASE a = src
      BY <1>5, <1>6, <3>2 DEF Forward
    <3>3. CASE a # dst /\ a # src
      BY <1>4, <1>8, <3>3 DEF ObjectInv, ForwardInv, IsObject, IsForward
    <3>4. QED
      BY <3>1, <3>2, <3>3
  <2>3. QED
    BY <1>2, <2>1, <2>2 DEF ForwardInv, IsObject, IsForward, PageOf
<1>10. PinInv'
  <2>1. ASSUME NEW a \in pinned
        PROVE  a \in Objects' /\ cell'[a].tag = "object" /\ desc'[PageOf(a)].pins
    BY <1>4, <1>5, <1>8 DEF ObjectInv, PinInv, IsObject
  <2>2. QED
    BY <1>2, <2>1 DEF PinInv, IsObject, PageOf
<1>11. HandleInv'
  <2>1. Looping
    BY <1>2 DEF Looping, Busy
  <2>2. QED
    BY <1>2, <1>4, <2>1 DEF ObjectInv, HandleInv, ExplicitPins
<1>12. QED
  BY <1>9, <1>10, <1>11 DEF ObjectInv

\* Phase 3 keeps the pinned objects of the chunk, and nothing else of it.
LEMMA ObjectReclaim ==
  ASSUME NoLarge, CycleInv, RegionInv, ObjectInv, Reclaim
  PROVE  ObjectInv'
<1> USE DEF CycleInv, TypeInv
<1> DEFINE kept == {a \in starts : \/ PageOf(a) \notin Released \cup Flipped
                                   \/ PageOf(a) \in LargeFlips}
                     \cup {a \in pinned : PageOf(a) \in SmallFlips}
<1>1. /\ phase = "reclaim" /\ phase' = "chunk"
      /\ chunk \subseteq Page /\ dest \in Generation
      /\ UNCHANGED <<pinned, handle, chunk>>
      /\ starts' = kept
      /\ cell' = [a \in Addr |->
              IF PageOf(a) \in Released \cup SmallFlips /\ a \notin kept
                THEN Zero ELSE cell[a]]
  BY DEF Reclaim, passVars, loopVars, holderVars, PassTyped
<1>2. \A p \in chunk : ~IsLargeHead(p)
  BY <1>1 DEF Shape, KindInv, IsLargeHead
<1>3. /\ LargeFlips = {}
      /\ Flipped = SmallFlips
      /\ Released = {p \in chunk : desc[p].kind = "small" /\ ~desc[p].pins}
      /\ LargeRuns(LargeFlips) = {}
  BY <1>2 DEF Released, Flipped, LargeFlips, LargeRuns
<1>4. \A a \in starts : a \in Addr /\ PageOf(a) \in Page
  BY PageOfIn DEF MemoryTyped
<1>5. \A p \in Page : p \notin Released => desc'[p].pins = desc[p].pins
  <2>1. \A d \in Desc : [d EXCEPT !.gen = dest].pins = d.pins
    BY DEF Desc
  <2>2. desc' = [p \in Page |->
       CASE p \in Released -> FreeDesc
         [] p \in SmallFlips -> [desc[p] EXCEPT !.gen = dest]
         [] p \in LargeRuns(LargeFlips) ->
              [desc[p] EXCEPT !.gen = dest, !.pins = FALSE]
         [] OTHER -> desc[p]]
    BY DEF Reclaim
  <2>3. \A p \in SmallFlips : p \notin Released
    BY <1>3 DEF SmallFlips
  <2>4. \A p \in Page : desc[p] \in Desc
    BY DEF TableTyped
  <2>5. QED
    BY <1>3, <2>1, <2>2, <2>3, <2>4
<1>6. \A p \in chunk : desc[p].kind = "small"
  BY <1>1 DEF RegionInv, Withdrawn, Looping, Busy, Unmoved
<1>7. \A p \in chunk : p \in Released \/ p \in SmallFlips
  BY <1>3, <1>6 DEF SmallFlips
<1>8. \A a : a \in Objects' <=> a \in kept /\ desc'[PageOf(a)].gen # "Free"
  BY <1>1 DEF Objects, GenOf, PageOf
<1>9. ASSUME NEW a \in pinned
      PROVE  a \in Objects' /\ cell'[a].tag = "object" /\ desc'[PageOf(a)].pins
  <2>1. a \in Objects /\ IsObject(a) /\ desc[PageOf(a)].pins
        /\ a \in starts /\ a \in Addr /\ PageOf(a) \in Page /\ desc[PageOf(a)].gen # "Free"
    BY ObjectsAre DEF ObjectInv, PinInv
  <2>2. PageOf(a) \notin Released
    BY <1>3, <2>1
  <2>3. a \in kept
    BY <1>3, <2>1, <2>2
  <2>4. desc'[PageOf(a)].gen # "Free"
    BY <1>1, <2>1, <2>2, ReclaimEffect DEF Generation
  <2> HIDE DEF kept
  <2>5. cell'[a] = cell[a]
    BY <1>1, <2>1, <2>3
  <2>6. QED
    BY <1>5, <1>8, <2>1, <2>2, <2>3, <2>4, <2>5 DEF IsObject
<1>10. ASSUME NEW a \in Objects' PROVE cell'[a].tag = "object"
  <2>1. CASE a \in pinned
    BY <1>9, <2>1
  <2>2. CASE a \notin pinned
    <3>1. a \in starts /\ PageOf(a) \notin Released \cup SmallFlips /\ a \in kept
      BY <1>3, <1>8, <2>2
    <3>2. a \in Addr /\ PageOf(a) \in Page /\ PageOf(a) \notin chunk
      BY <1>4, <1>7, <3>1
    <3>3. desc'[PageOf(a)].gen = desc[PageOf(a)].gen
      BY <1>3, <3>1, <3>2, ReclaimEffect
    <3>4. a \in Objects
      BY <1>8, <3>1, <3>2, <3>3, ObjectsAre
    <3> HIDE DEF kept
    <3>5. cell'[a] = cell[a]
      BY <1>1, <3>1, <3>2
    <3>6. QED
      BY <3>2, <3>4, <3>5 DEF ObjectInv, ForwardInv, IsObject
  <2>3. QED
    BY <2>1, <2>2
<1>11. PinInv' /\ ForwardInv'
  BY <1>1, <1>9, <1>10 DEF PinInv, ForwardInv, IsObject, PageOf
<1>12. HandleInv'
  <2>1. ExplicitPins \subseteq pinned
    BY <1>1 DEF ObjectInv, HandleInv, Looping, Busy
  <2>2. QED
    BY <1>1, <1>9, <2>1 DEF HandleInv, ExplicitPins
<1>13. QED
  BY <1>11, <1>12 DEF ObjectInv

\* Phase 2 changes pointers, not objects.
LEMMA ObjectRewrite ==
  ASSUME CycleInv, ObjectInv, MemoryTyped', Rewrite
  PROVE  ObjectInv'
<1> USE DEF CycleInv, TypeInv
<1>1. /\ phase = "copy" /\ phase' = "reclaim"
      /\ UNCHANGED <<desc, starts, pinned, handle, chunk>>
      /\ cell' = [a \in Addr |->
                   IF a \in Rewritten /\ IsObject(a)
                     THEN [cell[a] EXCEPT !.ptr = Followed(cell[a].ptr)]
                     ELSE cell[a]]
  BY DEF Rewrite, tableVars, loopVars
<1>2. \A a \in Addr : [cell[a] EXCEPT !.ptr = Followed(cell[a].ptr)].tag = cell[a].tag
  BY TagKept
<1>3. \A a \in Objects : cell'[a].tag = cell[a].tag
  <2>1. \A a \in Objects : a \in Addr
    BY ObjectsAre
  <2>2. QED
    BY <1>1, <1>2, <2>1
<1>4. Busy /\ Busy' /\ Looping
  BY <1>1 DEF Busy, Looping
<1>5. QED
  BY <1>1, <1>3, <1>4, ObjectsStay

\* The end of a cycle lets go of the pins.
LEMMA ObjectEnd ==
  ASSUME CycleInv, ObjectInv, EndCycle
  PROVE  ObjectInv'
<1> USE DEF CycleInv, TypeInv
<1>1. /\ phase = "chunk" /\ phase' = "idle" /\ pinned' = {}
      /\ UNCHANGED <<cell, starts, handle>>
      /\ desc' = [p \in Page |-> [desc[p] EXCEPT !.pins = FALSE]]
  BY DEF EndCycle
<1>2. \A a \in Objects : IsObject(a)
  BY <1>1 DEF ObjectInv, ForwardInv, Busy
<1>3. \A p \in Page : desc'[p].gen = desc[p].gen
  BY <1>1 DEF TableTyped, Desc
<1>4. Objects' = Objects
  <2>1. \A a \in starts : PageOf(a) \in Page
    BY PageOfIn DEF MemoryTyped
  <2>2. QED
    BY <1>1, <1>3, <2>1 DEF Objects, GenOf, PageOf
<1>5. QED
  BY <1>1, <1>2, <1>4 DEF ObjectInv, ForwardInv, PinInv, HandleInv, IsObject, Looping, Busy,
     ExplicitPins

\* Every step keeps objects and pins.
LEMMA ObjectStep ==
  ASSUME NoLarge, PinsKnown
  PROVE  CycleInv /\ RegionInv /\ ObjectInv /\ [Next]_vars => ObjectInv'
<1> SUFFICES ASSUME CycleInv, RegionInv, ObjectInv, [Next]_vars PROVE ObjectInv'
  OBVIOUS
<1>1. MemoryTyped /\ MemoryTyped'
  BY TypeStep DEF CycleInv, TypeInv
<1>2. ASSUME UNCHANGED <<desc, starts, cell, handle, pinned>>,
             Busy => Busy' /\ UNCHANGED chunk,
             Looping' => Looping,
             phase' \in {"idle", "marked"} => phase \in {"idle", "marked"}
      PROVE  ObjectInv'
  BY <1>1, <1>2, ObjectsStay
<1>3. CASE UNCHANGED vars
  <2>1. /\ UNCHANGED <<desc, starts, cell, handle, pinned>>
        /\ phase' = phase /\ chunk' = chunk
    BY <1>3 DEF vars, heapVars, tableVars, evacVars, holderVars, loopVars
  <2>2. QED
    BY <1>2, <2>1 DEF Busy, Looping
<1>4. CASE BeginPass
  <2>1. /\ UNCHANGED <<desc, starts, cell, handle, pinned>>
        /\ phase \in {"begin", "chunk"} /\ phase' = "mark"
    BY <1>4 DEF BeginPass, heapVars, tableVars, holderVars
  <2>2. QED
    BY <1>2, <2>1 DEF Busy, Looping
<1>5. CASE PickChunk
  <2>1. /\ UNCHANGED <<desc, starts, cell, handle, pinned>>
        /\ phase = "chunk" /\ phase' = "copy"
    BY <1>5 DEF PickChunk, heapVars, tableVars, holderVars
  <2>2. QED
    BY <1>2, <2>1 DEF Busy, Looping
<1>6. CASE MidEvacOom
  <2>1. /\ UNCHANGED <<desc, starts, cell, handle, pinned, chunk>>
        /\ phase = "copy" /\ phase' = "stalled"
    BY <1>6 DEF MidEvacOom, heapVars, tableVars, holderVars, loopVars
  <2>2. QED
    BY <1>2, <2>1 DEF Busy, Looping
<1>7. CASE Collector
  BY <1>1, <1>4, <1>5, <1>6, <1>7, ObjectMark, ObjectCopied, ObjectRewrite,
     ObjectReclaim, ObjectEnd DEF Collector
<1>8. QED
  BY <1>1, <1>3, <1>7, ObjectClient, ObjectBegins DEF Next

\* No object, pin or handle to begin with.
LEMMA ObjectInit == Init => ObjectInv
<1> SUFFICES ASSUME Init PROVE ObjectInv
  OBVIOUS
<1>1. /\ starts = {} /\ pinned = {} /\ phase = "idle"
      /\ handle = [h \in Handle |-> Null]
  BY DEF Init, TableInit
<1>2. ExplicitPins = {}
  BY <1>1 DEF ExplicitPins, ImageOf
<1>3. QED
  BY <1>1, <1>2 DEF ObjectInv, ForwardInv, PinInv, HandleInv, Objects, Looping, Busy

\* Regions, objects and pins through every step, for a client without Large
\* objects that pins by handles or has static words, not both.
THEOREM ObjectInvariance ==
  ASSUME NoLarge, PinsKnown
  PROVE  Spec => [](CycleInv /\ RegionInv /\ ObjectInv)
<1>1. Whole
  BY DEF Whole
<1>2. Spec => []CycleInv
  BY <1>1, CycleInvariance
<1>3. CycleInv /\ RegionInv /\ [Next]_vars => RegionInv'
  BY RegionStep
<1>4. CycleInv /\ RegionInv /\ ObjectInv /\ [Next]_vars => ObjectInv'
  BY ObjectStep
<1>5. QED
  BY <1>2, <1>3, <1>4, RegionInit, ObjectInit, PTL DEF Spec

\* Whatever stack words and handles name at the start of a cycle, or of one of
\* its passes, is an object in place, with its start bit, at every step to the
\* end of the cycle or to the stall that ends it.
THEOREM PinnedSurvive ==
  ASSUME NoLarge, PinsKnown
  PROVE  Spec => []PinsSurvive
<1>1. ObjectInv => PinsSurvive
  BY DEF ObjectInv, PinInv, PinsSurvive
<1>2. QED
  BY <1>1, ObjectInvariance, PTL

=============================================================================
