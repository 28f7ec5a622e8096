------------------------------- MODULE Tlabs --------------------------------
(***************************************************************************)
(* How mutators share the pages of one heap: the thread-local buffers of   *)
(* page_heap/mutator.rs, the slabs of coordinator_api.rs, the region bump, *)
(* page acquisition and Large runs of alloc.rs, and the commit state of    *)
(* space.rs, between collections that evacuate whole generations.          *)
(*                                                                         *)
(* A page has PageCells cells.  A start bit pair is 0, 1 (header) or 3     *)
(* (cons) as in the bitmap.  A cell's contents matter as zero or not, and  *)
(* that of a header is its object's size.  Only mutators that are parked,  *)
(* their buffers flushed, are collected around; module Safepoint shows     *)
(* that the protocol provides this.                                        *)
(***************************************************************************)
EXTENDS Order, Sequences
LOCAL INSTANCE FiniteSetsExt

CONSTANTS
  Mutator,
  NPages,        \* pages in the reservation
  PageCells,     \* PAGE_SIZE_CELLS
  YoungPageCap,  \* PageHeap::young_page_cap
  InitialTlab,   \* INITIAL_TLAB_CELLS
  MaxTlab,       \* MAX_TLAB_CELLS
  Uses,          \* the buffers in use, as <<mutator, <<generation, kind>>>>
  Sizes,         \* cells of the boxed objects they ask for
  SlabSizes,     \* cells of the slabs they ask for
  LargeSpans,    \* pages of the Large objects they ask for
  FreeListBound, \* entries free_page_list may grow to
  Evacuations,   \* the passes that run, as <<from, dest, early>>: with early the
                 \* client marks first and pages without live objects go early
  Refusable,     \* pages the OS may refuse to commit
  MaxPins,       \* objects a pass may find pinned
  None           \* no page, no pass

Generation == {"G0", "G1", "Tenured"}
Kind == {"cons", "boxed"}
Region == Generation \X Kind
SlabBuffer == <<"slab", "boxed">>
Use == Region \cup {SlabBuffer}
Buffer == Mutator \X Use
Page == 0 .. NPages - 1
Offset == 0 .. PageCells - 1

\* An evacuation in progress: its generations, the source pages of later
\* chunks, those of this chunk not yet reclaimed, the pinned objects and those
\* left to copy.
Pass == [from : Generation, dest : Generation, rest : SUBSET Page,
         chunk : SUBSET Page, keep : SUBSET (Page \X Offset),
         copy : SUBSET (Page \X Offset)]

ASSUME TlabsAssumption ==
  /\ {NPages, PageCells, InitialTlab, MaxTlab} \subseteq Nat \ {0}
  /\ InitialTlab <= MaxTlab /\ MaxTlab <= PageCells
  /\ {YoungPageCap, FreeListBound, MaxPins} \subseteq Nat
  /\ Uses \subseteq Buffer /\ Refusable \subseteq Page
  /\ Sizes \cup SlabSizes \cup {2} \subseteq 1 .. PageCells
  /\ LargeSpans \subseteq Nat \ {0}
  /\ Evacuations \subseteq Generation \X Generation \X BOOLEAN
  /\ \A e \in Evacuations : e[2] = "G0" \/ e[3] => e[1] = "G0"
  /\ None \notin Int \cup Pass

VARIABLES
  desc,       \* PageHeap::descs
  freeList,   \* PageHeap::free_page_list, top last; may hold stale entries
  region,     \* PageHeap::alloc_regions
  committed,  \* pages whose commit bit is set
  starts,     \* the start bit pair of each cell
  body,       \* the contents of each cell
  tlab,       \* the buffer of each mutator for each use
  pass,       \* the evacuation in progress, or None
  poisoned    \* SharedHeap::poisoned

tableVars == <<desc, freeList, region, committed>>
memoryVars == <<starts, body>>
vars == <<tableVars, memoryVars, tlab, pass, poisoned>>

MinOf(a, b) == IF a <= b THEN a ELSE b
MaxOf(a, b) == IF a >= b THEN a ELSE b

FreeDesc(zeroed) ==
  [gen |-> "Free", kind |-> "free", used |-> 0, span |-> 0, zeroed |-> zeroed]
SmallDesc(r, used) ==
  [gen |-> r[1], kind |-> r[2], used |-> used, span |-> 1, zeroed |-> FALSE]
LargeDesc(g, span) ==
  [gen |-> g, kind |-> "large", used |-> PageCells, span |-> span,
   zeroed |-> FALSE]

Blank == [i \in Offset |-> 0]
NoPage == [page |-> None, offset |-> 0]
EmptyTlab == [page |-> None, cursor |-> 0, end |-> 0, next |-> InitialTlab]

GenOf(p) == desc[p].gen
PagesIn(g) == {p \in Page : GenOf(p) = g}
RegionOf(use) == IF use = SlabBuffer THEN <<"G0", "boxed">> ELSE use

Init ==
  /\ desc = [p \in Page |-> FreeDesc(FALSE)]
  /\ freeList = [i \in 1 .. NPages |-> NPages - i]
  /\ region = [r \in Region |-> NoPage]
  /\ committed = {}
  /\ starts = [p \in Page |-> Blank]
  /\ body = [p \in Page |-> Blank]
  /\ tlab = [b \in Buffer |-> EmptyTlab]
  /\ pass = None
  /\ poisoned = FALSE

-----------------------------------------------------------------------------
(* Objects.                                                                *)

StartAt(p, i) == GenOf(p) # "Free" /\ starts[p][i] # 0

\* Cells of the object that starts at cell i of page p, as far as they are
\* on this page.
SizeAt(p, i) ==
  IF desc[p].kind = "large" THEN PageCells
  ELSE IF starts[p][i] = 3 THEN 2 ELSE body[p][i]

Extent(p, i) == i .. i + SizeAt(p, i) - 1

Objects == {o \in Page \X Offset : StartAt(o[1], o[2])}

\* Mutant of RunOf: a Large run is its first page.
RunOfHead(p) == {p}

\* The pages of the run that page p heads.
RunOf(p) == p .. p + MaxOf(desc[p].span, 1) - 1

\* set_start_bit_at, set_cons_start_bit_at: fetch_or of 01 or 11.
WithStart(s, p, i, pair) == [s EXCEPT ![p][i] = MaxOf(@, pair)]

\* The contents of an object of n cells, its header first.
WithObject(b, p, i, n, pair) ==
  [b EXCEPT ![p] = [j \in Offset |->
     IF j \in i .. i + n - 1 THEN IF j = i /\ pair = 1 THEN n ELSE 1
     ELSE @[j]]]

-----------------------------------------------------------------------------
(* Pages.                                                                  *)

\* Mutant of Acquirable: every entry is believed.
AcquirableStale == DOMAIN freeList

\* The entries of the free list that are not stale.
Acquirable == {i \in DOMAIN freeList : GenOf(freeList[i]) = "Free"}

NextFree ==
  IF Acquirable # {} THEN freeList[Greatest(Acquirable)]
                     ELSE Least(PagesIn("Free"))

AfterPop ==
  IF Acquirable # {} THEN SubSeq(freeList, 1, Greatest(Acquirable) - 1)
                     ELSE <<>>

\* Mutant of Opened: committed memory is taken for zero.
OpenedUnchecked(p) == IF p \in committed THEN body[p] ELSE Blank

\* The cells of a page that is opened: zero from the OS, known to be zero
\* since its release, or zeroed here.
Opened(p) == IF p \in committed /\ desc[p].zeroed THEN body[p] ELSE Blank

Fits(r, n) == region[r].page # None /\ region[r].offset + n <= PageCells
RoomIn(r) ==
  IF region[r].page = None THEN 0 ELSE PageCells - region[r].offset

\* Mutant of UnderCap: whatever is asked for is one page.
UnderCapOne(n) == Cardinality(PagesIn("G0")) + 1 <= YoungPageCap

\* Whether G0 may grow by n pages.
UnderCap(n) == Cardinality(PagesIn("G0")) + n <= YoungPageCap

\* gc_free_page_reserve_for_mutator_slab
SlabReserve == IF NPages <= 1 THEN 0 ELSE MinOf((NPages + 3) \div 4, NPages - 1)

\* Where region r has room for n cells, once it has opened a page if need be.
PageFor(r, n) == IF Fits(r, n) THEN region[r].page ELSE NextFree
OffsetFor(r, n) == IF Fits(r, n) THEN region[r].offset ELSE 0

StartsFor(r, n) ==
  IF Fits(r, n) THEN starts ELSE [starts EXCEPT ![NextFree] = Blank]
BodyFor(r, n) ==
  IF Fits(r, n) THEN body ELSE [body EXCEPT ![NextFree] = Opened(NextFree)]

\* Mutant of Carve: the region advances by what was needed only.
CarveShort(r, n, slab) ==
  LET p == PageFor(r, n) at == OffsetFor(r, n) IN
  /\ Fits(r, n) \/ PagesIn("Free") # {}
  /\ region' = [region EXCEPT ![r] = [page |-> p, offset |-> at + n]]
  /\ desc' = [desc EXCEPT ![p] = SmallDesc(r, at + slab)]
  /\ freeList' = IF Fits(r, n) THEN freeList ELSE AfterPop
  /\ committed' = committed \cup {p}

\* Take slab cells from region r, at least n of them: from its page if that
\* has room for n, else from a page acquired and committed for it.
Carve(r, n, slab) ==
  LET p == PageFor(r, n) at == OffsetFor(r, n) IN
  /\ Fits(r, n) \/ PagesIn("Free") # {}
  /\ region' = [region EXCEPT ![r] = [page |-> p, offset |-> at + slab]]
  /\ desc' = [desc EXCEPT ![p] = SmallDesc(r, at + slab)]
  /\ freeList' = IF Fits(r, n) THEN freeList ELSE AfterPop
  /\ committed' = committed \cup {p}

\* The OS refuses to commit the page region r would open: the page has been
\* taken off the free list all the same.
CommitRefused(r, n) ==
  /\ ~Fits(r, n) /\ PagesIn("Free") # {}
  /\ NextFree \in Refusable \ committed
  /\ freeList' = AfterPop
  /\ UNCHANGED <<desc, region, committed, memoryVars>>

-----------------------------------------------------------------------------
(* Mutators.                                                               *)

\* While a pass runs, everybody is parked.
Running == pass = None
Room(b) == tlab[b].end - tlab[b].cursor

\* The lock-free bump of Mutator::bump, and of a client that holds a slab.
Bump(b, n, pair) ==
  LET t == tlab[b] IN
  /\ Room(b) >= n
  /\ tlab' = [tlab EXCEPT ![b].cursor = @ + n]
  /\ starts' = WithStart(starts, t.page, t.cursor, pair)
  /\ body' = WithObject(body, t.page, t.cursor, n, pair)
  /\ UNCHANGED <<tableVars, pass, poisoned>>

PairFor(kind) == IF kind = "cons" THEN 3 ELSE 1
SizesOf(kind) == IF kind = "cons" THEN {2} ELSE Sizes

AllocHit(m, r) ==
  /\ Running /\ ~poisoned
  /\ \E n \in SizesOf(r[2]) : Bump(<<m, r>>, n, PairFor(r[2]))

\* The request of Mutator::refill as reserve_tlab clamps it.
Want(b, n) == MinOf(MaxOf(tlab[b].next, n), PageCells)

\* Mutant of Slab: what the page has left is not looked at.
SlabWhole(b, r, n) == Want(b, n)

\* The cells carve_tlab_in_current grants.
Slab(b, r, n) == IF Fits(r, n) THEN MinOf(Want(b, n), RoomIn(r)) ELSE Want(b, n)

\* A miss: refill the buffer under the heap lock, then bump.
AllocMiss(m, r) ==
  \E n \in SizesOf(r[2]) :
    LET b == <<m, r>>
        at == OffsetFor(r, n)
        slab == Slab(b, r, n)
    IN
    /\ Running /\ ~poisoned
    /\ Room(b) < n
    /\ ~Fits(r, n) /\ r[1] = "G0" => UnderCap(1)
    /\ Carve(r, n, slab)
    /\ tlab' = [tlab EXCEPT ![b] =
         [page |-> PageFor(r, n), cursor |-> at + n, end |-> at + slab,
          next |-> MinOf(2 * @.next, MaxTlab)]]
    /\ starts' = WithStart(StartsFor(r, n), PageFor(r, n), at, PairFor(r[2]))
    /\ body' = WithObject(BodyFor(r, n), PageFor(r, n), at, n, PairFor(r[2]))
    /\ UNCHANGED <<pass, poisoned>>

\* A miss whose page cannot be committed.
AllocMissRefused(m, r) ==
  \E n \in SizesOf(r[2]) :
    /\ Running /\ ~poisoned
    /\ Room(<<m, r>>) < n
    /\ r[1] = "G0" => UnderCap(1)
    /\ CommitRefused(r, n)
    /\ UNCHANGED <<tlab, pass, poisoned>>

\* try_alloc_g0_slab: a client takes a slab of G0 and drops the one it had.
\* It does not look at the poison flag.
TakeSlab(m) ==
  \E n \in SlabSizes :
    LET r == RegionOf(SlabBuffer)
        at == OffsetFor(r, n)
    IN
    /\ Running
    /\ \/ Fits(r, n)
       \/ Cardinality(PagesIn("Free")) > SlabReserve /\ UnderCap(1)
    /\ Carve(r, n, n)
    /\ tlab' = [tlab EXCEPT ![<<m, SlabBuffer>>] =
         [page |-> PageFor(r, n), cursor |-> at, end |-> at + n, next |-> @.next]]
    /\ starts' = StartsFor(r, n)
    /\ body' = BodyFor(r, n)
    /\ UNCHANGED <<pass, poisoned>>

\* A slab whose page cannot be committed.
TakeSlabRefused(m) ==
  \E n \in SlabSizes :
    /\ Running
    /\ Cardinality(PagesIn("Free")) > SlabReserve /\ UnderCap(1)
    /\ CommitRefused(RegionOf(SlabBuffer), n)
    /\ UNCHANGED <<tlab, pass, poisoned>>

\* The client of a slab bumps through it, conses and boxed objects mixed.
SlabBump(m) ==
  /\ Running
  /\ \E kind \in Kind : \E n \in SizesOf(kind) :
       Bump(<<m, SlabBuffer>>, n, PairFor(kind))

\* try_alloc_in_region, as the collector calls it: no cap.
RegionAlloc(r, n, pair) ==
  /\ ~poisoned
  /\ Carve(r, n, n)
  /\ starts' = WithStart(StartsFor(r, n), PageFor(r, n), OffsetFor(r, n), pair)
  /\ body' = WithObject(BodyFor(r, n), PageFor(r, n), OffsetFor(r, n), n, pair)

\* Where runs of n Free pages start.
FreeRuns(n) == {p \in Page : p + n <= NPages /\ p .. p + n - 1 \subseteq PagesIn("Free")}

\* Pages p .. p + done - 1 become the first done pages of a run of n.
Claimed(p, n, done) ==
  /\ desc' = [q \in Page |->
       IF q \in p .. p + done - 1
       THEN LargeDesc("G0", IF q = p THEN n ELSE 0) ELSE desc[q]]
  /\ committed' = committed \cup p .. p + done - 1
  /\ body' = [q \in Page |->
       IF q = p /\ done = n THEN [Opened(q) EXCEPT ![0] = 1]
       ELSE IF q \in p .. p + done - 1 THEN Opened(q) ELSE body[q]]
  /\ starts' = [q \in Page |->
       IF q = p /\ done = n THEN [Blank EXCEPT ![0] = 1]
       ELSE IF q \in p .. p + done - 1 THEN Blank ELSE starts[q]]
  /\ UNCHANGED <<freeList, region, tlab, pass, poisoned>>

\* try_alloc_large into G0, under the heap lock.
AllocLarge ==
  \E n \in LargeSpans :
    /\ Running /\ ~poisoned
    /\ UnderCap(n)
    /\ FreeRuns(n) # {}
    /\ Claimed(Least(FreeRuns(n)), n, n)

\* A commit fails after done pages of a run: what has been claimed stays so.
AllocLargeRefused(n, done) ==
  /\ Running /\ ~poisoned
  /\ UnderCap(n)
  /\ FreeRuns(n) # {}
  /\ Least(FreeRuns(n)) + done \in Refusable \ committed
  /\ Claimed(Least(FreeRuns(n)), n, done)

\* Mutant of Flushed: words_used gives the unused tails back.
FlushedReconciled(m) ==
  /\ tlab' = [b \in Buffer |-> IF b[1] = m THEN EmptyTlab ELSE tlab[b]]
  /\ desc' = [p \in Page |->
       [desc[p] EXCEPT !.used = @ - MapThenSumSet(Room, {b \in {m} \X Use : tlab[b].page = p})]]
  /\ UNCHANGED <<freeList, region, committed, memoryVars, pass, poisoned>>

\* words_used keeps the unused tails.
Flushed(m) ==
  /\ tlab' = [b \in Buffer |-> IF b[1] = m THEN EmptyTlab ELSE tlab[b]]
  /\ UNCHANGED <<tableVars, memoryVars, pass, poisoned>>

\* flush_tlabs: by the client, or on the way to being parked.
Flush(m) ==
  /\ Running
  /\ Flushed(m)

-----------------------------------------------------------------------------
(* Evacuation, with every mutator parked and flushed.                      *)

ObjectsOf(pages) == {o \in Objects : o[1] \in pages}
LargeObject(o) == desc[o[1]].kind = "large"

\* Pages of G0 that bear neither a mark nor a pin: a Large object has its mark
\* and its pin on its first page only.
ZeroLive(live) == PagesIn("G0") \ {o[1] : o \in live}

\* A pass over the pages of generation from begins: keep is pinned, live is
\* reachable.  With early the caller has marked already and the pages that
\* seem dead are released as they are.
BeginPass(from, dest, early) ==
  /\ pass = None /\ ~poisoned
  /\ \A b \in Buffer : tlab[b] = EmptyTlab
  /\ Len(freeList) + Cardinality(PagesIn(from)) <= FreeListBound
  /\ \E keep \in SUBSET ObjectsOf(PagesIn(from)) :
       /\ Cardinality(keep) <= MaxPins
       /\ \E live \in SUBSET (ObjectsOf(PagesIn(from)) \ keep) :
            LET dropped == IF early THEN ZeroLive(keep \cup live) ELSE {} IN
            /\ pass' = [from |-> from, dest |-> dest,
                        rest |-> PagesIn(from) \ dropped, chunk |-> {},
                        keep |-> keep,
                        copy |-> {o \in live : ~LargeObject(o)}]
            /\ desc' = [p \in Page |->
                 IF p \in dropped THEN FreeDesc(FALSE) ELSE desc[p]]
            /\ freeList' = freeList \o Ascending(dropped)
  /\ region' = [r \in Region |-> IF r[1] = from THEN NoPage ELSE region[r]]
  /\ UNCHANGED <<committed, memoryVars, tlab, poisoned>>

HasPins(p) == \E o \in pass.keep : o[1] = p

\* How many pages the next chunk takes: seven eighths of the Free pages that
\* pinned pages will not use up, and one in any case.
ChunkSize ==
  LET free == Cardinality(PagesIn("Free"))
      pinned == Cardinality({p \in PagesIn(pass.from) : HasPins(p)})
  IN
  MaxOf((7 * MaxOf(free - pinned, 0)) \div 8, 1)

\* The lowest pages not yet treated become the next chunk.
PickChunk ==
  /\ pass # None /\ pass.chunk = {} /\ pass.rest # {}
  /\ LET chunk == {p \in pass.rest :
                     Cardinality({q \in pass.rest : q < p}) < ChunkSize}
     IN pass' = [pass EXCEPT !.rest = @ \ chunk, !.chunk = chunk]
  /\ UNCHANGED <<tableVars, memoryVars, tlab, poisoned>>

\* The marked objects of the chunk that the copying still comes to.
Sources ==
  {o \in pass.copy :
     /\ o[1] \in pass.chunk /\ GenOf(o[1]) = pass.from
     /\ o[2] < desc[o[1]].used /\ o \in Objects /\ ~LargeObject(o)}

\* The region, size and start bits of the copy of object o.
CopyRegion(o) ==
  <<pass.dest, IF starts[o[1]][o[2]] = 3 THEN "cons" ELSE "boxed">>
NextCopy ==
  CHOOSE o \in Sources : \A q \in Sources :
    o[1] < q[1] \/ (o[1] = q[1] /\ o[2] <= q[2])

CopyObject ==
  /\ pass # None /\ Sources # {}
  /\ RegionAlloc(CopyRegion(NextCopy), SizeAt(NextCopy[1], NextCopy[2]),
                 starts[NextCopy[1]][NextCopy[2]])
  /\ pass' = [pass EXCEPT !.copy = @ \ {NextCopy}]
  /\ UNCHANGED <<tlab, poisoned>>

NoRoomForCopy ==
  ~Fits(CopyRegion(NextCopy), SizeAt(NextCopy[1], NextCopy[2]))

\* No page for a copy: the panic is caught and poisons the heap.
MidEvacOom ==
  /\ pass # None /\ Sources # {}
  /\ NoRoomForCopy /\ PagesIn("Free") = {}
  /\ pass' = None
  /\ poisoned' = TRUE
  /\ UNCHANGED <<tableVars, memoryVars, tlab>>

\* No page that can be committed: likewise.
CopyRefused ==
  /\ pass # None /\ Sources # {}
  /\ CommitRefused(CopyRegion(NextCopy), SizeAt(NextCopy[1], NextCopy[2]))
  /\ pass' = None
  /\ poisoned' = TRUE
  /\ UNCHANGED tlab

\* Once a chunk is copied, its pages are reclaimed one by one.
Reclaiming(p) ==
  /\ pass # None /\ pass.chunk # {}
  /\ p = Least(pass.chunk) /\ Sources = {}
  /\ pass' = [pass EXCEPT !.chunk = @ \ {p},
                          !.copy = {o \in @ : o[1] \in pass.rest}]
  /\ UNCHANGED <<region, tlab, poisoned>>

LargeHead(p) == desc[p].kind = "large" /\ desc[p].span > 0
Continuation(p) == desc[p].kind = "large" /\ desc[p].span = 0

\* Free by now, or dealt with where its run begins.
SkipPage(p) ==
  /\ Reclaiming(p)
  /\ GenOf(p) = "Free" \/ Continuation(p)
  /\ UNCHANGED <<desc, freeList, committed, memoryVars>>

\* The pages of run change generation in place and only the first keeps start
\* bits, whatever the others hold.
FlipRun(p) ==
  /\ Reclaiming(p)
  /\ LargeHead(p) /\ HasPins(p)
  /\ desc' = [q \in Page |->
       IF q \in RunOf(p) THEN [desc[q] EXCEPT !.gen = pass.dest] ELSE desc[q]]
  /\ starts' = [q \in Page |-> IF q \in RunOf(p) \ {p} THEN Blank ELSE starts[q]]
  /\ UNCHANGED <<freeList, committed, body>>

\* Mutant of ReleasedBody: a released page is not zeroed.
ReleasedBodyKept(p) == body[p]

ReleasedBody(p) == Blank

\* Released pages are zeroed, and known to be.
Release(pages) ==
  /\ desc' = [q \in Page |-> IF q \in pages THEN FreeDesc(TRUE) ELSE desc[q]]
  /\ freeList' = freeList \o Ascending(pages)
  /\ starts' = [q \in Page |-> IF q \in pages THEN Blank ELSE starts[q]]
  /\ body' = [q \in Page |-> IF q \in pages THEN ReleasedBody(q) ELSE body[q]]

\* As many pages as the head says are released, and decommitted.
ReleaseRun(p) ==
  /\ Reclaiming(p)
  /\ LargeHead(p) /\ ~HasPins(p)
  /\ Release(RunOf(p))
  /\ committed' = committed \ RunOf(p)

SmallInUse(p) == GenOf(p) # "Free" /\ desc[p].kind # "large"

\* Cells of a small page that are within pinned objects.
Pinned(p) == UNION {Extent(o[1], o[2]) : o \in {q \in pass.keep : q[1] = p}}

\* A small page with pins changes generation and keeps the pinned objects.
FlipPage(p) ==
  /\ Reclaiming(p)
  /\ SmallInUse(p) /\ HasPins(p)
  /\ desc' = [desc EXCEPT ![p].gen = pass.dest]
  /\ starts' = [starts EXCEPT ![p] =
       [i \in Offset |-> IF <<p, i>> \in pass.keep THEN @[i] ELSE 0]]
  /\ body' = [body EXCEPT ![p] =
       [i \in Offset |-> IF i \in Pinned(p) THEN @[i] ELSE 0]]
  /\ UNCHANGED <<freeList, committed>>

ReleasePage(p) ==
  /\ Reclaiming(p)
  /\ SmallInUse(p) /\ ~HasPins(p)
  /\ Release({p})
  /\ UNCHANGED committed

Reclaim(p) ==
  SkipPage(p) \/ FlipRun(p) \/ ReleaseRun(p) \/ FlipPage(p) \/ ReleasePage(p)

EndPass ==
  /\ pass # None /\ pass.rest = {} /\ pass.chunk = {}
  /\ pass' = None
  /\ UNCHANGED <<tableVars, memoryVars, tlab, poisoned>>

-----------------------------------------------------------------------------
Step ==
  \/ \E b \in Uses :
       \/ b[2] # SlabBuffer /\ (AllocHit(b[1], b[2]) \/ AllocMiss(b[1], b[2]))
       \/ b[2] = SlabBuffer /\ (TakeSlab(b[1]) \/ SlabBump(b[1]))
  \/ \E m \in Mutator : Flush(m)
  \/ AllocLarge
  \/ \E e \in Evacuations : BeginPass(e[1], e[2], e[3])
  \/ CopyObject
  \/ MidEvacOom
  \/ \E p \in Page : Reclaim(p)
  \/ EndPass

\* The OS refuses to commit a page; in the middle of a Large run, it tears it.
Refusal ==
  \/ \E b \in Uses :
       \/ b[2] # SlabBuffer /\ AllocMissRefused(b[1], b[2])
       \/ b[2] = SlabBuffer /\ TakeSlabRefused(b[1])
  \/ \E n \in LargeSpans : AllocLargeRefused(n, 0)
  \/ CopyRefused

TearingRefusal ==
  \E n \in LargeSpans : \E done \in 1 .. n - 1 : AllocLargeRefused(n, done)

Next == Step \/ PickChunk \/ Refusal \/ TearingRefusal

Spec == Init /\ [][Next]_vars

\* The early release has left no Large run with a part of its pages.
RunsListed ==
  pass # None => \A p \in pass.rest : LargeHead(p) => RunOf(p) \subseteq pass.rest

\* Later chunks have objects to copy.
CopiesLater == \E o \in pass.copy : o[1] \in pass.rest

\* No dead Large run is cut by the end of a chunk if there is more to copy:
\* phase3_reclaim would release pages that a later chunk lists as its own, for
\* copies to be put there.
RunsUncut ==
  pass # None /\ CopiesLater =>
    \A p \in pass.chunk :
      LargeHead(p) /\ ~HasPins(p) => RunOf(p) \cap pass.rest = {}

\* The steps that do not tear a Large run.
UncutNext ==
  \/ Step /\ (pass = None => RunsListed')
  \/ PickChunk /\ RunsUncut'
  \/ Refusal

UncutSpec == Init /\ [][UncutNext]_vars

-----------------------------------------------------------------------------
(* Properties.                                                             *)

RegionDesc == [page : Page \cup {None}, offset : 0 .. PageCells]

\* Every variable keeps its shape.
TypeOK ==
  /\ desc \in [Page -> [gen : Generation \cup {"Free"},
                        kind : Kind \cup {"large", "free"},
                        used : 0 .. PageCells, span : 0 .. NPages,
                        zeroed : BOOLEAN]]
  /\ freeList \in Seq(Page)
  /\ region \in [Region -> RegionDesc]
  /\ committed \subseteq Page
  /\ starts \in [Page -> [Offset -> {0, 1, 3}]]
  /\ body \in [Page -> [Offset -> 0 .. PageCells]]
  /\ tlab \in [Buffer -> [page : Page \cup {None}, cursor : 0 .. PageCells,
                          end : 0 .. PageCells, next : 1 .. MaxTlab]]
  /\ pass \in {None} \cup Pass
  /\ poisoned \in BOOLEAN

\* Who may write cell i of page p next, or has: open buffers, open regions and
\* objects, Large ones on the later pages of their runs too.
Owners(p, i) ==
  {<<"buffer", b>> : b \in {c \in Uses :
     tlab[c].page = p /\ i \in tlab[c].cursor .. tlab[c].end - 1}}
  \cup {<<"region", r>> : r \in {q \in Region :
     region[q].page = p /\ i \in region[q].offset .. PageCells - 1}}
  \cup {<<"object", j>> : j \in {k \in Offset : StartAt(p, k) /\ i \in Extent(p, k)}}
  \cup {<<"run", h>> : h \in {q \in Page : LargeHead(q) /\ p \in RunOf(q) \ {q}}}

\* No cell is handed out twice: the unused cells of the buffers of all
\* mutators, those of the regions and the objects are disjoint, and lie on
\* committed pages in use (reserve_tlab, try_alloc_g0_slab, try_bump_in_current
\* and try_alloc_large share one page table; bump takes no lock).
OneOwner ==
  \A p \in Page, i \in Offset :
    /\ Cardinality(Owners(p, i)) <= 1
    /\ Owners(p, i) # {} => p \in committed /\ GenOf(p) # "Free"

\* What will be handed out reads as zero and carries no start bit, for the
\* client does not initialise payloads and walkers trust start bits (comments
\* "bug #1" and "bug #4" of acquire_free_page).
HandsOutZeros ==
  LET Clear(p, cells) == \A i \in cells : body[p][i] = 0 /\ starts[p][i] = 0 IN
  /\ \A b \in Uses : Clear(tlab[b].page, tlab[b].cursor .. tlab[b].end - 1)
  /\ \A r \in Region : region[r].page # None =>
       Clear(region[r].page, region[r].offset .. PageCells - 1)

\* words_used of a page covers every object on it, whoever allocated it and
\* whatever buffers were dropped since (flush_tlabs): the evacuator scans
\* cells below words_used only.
WatermarkCovers ==
  \A o \in Objects : \A i \in Extent(o[1], o[2]) : i < desc[o[1]].used

\* A Large head is followed by the rest of its run, of the same generation,
\* and heads an object: phase3_reclaim flips and releases n_span pages on its
\* word.
RunsWhole ==
  LET Run(h) == h .. h + desc[h].span - 1
      Large == {p \in Page : desc[p].kind = "large"}
  IN
  \A p \in Large :
    /\ \E h \in Large : p \in Run(h)
    /\ desc[p].span > 0 =>
         /\ StartAt(p, 0)
         /\ \A q \in Run(p) \ {p} :
              q \in Page /\ desc[q] = [desc[p] EXCEPT !.span = 0]

\* Objects a step may not touch: any while the world runs; during a pass those
\* that are pinned, and those on pages that are no source or not any more.
Staying(o) ==
  \/ pass = None
  \/ o \in pass.keep
  \/ GenOf(o[1]) # pass.from \/ o[1] \notin pass.rest \cup pass.chunk

\* No object goes away or changes while the world runs, whatever pages are
\* opened and runs claimed; and during a pass neither do pinned objects ("Pinned
\* pages flip in place in Phase 3 (they keep their pinned objects)"), copies,
\* and objects of older generations.
ObjectsStay ==
  [][\A o \in {q \in Objects : Staying(q)} :
       /\ starts'[o[1]][o[2]] = starts[o[1]][o[2]]
       /\ \A i \in Extent(o[1], o[2]) : body'[o[1]][i] = body[o[1]][i]]_vars

\* Outside a pass G0 does not grow beyond its cap, by whichever of the four
\* ways a page is opened for it.
YoungWithinCap ==
  [][pass = None /\ Cardinality(PagesIn("G0")') > Cardinality(PagesIn("G0"))
       => Cardinality(PagesIn("G0")') <= YoungPageCap]_vars
=============================================================================
