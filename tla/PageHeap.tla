------------------------------ MODULE PageHeap -------------------------------
(***************************************************************************)
(* The whole page heap as its client sees it: allocation, pointer stores   *)
(* with the write barrier, pins, and the collection cycles of              *)
(* page_heap/cycle.rs, each a sequence of evacuation passes.               *)
(*                                                                         *)
(* The client is a program that keeps every reference in a root slot or a  *)
(* static word or, for what the collector may not rewrite, in a stack word *)
(* or an explicit pin.  It marks the card of every pointer it writes, as   *)
(* the client in newgc-test-lisp does.  One with static words collects by  *)
(* the entry points of coordinator_api.rs, which visit them, and by no     *)
(* others.                                                                 *)
(***************************************************************************)
EXTENDS Evacuator

CONSTANTS
  Cycles,       \* which of "minor", "major", "full", "static" the client
                \* asks for
  G0Threshold,  \* G0_PROMOTION_THRESHOLD
  G1Threshold,  \* G1_PROMOTION_THRESHOLD
  StaleBound    \* the client asks for a Large object only while freeList has
                \* at most so many stale entries: each one leaves some behind

ASSUME PageHeapAssumption ==
  /\ Cycles \subseteq {"minor", "major", "full", "static"}
  /\ Static # {} => Cycles \subseteq {"static"}
  /\ G0Threshold \in Nat \ {0}
  /\ G1Threshold \in Nat \ {0}
  /\ StaleBound \in Nat

VARIABLES
  minors_since_g0_promote,
  g0_promotes_since_g1_promote,
  cycle,       \* the cycle in progress, or "none"
  passes       \* the passes it has still to begin

counters == <<minors_since_g0_promote, g0_promotes_since_g1_promote>>
cycleVars == <<counters, cycle, passes>>
collectorVars == <<pinned, passVars, loopVars, phase, cycleVars>>
vars == <<heapVars, evacVars, cycleVars>>

Init ==
  /\ TableInit
  /\ root = [r \in Root |-> Null]
  /\ static = [s \in Static |-> Null]
  /\ staticCards = {}
  /\ stack = [s \in Stack |-> Null]
  /\ handle = [h \in Handle |-> Null]
  /\ pinned = {}
  /\ from = "G0" /\ dest = "G0"
  /\ snapshot = [p \in Page |-> "Free"]
  /\ scanning = FALSE
  /\ premarked = FALSE
  /\ marks = {}
  /\ fromPages = <<>>
  /\ next = 1
  /\ chunk = {}
  /\ phase = "idle"
  /\ minors_since_g0_promote = 0
  /\ g0_promotes_since_g1_promote = 0
  /\ cycle = "none"
  /\ passes = <<>>

-----------------------------------------------------------------------------
(* The client.                                                             *)

Idle == phase = "idle"

\* Words the client can store: it holds them in a root slot.  It can load
\* those, what they point at, and what it spilled.
Values == ImageOf(root) \cup {Null}
Loadable ==
  Values \cup ImageOf(static) \cup ImageOf(stack)
    \cup Pointers(ImageOf(root) \ {Null})

\* Start bits that count: a Free page may keep those of its last tenant.
Objects == {a \in starts : GenOf(PageOf(a)) # "Free"}

\* Identities of the objects in the heap, garbage not yet collected included;
\* bounds what the client may allocate.
Present == {cell[a].id : a \in {b \in Objects : IsObject(b)}}

\* try_alloc_boxed_in(G0) and the stores that initialise the object.
Alloc(r, i, w) ==
  /\ Idle
  /\ HasRoom("G0") \/ (UnderCap(1) /\ PagesIn("Free") # {})
  /\ Claim("G0")
  /\ starts' = StartsWithNext("G0")
  /\ cell' = CellsWithNext("G0", Object(i, w))
  /\ cards' = cards \cup {CardOf(NextSlot("G0"))}
  /\ root' = [root EXCEPT ![r] = NextSlot("G0")]
  /\ UNCHANGED <<static, staticCards, stack, handle, collectorVars>>

\* try_alloc_large(G0): a contiguous run, not popped from the free list.
AllocLarge(r, i, w) ==
  /\ Idle
  /\ UnderCap(LargeSpan)
  /\ LargeFits # {}
  /\ Len(freeList) - Cardinality(PagesIn("Free")) <= StaleBound
  /\ LET head == Least(LargeFits) IN
       /\ starts' = {a \in starts : PageOf(a) \notin Run(head, LargeSpan)}
                       \cup {Base(head)}
       /\ cell' = [a \in Addr |->
                      IF a = Base(head) THEN Object(i, w)
                      ELSE IF PageOf(a) \in Run(head, LargeSpan) THEN Zero
                      ELSE cell[a]]
       /\ cards' = cards \cup {CardOf(Base(head))}
       /\ root' = [root EXCEPT ![r] = Base(head)]
  /\ ClaimLarge("G0")
  /\ UNCHANGED <<freeList, region, static, staticCards, stack, handle,
                 collectorVars>>

\* Mutant of Store: the barrier is left out for objects in the nursery, the
\* generation that every minor cycle walks anyway.
StoreOldOnlyBarrier(r, w) ==
  /\ Idle
  /\ root[r] # Null
  /\ cell' = [cell EXCEPT ![root[r]].ptr = w]
  /\ cards' = IF GenOf(PageOf(root[r])) = "G0" THEN cards
              ELSE cards \cup {CardOf(root[r])}
  /\ UNCHANGED <<tableVars, starts, holderVars, collectorVars>>

\* A pointer store and its write barrier.
Store(r, w) ==
  /\ Idle
  /\ root[r] # Null
  /\ cell' = [cell EXCEPT ![root[r]].ptr = w]
  /\ cards' = cards \cup {CardOf(root[r])}
  /\ UNCHANGED <<tableVars, starts, holderVars, collectorVars>>

\* Copy, follow or forget a word.
SetRoot(r, w) ==
  /\ Idle
  /\ root' = [root EXCEPT ![r] = w]
  /\ UNCHANGED <<heapVars, static, staticCards, stack, handle, collectorVars>>

\* A store into a static word, and the barrier of the static card table.
StoreStatic(s, w) ==
  /\ Idle
  /\ static' = [static EXCEPT ![s] = w]
  /\ staticCards' = staticCards \cup {s}
  /\ UNCHANGED <<heapVars, root, stack, handle, collectorVars>>

Spill(s, w) ==
  /\ Idle
  /\ stack' = [stack EXCEPT ![s] = w]
  /\ UNCHANGED <<heapVars, root, static, staticCards, handle, collectorVars>>

\* PageHeap::pin, for a word that names an object.
Pin(h, w) ==
  /\ Idle
  /\ handle[h] = Null
  /\ w \in starts /\ GenOf(PageOf(w)) # "Free"
  /\ handle' = [handle EXCEPT ![h] = w]
  /\ UNCHANGED <<heapVars, root, static, staticCards, stack, collectorVars>>

Unpin(h) ==
  /\ Idle
  /\ handle[h] # Null
  /\ handle' = [handle EXCEPT ![h] = Null]
  /\ UNCHANGED <<heapVars, root, static, staticCards, stack, collectorVars>>

-----------------------------------------------------------------------------
(* Cycles.                                                                 *)

\* A pass and its card scan: by the page generations at the start of the
\* pass ("fresh") or of the cycle ("kept"), or no scan at all.
Pass(f, d, scan) == [from |-> f, dest |-> d, scan |-> scan]

\* Mutant of MinorPasses: the cascade is taken a cycle late.
MinorPassesLate ==
  IF minors_since_g0_promote >= G0Threshold
    THEN <<Pass("G0", "G1", "fresh"), Pass("G1", "Tenured", "kept")>>
    ELSE <<Pass("G0", "G0", "fresh")>>

\* Mutant of Promoting: the count is taken before this cycle.
PromotingLate == minors_since_g0_promote >= G0Threshold

Promoting == minors_since_g0_promote + 1 >= G0Threshold
Cascading == Promoting /\ g0_promotes_since_g1_promote + 1 >= G1Threshold

MinorPasses ==
  IF Cascading
    THEN <<Pass("G0", "G1", "fresh"), Pass("G1", "Tenured", "kept")>>
  ELSE IF Promoting THEN <<Pass("G0", "G1", "fresh")>>
  ELSE <<Pass("G0", "G0", "fresh")>>

MajorPasses == <<Pass("G1", "Tenured", "fresh"), Pass("G0", "G0", "fresh")>>

\* Mutant of FullPasses: the nursery is compacted, not promoted.
FullPassesNursery ==
  <<Pass("G0", "G0", "fresh"), Pass("G1", "Tenured", "fresh"),
    Pass("Tenured", "Tenured", "none")>>

\* Mutant of FullPasses: Tenured is left as it is.
FullPassesUncompacted ==
  <<Pass("G0", "G1", "fresh"), Pass("G1", "Tenured", "fresh")>>

FullPasses ==
  <<Pass("G0", "G1", "fresh"), Pass("G1", "Tenured", "fresh"),
    Pass("Tenured", "Tenured", "none")>>

\* drive_collect pins what stack words point at in the generations that the
\* cycle may move.
StackPins(gens) ==
  {a \in ImageOf(stack) \ {Null} : a \in starts /\ GenOf(PageOf(a)) \in gens}

Begin(kind, sequence, gens) ==
  /\ Idle
  /\ kind \in Cycles
  /\ cycle' = kind
  /\ passes' = sequence
  /\ pinned' = StackPins(gens)
  /\ desc' = [p \in Page |->
                IF \E a \in StackPins(gens) : PageOf(a) = p
                  THEN [desc[p] EXCEPT !.pins = TRUE] ELSE desc[p]]
  /\ phase' = "begin"
  /\ UNCHANGED <<freeList, region, cell, starts, cards, holderVars, passVars,
                 loopVars>>

CountMinor ==
  /\ minors_since_g0_promote' =
       IF Promoting THEN 0 ELSE minors_since_g0_promote + 1
  /\ g0_promotes_since_g1_promote' =
       IF Cascading THEN 0
       ELSE IF Promoting THEN g0_promotes_since_g1_promote + 1
       ELSE g0_promotes_since_g1_promote

StartMinor ==
  /\ Begin("minor", MinorPasses, {"G0", "G1"})
  /\ CountMinor

\* collect_major is offered to clients without conservative roots only.
StartMajor ==
  /\ ImageOf(stack) \subseteq {Null}
  /\ Begin("major", MajorPasses, {})
  /\ minors_since_g0_promote' = 0
  /\ g0_promotes_since_g1_promote' = 0

StartFull ==
  /\ Begin("full", FullPasses, Generation)
  /\ minors_since_g0_promote' = 0
  /\ g0_promotes_since_g1_promote' = 0

\* mark_minor_with_static: the marks of G0, before the minor that uses them.
\* The client stays stopped from here to the end of that minor.
MarkMinorWithStatic ==
  /\ Idle
  /\ "static" \in Cycles
  /\ LET old == {c \in cards : GenOf(PageOf(c * CardSize)) \in {"G1", "Tenured"}}
     IN  marks' = Closure(VisitedWords
                            \cup Pointers(UNION {Walked(c) : c \in old}))
  /\ premarked' = TRUE
  /\ phase' = "marked"
  /\ UNCHANGED <<heapVars, holderVars, pinned, from, dest, snapshot, scanning,
                 fromPages, next, chunk, cycleVars>>

\* Mutant of ZeroLive: decided before the pins are known.
ZeroLiveBeforePins(live) ==
  {p \in PagesIn("G0") : marks \cap Slots(p) = {}}

\* G0 pages without a mark or a pin (release_zero_live_unpinned_pages).
ZeroLive(live) ==
  {p \in PagesIn("G0") :
     /\ live \cap Slots(p) = {}
     /\ ~desc[p].pins
     /\ \A a \in StackPins({"G0", "G1"}) : PageOf(a) # p}

\* collect_minor_with_static, up to its call of collect_minor: pin, extend
\* the marks if there are any and release the pages they leave out.  Start
\* bits and slots of these stay until the page is acquired again.
CollectMinorWithStatic ==
  LET pins == StackPins({"G0", "G1"})
      live == Closure(marks \cup pins \cup Pointers(pins))
      drained == IF premarked THEN ZeroLive(live) ELSE {}
  IN
  /\ phase \in {"idle", "marked"}
  /\ "static" \in Cycles
  /\ cycle' = "static"
  /\ passes' = MinorPasses
  /\ CountMinor
  /\ pinned' = pins
  /\ marks' = IF premarked THEN live ELSE marks
  /\ desc' = [p \in Page |->
                CASE p \in drained -> FreeDesc
                  [] \E a \in pins : PageOf(a) = p ->
                       [desc[p] EXCEPT !.pins = TRUE]
                  [] OTHER -> desc[p]]
  /\ freeList' = freeList \o Ascending(drained)
  /\ phase' = "begin"
  /\ UNCHANGED <<region, cell, starts, cards, holderVars, passVars, fromPages,
                 next, chunk>>

\* evacuate_with_roots is called for the next pass.
BeginPass ==
  /\ \/ phase = "begin"
     \/ phase = "chunk" /\ next > Len(fromPages)
  /\ passes # <<>>
  /\ LET pass == Head(passes) IN
       /\ from' = pass.from
       /\ dest' = pass.dest
       /\ scanning' = (pass.scan # "none")
       /\ snapshot' = IF pass.scan = "fresh"
                        THEN [p \in Page |-> GenOf(p)] ELSE snapshot
  /\ passes' = Tail(passes)
  /\ phase' = "mark"
  /\ UNCHANGED <<heapVars, holderVars, pinned, premarked, loopVars, counters,
                 cycle>>

\* Mutant of HasPointer: cards of Large objects are not rebuilt.
HasPointerSmall(c) ==
  \E a \in CardSlots(c) :
    IsObject(a) /\ cell[a].ptr # Null /\ desc[PageOf(a)].kind = "small"

HasPointer(c) == \E a \in CardSlots(c) : IsObject(a) /\ cell[a].ptr # Null

\* Mutant of KeptStaticCards: the static cards are taken as consumed.
KeptStaticCardsNone == {}

KeptStaticCards == {s \in staticCards : static[s] # Null}

\* rebuild_cards_for_old_gens, clear_all_pins, clear_cards_unless_intergen
\* for the static cards, and back to the client.
EndCycle ==
  /\ phase = "chunk"
  /\ next > Len(fromPages)
  /\ passes = <<>>
  /\ cards' = {c \in Card :
                 GenOf(PageOf(c * CardSize)) # "Free" /\ HasPointer(c)}
  /\ desc' = [p \in Page |-> [desc[p] EXCEPT !.pins = FALSE]]
  /\ staticCards' = KeptStaticCards
  /\ pinned' = {}
  /\ marks' = {}
  /\ fromPages' = <<>>
  /\ next' = 1
  /\ chunk' = {}
  /\ from' = "G0" /\ dest' = "G0"
  /\ snapshot' = [p \in Page |-> "Free"]
  /\ scanning' = FALSE
  /\ cycle' = "none"
  /\ phase' = "idle"
  /\ UNCHANGED <<freeList, region, cell, starts, root, static, stack, handle,
                 premarked, counters, passes>>

-----------------------------------------------------------------------------
Client ==
  \/ \E r \in Root :
       \/ \E w \in Values :
            \/ \E i \in Id \ Present : Alloc(r, i, w) \/ AllocLarge(r, i, w)
            \/ Store(r, w)
       \/ \E w \in Loadable : SetRoot(r, w)
  \/ \E s \in Static, w \in Values : StoreStatic(s, w)
  \/ \E s \in Stack, w \in Values : Spill(s, w)
  \/ \E h \in Handle : Unpin(h) \/ \E w \in Values \ {Null} : Pin(h, w)

Collector ==
  \/ BeginPass
  \/ Mark       /\ UNCHANGED cycleVars
  \/ PickChunk  /\ UNCHANGED cycleVars
  \/ CopyObject /\ UNCHANGED cycleVars
  \/ MidEvacOom /\ UNCHANGED cycleVars
  \/ Rewrite    /\ UNCHANGED cycleVars
  \/ Reclaim    /\ UNCHANGED cycleVars
  \/ EndCycle

Next ==
  \/ Client
  \/ StartMinor \/ StartMajor \/ StartFull
  \/ MarkMinorWithStatic \/ CollectMinorWithStatic
  \/ Collector

Spec == Init /\ [][Next]_vars
FairSpec == Spec /\ WF_vars(Collector)

-----------------------------------------------------------------------------
(* Properties.                                                             *)

Phases == {"idle", "marked", "begin", "mark", "chunk", "copy", "reclaim",
           "stalled"}

\* The state stays in its types (PageDesc, AllocRegion, the slots of the
\* reservation, the locals of evacuate_with_roots and the cycle counters).
TypeOK ==
  /\ desc \in [Page -> [gen : Generation \cup {"Free"},
                        kind : {"free", "small", "large"},
                        span : 0 .. LargeSpan, pins : BOOLEAN]]
  /\ freeList \in Seq(Page)
  /\ region \in [Generation -> [page : Page \cup {Null}, offset : 0 .. PageSize]]
  /\ \A a \in Addr : cell[a] \in Contents
  /\ starts \subseteq Addr
  /\ cards \subseteq Card
  /\ root \in [Root -> Word]
  /\ static \in [Static -> Word]
  /\ staticCards \subseteq Static
  /\ stack \in [Stack -> Word]
  /\ handle \in [Handle -> Word]
  /\ pinned \subseteq Addr
  /\ {from, dest} \subseteq Generation
  /\ snapshot \in [Page -> Generation \cup {"Free"}]
  /\ scanning \in BOOLEAN
  /\ premarked \in BOOLEAN
  /\ marks \subseteq Addr
  /\ fromPages \in Seq(Page)
  /\ next \in 1 .. Len(fromPages) + 1
  /\ chunk \subseteq Page
  /\ phase \in Phases
  /\ minors_since_g0_promote \in 0 .. G0Threshold - 1
  /\ g0_promotes_since_g1_promote \in 0 .. G1Threshold - 1
  /\ cycle \in {"none", "minor", "major", "full", "static"}
  /\ passes \in Seq([from : Generation, dest : Generation,
                     scan : {"fresh", "kept", "none"}])

Names(w) == w = Null \/ (w \in Objects /\ IsObject(w))

\* Between collections every object that carries a start bit, garbage
\* included, points at an object: no pass releases or overwrites a page that
\* something a later card scan may still read points into.
HeapClosed ==
  Idle => \A a \in Objects : IsObject(a) /\ Names(cell[a].ptr)

\* Between collections every pointer from one generation into another is on
\* a dirty card, and the walk of that card gets as far as the object (the
\* write barrier, the cards of copies and flips, rebuild_cards_for_old_gens
\* and visit_card_pointer_cells together).
RememberedSet ==
  Idle => \A a \in Objects :
    LET w == cell[a].ptr IN
    (w # Null /\ GenOf(PageOf(w)) # GenOf(PageOf(a))) =>
      CardOf(a) \in cards /\ a \in Walked(CardOf(a))

\* No Free page is missing from the free list (the debug assertion of
\* acquire_free_page), though entries may be stale or double.
FreePagesListed == PagesIn("Free") \subseteq ImageOf(freeList)

\* A bump region owns the rest of its page: the page belongs to its
\* generation, to no other region, and holds no object at or past the offset.
BumpIsExclusive ==
  \A g \in Generation : region[g].page # Null =>
    /\ GenOf(region[g].page) = g
    /\ desc[region[g].page].kind = "small"
    /\ \A a \in Slots(region[g].page) :
         a >= Base(region[g].page) + region[g].offset => a \notin starts

\* Every pinned object survives every pass of the cycle in place, with its
\* start bit (the debug assertion at the end of evacuate_with_roots).
PinsSurvive == \A a \in pinned : a \in Objects /\ IsObject(a)

\* When collect_full comes to compact Tenured without a card scan, no young
\* page is left that could hold a pointer into it.
YoungEmptyBeforeCompaction ==
  phase = "mark" /\ ~scanning => PagesIn("G0") \cup PagesIn("G1") = {}

\* A cycle that promotes leaves nothing behind in the generation it promotes,
\* pinned or not: an object survives at most G0Threshold minors in G0.
PromotionLeavesNothing ==
  [][ EndCycle =>
        /\ cycle # "major" /\ minors_since_g0_promote = 0
             => PagesIn("G0") = {}
        /\ cycle \in {"major", "full"} \/ (/\ minors_since_g0_promote = 0
                                            /\ g0_promotes_since_g1_promote = 0)
             => PagesIn("G1") = {} ]_vars

Reached ==
  LET words == ImageOf(root) \cup ImageOf(static) \cup ImageOf(stack)
                 \cup ImageOf(handle)
      follow(S) == Pointers(S) \ {Null}
  IN  Leads(words \ {Null}, follow, Cardinality(Id))

\* Between collections every object the client can reach points at objects:
\* evacuate_with_roots left none behind and rewrote every reference to those
\* it moved (its post-conditions).
PointersFollowed ==
  Idle => \A a \in Reached : a \in Objects /\ IsObject(a) /\ Names(cell[a].ptr)

\* collect_full keeps nothing but what the client can reach, whatever dead
\* objects and stale cards older generations held.
FullReclaims ==
  [][ EndCycle /\ cycle = "full" => starts \subseteq Reached ]_vars

\* A cycle ends, or stalls for want of a free page: the chunk loop always
\* makes progress, however full the heap.
CycleEnds == phase = "begin" ~> phase \in {"idle", "stalled"}

-----------------------------------------------------------------------------
(* Refinement.                                                             *)

\* The object a word names; a forwarding marker stands for its target.
Meant(w) == IF w # Null /\ IsForward(w) THEN cell[w].to ELSE w
NameOf(w) ==
  IF w = Null THEN Null
  ELSE IF Meant(w) \in Objects /\ IsObject(Meant(w)) THEN cell[Meant(w)].id
  ELSE "lost"

Holder == Root \cup Static \cup Stack \cup Handle
WordOf(x) == IF x \in Root THEN root[x]
             ELSE IF x \in Static THEN static[x]
             ELSE IF x \in Stack THEN stack[x] ELSE handle[x]

\* Objects the client can reach, in the midst of a cycle too.
ReachedNow ==
  LET meant(words) == {Meant(w) : w \in words \ {Null}}
      follow(S) == meant(Pointers(S))
  IN  Leads(meant({WordOf(x) : x \in Holder}), follow, Cardinality(Id))

Links ==
  {<<cell[a].id, NameOf(cell[a].ptr)>> : a \in {b \in ReachedNow : IsObject(b)}}

Promise == INSTANCE ManagedHeap WITH
  Nil <- Null,
  held <- [x \in Holder |-> NameOf(WordOf(x))],
  link <- Links

\* Whatever the collector does, the client sees its objects, its pointers and
\* nothing else: every step of a cycle is invisible.
ImplementsManagedHeap == Promise!Spec
=============================================================================
