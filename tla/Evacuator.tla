------------------------------ MODULE Evacuator ------------------------------
(***************************************************************************)
(* One evacuation pass, evacuate_with_roots of page_heap/evac.rs, with the *)
(* marker (mark.rs) and the pin set (pin.rs) it uses: mark, extend the     *)
(* mark from pinned objects, then chunk by chunk copy, rewrite, reclaim.   *)
(*                                                                         *)
(* The words a pass visits are the client's root slots, the static words   *)
(* on dirty static cards and the dirty cards of the heap, all rewritten;   *)
(* stack words and foreign handles are only pinned.  Mark bits of one pass *)
(* are never read by another, but mark_minor_with_static may have set      *)
(* those of the first pass in advance.                                     *)
(***************************************************************************)
EXTENDS PageTable

CONSTANTS
  Root,     \* slots visited precisely, mutator root snapshots included
  Static,   \* words of the static area, each on a card of its own
  Stack,    \* words of published stack windows, scanned conservatively
  Handle    \* explicit (FFI) pins

VARIABLES
  root, static, stack, handle,   \* the words they hold; handles: the
                                 \* pinned slot
  staticCards, \* static words whose card is dirty
  pinned,      \* PageHeap::pinned_cells
  from, dest,  \* from_gen and dest_gen of the pass
  snapshot,    \* generations of the pages as the card scan knows them
  scanning,    \* does this pass scan cards?
  premarked,   \* are the marks of this pass there already?
  marks,       \* marked slots
  fromPages,   \* from_pages and the loop index over it
  next,
  chunk,       \* chunk_pages
  phase        \* control point of the collector

holderVars == <<root, static, staticCards, stack, handle>>
passVars == <<from, dest, snapshot, scanning, premarked>>
loopVars == <<marks, fromPages, next, chunk>>
evacVars == <<holderVars, pinned, passVars, loopVars, phase>>

ExplicitPins == ImageOf(handle) \ {Null}

-----------------------------------------------------------------------------
(* The card scan.                                                          *)

\* Where visit_card_pointer_cells begins: at the object covering the first
\* slot of the card, else at the first start bit in the card.
WalkFrom(c) ==
  LET first == c * CardSize
      before == {a \in starts : a <= first /\ PageOf(a) = PageOf(first)}
      within == starts \cap CardSlots(c)
  IN  IF IsLargeHead(PageOf(first)) \/ IsLargeCont(PageOf(first))
        THEN Base(Greatest({p \in Page : p <= PageOf(first) /\ IsLargeHead(p)}))
      ELSE IF before # {} THEN Greatest(before)
      ELSE IF within # {} THEN Least(within) ELSE first

\* The objects it visits: up to the end of the card or the first slot that
\* is not a start.  The size of a Large object takes it past the card.
Walked(c) ==
  LET s == WalkFrom(c) IN
  IF s \in starts /\ IsLargeHead(PageOf(s)) THEN {s}
  ELSE {a \in s .. (c + 1) * CardSize - 1 : s .. a \subseteq starts}

\* Mutant of ScannedCards: only pages older than the pass are scanned.
ScannedOlderCards ==
  IF ~scanning THEN {}
  ELSE {c \in cards : snapshot[PageOf(c * CardSize)] = "Tenured"
                      \/ /\ snapshot[PageOf(c * CardSize)] = "G1"
                         /\ from = "G0"}

\* Dirty cards outside from_gen and outside Free pages.
ScannedCards ==
  IF scanning
    THEN {c \in cards : snapshot[PageOf(c * CardSize)] \notin {"Free", from}}
    ELSE {}

ScannedObjects ==
  {a \in UNION {Walked(c) : c \in ScannedCards} : IsObject(a)}

-----------------------------------------------------------------------------
(* Mark.                                                                   *)

\* Pointers into from_gen that pass the gates of mark_visit_slot.
Markable(words) ==
  {a \in words \ {Null} : a \in starts /\ GenOf(PageOf(a)) = from}

Pointers(S) == {cell[a].ptr : a \in {b \in S : IsObject(b)}}

\* The mark queue drained: everything in from_gen that seeds lead to.
Closure(seeds) ==
  LET scan(S) == Markable(Pointers(S)) IN
  Leads(Markable(seeds), scan, Cardinality(starts))

\* The words the caller's closure visits.
VisitedWords == ImageOf(root) \cup {static[s] : s \in staticCards}

InternalMark ==
  IF premarked THEN marks
               ELSE Closure(VisitedWords \cup Pointers(ScannedObjects))

\* Mutant of MarkedLarge: only Large objects that a root names are pinned.
MarkedLargeRootsOnly ==
  {a \in Markable(ImageOf(root)) : IsLargeHead(PageOf(a))}

\* mark_visit_slot pins the Large objects it reaches, all pages of them; the
\* marker of mark_minor_with_static only marks them.
MarkedLarge ==
  IF premarked THEN {} ELSE {a \in InternalMark : IsLargeHead(PageOf(a))}

\* ... and apply_pins folds in the explicit pins.
FoldedPins ==
  {a \in ExplicitPins : GenOf(PageOf(a)) # "Free"}

PinSet == pinned \cup MarkedLarge \cup FoldedPins

PinnedPages ==
  (UNION {Run(PageOf(a), desc[PageOf(a)].span) : a \in MarkedLarge})
    \cup {PageOf(a) : a \in FoldedPins}

\* Mutant of ExtendedMark: pins do not keep what they point at.
UnextendedMark == InternalMark

\* extend_mark_from_pinned and extend_mark_from_cross_gen_pinned.
ExtendedMark ==
  Closure(InternalMark \cup PinSet \cup Pointers(PinSet \cap starts))

Mark ==
  /\ phase = "mark"
  /\ marks' = ExtendedMark
  /\ pinned' = PinSet
  /\ desc' = [p \in Page |->
                IF p \in PinnedPages THEN [desc[p] EXCEPT !.pins = TRUE]
                                     ELSE desc[p]]
  /\ fromPages' = Ascending(PagesIn(from))
  /\ next' = 1
  /\ region' = [region EXCEPT ![from] = NoRegion]
  /\ premarked' = FALSE
  /\ phase' = "chunk"
  /\ UNCHANGED <<freeList, cell, starts, cards, holderVars, from, dest,
                 snapshot, scanning, chunk>>

-----------------------------------------------------------------------------
(* The chunk loop.                                                         *)

AtMost(a, b) == IF a <= b THEN a ELSE b
AtLeast(a, b) == IF a >= b THEN a ELSE b

\* Free pages the chunk may count on: pages still pinned in from_gen never
\* come back.
EffectiveFree ==
  AtLeast(0, Cardinality(PagesIn("Free"))
               - Cardinality({PageOf(a) : a \in pinned} \cap PagesIn(from)))

\* Mutant of ChunkSize: no floor, so a full heap makes no progress.
ChunkSizeUnfloored ==
  AtMost((EffectiveFree * 7) \div 8, Len(fromPages) - next + 1)

ChunkSize ==
  AtMost(AtLeast(1, (EffectiveFree * 7) \div 8), Len(fromPages) - next + 1)

PickChunk ==
  /\ phase = "chunk"
  /\ next <= Len(fromPages)
  /\ chunk' = {fromPages[i] : i \in next .. next + ChunkSize - 1}
  /\ next' = next + ChunkSize
  /\ phase' = "copy"
  /\ UNCHANGED <<heapVars, holderVars, pinned, passVars, marks, fromPages>>

-----------------------------------------------------------------------------
(* Phase 1: copy the marked, unpinned objects of the chunk in address      *)
(* order, one step each.                                                   *)

IsPinnedCell(a) == desc[PageOf(a)].pins /\ a \in pinned

\* Mutant of ToCopy: pinned objects are copied like any other.
ToCopyPinnedToo ==
  {a \in marks \cap starts :
     /\ PageOf(a) \in chunk
     /\ GenOf(PageOf(a)) = from
     /\ desc[PageOf(a)].kind # "large"
     /\ ~IsForward(a)}

ToCopy ==
  {a \in marks \cap starts :
     /\ PageOf(a) \in chunk
     /\ GenOf(PageOf(a)) = from
     /\ desc[PageOf(a)].kind # "large"
     /\ ~IsForward(a)
     /\ ~IsPinnedCell(a)}

\* Mutant of CopyObject: the copy's card is left clean.
CopyObjectUncarded ==
  /\ phase = "copy"
  /\ ToCopy # {}
  /\ CanPlace(dest)
  /\ LET src == Least(ToCopy)
         dst == NextSlot(dest)
     IN  /\ cell' = [CellsWithNext(dest, cell[src]) EXCEPT ![src] = Forward(dst)]
         /\ starts' = StartsWithNext(dest)
  /\ Claim(dest)
  /\ UNCHANGED <<cards, evacVars>>

CopyObject ==
  /\ phase = "copy"
  /\ ToCopy # {}
  /\ CanPlace(dest)
  /\ LET src == Least(ToCopy)
         dst == NextSlot(dest)
     IN  /\ cell' = [CellsWithNext(dest, cell[src]) EXCEPT ![src] = Forward(dst)]
         /\ starts' = StartsWithNext(dest)
         /\ cards' = cards \cup {CardOf(dst)}
  /\ Claim(dest)
  /\ UNCHANGED evacVars

\* No page for the copy: GcStallError.  The heap stays as it is, forwarding
\* markers and all, and is not used again.
MidEvacOom ==
  /\ phase = "copy"
  /\ ToCopy # {}
  /\ ~CanPlace(dest)
  /\ phase' = "stalled"
  /\ UNCHANGED <<heapVars, holderVars, pinned, passVars, loopVars>>

-----------------------------------------------------------------------------
(* Phase 2, once the chunk is copied: follow forwarding markers.           *)

\* maybe_rewrite: a marker counts only with its start bit set.
Followed(w) ==
  IF w # Null /\ GenOf(PageOf(w)) # "Free" /\ w \in starts /\ IsForward(w)
    THEN cell[w].to ELSE w

\* Mutant of Rewritten: pinned objects are not rewritten.
RewrittenUnpinned ==
  ScannedObjects \cup {a \in starts : GenOf(PageOf(a)) = dest}

\* Mutant of Rewritten: of the destination generation only the pages that
\* this pass opened are swept, not those of its later chunks.
RewrittenNewPages ==
  ScannedObjects
    \cup {a \in starts : /\ GenOf(PageOf(a)) = dest
                         /\ PageOf(a) \notin ImageOf(fromPages)}
    \cup {a \in pinned : GenOf(PageOf(a)) # "Free"}

\* Objects whose pointers phase 2 rewrites: on dirty cards, on pages of the
\* destination generation, and pinned.
Rewritten ==
  ScannedObjects
    \cup {a \in starts : GenOf(PageOf(a)) = dest}
    \cup {a \in pinned : GenOf(PageOf(a)) # "Free"}

Rewrite ==
  /\ phase = "copy"
  /\ ToCopy = {}
  /\ root' = [r \in Root |-> Followed(root[r])]
  /\ static' = [s \in Static |->
                  IF s \in staticCards THEN Followed(static[s]) ELSE static[s]]
  /\ cell' = [a \in Addr |->
                IF a \in Rewritten /\ IsObject(a)
                  THEN [cell[a] EXCEPT !.ptr = Followed(@)]
                  ELSE cell[a]]
  /\ phase' = "reclaim"
  /\ UNCHANGED <<tableVars, starts, cards, staticCards, stack, handle, pinned,
                 passVars, loopVars>>

-----------------------------------------------------------------------------
(* Phase 3: pages of the chunk with pins flip to dest_gen in place, the    *)
(* others are released.  A Large run is handled with its head.             *)

LargeRuns(heads) == UNION {Run(p, desc[p].span) : p \in heads}

SmallFlips == {p \in chunk : desc[p].kind = "small" /\ desc[p].pins}
LargeFlips == {p \in chunk : IsLargeHead(p) /\ desc[p].pins}

Flipped == SmallFlips \cup LargeRuns(LargeFlips)
Released ==
  {p \in chunk : desc[p].kind = "small" /\ ~desc[p].pins}
    \cup LargeRuns({p \in chunk : IsLargeHead(p) /\ ~desc[p].pins})

Reclaim ==
  /\ phase = "reclaim"
  /\ desc' = [p \in Page |->
       CASE p \in Released -> FreeDesc
         [] p \in SmallFlips -> [desc[p] EXCEPT !.gen = dest]
         [] p \in LargeRuns(LargeFlips) ->
              [desc[p] EXCEPT !.gen = dest, !.pins = FALSE]
         [] OTHER -> desc[p]]
  /\ freeList' = freeList \o Ascending(Released)
  /\ LET kept == {a \in starts : \/ PageOf(a) \notin Released \cup Flipped
                                 \/ PageOf(a) \in LargeFlips}
                   \cup {a \in pinned : PageOf(a) \in SmallFlips}
     IN  /\ starts' = kept
         /\ cell' = [a \in Addr |->
              IF PageOf(a) \in Released \cup SmallFlips /\ a \notin kept
                THEN Zero ELSE cell[a]]
  /\ cards' = cards \cup {CardOf(a) : a \in {b \in pinned :
                                               PageOf(b) \in SmallFlips}}
  /\ phase' = "chunk"
  /\ UNCHANGED <<region, holderVars, pinned, passVars, loopVars>>
=============================================================================
