------------------------------ MODULE PageTable ------------------------------
(***************************************************************************)
(* The page table and the allocator of page_heap/alloc.rs, page_desc.rs    *)
(* and space.rs: page descriptors, the LIFO free-page list, one bump       *)
(* region per generation, start bits and the soft card table.              *)
(*                                                                         *)
(* A page has PageSize slots.  A small object fills one slot; a Large one  *)
(* owns LargeSpan whole pages and is named by the first slot of the first. *)
(* The contents of an object are an identity, which nothing may change but *)
(* the client, and one pointer.  Cons and Boxed pages are walked alike and *)
(* are one kind here.                                                      *)
(***************************************************************************)
EXTENDS Order, Sequences

CONSTANTS
  NPages,        \* pages in the reservation
  PageSize,      \* slots per page
  CardSize,      \* slots per card
  LargeSpan,     \* pages of a Large object
  YoungPageCap,  \* PageHeap::young_page_cap
  Id,            \* identities of objects
  Null           \* a word that is not a heap pointer; "no page"

ASSUME PageTableAssumption ==
  /\ NPages \in Nat \ {0}
  /\ CardSize \in Nat \ {0}
  /\ PageSize \in Nat \ {0}
  /\ PageSize % CardSize = 0
  /\ LargeSpan \in Nat \ {0}
  /\ YoungPageCap \in Nat
  /\ Null \notin Int

VARIABLES
  desc,       \* PageHeap::descs
  freeList,   \* PageHeap::free_page_list, top last; may hold stale entries
  region,     \* AllocRegion per generation
  cell,       \* contents of each slot
  starts,     \* slots whose start bit is set
  cards       \* dirty cards

tableVars == <<desc, freeList, region>>
heapVars == <<tableVars, cell, starts, cards>>

Generation == {"G0", "G1", "Tenured"}
Page == 0 .. NPages - 1
Addr == 0 .. NPages * PageSize - 1
Card == 0 .. (NPages * PageSize) \div CardSize - 1
Word == Addr \cup {Null}

PageOf(a) == a \div PageSize
Base(p) == p * PageSize
Slots(p) == Base(p) .. Base(p) + PageSize - 1
Run(p, n) == p .. p + n - 1
CardOf(a) == a \div CardSize
CardSlots(c) == c * CardSize .. (c + 1) * CardSize - 1

\* What seeds lead to in at most n steps.
Leads(seeds, Step(_), n) ==
  LET reach[k \in 0 .. n] ==
        IF k = 0 THEN seeds
        ELSE LET before == reach[k - 1] IN before \cup Step(before)
  IN  reach[n]

(* Slot contents: zeroed, an object, or the forwarding marker phase 1      *)
(* leaves where an object was.                                             *)
Zero == [tag |-> "zero"]
Object(id, ptr) == [tag |-> "object", id |-> id, ptr |-> ptr]
Forward(to) == [tag |-> "forward", to |-> to]
IsObject(a) == cell[a].tag = "object"
IsForward(a) == cell[a].tag = "forward"
Contents == {Zero} \cup {Object(i, w) : i \in Id, w \in Word}
                   \cup {Forward(a) : a \in Addr}

FreeDesc == [gen |-> "Free", kind |-> "free", span |-> 0, pins |-> FALSE]
SmallDesc(g) == [gen |-> g, kind |-> "small", span |-> 1, pins |-> FALSE]
LargeDesc(g, n) == [gen |-> g, kind |-> "large", span |-> n, pins |-> FALSE]
NoRegion == [page |-> Null, offset |-> 0]

GenOf(p) == desc[p].gen
PagesIn(g) == {p \in Page : GenOf(p) = g}
IsLargeHead(p) == desc[p].kind = "large" /\ desc[p].span >= 1
IsLargeCont(p) == desc[p].kind = "large" /\ desc[p].span = 0

TableInit ==
  /\ desc = [p \in Page |-> FreeDesc]
  /\ freeList = [i \in 1 .. NPages |-> NPages - i]
  /\ region = [g \in Generation |-> NoRegion]
  /\ cell = [a \in Addr |-> Zero]
  /\ starts = {}
  /\ cards = {}

-----------------------------------------------------------------------------
(* Bump allocation.                                                        *)

HasRoom(g) == region[g].page # Null /\ region[g].offset < PageSize

\* Mutant of Acquirable: stale entries are believed.
AcquirableStale == DOMAIN freeList

\* Free-list entries that are not stale: try_alloc_large takes pages without
\* removing them from the list.
Acquirable == {i \in DOMAIN freeList : GenOf(freeList[i]) = "Free"}

\* The page acquire_free_page pops, or the one its fallback scan finds.
NextFree ==
  IF Acquirable # {} THEN freeList[Greatest(Acquirable)]
                     ELSE Least(PagesIn("Free"))

\* Mutant of AfterPop: the entry under the popped one is lost with it.
AfterPopTwo ==
  IF Acquirable # {} THEN SubSeq(freeList, 1, Greatest(Acquirable) - 2)
                     ELSE <<>>

AfterPop ==
  IF Acquirable # {} THEN SubSeq(freeList, 1, Greatest(Acquirable) - 1)
                     ELSE <<>>

CanPlace(g) == HasRoom(g) \/ PagesIn("Free") # {}

\* The slot the next object of generation g gets.
NextSlot(g) ==
  IF HasRoom(g) THEN Base(region[g].page) + region[g].offset
                ELSE Base(NextFree)

\* Mutant of Claim: a fresh page is opened with its first slot still on offer.
ClaimWithoutBump(g) ==
  IF HasRoom(g)
    THEN /\ region' = [region EXCEPT ![g].offset = @ + 1]
         /\ UNCHANGED <<desc, freeList>>
    ELSE /\ region' = [region EXCEPT ![g] = [page |-> NextFree, offset |-> 0]]
         /\ desc' = [desc EXCEPT ![NextFree] = SmallDesc(g)]
         /\ freeList' = AfterPop

\* Take NextSlot(g): bump the region, or retire its page and open another.
Claim(g) ==
  IF HasRoom(g)
    THEN /\ region' = [region EXCEPT ![g].offset = @ + 1]
         /\ UNCHANGED <<desc, freeList>>
    ELSE /\ region' = [region EXCEPT ![g] = [page |-> NextFree, offset |-> 1]]
         /\ desc' = [desc EXCEPT ![NextFree] = SmallDesc(g)]
         /\ freeList' = AfterPop

\* Mutant of StartsWithNext: the bits of an earlier tenant are kept.
StartsKept(g) == starts \cup {NextSlot(g)}

\* Start bits once NextSlot(g) is taken: those a fresh page kept from an
\* earlier tenant are cleared.
StartsWithNext(g) ==
  (IF HasRoom(g) THEN starts ELSE starts \ Slots(NextFree)) \cup {NextSlot(g)}

\* ... and the slots, with contents c in the one taken: a fresh page is zero.
CellsWithNext(g, c) ==
  [a \in Addr |->
     IF a = NextSlot(g) THEN c
     ELSE IF ~HasRoom(g) /\ a \in Slots(NextFree) THEN Zero ELSE cell[a]]

-----------------------------------------------------------------------------
(* Large objects.                                                          *)

\* First fit over contiguous Free pages.
LargeFits ==
  {p \in Page : Run(p, LargeSpan) \subseteq PagesIn("Free")}

ClaimLarge(g) ==
  LET head == Least(LargeFits) IN
  desc' = [p \in Page |->
             IF p \in Run(head, LargeSpan)
               THEN LargeDesc(g, IF p = head THEN LargeSpan ELSE 0)
               ELSE desc[p]]

UnderCap(n) == Cardinality(PagesIn("G0")) + n <= YoungPageCap
=============================================================================
