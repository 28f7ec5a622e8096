----------------------------- MODULE TlabsProofs -----------------------------
(***************************************************************************)
(* The properties of Tlabs for every number of mutators, pages and cells,  *)
(* any sizes, cap and steps that do not tear a Large run (UncutSpec says   *)
(* which these are).  All follow from one invariant: each small page       *)
(* is, up to its words_used, a sequence of objects and of the cells        *)
(* buffers still hold, and zero from there on; the open region of a page   *)
(* begins at its words_used; Large pages come in whole runs.               *)
(***************************************************************************)
EXTENDS Tlabs, OrderProofs

-----------------------------------------------------------------------------
(* One small page: used is its words_used, s its start bits, c its cells,  *)
(* and R the cells buffers still hold.                                     *)

Cells(s, c, i) == IF s[i] = 3 THEN 2 ELSE c[i]

StartBits == [Offset -> {0, 1, 3}]
Contents == [Offset -> 0 .. PageCells]

\* Objects lie below used, apart from each other and from what buffers hold;
\* the rest is zero.
Sound(used, s, c, R) ==
  /\ R \subseteq 0 .. used - 1
  /\ \A i \in Offset : s[i] # 0 => Cells(s, c, i) >= 1 /\ i + Cells(s, c, i) <= used
  /\ \A i, j \in Offset : s[i] # 0 /\ s[j] # 0 /\ i < j => i + Cells(s, c, i) <= j
  /\ \A i \in Offset, k \in R : s[i] # 0 => k < i \/ i + Cells(s, c, i) <= k
  /\ \A i \in Offset : i \in R \/ i >= used => s[i] = 0 /\ c[i] = 0

\* A page just opened holds nothing and is sound.
LEMMA BlankIsSound ==
  /\ Sound(0, Blank, Blank, {})
  /\ Blank \in StartBits /\ Blank \in Contents
BY TlabsAssumption DEF Sound, Blank, StartBits, Contents, Offset

\* A slab of n cells is cut off the unused end of a page.
LEMMA GrowthIsSound ==
  ASSUME NEW used \in 0 .. PageCells, NEW n \in Nat, used + n <= PageCells,
         NEW s \in StartBits, NEW c \in Contents, NEW R, Sound(used, s, c, R),
         NEW T, T \subseteq R \cup used .. used + n - 1
  PROVE  Sound(used + n, s, c, T)
<1>1. \A i \in Offset : i \in Int /\ c[i] \in Int /\ Cells(s, c, i) \in Int
  BY TlabsAssumption DEF Offset, Contents, Cells
<1>2. PageCells \in Int /\ R \subseteq Int /\ T \subseteq Int
  BY TlabsAssumption DEF Sound
<1>3. T \subseteq 0 .. used + n - 1
  BY <1>2 DEF Sound
<1> HIDE DEF Cells
<1>4. QED
  BY <1>1, <1>2, <1>3 DEF Sound

\* An object of n cells is written where a buffer holds as many.
LEMMA WriteIsSound ==
  ASSUME NEW used \in 0 .. PageCells,
         NEW s \in StartBits, NEW c \in Contents, NEW R, Sound(used, s, c, R),
         NEW at \in Offset, NEW n \in 1 .. PageCells, at .. at + n - 1 \subseteq R,
         NEW pair \in {1, 3}, pair = 3 => n = 2,
         NEW s2, s2[at] = pair, \A i \in Offset \ {at} : s2[i] = s[i],
         NEW c2, pair = 1 => c2[at] = n,
         \A i \in Offset : i \notin at .. at + n - 1 => c2[i] = c[i],
         NEW T, T \subseteq R \ at .. at + n - 1
  PROVE  Sound(used, s2, c2, T)
<1>1. /\ PageCells \in Nat /\ PageCells >= 2 /\ at \in Int /\ n \in Int
      /\ \A i \in Offset : i \in Int /\ c[i] \in Int /\ Cells(s, c, i) \in Int
      /\ R \subseteq Int /\ T \subseteq Int
  <2>1. PageCells \in Nat /\ 2 \in 1 .. PageCells
    BY TlabsAssumption
  <2>2. R \subseteq Int
    BY DEF Sound
  <2>3. \A i \in Offset : i \in Int /\ c[i] \in Int
    BY <2>1 DEF Offset, Contents
  <2>4. QED
    BY <2>1, <2>2, <2>3 DEF Cells
<1>2. at \in R /\ at + n - 1 \in R /\ at + n <= used
  BY <1>1 DEF Sound
<1>6. \A i \in Offset : s[i] # 0 =>
        /\ i \notin at .. at + n - 1
        /\ i >= at + n \/ i + Cells(s, c, i) <= at
  <2> SUFFICES ASSUME NEW i \in Offset, s[i] # 0
               PROVE  /\ i \notin at .. at + n - 1
                      /\ i >= at + n \/ i + Cells(s, c, i) <= at
    OBVIOUS
  <2>1. i \notin at .. at + n - 1
    BY DEF Sound
  <2>2. at < i \/ i + Cells(s, c, i) <= at
    BY <1>2 DEF Sound
  <2>3. QED
    BY <1>1, <2>1, <2>2
<1>7. \A i \in Offset \ {at} : s2[i] # 0 =>
        s[i] # 0 /\ Cells(s2, c2, i) = Cells(s, c, i)
  BY <1>6 DEF Cells
<1>8. Cells(s2, c2, at) = n
  BY <1>1 DEF Cells
<1>9. T \subseteq 0 .. used - 1
  BY DEF Sound
<1>10. ASSUME NEW i \in Offset, s2[i] # 0
       PROVE  Cells(s2, c2, i) >= 1 /\ i + Cells(s2, c2, i) <= used
  <2>1. CASE i = at
    BY <1>2, <1>8, <2>1
  <2>2. CASE i # at
    BY <1>7, <1>10, <2>2 DEF Sound
  <2>3. QED
    BY <2>1, <2>2
<1>11. ASSUME NEW i \in Offset, NEW j \in Offset, s2[i] # 0, s2[j] # 0, i < j
       PROVE  i + Cells(s2, c2, i) <= j
  <2>1. CASE i = at
    BY <1>1, <1>6, <1>7, <1>8, <1>11, <2>1
  <2>2. CASE j = at
    <3>1. i # at /\ i < at /\ i \in Int
      BY <1>1, <1>11, <2>2
    <3>2. s[i] # 0 /\ Cells(s2, c2, i) = Cells(s, c, i)
      BY <1>7, <1>11, <3>1
    <3>3. i + Cells(s, c, i) <= at
      BY <1>1, <1>6, <3>1, <3>2
    <3>4. QED
      BY <2>2, <3>2, <3>3
  <2>3. CASE i # at /\ j # at
    BY <1>7, <1>11, <2>3 DEF Sound
  <2>4. QED
    BY <2>1, <2>2, <2>3
<1>12. ASSUME NEW i \in Offset, NEW k \in T, s2[i] # 0
       PROVE  k < i \/ i + Cells(s2, c2, i) <= k
  <2>1. CASE i = at
    BY <1>1, <1>8, <2>1
  <2>2. CASE i # at
    BY <1>7, <1>12, <2>2 DEF Sound
  <2>3. QED
    BY <2>1, <2>2
<1>13. ASSUME NEW i \in Offset, i \in T \/ i >= used
       PROVE  s2[i] = 0 /\ c2[i] = 0
  <2>1. i \notin at .. at + n - 1
    BY <1>1, <1>2, <1>13
  <2>2. i # at
    BY <1>1, <2>1
  <2>3. s[i] = 0 /\ c[i] = 0
    BY <1>13 DEF Sound
  <2>4. QED
    BY <2>1, <2>2, <2>3
<1>14. QED
  BY <1>9, <1>10, <1>11, <1>12, <1>13 DEF Sound

\* Buffers are dropped.
LEMMA DropIsSound ==
  ASSUME NEW used, NEW s, NEW c, NEW R, Sound(used, s, c, R), NEW T, T \subseteq R
  PROVE  Sound(used, s, c, T)
BY DEF Sound

-----------------------------------------------------------------------------
(* The invariant.                                                          *)

Desc == [gen : Generation \cup {"Free"}, kind : Kind \cup {"large", "free"},
         used : 0 .. PageCells, span : 0 .. NPages, zeroed : BOOLEAN]
Tlab == [page : Page \cup {None}, cursor : 0 .. PageCells,
         end : 0 .. PageCells, next : 1 .. MaxTlab]

\* The cells of buffer b that are not used yet, and those of page p that some
\* buffer holds.
Held(b) == tlab[b].cursor .. tlab[b].end - 1
Reserved(p) == {i \in Offset : \E b \in Buffer : tlab[b].page = p /\ i \in Held(b)}

PageSound(p) ==
  /\ GenOf(p) = "Free" <=> desc[p].kind = "free"
  /\ GenOf(p) = "Free" => desc[p].span = 0
  /\ GenOf(p) # "Free" => p \in committed
  /\ desc[p].zeroed => GenOf(p) = "Free" /\ body[p] = Blank
  /\ desc[p].kind \in Kind =>
       desc[p].span = 1 /\ Sound(desc[p].used, starts[p], body[p], Reserved(p))
  /\ desc[p].kind \notin Kind => Reserved(p) = {}
  /\ desc[p].kind = "large" =>
       /\ desc[p].used = PageCells /\ desc[p].span \in LargeSpans \cup {0}
       /\ \A i \in Offset : starts[p][i] # 0 <=> i = 0 /\ desc[p].span > 0

\* A region's page is its own, and full up to where the region is.
RegionSound(r) ==
  LET p == region[r].page IN
  p # None => /\ GenOf(p) = r[1] /\ desc[p].kind = r[2]
              /\ desc[p].used = region[r].offset

BuffersSound ==
  /\ \A b \in Buffer : \A i \in Held(b) : tlab[b].page \in Page
  /\ \A b, c \in Buffer : b # c /\ tlab[b].page = tlab[c].page =>
       Held(b) \cap Held(c) = {}

Span(h) == h .. h + desc[h].span - 1
RunSound(p) ==
  desc[p].kind = "large" =>
    /\ \E h \in Page : desc[h].kind = "large" /\ p \in Span(h)
    /\ desc[p].span > 0 =>
         \A q \in Span(p) \ {p} : q \in Page /\ desc[q] = [desc[p] EXCEPT !.span = 0]

\* While a pass runs nobody holds a buffer; its pages are no region's, in use
\* as long as there is more to copy, and of its generation where they begin a
\* run, which no chunk cuts before the last copy; what is pinned stays.
PassSound ==
  pass # None =>
    /\ pass \in Pass
    /\ \A b \in Buffer : tlab[b] = EmptyTlab
    /\ pass.rest \cap pass.chunk = {}
    /\ \A r \in Region : region[r].page \notin pass.rest \cup pass.chunk
    /\ CopiesLater \/ Sources # {} => \A p \in pass.rest : GenOf(p) # "Free"
    /\ Sources # {} => \A p \in pass.chunk : GenOf(p) # "Free"
    /\ \A p \in pass.rest \cup pass.chunk : desc[p].span > 0 => GenOf(p) = pass.from
    /\ pass.keep \subseteq Objects
    /\ RunsUncut

TableSound ==
  /\ \A p \in Page : PageSound(p)
  /\ \A p \in Page : RunSound(p)
  /\ \A r \in Region : RegionSound(r)

IInv == TypeOK /\ TableSound /\ BuffersSound /\ PassSound

-----------------------------------------------------------------------------
(* Pages.                                                                  *)

\* The components of a pair.
LEMMA PairIs ==
  ASSUME NEW A, NEW B, NEW x \in A \X B
  PROVE  x = <<x[1], x[2]>> /\ x[1] \in A /\ x[2] \in B
OBVIOUS

\* Sets of pages are finite sets of integers.
LEMMA PagesAreFinite ==
  ASSUME NEW S \in SUBSET Page
  PROVE  S \in SUBSET Int /\ IsFiniteSet(S) /\ Cardinality(S) \in Nat
<1>1. NPages - 1 \in Int /\ Page \subseteq Int
  BY TlabsAssumption DEF Page
<1>2. IsFiniteSet(Page)
  BY <1>1, FS_Interval DEF Page
<1>3. IsFiniteSet(S)
  BY <1>2, FS_Subset
<1>4. QED
  BY <1>1, <1>3, FS_CardinalityType

\* acquire_free_page takes a Free page and leaves a list of pages.
LEMMA AcquiresFree ==
  ASSUME TypeOK, PagesIn("Free") # {}
  PROVE  /\ NextFree \in Page /\ GenOf(NextFree) = "Free"
         /\ AfterPop \in Seq(Page)
<1>1. freeList \in Seq(Page) /\ Len(freeList) \in Nat
  BY DEF TypeOK
<1>2. /\ Acquirable \subseteq DOMAIN freeList
      /\ DOMAIN freeList = 1 .. Len(freeList)
      /\ Acquirable \in SUBSET Int
  BY <1>1 DEF Acquirable
<1>3. IsFiniteSet(Acquirable)
  <2>1. IsFiniteSet(1 .. Len(freeList))
    BY <1>1, FS_Interval
  <2>2. QED
    BY <1>2, <2>1, FS_Subset
<1>4. CASE Acquirable # {}
  <2> DEFINE k == Greatest(Acquirable)
  <2>1. k \in Acquirable
    BY <1>2, <1>3, <1>4, GreatestIs
  <2>2. k \in 1 .. Len(freeList) /\ GenOf(freeList[k]) = "Free"
    BY <1>2, <2>1 DEF Acquirable
  <2>3. NextFree = freeList[k] /\ AfterPop = SubSeq(freeList, 1, k - 1)
    BY <1>4 DEF NextFree, AfterPop
  <2> HIDE DEF k
  <2>4. SubSeq(freeList, 1, k - 1) \in Seq(Page)
    BY <1>1, <2>2
  <2>5. QED
    BY <1>1, <2>2, <2>3, <2>4
<1>5. CASE Acquirable = {}
  <2>1. PagesIn("Free") \in SUBSET Page
    BY DEF PagesIn
  <2>2. PagesIn("Free") \in SUBSET Int /\ IsFiniteSet(PagesIn("Free"))
    BY <2>1, PagesAreFinite
  <2>3. Least(PagesIn("Free")) \in PagesIn("Free")
    BY <2>2, LeastIs
  <2>4. QED
    BY <1>5, <2>3 DEF NextFree, AfterPop, PagesIn
<1>6. QED
  BY <1>4, <1>5

\* Whatever a page is opened from, it is opened zero.
LEMMA OpenedIsBlank ==
  ASSUME TableSound, NEW p \in Page
  PROVE  Opened(p) = Blank
BY DEF TableSound, PageSound, Opened

\* A page nobody touches stays sound, also when buffers on it are dropped.
LEMMA PageStays ==
  ASSUME NEW p, PageSound(p), desc'[p] = desc[p], starts'[p] = starts[p],
         body'[p] = body[p], p \in committed => p \in committed',
         Reserved(p)' \subseteq Reserved(p)
  PROVE  PageSound(p)'
<1>1. Sound(desc[p].used, starts[p], body[p], Reserved(p)) =>
        Sound(desc[p].used, starts[p], body[p], Reserved(p)')
  BY DropIsSound
<1>2. QED
  BY <1>1 DEF PageSound, GenOf

-----------------------------------------------------------------------------
(* Carving a slab: the page it is from, before anything is written there.  *)

\* The page is sound up to where the slab begins, and no other region's.
LEMMA CarvePlace ==
  ASSUME IInv, NEW r \in Region, NEW n \in 1 .. PageCells,
         Fits(r, n) \/ PagesIn("Free") # {},
         NEW p, p = PageFor(r, n), NEW at, at = OffsetFor(r, n)
  PROVE  /\ p \in Page /\ at \in 0 .. PageCells
         /\ \A t \in Region \ {r} : region[t].page # p
         /\ StartsFor(r, n) = [starts EXCEPT ![p] = StartsFor(r, n)[p]]
         /\ BodyFor(r, n) = [body EXCEPT ![p] = BodyFor(r, n)[p]]
         /\ StartsFor(r, n)[p] \in StartBits /\ BodyFor(r, n)[p] \in Contents
         /\ Sound(at, StartsFor(r, n)[p], BodyFor(r, n)[p], Reserved(p))
         /\ \/ GenOf(p) = "Free" /\ ~Fits(r, n)
            \/ /\ StartsFor(r, n) = starts /\ BodyFor(r, n) = body
               /\ Fits(r, n) /\ GenOf(p) = r[1] /\ desc[p].used = at
         /\ pass # None /\ Sources # {} => p \notin pass.rest \cup pass.chunk
         /\ desc[p].kind # "large"
<1>1. /\ region \in [Region -> RegionDesc]
      /\ starts \in [Page -> StartBits] /\ body \in [Page -> Contents]
  BY DEF IInv, TypeOK, StartBits, Contents
<1>2. CASE Fits(r, n)
  <2>1. p = region[r].page /\ at = region[r].offset /\ p \in Page /\ at \in 0 .. PageCells
    BY <1>1, <1>2 DEF PageFor, OffsetFor, Fits, RegionDesc
  <2>2. GenOf(p) = r[1] /\ desc[p].kind = r[2] /\ desc[p].used = at
    BY <1>2, <2>1 DEF IInv, TableSound, RegionSound, Fits
  <2>3. desc[p].kind \in Kind /\ desc[p].kind # "large"
    BY <2>2 DEF Region, Kind
  <2>4. Sound(at, starts[p], body[p], Reserved(p))
    BY <2>1, <2>2, <2>3 DEF IInv, TableSound, PageSound
  <2>5. \A t \in Region \ {r} : region[t].page # p
    <3> SUFFICES ASSUME NEW t \in Region, region[t].page = p PROVE t = r
      OBVIOUS
    <3>1. GenOf(p) = t[1] /\ desc[p].kind = t[2]
      BY <1>2, <2>1 DEF IInv, TableSound, RegionSound, Fits
    <3>2. r = <<r[1], r[2]>> /\ t = <<t[1], t[2]>>
      BY PairIs DEF Region
    <3>3. QED
      BY <2>2, <3>1, <3>2
  <2>6. pass # None => p \notin pass.rest \cup pass.chunk
    BY <2>1 DEF IInv, PassSound
  <2>7. StartsFor(r, n) = starts /\ BodyFor(r, n) = body
    BY <1>2 DEF StartsFor, BodyFor
  <2>8. /\ starts = [starts EXCEPT ![p] = starts[p]] /\ body = [body EXCEPT ![p] = body[p]]
        /\ starts[p] \in StartBits /\ body[p] \in Contents
    BY <1>1, <2>1
  <2>9. QED
    BY <1>2, <2>1, <2>2, <2>3, <2>4, <2>5, <2>6, <2>7, <2>8
<1>3. CASE ~Fits(r, n)
  <2>1. p = NextFree /\ at = 0
    BY <1>3 DEF PageFor, OffsetFor
  <2>2. p \in Page /\ GenOf(p) = "Free"
    BY <1>3, <2>1, AcquiresFree DEF IInv
  <2>3. desc[p].kind = "free" /\ Reserved(p) = {} /\ Opened(p) = Blank
    BY <2>2, OpenedIsBlank DEF IInv, TableSound, PageSound, Kind
  <2>4. /\ StartsFor(r, n) = [starts EXCEPT ![p] = Blank]
        /\ BodyFor(r, n) = [body EXCEPT ![p] = Blank]
    BY <1>3, <2>1, <2>3 DEF StartsFor, BodyFor
  <2>5. StartsFor(r, n)[p] = Blank /\ BodyFor(r, n)[p] = Blank
    BY <1>1, <2>2, <2>4
  <2>6. \A t \in Region : region[t].page # p
    <3> SUFFICES ASSUME NEW t \in Region, region[t].page = p PROVE FALSE
      OBVIOUS
    <3>1. p # None
      BY <2>2, TlabsAssumption DEF Page
    <3>2. GenOf(p) = t[1]
      BY <3>1 DEF IInv, TableSound, RegionSound
    <3>3. QED
      BY <2>2, <3>2 DEF Region, Generation
  <2>7. pass # None /\ Sources # {} => p \notin pass.rest \cup pass.chunk
    BY <2>2 DEF IInv, PassSound
  <2>8. at \in 0 .. PageCells
    BY <2>1, TlabsAssumption
  <2>9. QED
    BY <1>3, <2>1, <2>2, <2>3, <2>4, <2>5, <2>6, <2>7, <2>8, BlankIsSound
<1>4. QED
  BY <1>2, <1>3

\* The table is sound after, but for what is on the page.
LEMMA CarveKeeps ==
  ASSUME IInv, NEW r \in Region, NEW n \in 1 .. PageCells, NEW slab \in n .. PageCells,
         OffsetFor(r, n) + slab <= PageCells, Carve(r, n, slab),
         NEW p, p = PageFor(r, n), NEW at, at = OffsetFor(r, n)
  PROVE  /\ desc' = [desc EXCEPT ![p] = SmallDesc(r, at + slab)]
         /\ desc' \in [Page -> Desc] /\ freeList' \in Seq(Page)
         /\ region' \in [Region -> RegionDesc]
         /\ committed' = committed \cup {p} /\ committed' \subseteq Page
         /\ \A t \in Region : RegionSound(t)'
         /\ \A t \in Region : region'[t].page \in {p, region[t].page}
         /\ \A q \in Page : RunSound(q)'
<1>1. /\ desc \in [Page -> Desc] /\ freeList \in Seq(Page)
      /\ region \in [Region -> RegionDesc] /\ committed \subseteq Page
  BY DEF IInv, TypeOK, Desc
<1>2. /\ Fits(r, n) \/ PagesIn("Free") # {}
      /\ region' = [region EXCEPT ![r] = [page |-> p, offset |-> at + slab]]
      /\ desc' = [desc EXCEPT ![p] = SmallDesc(r, at + slab)]
      /\ freeList' = IF Fits(r, n) THEN freeList ELSE AfterPop
      /\ committed' = committed \cup {p}
  BY DEF Carve
<1>3. /\ p \in Page /\ at \in 0 .. PageCells
      /\ \A t \in Region \ {r} : region[t].page # p
      /\ desc[p].kind # "large"
  BY <1>2, CarvePlace
<1>4. /\ PageCells \in Nat /\ n \in Nat /\ slab \in Nat /\ NPages \in Nat \ {0}
      /\ at + slab \in 0 .. PageCells
  BY <1>3, TlabsAssumption
<1>5. SmallDesc(r, at + slab) \in Desc
  BY <1>4 DEF SmallDesc, Desc, Region
<1>6. desc' \in [Page -> Desc]
  BY <1>1, <1>2, <1>5
<1>7. freeList' \in Seq(Page)
  BY <1>1, <1>2, AcquiresFree DEF IInv
<1>8. region' \in [Region -> RegionDesc]
  BY <1>1, <1>2, <1>3, <1>4 DEF RegionDesc
<1>9. ASSUME NEW t \in Region PROVE RegionSound(t)'
  <2>1. CASE t = r
    BY <1>1, <1>2, <1>3, <2>1 DEF RegionSound, SmallDesc, GenOf
  <2>2. CASE t # r
    BY <1>1, <1>2, <1>3, <2>2 DEF IInv, TableSound, RegionSound, GenOf
  <2>3. QED
    BY <2>1, <2>2
<1>10. ASSUME NEW q \in Page PROVE RunSound(q)'
  <2>1. \A h \in Page : desc[h].kind = "large" => desc'[h] = desc[h]
    BY <1>1, <1>2, <1>3
  <2>2. \A h \in Page : desc'[h].kind = "large" => desc[h].kind = "large"
    BY <1>1, <1>2, <1>3 DEF SmallDesc, Region, Kind
  <2>3. RunSound(q)
    BY DEF IInv, TableSound
  <2> SUFFICES ASSUME desc'[q].kind = "large" PROVE RunSound(q)'
    BY DEF RunSound
  <2>4. desc'[q] = desc[q] /\ desc[q].kind = "large"
    BY <2>1, <2>2
  <2>5. \E h \in Page : desc'[h].kind = "large" /\ q \in Span(h)'
    BY <2>1, <2>3, <2>4 DEF RunSound, Span
  <2>6. ASSUME desc[q].span > 0, NEW h \in Span(q) \ {q}
        PROVE  h \in Page /\ desc'[h] = [desc'[q] EXCEPT !.span = 0]
    <3>1. h \in Page /\ desc[h] = [desc[q] EXCEPT !.span = 0]
      BY <2>3, <2>4, <2>6 DEF RunSound
    <3>2. desc[h].kind = "large"
      BY <1>1, <2>4, <3>1 DEF Desc
    <3>3. QED
      BY <2>1, <2>4, <3>1, <3>2
  <2>7. QED
    BY <2>4, <2>5, <2>6 DEF RunSound, Span
<1>11. QED
  BY <1>1, <1>2, <1>3, <1>6, <1>7, <1>8, <1>9, <1>10

-----------------------------------------------------------------------------
(* Steps.                                                                  *)

\* Nothing changes in cells of a page in use that neither a buffer nor a region
\* may still hand out.
Untouched ==
  \A p \in Page, i \in Offset :
    GenOf(p) # "Free" /\ i \notin Reserved(p) /\ i < desc[p].used =>
      starts'[p][i] = starts[p][i] /\ body'[p][i] = body[p][i]

\* A slab is carved from page p for buffer b, which is left with its cells from
\* lo on.
LEMMA BufferFilled ==
  ASSUME IInv, pass = None, UNCHANGED <<pass, poisoned>>,
         NEW r \in Region, NEW n \in 1 .. PageCells, NEW slab \in n .. PageCells,
         OffsetFor(r, n) + slab <= PageCells, Carve(r, n, slab),
         NEW p, p = PageFor(r, n), NEW at, at = OffsetFor(r, n),
         NEW b \in Buffer, NEW lo \in at .. at + slab,
         tlab' \in [Buffer -> Tlab],
         tlab'[b].page = p, tlab'[b].cursor = lo, tlab'[b].end = at + slab,
         \A d \in Buffer \ {b} : tlab'[d] = tlab[d],
         starts' \in [Page -> StartBits], body' \in [Page -> Contents],
         \A q \in Page \ {p} : starts'[q] = starts[q] /\ body'[q] = body[q],
         \A T : T \subseteq Reserved(p) \cup lo .. at + slab - 1 =>
           Sound(at + slab, starts'[p], body'[p], T),
         GenOf(p) # "Free" =>
           \A i \in Offset : i < at =>
             starts'[p][i] = starts[p][i] /\ body'[p][i] = body[p][i]
  PROVE  IInv' /\ Untouched
<1>1. /\ desc \in [Page -> Desc] /\ tlab \in [Buffer -> Tlab] /\ poisoned \in BOOLEAN
      /\ starts \in [Page -> StartBits] /\ body \in [Page -> Contents]
  BY DEF IInv, TypeOK, Desc, Tlab, StartBits, Contents
<1>2. /\ p \in Page /\ at \in 0 .. PageCells
      /\ Sound(at, StartsFor(r, n)[p], BodyFor(r, n)[p], Reserved(p))
      /\ GenOf(p) # "Free" => desc[p].used = at
  BY CarvePlace DEF Carve
<1>3. /\ desc' = [desc EXCEPT ![p] = SmallDesc(r, at + slab)]
      /\ desc' \in [Page -> Desc] /\ freeList' \in Seq(Page)
      /\ region' \in [Region -> RegionDesc]
      /\ committed' = committed \cup {p} /\ committed' \subseteq Page
      /\ \A t \in Region : RegionSound(t)'
      /\ \A q \in Page : RunSound(q)'
  BY CarveKeeps
<1>4. /\ PageCells \in Nat /\ n \in Nat /\ slab \in Nat /\ at + slab \in 0 .. PageCells
      /\ lo \in 0 .. PageCells
  BY <1>2, TlabsAssumption
<1>6. /\ Held(b)' = lo .. at + slab - 1
      /\ \A d \in Buffer \ {b} : Held(d)' = Held(d)
  <2>1. Held(b)' = lo .. at + slab - 1
    <3>1. lo \in Int /\ at \in Int /\ slab \in Int
      BY <1>2, <1>4
    <3>2. QED
      BY <3>1 DEF Held
  <2>2. ASSUME NEW d \in Buffer \ {b} PROVE Held(d)' = Held(d)
    <3>1. tlab'[d] = tlab[d]
      OBVIOUS
    <3>2. QED
      BY <3>1 DEF Held
  <2>3. QED
    BY <2>1, <2>2
<1>8. TypeOK'
  BY <1>1, <1>3 DEF TypeOK, Desc, Tlab, StartBits, Contents
<1>9. ASSUME NEW q \in Page PROVE PageSound(q)'
  <2>1. CASE q = p
    <3>1. Reserved(p)' \subseteq Reserved(p) \cup lo .. at + slab - 1
      <4>1. ASSUME NEW i \in Offset, NEW d \in Buffer, tlab'[d].page = p, i \in Held(d)'
            PROVE  i \in Reserved(p) \cup lo .. at + slab - 1
        <5>1. CASE d = b
          BY <1>6, <4>1, <5>1
        <5>2. CASE d # b
          <6>1. tlab[d].page = p /\ i \in Held(d)
            BY <1>6, <4>1, <5>2
          <6>2. QED
            BY <4>1, <6>1 DEF Reserved
        <5>3. QED
          BY <5>1, <5>2
      <4>2. QED
        BY <4>1 DEF Reserved
    <3>2. Sound(at + slab, starts'[p], body'[p], Reserved(p)')
      BY <3>1
    <3>3. desc'[p] = SmallDesc(r, at + slab)
      BY <1>1, <1>2, <1>3
    <3>4. r[1] \in Generation /\ r[2] \in Kind
      BY PairIs DEF Region
    <3>5. QED
      BY <1>3, <2>1, <3>2, <3>3, <3>4
         DEF PageSound, GenOf, SmallDesc, Generation, Kind
  <2>2. CASE q # p
    <3>1. Reserved(q)' \subseteq Reserved(q)
      BY <1>6, <2>2 DEF Reserved
    <3>2. desc'[q] = desc[q] /\ (q \in committed => q \in committed')
      BY <1>1, <1>3, <2>2
    <3>3. PageSound(q)
      BY DEF IInv, TableSound
    <3>4. starts'[q] = starts[q] /\ body'[q] = body[q]
      BY <2>2
    <3>5. QED
      BY <3>1, <3>2, <3>3, <3>4, PageStays
  <2>3. QED
    BY <2>1, <2>2
<1>10. BuffersSound'
  <2>1. ASSUME NEW d \in Buffer, NEW i \in Held(d)' PROVE tlab'[d].page \in Page
    <3>1. CASE d = b
      BY <1>2, <3>1
    <3>2. CASE d # b
      <4>1. i \in Held(d) /\ tlab'[d] = tlab[d]
        BY <1>6, <2>1, <3>2
      <4>2. QED
        BY <4>1 DEF IInv, BuffersSound
    <3>3. QED
      BY <3>1, <3>2
  <2>2. ASSUME NEW d \in Buffer \ {b}, tlab[d].page = p, NEW i \in Held(d)
        PROVE  i < at
    <3>1. i \in Offset
      BY <1>1, <1>4, <2>2 DEF Held, Tlab, Offset
    <3>2. i \in Reserved(p)
      BY <2>2, <3>1 DEF Reserved
    <3>3. QED
      BY <1>2, <3>2 DEF Sound
  <2>3. ASSUME NEW d \in Buffer \ {b}, tlab'[d].page = p
        PROVE  Held(d)' \cap Held(b)' = {}
    <3>1. \A i \in Held(d) : i < at
      BY <1>6, <2>2, <2>3
    <3>2. \A i \in Held(b)' : i \in Int /\ i >= at
      BY <1>2, <1>4, <1>6
    <3>3. QED
      BY <1>2, <1>6, <3>1, <3>2
  <2>4. ASSUME NEW d \in Buffer, NEW e \in Buffer, d # e, tlab'[d].page = tlab'[e].page
        PROVE  Held(d)' \cap Held(e)' = {}
    BY <1>6, <2>3, <2>4 DEF IInv, BuffersSound
  <2>5. QED
    BY <2>1, <2>4 DEF BuffersSound
<1>11. PassSound'
  BY DEF PassSound
<1>12. Untouched
  BY <1>2 DEF Untouched
<1>13. QED
  BY <1>3, <1>8, <1>9, <1>10, <1>11, <1>12 DEF IInv, TableSound

\* A slab is carved from region r and an object of n cells written at its start.
Written(r, n, slab, pair) ==
  /\ OffsetFor(r, n) + slab <= PageCells
  /\ Carve(r, n, slab)
  /\ starts' = WithStart(StartsFor(r, n), PageFor(r, n), OffsetFor(r, n), pair)
  /\ body' = WithObject(BodyFor(r, n), PageFor(r, n), OffsetFor(r, n), n, pair)

\* What is on the page of such a slab after.
LEMMA CarveWrites ==
  ASSUME IInv, NEW r \in Region, NEW n \in 1 .. PageCells, NEW slab \in n .. PageCells,
         NEW p, p = PageFor(r, n), NEW at, at = OffsetFor(r, n),
         NEW pair \in {1, 3}, pair = 3 => n = 2, Written(r, n, slab, pair)
  PROVE  /\ starts' \in [Page -> StartBits] /\ body' \in [Page -> Contents]
         /\ \A q \in Page \ {p} : starts'[q] = starts[q] /\ body'[q] = body[q]
         /\ \A T : T \subseteq Reserved(p) \cup at + n .. at + slab - 1 =>
              Sound(at + slab, starts'[p], body'[p], T)
         /\ GenOf(p) # "Free" => \A i \in Offset : i < at =>
              starts'[p][i] = starts[p][i] /\ body'[p][i] = body[p][i]
<1> DEFINE s0 == StartsFor(r, n)[p]
           c0 == BodyFor(r, n)[p]
<1>3. n \in 1 .. PageCells /\ pair \in {1, 3} /\ (pair = 3 => n = 2)
  OBVIOUS
<1>5. /\ p \in Page /\ at \in 0 .. PageCells
      /\ StartsFor(r, n) = [starts EXCEPT ![p] = s0]
      /\ BodyFor(r, n) = [body EXCEPT ![p] = c0]
      /\ s0 \in StartBits /\ c0 \in Contents
      /\ Sound(at, s0, c0, Reserved(p))
      /\ \/ GenOf(p) = "Free"
         \/ StartsFor(r, n) = starts /\ BodyFor(r, n) = body
  <2>1. Fits(r, n) \/ PagesIn("Free") # {}
    BY DEF Written, Carve
  <2>2. QED
    BY <2>1, CarvePlace
<1>7. slab \in n .. PageCells /\ at + slab \in 0 .. PageCells
  BY <1>5, TlabsAssumption DEF Written
<1> HIDE DEF s0, c0
<1>8. /\ n \in Nat /\ slab \in Nat /\ PageCells \in Nat /\ at \in Nat
      /\ at \in Offset /\ at + n \in at .. at + slab
  BY <1>3, <1>5, <1>7, TlabsAssumption DEF Offset
<1>9. Sound(at + slab, s0, c0, Reserved(p) \cup at .. at + slab - 1)
  BY <1>5, <1>7, <1>8, GrowthIsSound
<1>10. s0[at] = 0
  BY <1>7, <1>8, <1>9 DEF Sound
<1>11. /\ starts' \in [Page -> StartBits]
       /\ starts'[p][at] = pair /\ \A i \in Offset \ {at} : starts'[p][i] = s0[i]
       /\ \A q \in Page \ {p} : starts'[q] = starts[q]
  <2>1. starts \in [Page -> StartBits]
    BY DEF IInv, TypeOK, StartBits
  <2>2. starts' = [StartsFor(r, n) EXCEPT ![p][at] = MaxOf(@, pair)]
    BY DEF Written, WithStart
  <2>5. StartsFor(r, n) \in [Page -> StartBits] /\ StartsFor(r, n)[p] = s0
    BY <1>5, <2>1
  <2>6. MaxOf(s0[at], pair) = pair
    BY <1>3, <1>10 DEF MaxOf
  <2>7. starts' = [StartsFor(r, n) EXCEPT ![p] = [s0 EXCEPT ![at] = pair]]
    BY <1>5, <1>8, <2>2, <2>5, <2>6 DEF StartBits
  <2>3. starts' = [starts EXCEPT ![p] = [s0 EXCEPT ![at] = pair]]
    BY <1>5, <2>1, <2>5, <2>7
  <2>4. QED
    BY <1>3, <1>5, <1>8, <2>1, <2>3 DEF StartBits
<1>12. /\ body' \in [Page -> Contents]
       /\ pair = 1 => body'[p][at] = n
       /\ \A i \in Offset : i \notin at .. at + n - 1 => body'[p][i] = c0[i]
       /\ \A q \in Page \ {p} : body'[q] = body[q]
  <2>1. body \in [Page -> Contents]
    BY DEF IInv, TypeOK, Contents
  <2>2. body' = [BodyFor(r, n) EXCEPT ![p] = [j \in Offset |->
                   IF j \in at .. at + n - 1
                   THEN IF j = at /\ pair = 1 THEN n ELSE 1 ELSE @[j]]]
    BY DEF Written, WithObject
  <2>3. body' = [body EXCEPT ![p] = [j \in Offset |->
                   IF j \in at .. at + n - 1
                   THEN IF j = at /\ pair = 1 THEN n ELSE 1 ELSE c0[j]]]
    <3>1. BodyFor(r, n) \in [Page -> Contents] /\ BodyFor(r, n)[p] = c0
      BY <1>5, <2>1
    <3>2. \A q \in Page \ {p} : BodyFor(r, n)[q] = body[q]
      BY <1>5, <2>1
    <3>3. QED
      BY <2>1, <2>2, <3>1, <3>2, <1>5
  <2>4. QED
    BY <1>3, <1>5, <1>8, <2>1, <2>3 DEF Contents
<1>13. ASSUME NEW T, T \subseteq Reserved(p) \cup at + n .. at + slab - 1
       PROVE  Sound(at + slab, starts'[p], body'[p], T)
  <2> DEFINE R == Reserved(p) \cup at .. at + slab - 1
  <2>1. at .. at + n - 1 \subseteq R /\ at + slab \in 0 .. PageCells
    BY <1>7, <1>8
  <2>2. \A i \in Reserved(p) : i \in Int /\ i < at
    BY <1>5, <1>8 DEF Sound
  <2>3. T \subseteq R \ at .. at + n - 1
    BY <1>8, <1>13, <2>2
  <2> HIDE DEF R
  <2>4. QED
    <3>1. PICK used, s2, c2 : used = at + slab /\ s2 = starts'[p] /\ c2 = body'[p]
      OBVIOUS
    <3>2. used \in 0 .. PageCells /\ Sound(used, s0, c0, R)
      BY <1>9, <2>1, <3>1 DEF R
    <3>3. /\ s2[at] = pair /\ \A i \in Offset \ {at} : s2[i] = s0[i]
          /\ pair = 1 => c2[at] = n
          /\ \A i \in Offset : i \notin at .. at + n - 1 => c2[i] = c0[i]
      BY <1>11, <1>12, <3>1
    <3>4. Sound(used, s2, c2, T)
      <4>1. /\ s0 \in StartBits /\ c0 \in Contents /\ at \in Offset /\ at \in Int /\ n \in Int
            /\ n \in 1 .. PageCells /\ pair \in {1, 3} /\ (pair = 3 => n = 2)
        BY <1>3, <1>5, <1>8
      <4>2. at .. at + n - 1 \subseteq R
        BY <2>1
      <4>3. QED
        BY <4>1, <4>2, <2>3, <3>2, <3>3, WriteIsSound
    <3>5. QED
      BY <3>1, <3>4
<1>14. ASSUME GenOf(p) # "Free", NEW i \in Offset, i < at
       PROVE  starts'[p][i] = starts[p][i] /\ body'[p][i] = body[p][i]
  <2>1. i \in Int /\ i # at /\ i \notin at .. at + n - 1
    BY <1>8, <1>14 DEF Offset
  <2>2. s0 = starts[p] /\ c0 = body[p]
    BY <1>5, <1>14 DEF s0, c0
  <2>3. QED
    BY <1>11, <1>12, <2>1, <2>2
<1>15. QED
  BY <1>11, <1>12, <1>13, <1>14

\* The sizes and start bits mutators ask for.
LEMMA Requests ==
  ASSUME NEW k \in Kind, NEW n \in SizesOf(k)
  PROVE  /\ n \in 1 .. PageCells
         /\ PairFor(k) \in {1, 3} /\ (PairFor(k) = 3 => n = 2)
BY TlabsAssumption DEF SizesOf, PairFor, Kind

\* carve_tlab_in_current grants what is needed and no more than there is.
LEMMA SlabFits ==
  ASSUME NEW b, tlab[b] \in Tlab, NEW r, NEW n \in 1 .. PageCells,
         OffsetFor(r, n) \in 0 .. PageCells
  PROVE  Slab(b, r, n) \in n .. PageCells /\ OffsetFor(r, n) + Slab(b, r, n) <= PageCells
<1>1. Want(b, n) \in n .. PageCells /\ PageCells \in Nat
  BY TlabsAssumption DEF Want, MinOf, MaxOf, Tlab
<1>2. CASE Fits(r, n)
  <2>1. PICK at : at = OffsetFor(r, n)
    OBVIOUS
  <2>2. /\ at \in 0 .. PageCells /\ at + n <= PageCells
        /\ RoomIn(r) = PageCells - at
    BY <1>2, <2>1 DEF OffsetFor, Fits, RoomIn
  <2>3. Slab(b, r, n) = MinOf(Want(b, n), PageCells - at)
    BY <1>2, <2>2 DEF Slab
  <2>4. QED
    BY <1>1, <2>1, <2>2, <2>3 DEF MinOf
<1>3. CASE ~Fits(r, n)
  <2>1. Slab(b, r, n) = Want(b, n) /\ OffsetFor(r, n) = 0
    BY <1>3 DEF Slab, OffsetFor
  <2>2. QED
    BY <1>1, <2>1
<1>4. QED
  BY <1>2, <1>3

\* A miss of Mutator::alloc.
LEMMA AllocMissKeeps ==
  ASSUME IInv, NEW m \in Mutator, NEW r \in Region, AllocMiss(m, r)
  PROVE  IInv' /\ Untouched
<1>1. PICK b, pair : b = <<m, r>> /\ pair = PairFor(r[2])
  OBVIOUS
<1>2. b \in Buffer /\ r[2] \in Kind
  BY <1>1, PairIs DEF Buffer, Use, Region
<1>3. PICK n \in SizesOf(r[2]) :
        LET at == OffsetFor(r, n)
            slab == Slab(b, r, n)
        IN
        /\ pass = None
        /\ Carve(r, n, slab)
        /\ tlab' = [tlab EXCEPT ![b] =
             [page |-> PageFor(r, n), cursor |-> at + n, end |-> at + slab,
              next |-> MinOf(2 * @.next, MaxTlab)]]
        /\ starts' = WithStart(StartsFor(r, n), PageFor(r, n), at, pair)
        /\ body' = WithObject(BodyFor(r, n), PageFor(r, n), at, n, pair)
        /\ UNCHANGED <<pass, poisoned>>
  BY <1>1 DEF AllocMiss, Running
<1>4. PICK p, at, slab : p = PageFor(r, n) /\ at = OffsetFor(r, n) /\ slab = Slab(b, r, n)
  OBVIOUS
<1>5. n \in 1 .. PageCells /\ pair \in {1, 3} /\ (pair = 3 => n = 2)
  BY <1>1, <1>2, Requests
<1>6. p \in Page /\ at \in 0 .. PageCells
  <2>1. Fits(r, n) \/ PagesIn("Free") # {}
    BY <1>3 DEF Carve
  <2>2. QED
    BY <1>4, <1>5, <2>1, CarvePlace
<1>7. tlab \in [Buffer -> Tlab] /\ tlab[b] \in Tlab
  BY <1>2 DEF IInv, TypeOK, Tlab
<1>8. slab \in n .. PageCells /\ at + slab <= PageCells
  BY <1>4, <1>5, <1>6, <1>7, SlabFits
<1>9. /\ n \in Nat /\ slab \in Nat /\ PageCells \in Nat /\ at \in Nat
      /\ at + n \in at .. at + slab
  BY <1>5, <1>6, <1>8, TlabsAssumption
<1>10. /\ Written(r, n, slab, pair) /\ Carve(r, n, slab)
       /\ OffsetFor(r, n) + slab <= PageCells
       /\ pass = None /\ UNCHANGED <<pass, poisoned>>
  BY <1>3, <1>4, <1>8 DEF Written
<1>11. /\ starts' \in [Page -> StartBits] /\ body' \in [Page -> Contents]
       /\ \A q \in Page \ {p} : starts'[q] = starts[q] /\ body'[q] = body[q]
       /\ \A T : T \subseteq Reserved(p) \cup at + n .. at + slab - 1 =>
            Sound(at + slab, starts'[p], body'[p], T)
       /\ GenOf(p) # "Free" => \A i \in Offset : i < at =>
            starts'[p][i] = starts[p][i] /\ body'[p][i] = body[p][i]
  <2>1. slab \in n .. PageCells /\ Written(r, n, slab, pair)
    BY <1>8, <1>10
  <2>2. QED
    BY <1>4, <1>5, <2>1, CarveWrites
<1>12. /\ tlab' \in [Buffer -> Tlab]
       /\ tlab'[b].page = p /\ tlab'[b].cursor = at + n /\ tlab'[b].end = at + slab
       /\ \A d \in Buffer \ {b} : tlab'[d] = tlab[d]
  <2>1. PICK size : size = MinOf(2 * tlab[b].next, MaxTlab)
    OBVIOUS
  <2>2. size \in 1 .. MaxTlab
    BY <1>7, <2>1, TlabsAssumption DEF Tlab, MinOf
  <2>3. tlab' = [tlab EXCEPT ![b] =
                   [page |-> p, cursor |-> at + n, end |-> at + slab, next |-> size]]
    BY <1>3, <1>4, <2>1
  <2>4. [page |-> p, cursor |-> at + n, end |-> at + slab, next |-> size] \in Tlab
    BY <1>6, <1>8, <1>9, <2>2 DEF Tlab
  <2>5. QED
    BY <1>2, <1>7, <2>3, <2>4
<1>13. QED
  BY <1>2, <1>4, <1>5, <1>8, <1>9, <1>10, <1>11, <1>12, BufferFilled

\* try_alloc_g0_slab.
LEMMA TakeSlabKeeps ==
  ASSUME IInv, NEW m \in Mutator, TakeSlab(m)
  PROVE  IInv' /\ Untouched
<1> DEFINE b == <<m, SlabBuffer>>
           r == RegionOf(SlabBuffer)
<1>1. b \in Buffer /\ r \in Region
  BY DEF Buffer, Use, Region, RegionOf, Generation, Kind
<1> HIDE DEF b, r
<1>2. PICK n \in SlabSizes :
        /\ pass = None /\ UNCHANGED <<pass, poisoned>>
        /\ Fits(r, n) \/ Cardinality(PagesIn("Free")) > SlabReserve
        /\ Carve(r, n, n)
        /\ tlab' = [tlab EXCEPT ![b] =
             [page |-> PageFor(r, n), cursor |-> OffsetFor(r, n),
              end |-> OffsetFor(r, n) + n, next |-> @.next]]
        /\ starts' = StartsFor(r, n)
        /\ body' = BodyFor(r, n)
  BY DEF TakeSlab, Running, b, r
<1> DEFINE p == PageFor(r, n)
           at == OffsetFor(r, n)
           s0 == StartsFor(r, n)[p]
           c0 == BodyFor(r, n)[p]
<1>3. n \in 1 .. PageCells /\ n \in n .. PageCells /\ n \in Int /\ PageCells \in Nat
  BY TlabsAssumption
<1>4. Fits(r, n) \/ PagesIn("Free") # {}
  BY <1>2 DEF Carve
<1>5. /\ p \in Page /\ at \in 0 .. PageCells
      /\ StartsFor(r, n) = [starts EXCEPT ![p] = s0]
      /\ BodyFor(r, n) = [body EXCEPT ![p] = c0]
      /\ s0 \in StartBits /\ c0 \in Contents
      /\ Sound(at, s0, c0, Reserved(p))
      /\ \/ GenOf(p) = "Free"
         \/ StartsFor(r, n) = starts /\ BodyFor(r, n) = body
  BY <1>1, <1>3, <1>4, CarvePlace
<1>6. at \in Int /\ at + n <= PageCells
  <2>1. Fits(r, n) => at = region[r].offset /\ at + n <= PageCells
    BY DEF Fits, OffsetFor
  <2>2. ~Fits(r, n) => at = 0
    BY DEF OffsetFor
  <2>3. QED
    BY <1>3, <1>5, <2>1, <2>2
<1> HIDE DEF p, at, s0, c0
<1>7. /\ starts' \in [Page -> StartBits] /\ starts'[p] = s0
      /\ body' \in [Page -> Contents] /\ body'[p] = c0
      /\ \A q \in Page \ {p} : starts'[q] = starts[q] /\ body'[q] = body[q]
  <2>1. starts \in [Page -> StartBits] /\ body \in [Page -> Contents]
    BY DEF IInv, TypeOK, StartBits, Contents
  <2>2. QED
    BY <1>2, <1>5, <2>1
<1>8. ASSUME NEW T, T \subseteq Reserved(p) \cup at .. at + n - 1
      PROVE  Sound(at + n, starts'[p], body'[p], T)
  BY <1>3, <1>5, <1>6, <1>7, <1>8, GrowthIsSound
<1>9. GenOf(p) # "Free" =>
        \A i \in Offset : starts'[p][i] = starts[p][i] /\ body'[p][i] = body[p][i]
  BY <1>2, <1>5
<1>10. /\ tlab' \in [Buffer -> Tlab]
       /\ tlab'[b].page = p /\ tlab'[b].cursor = at /\ tlab'[b].end = at + n
       /\ \A d \in Buffer \ {b} : tlab'[d] = tlab[d]
  <2>1. tlab \in [Buffer -> Tlab] /\ tlab[b] \in Tlab
    BY <1>1 DEF IInv, TypeOK, Tlab
  <2>2. tlab' = [tlab EXCEPT ![b] =
                   [page |-> p, cursor |-> at, end |-> at + n, next |-> @.next]]
    BY <1>2 DEF p, at
  <2>3. [page |-> p, cursor |-> at, end |-> at + n, next |-> tlab[b].next] \in Tlab
    BY <1>3, <1>5, <1>6, <2>1 DEF Tlab
  <2>4. QED
    BY <1>1, <2>1, <2>2, <2>3
<1>11. at \in at .. at + n
  BY <1>3, <1>6
<1>12. p = PageFor(r, n) /\ at = OffsetFor(r, n)
  BY DEF p, at
<1>13. pass = None /\ UNCHANGED <<pass, poisoned>> /\ Carve(r, n, n)
  BY <1>2
<1>14. OffsetFor(r, n) + n <= PageCells
  BY <1>6, <1>12
<1>15. QED
  BY <1>1, <1>3, <1>7, <1>8, <1>9, <1>10, <1>11, <1>12, <1>13, <1>14, BufferFilled

\* Steps that leave the table alone keep what only the table is about.
LEMMA SameTable ==
  ASSUME IInv, UNCHANGED <<desc, freeList, region, committed>>
  PROVE  /\ \A p \in Page : RunSound(p)'
         /\ \A r \in Region : RegionSound(r)'
         /\ desc' \in [Page -> Desc] /\ freeList' \in Seq(Page)
         /\ region' \in [Region -> RegionDesc] /\ committed' \subseteq Page
<1>1. ASSUME NEW p \in Page PROVE RunSound(p)'
  BY DEF IInv, TableSound, RunSound, Span
<1>2. ASSUME NEW r \in Region PROVE RegionSound(r)'
  BY DEF IInv, TableSound, RegionSound, GenOf
<1>3. QED
  BY <1>1, <1>2 DEF IInv, TypeOK, Desc

\* The bump of a buffer, with no lock held.
LEMMA BumpKeeps ==
  ASSUME IInv, pass = None, NEW b \in Buffer, NEW n \in 1 .. PageCells,
         NEW pair \in {1, 3}, pair = 3 => n = 2, Bump(b, n, pair)
  PROVE  IInv' /\ Untouched
<1>0. PICK p, at, end :
        p = tlab[b].page /\ at = tlab[b].cursor /\ end = tlab[b].end
  OBVIOUS
<1>1. /\ tlab \in [Buffer -> Tlab] /\ tlab[b] \in Tlab /\ poisoned \in BOOLEAN
      /\ starts \in [Page -> StartBits] /\ body \in [Page -> Contents]
      /\ desc \in [Page -> Desc]
  BY DEF IInv, TypeOK, Tlab, StartBits, Contents, Desc
<1>2. /\ at \in 0 .. PageCells /\ end \in 0 .. PageCells /\ PageCells \in Nat
      /\ n \in Int /\ at \in Int /\ end \in Int
      /\ end - at >= n
  BY <1>0, <1>1, TlabsAssumption DEF Tlab, Bump, Room
<1>3. at \in Held(b) /\ at \in Offset /\ p \in Page
  <2>1. at \in Held(b) /\ at \in Offset
    BY <1>0, <1>2 DEF Held, Offset
  <2>2. QED
    BY <1>0, <2>1 DEF IInv, BuffersSound
<1>4. at .. at + n - 1 \subseteq Reserved(p)
  BY <1>0, <1>2 DEF Reserved, Held, Offset
<1>5. desc[p].kind \in Kind /\ Sound(desc[p].used, starts[p], body[p], Reserved(p))
  <2>1. Reserved(p) # {}
    BY <1>2, <1>4
  <2>2. QED
    BY <1>3, <2>1 DEF IInv, TableSound, PageSound
<1>6. /\ tlab' = [tlab EXCEPT ![b].cursor = at + n]
      /\ starts' = WithStart(starts, p, at, pair)
      /\ body' = WithObject(body, p, at, n, pair)
      /\ UNCHANGED <<tableVars, pass, poisoned>>
  BY <1>0 DEF Bump
<1>7. starts[p] \in StartBits /\ body[p] \in Contents /\ desc[p].used \in 0 .. PageCells
  BY <1>1, <1>3 DEF Desc
<1>8. starts[p][at] = 0
  BY <1>2, <1>3, <1>4, <1>5 DEF Sound
<1>9. /\ starts' \in [Page -> StartBits]
      /\ starts'[p][at] = pair /\ \A i \in Offset \ {at} : starts'[p][i] = starts[p][i]
      /\ \A q \in Page \ {p} : starts'[q] = starts[q]
  <2>1. starts' = [starts EXCEPT ![p][at] = MaxOf(0, pair)]
    BY <1>1, <1>3, <1>6, <1>8 DEF WithStart
  <2>3. MaxOf(0, pair) = pair
    BY DEF MaxOf
  <2>2. QED
    BY <1>1, <1>3, <1>7, <2>1, <2>3 DEF StartBits
<1>10. /\ body' \in [Page -> Contents]
       /\ pair = 1 => body'[p][at] = n
       /\ \A i \in Offset : i \notin at .. at + n - 1 => body'[p][i] = body[p][i]
       /\ \A q \in Page \ {p} : body'[q] = body[q]
  <2>1. body' = [body EXCEPT ![p] = [j \in Offset |->
                   IF j \in at .. at + n - 1
                   THEN IF j = at /\ pair = 1 THEN n ELSE 1 ELSE body[p][j]]]
    BY <1>3, <1>6 DEF WithObject
  <2>2. QED
    BY <1>1, <1>2, <1>3, <1>7, <2>1 DEF Contents
<1>11. /\ tlab' \in [Buffer -> Tlab]
       /\ tlab'[b].page = p /\ tlab'[b].cursor = at + n /\ tlab'[b].end = end
       /\ \A d \in Buffer \ {b} : tlab'[d] = tlab[d]
  <2>1. at + n \in 0 .. PageCells
    BY <1>2
  <2>2. QED
    BY <1>0, <1>1, <1>6, <2>1 DEF Tlab
<1>12. /\ Held(b)' = at + n .. end - 1 /\ Held(b) = at .. end - 1
       /\ \A d \in Buffer : Held(d)' \subseteq Held(d) /\ tlab'[d].page = tlab[d].page
  <2>1. Held(b)' = at + n .. end - 1 /\ Held(b) = at .. end - 1
    BY <1>0, <1>2, <1>11 DEF Held
  <2>2. ASSUME NEW d \in Buffer \ {b} PROVE Held(d)' = Held(d)
    BY <1>11 DEF Held
  <2>3. Held(b)' \subseteq Held(b)
    BY <1>2, <2>1
  <2>4. \A d \in Buffer : tlab'[d].page = tlab[d].page
    BY <1>0, <1>11
  <2>5. QED
    BY <2>1, <2>2, <2>3, <2>4
<1>13. \A q : Reserved(q)' \subseteq Reserved(q)
  BY <1>12 DEF Reserved
<1>14. Reserved(p)' \subseteq Reserved(p) \ at .. at + n - 1
  <2> SUFFICES ASSUME NEW i \in Reserved(p)', i \in at .. at + n - 1 PROVE FALSE
    BY <1>13
  <2>1. PICK d \in Buffer : tlab'[d].page = p /\ i \in Held(d)'
    BY DEF Reserved
  <2>2. d # b
    BY <1>2, <1>12, <2>1
  <2>3. i \in Held(d) /\ i \in Held(b) /\ tlab[d].page = p /\ tlab[b].page = p
    BY <1>0, <1>2, <1>12, <2>1
  <2>4. QED
    BY <2>2, <2>3 DEF IInv, BuffersSound
<1>15. Sound(desc[p].used, starts'[p], body'[p], Reserved(p)')
  <2>1. ASSUME NEW T, T \subseteq Reserved(p) \ at .. at + n - 1
        PROVE  Sound(desc[p].used, starts'[p], body'[p], T)
    <3>1. PICK used, s, c, R, s2, c2 :
            /\ used = desc[p].used /\ s = starts[p] /\ c = body[p] /\ R = Reserved(p)
            /\ s2 = starts'[p] /\ c2 = body'[p]
      OBVIOUS
    <3>2. used \in 0 .. PageCells /\ s \in StartBits /\ c \in Contents
      BY <1>7, <3>1
    <3>3. Sound(used, s, c, R) /\ at .. at + n - 1 \subseteq R /\ T \subseteq R \ at .. at + n - 1
      BY <1>4, <1>5, <2>1, <3>1
    <3>4. /\ s2[at] = pair /\ \A i \in Offset \ {at} : s2[i] = s[i]
          /\ pair = 1 => c2[at] = n
          /\ \A i \in Offset : i \notin at .. at + n - 1 => c2[i] = c[i]
      BY <1>9, <1>10, <3>1
    <3>5. Sound(used, s2, c2, T)
      BY <1>2, <1>3, <3>2, <3>3, <3>4, WriteIsSound
    <3>6. QED
      BY <3>1, <3>5
  <2>2. QED
    BY <1>14, <2>1
<1>16. UNCHANGED <<desc, freeList, region, committed>>
  BY <1>6 DEF tableVars
<1>17. TypeOK'
  BY <1>1, <1>6, <1>9, <1>10, <1>11, <1>16, SameTable
     DEF TypeOK, Desc, Tlab, StartBits, Contents
<1>18. ASSUME NEW q \in Page PROVE PageSound(q)'
  <2>1. PageSound(q)
    BY DEF IInv, TableSound
  <2>2. CASE q = p
    <3>1. desc[p].kind # "free" /\ desc[p].kind # "large"
      BY <1>5 DEF Kind
    <3>2. QED
      BY <1>5, <1>15, <1>16, <2>1, <2>2, <3>1 DEF PageSound, GenOf
  <2>3. CASE q # p
    BY <1>9, <1>10, <1>13, <1>16, <2>1, <2>3, PageStays
  <2>4. QED
    BY <2>2, <2>3
<1>19. BuffersSound'
  BY <1>12 DEF IInv, BuffersSound
<1>20. PassSound'
  BY <1>6 DEF PassSound
<1>21. ASSUME NEW q \in Page, NEW i \in Offset, i \notin Reserved(q)
       PROVE  starts'[q][i] = starts[q][i] /\ body'[q][i] = body[q][i]
  <2>1. CASE q = p
    <3>1. i \notin at .. at + n - 1
      BY <1>4, <1>21, <2>1
    <3>2. i # at
      BY <1>2, <3>1
    <3>3. QED
      BY <1>9, <1>10, <2>1, <3>1, <3>2
  <2>2. CASE q # p
    BY <1>9, <1>10, <2>2
  <2>3. QED
    BY <2>1, <2>2
<1>22. Untouched
  BY <1>21 DEF Untouched
<1>23. QED
  BY <1>16, <1>17, <1>18, <1>19, <1>20, <1>22, SameTable DEF IInv, TableSound

\* flush_tlabs.
LEMMA FlushKeeps ==
  ASSUME IInv, NEW m \in Mutator, Flush(m)
  PROVE  IInv' /\ Untouched
<1>1. /\ pass = None /\ UNCHANGED <<desc, freeList, region, committed>>
      /\ UNCHANGED <<starts, body, pass, poisoned>>
      /\ tlab' = [b \in Buffer |-> IF b[1] = m THEN EmptyTlab ELSE tlab[b]]
  BY DEF Flush, Flushed, Running, tableVars, memoryVars
<1>2. tlab \in [Buffer -> Tlab]
  BY DEF IInv, TypeOK, Tlab
<1>3. EmptyTlab \in Tlab
  BY TlabsAssumption DEF EmptyTlab, Tlab
<1>4. tlab' \in [Buffer -> Tlab]
  BY <1>1, <1>2, <1>3
<1>5. \A b \in Buffer : tlab'[b] = EmptyTlab \/ tlab'[b] = tlab[b]
  BY <1>1
<1>6. EmptyTlab.cursor .. EmptyTlab.end - 1 = {}
  BY DEF EmptyTlab
<1>7. ASSUME NEW b \in Buffer
      PROVE  Held(b)' = {} \/ (Held(b)' = Held(b) /\ tlab'[b].page = tlab[b].page)
  BY <1>5, <1>6 DEF Held
<1>8. \A q : Reserved(q)' \subseteq Reserved(q)
  BY <1>7 DEF Reserved
<1>9. TypeOK'
  BY <1>1, <1>4 DEF IInv, TypeOK, Tlab
<1>10. ASSUME NEW q \in Page PROVE PageSound(q)'
  BY <1>1, <1>8, PageStays DEF IInv, TableSound
<1>11. BuffersSound'
  BY <1>7 DEF IInv, BuffersSound
<1>12. PassSound' /\ Untouched
  BY <1>1 DEF PassSound, Untouched
<1>13. QED
  BY <1>1, <1>9, <1>10, <1>11, <1>12, SameTable DEF IInv, TableSound

\* A hit of Mutator::alloc.
LEMMA AllocHitKeeps ==
  ASSUME IInv, NEW m \in Mutator, NEW r \in Region, AllocHit(m, r)
  PROVE  IInv' /\ Untouched
<1>1. PICK b, pair : b = <<m, r>> /\ pair = PairFor(r[2])
  OBVIOUS
<1>2. b \in Buffer /\ r[2] \in Kind
  BY <1>1, PairIs DEF Buffer, Use, Region
<1>3. PICK n \in SizesOf(r[2]) : pass = None /\ Bump(b, n, pair)
  BY <1>1 DEF AllocHit, Running
<1>4. n \in 1 .. PageCells /\ pair \in {1, 3} /\ (pair = 3 => n = 2)
  BY <1>1, <1>2, Requests
<1>5. QED
  BY <1>2, <1>3, <1>4, BumpKeeps

\* A client bumps through its slab.
LEMMA SlabBumpKeeps ==
  ASSUME IInv, NEW m \in Mutator, SlabBump(m)
  PROVE  IInv' /\ Untouched
<1>1. PICK b : b = <<m, SlabBuffer>>
  OBVIOUS
<1>2. b \in Buffer
  BY <1>1 DEF Buffer, Use
<1>3. PICK k \in Kind : pass = None /\ \E n \in SizesOf(k) : Bump(b, n, PairFor(k))
  BY <1>1 DEF SlabBump, Running
<1>4. PICK n \in SizesOf(k) : Bump(b, n, PairFor(k))
  BY <1>3
<1>5. PICK pair : pair = PairFor(k)
  OBVIOUS
<1>6. n \in 1 .. PageCells /\ pair \in {1, 3} /\ (pair = 3 => n = 2)
  BY <1>5, Requests
<1>7. QED
  BY <1>2, <1>3, <1>4, <1>5, <1>6, BumpKeeps

\* try_alloc_large takes pages that are Free.
LEMMA FreeRunIs ==
  ASSUME TypeOK, NEW n \in LargeSpans, FreeRuns(n) # {}
  PROVE  /\ n \in 1 .. NPages /\ Least(FreeRuns(n)) \in Page
         /\ \A q \in Least(FreeRuns(n)) .. Least(FreeRuns(n)) + n - 1 :
              q \in Page /\ GenOf(q) = "Free"
<1>1. PICK p : p = Least(FreeRuns(n))
  OBVIOUS
<1>2. FreeRuns(n) \in SUBSET Page
  BY DEF FreeRuns
<1>3. p \in FreeRuns(n)
  <2>1. FreeRuns(n) \in SUBSET Int /\ IsFiniteSet(FreeRuns(n))
    BY <1>2, PagesAreFinite
  <2>2. QED
    BY <1>1, <2>1, LeastIs
<1>4. p \in Page /\ p + n <= NPages /\ p .. p + n - 1 \subseteq PagesIn("Free")
  BY <1>3 DEF FreeRuns
<1>5. n \in Nat \ {0} /\ NPages \in Nat
  BY TlabsAssumption
<1>6. n \in 1 .. NPages
  BY <1>4, <1>5 DEF Page
<1>7. QED
  BY <1>1, <1>4, <1>6 DEF PagesIn

\* When a descriptor continues a run.
LEMMA SameButSpan ==
  ASSUME NEW d \in Desc, NEW e \in Desc, d.gen = e.gen, d.kind = e.kind,
         d.used = e.used, d.zeroed = e.zeroed, d.span = 0
  PROVE  d = [e EXCEPT !.span = 0]
BY DEF Desc

\* try_alloc_large.
LEMMA AllocLargeKeeps ==
  ASSUME IInv, AllocLarge
  PROVE  IInv' /\ Untouched
<1>1. PICK n \in LargeSpans :
        /\ pass = None /\ FreeRuns(n) # {} /\ Claimed(Least(FreeRuns(n)), n, n)
  BY DEF AllocLarge, Running
<1>2. PICK p, S : p = Least(FreeRuns(n)) /\ S = p .. p + n - 1
  OBVIOUS
<1>3. /\ n \in 1 .. NPages /\ p \in Page
      /\ \A q \in S : q \in Page /\ GenOf(q) = "Free"
  BY <1>1, <1>2, FreeRunIs DEF IInv
<1>4. /\ n \in Int /\ p \in Int /\ NPages \in Nat \ {0} /\ PageCells \in Nat \ {0}
      /\ p \in S /\ 0 \in Offset
  <2>1. NPages \in Nat \ {0} /\ PageCells \in Nat \ {0} /\ n \in Int
    BY <1>3, TlabsAssumption
  <2>2. p \in Int /\ 0 \in Offset
    BY <1>3, <2>1 DEF Page, Offset
  <2>3. QED
    BY <1>2, <1>3, <2>1, <2>2
<1>5. /\ desc \in [Page -> Desc] /\ starts \in [Page -> StartBits]
      /\ body \in [Page -> Contents]
  BY DEF IInv, TypeOK, Desc, StartBits, Contents
<1>6. /\ \A q \in S : desc'[q] = LargeDesc("G0", IF q = p THEN n ELSE 0)
      /\ \A q \in Page \ S : desc'[q] = desc[q]
      /\ desc' \in [Page -> Desc]
  <2>1. desc' = [q \in Page |-> IF q \in S THEN LargeDesc("G0", IF q = p THEN n ELSE 0)
                                ELSE desc[q]]
    BY <1>1, <1>2 DEF Claimed
  <2>2. LargeDesc("G0", n) \in Desc /\ LargeDesc("G0", 0) \in Desc
    BY <1>3, <1>4 DEF LargeDesc, Desc, Generation
  <2>3. QED
    BY <1>3, <1>5, <2>1, <2>2
<1>7. \A q \in S : Opened(q) = Blank
  BY <1>3, OpenedIsBlank DEF IInv
<1>8. /\ starts'[p] = [Blank EXCEPT ![0] = 1] /\ \A q \in S \ {p} : starts'[q] = Blank
      /\ \A q \in Page \ S : starts'[q] = starts[q]
      /\ starts' \in [Page -> StartBits]
  <2>1. starts' = [q \in Page |-> IF q = p THEN [Blank EXCEPT ![0] = 1]
                                  ELSE IF q \in S THEN Blank ELSE starts[q]]
    BY <1>1, <1>2 DEF Claimed
  <2>2. [Blank EXCEPT ![0] = 1] \in StartBits /\ Blank \in StartBits
    BY <1>4 DEF Blank, StartBits
  <2>3. QED
    BY <1>3, <1>4, <1>5, <2>1, <2>2
<1>9. /\ \A q \in Page \ S : body'[q] = body[q]
      /\ body' \in [Page -> Contents]
  <2>1. body' = [q \in Page |-> IF q = p THEN [Opened(q) EXCEPT ![0] = 1]
                                ELSE IF q \in S THEN Opened(q) ELSE body[q]]
    BY <1>1, <1>2 DEF Claimed
  <2>2. [Blank EXCEPT ![0] = 1] \in Contents /\ Blank \in Contents
    BY <1>4 DEF Blank, Contents
  <2>3. QED
    BY <1>3, <1>4, <1>5, <1>7, <2>1, <2>2
<1>10. /\ committed' = committed \cup S
       /\ UNCHANGED <<freeList, region, tlab, pass, poisoned>>
  BY <1>1, <1>2 DEF Claimed
<1>11. TypeOK'
  BY <1>3, <1>6, <1>8, <1>9, <1>10 DEF IInv, TypeOK, Desc, StartBits, Contents
<1>12. \A q : Reserved(q)' = Reserved(q)
  BY <1>10 DEF Reserved, Held
<1>13. ASSUME NEW q \in Page PROVE PageSound(q)'
  <2>1. PageSound(q)
    BY DEF IInv, TableSound
  <2>2. CASE q \in S
    <3>1. Reserved(q)' = {}
      BY <1>3, <1>12, <2>1, <2>2 DEF PageSound, Kind
    <3>2. \A i \in Offset : (starts'[q][i] # 0) <=> (i = 0 /\ q = p)
      BY <1>4, <1>8, <2>2 DEF Blank
    <3>3. desc'[q] = LargeDesc("G0", IF q = p THEN n ELSE 0) /\ q \in committed'
      BY <1>6, <1>10, <2>2
    <3>4. (desc'[q].span > 0) <=> (q = p)
      BY <1>3, <1>4, <3>3 DEF LargeDesc
    <3>5. QED
      BY <3>1, <3>2, <3>3, <3>4 DEF PageSound, GenOf, LargeDesc, Kind
  <2>3. CASE q \notin S
    BY <1>6, <1>8, <1>9, <1>10, <1>12, <2>1, <2>3, PageStays
  <2>4. QED
    BY <2>2, <2>3
<1>14. \A q \in Page : desc[q].kind = "large" => q \notin S
  BY <1>3 DEF IInv, TableSound, PageSound
<1>15. ASSUME NEW q \in Page PROVE RunSound(q)'
  <2>1. CASE q \in S
    <3>0. /\ desc'[p].span = n /\ desc'[p].kind = "large"
          /\ \A h \in S \ {p} : desc'[h].span = 0 /\ desc'[h] = LargeDesc("G0", 0)
          /\ desc'[p] = LargeDesc("G0", n)
      BY <1>4, <1>6 DEF LargeDesc
    <3>1. Span(p)' = S /\ desc'[p].kind = "large"
      BY <1>2, <3>0 DEF Span
    <3>2. ASSUME desc'[q].span > 0, NEW h \in Span(q)' \ {q}
          PROVE  h \in Page /\ desc'[h] = [desc'[q] EXCEPT !.span = 0]
      <4>1. q = p
        BY <2>1, <3>0, <3>2
      <4>2. h \in S \ {p}
        BY <3>1, <3>2, <4>1
      <4>3. h \in Page /\ desc'[h] \in Desc /\ desc'[p] \in Desc
        BY <1>3, <1>6, <4>2
      <4>4. /\ desc'[h].gen = desc'[p].gen /\ desc'[h].kind = desc'[p].kind
            /\ desc'[h].used = desc'[p].used /\ desc'[h].zeroed = desc'[p].zeroed
            /\ desc'[h].span = 0
        <5>1. desc'[h] = LargeDesc("G0", 0) /\ desc'[p] = LargeDesc("G0", n)
          BY <3>0, <4>2
        <5>2. PICK d, e : d = LargeDesc("G0", 0) /\ e = LargeDesc("G0", n)
          OBVIOUS
        <5>3. /\ d.gen = e.gen /\ d.kind = e.kind /\ d.used = e.used
              /\ d.zeroed = e.zeroed /\ d.span = 0
          BY <5>2 DEF LargeDesc
        <5>4. QED
          BY <5>1, <5>2, <5>3
      <4>5. QED
        BY <4>1, <4>3, <4>4, SameButSpan
    <3>3. QED
      BY <1>3, <2>1, <3>1, <3>2 DEF RunSound, Span
  <2>2. CASE q \notin S
    <3> SUFFICES ASSUME desc'[q].kind = "large" PROVE RunSound(q)'
      BY DEF RunSound
    <3>1. desc'[q] = desc[q] /\ desc[q].kind = "large" /\ RunSound(q)
      BY <1>6, <2>2 DEF IInv, TableSound
    <3>2. \E h \in Page : desc'[h].kind = "large" /\ q \in Span(h)'
      <4>1. PICK h \in Page : desc[h].kind = "large" /\ q \in Span(h)
        BY <3>1 DEF RunSound
      <4>2. desc'[h] = desc[h]
        BY <1>6, <1>14, <4>1
      <4>3. QED
        BY <4>1, <4>2 DEF Span
    <3>3. ASSUME desc[q].span > 0, NEW h \in Span(q) \ {q}
          PROVE  h \in Page /\ desc'[h] = [desc'[q] EXCEPT !.span = 0]
      <4>1. h \in Page /\ desc[h] = [desc[q] EXCEPT !.span = 0]
        BY <3>1, <3>3 DEF RunSound
      <4>2. desc[h].kind = "large"
        BY <1>5, <3>1, <4>1 DEF Desc
      <4>3. QED
        BY <1>6, <1>14, <3>1, <4>1, <4>2
    <3>4. QED
      BY <3>1, <3>2, <3>3 DEF RunSound, Span
  <2>3. QED
    BY <2>1, <2>2
<1>16. ASSUME NEW r \in Region PROVE RegionSound(r)'
  <2>1. region[r].page # None =>
          /\ region[r].page \in Page /\ GenOf(region[r].page) # "Free"
    BY DEF IInv, TypeOK, RegionDesc, TableSound, RegionSound, Region, Generation
  <2>2. region[r].page # None => region[r].page \notin S
    BY <1>3, <2>1
  <2>3. QED
    BY <1>6, <1>10, <2>1, <2>2 DEF IInv, TableSound, RegionSound, GenOf
<1>17. BuffersSound' /\ PassSound'
  BY <1>1, <1>10 DEF IInv, BuffersSound, PassSound, Held
<1>18. Untouched
  BY <1>3, <1>8, <1>9 DEF Untouched
<1>19. QED
  BY <1>11, <1>13, <1>15, <1>16, <1>17, <1>18 DEF IInv, TableSound

-----------------------------------------------------------------------------
(* Runs.                                                                   *)

\* The page with span n heads n pages that are alike.
LEMMA RunIs ==
  ASSUME IInv, NEW h \in Page, desc[h].span > 0
  PROVE  /\ RunOf(h) = Span(h) /\ h \in Span(h)
         /\ GenOf(h) # "Free"
         /\ \A q \in Span(h) : /\ q \in Page
                               /\ GenOf(q) = GenOf(h) /\ desc[q].kind = desc[h].kind
                               /\ q # h => desc[q].span = 0
<1>1. h \in Int /\ desc[h] \in Desc /\ desc[h].span \in Int /\ NPages \in Nat
  BY TlabsAssumption DEF IInv, TypeOK, Desc, Page
<1>2. PageSound(h) /\ RunSound(h)
  BY DEF IInv, TableSound
<1>3. RunOf(h) = Span(h) /\ h \in Span(h)
  BY <1>1 DEF RunOf, Span, MaxOf
<1>4. GenOf(h) # "Free"
  BY <1>2 DEF PageSound
<1>5. CASE desc[h].kind = "large"
  <2>1. \A q \in Span(h) \ {h} : q \in Page /\ desc[q] = [desc[h] EXCEPT !.span = 0]
    BY <1>2, <1>5 DEF RunSound
  <2>2. \A q \in Span(h) \ {h} :
          desc[q].gen = desc[h].gen /\ desc[q].kind = desc[h].kind /\ desc[q].span = 0
    BY <1>1, <2>1 DEF Desc
  <2>3. QED
    BY <1>3, <1>4, <2>1, <2>2 DEF GenOf
<1>6. CASE desc[h].kind # "large"
  <2>1. desc[h].kind \in Kind
    BY <1>1, <1>2, <1>4, <1>6 DEF PageSound, Desc
  <2>2. desc[h].span = 1
    BY <1>2, <2>1 DEF PageSound
  <2>3. Span(h) = {h}
    BY <1>1, <2>2 DEF Span
  <2>4. QED
    BY <1>3, <1>4, <2>3
<1>7. QED
  BY <1>5, <1>6

\* No page is in two runs.
LEMMA OneRun ==
  ASSUME IInv, NEW h \in Page, NEW k \in Page, desc[h].span > 0, desc[k].span > 0,
         NEW q, q \in Span(h), q \in Span(k)
  PROVE  h = k
<1>1. /\ h \in Int /\ k \in Int /\ q \in Int
      /\ desc[h].span \in Int /\ desc[k].span \in Int
  <2>1. desc \in [Page -> Desc]
    BY DEF IInv, TypeOK, Desc
  <2>2. h \in Int /\ k \in Int
    BY DEF Page
  <2>3. desc[h].span \in Int /\ desc[k].span \in Int
    BY <2>1 DEF Desc
  <2>4. QED
    BY <2>2, <2>3 DEF Span
<1>2. ~(h < k)
  <2> SUFFICES ASSUME h < k PROVE FALSE
    OBVIOUS
  <2>1. k \in Span(h)
    BY <1>1 DEF Span
  <2>2. QED
    BY <1>1, <2>1, RunIs
<1>3. ~(k < h)
  <2> SUFFICES ASSUME k < h PROVE FALSE
    OBVIOUS
  <2>1. h \in Span(k)
    BY <1>1 DEF Span
  <2>2. QED
    BY <1>1, <2>1, RunIs
<1>4. QED
  BY <1>1, <1>2, <1>3

\* Every page in use is in a run.
LEMMA InRun ==
  ASSUME IInv, NEW q \in Page, GenOf(q) # "Free"
  PROVE  \E h \in Page : desc[h].span > 0 /\ q \in Span(h)
<1>0. desc \in [Page -> Desc]
  BY DEF IInv, TypeOK, Desc
<1>1. desc[q] \in Desc /\ PageSound(q) /\ RunSound(q) /\ q \in Int
  BY <1>0 DEF IInv, TableSound, Page
<1>2. CASE desc[q].kind = "large"
  <2>1. PICK h \in Page : desc[h].kind = "large" /\ q \in Span(h)
    BY <1>1, <1>2 DEF RunSound
  <2>2. h \in Int /\ desc[h].span \in Int
    BY <1>0 DEF Desc, Page
  <2>3. desc[h].span > 0
    BY <1>1, <2>1, <2>2 DEF Span
  <2>4. QED
    BY <2>1, <2>3
<1>3. CASE desc[q].kind # "large"
  <2>1. desc[q].span = 1
    BY <1>1, <1>3 DEF PageSound, Desc
  <2>2. q \in Span(q)
    BY <1>1, <2>1 DEF Span
  <2>3. QED
    BY <2>1, <2>2
<1>4. QED
  BY <1>2, <1>3

\* An object is on the first page of a run; a Large one is at its start.
LEMMA ObjectIs ==
  ASSUME IInv, NEW o \in Objects
  PROVE  /\ o \in Page \X Offset /\ o[1] \in Page /\ o[2] \in Offset
         /\ o = <<o[1], o[2]>>
         /\ GenOf(o[1]) # "Free" /\ starts[o[1]][o[2]] \in {1, 3}
         /\ desc[o[1]].span > 0
         /\ desc[o[1]].kind \in Kind \cup {"large"}
         /\ desc[o[1]].kind = "large" => o[2] = 0
<1>1. /\ o \in Page \X Offset /\ o[1] \in Page /\ o[2] \in Offset
      /\ o = <<o[1], o[2]>> /\ StartAt(o[1], o[2])
  BY PairIs DEF Objects
<1>2. PICK p, i : p = o[1] /\ i = o[2]
  OBVIOUS
<1>3. /\ p \in Page /\ i \in Offset /\ GenOf(p) # "Free" /\ starts[p][i] # 0
      /\ starts[p][i] \in {0, 1, 3} /\ desc[p] \in Desc
      /\ PageSound(p)
  BY <1>1, <1>2 DEF IInv, TypeOK, Desc, TableSound, StartAt
<1>4. desc[p].kind \in Kind \cup {"large"}
  BY <1>3 DEF PageSound, Desc
<1>5. desc[p].span > 0 /\ (desc[p].kind = "large" => i = 0)
  BY <1>3, <1>4 DEF PageSound
<1>6. QED
  BY <1>1, <1>2, <1>3, <1>4, <1>5

\* Where no Large object has a second page, every run is one page.
LEMMA RunsOfOnePage ==
  ASSUME IInv, LargeSpans \subseteq {1}, NEW h \in Page, desc[h].span > 0
  PROVE  Span(h) = {h}
<1>1. desc[h] \in Desc /\ PageSound(h) /\ h \in Int
  BY DEF IInv, TypeOK, TableSound, Desc, Page
<1>2. desc[h].span = 1
  BY <1>1 DEF PageSound, Desc
<1>3. QED
  BY <1>1, <1>2 DEF Span

\* A run is all or nothing in the run of a head.
LEMMA RunInRun ==
  ASSUME IInv, NEW p \in Page, desc[p].span > 0,
         NEW h \in Page, desc[h].span > 0, NEW q \in Span(h)
  PROVE  (q \in Span(p)) <=> (h \in Span(p))
<1>1. q \in Span(p) => h = p
  BY OneRun
<1>2. h \in Span(p) => h = p
  BY RunIs
<1>3. p \in Span(p)
  BY RunIs
<1>4. QED
  BY <1>1, <1>2, <1>3

\* Runs whose pages all go, all change generation or all stay are whole after.
LEMMA RunsKept ==
  ASSUME IInv, NEW Gone, NEW Moved, NEW g,
         \A h \in Page : desc[h].span > 0 => \A q \in Span(h) :
           ((q \in Gone) <=> (h \in Gone)) /\ ((q \in Moved) <=> (h \in Moved)),
         \A q \in Page : q \in Gone => desc'[q].kind # "large",
         \A q \in Page : q \notin Gone /\ q \in Moved =>
           desc'[q] = [desc[q] EXCEPT !.gen = g],
         \A q \in Page : q \notin Gone /\ q \notin Moved => desc'[q] = desc[q],
         NEW q \in Page
  PROVE  RunSound(q)'
<1>1. /\ desc \in [Page -> Desc]
      /\ \A p \in Page : PageSound(p) /\ RunSound(p)
  BY DEF IInv, TypeOK, Desc, TableSound
<1>2. \A p \in Page : p \notin Gone =>
        /\ desc'[p].kind = desc[p].kind /\ desc'[p].span = desc[p].span
        /\ Span(p)' = Span(p)
  <2> SUFFICES ASSUME NEW p \in Page, p \notin Gone
               PROVE  /\ desc'[p].kind = desc[p].kind /\ desc'[p].span = desc[p].span
                      /\ Span(p)' = Span(p)
    OBVIOUS
  <2>1. desc'[p].kind = desc[p].kind /\ desc'[p].span = desc[p].span
    <3>1. desc[p] \in Desc
      BY <1>1
    <3>2. desc'[p] = desc[p] \/ desc'[p] = [desc[p] EXCEPT !.gen = g]
      OBVIOUS
    <3>3. QED
      BY <3>1, <3>2 DEF Desc
  <2>2. QED
    BY <2>1 DEF Span
<1> SUFFICES ASSUME desc'[q].kind = "large" PROVE RunSound(q)'
  BY DEF RunSound
<1>3. q \notin Gone /\ desc[q].kind = "large"
  BY <1>2
<1>4. GenOf(q) # "Free"
  BY <1>1, <1>3 DEF PageSound
<1>5. PICK h \in Page : desc[h].span > 0 /\ q \in Span(h)
  BY <1>4, InRun
<1>6. h \notin Gone /\ desc[h].kind = "large"
  BY <1>3, <1>5, RunIs
<1>7. desc'[h].kind = "large" /\ q \in Span(h)'
  BY <1>2, <1>5, <1>6
<1>8. ASSUME desc'[q].span > 0, NEW p \in Span(q)' \ {q}
      PROVE  p \in Page /\ desc'[p] = [desc'[q] EXCEPT !.span = 0]
  <2>1. desc[q].span > 0 /\ p \in Span(q) \ {q}
    BY <1>2, <1>3, <1>8
  <2>2. p \in Page /\ desc[p] = [desc[q] EXCEPT !.span = 0]
    BY <1>1, <1>3, <2>1 DEF RunSound
  <2>3. p \notin Gone /\ ((p \in Moved) <=> (q \in Moved))
    BY <1>3, <2>1
  <2>4. CASE q \in Moved
    <3>1. /\ desc'[p] = [desc[p] EXCEPT !.gen = g]
          /\ desc'[q] = [desc[q] EXCEPT !.gen = g]
      BY <1>3, <2>2, <2>3, <2>4
    <3>2. PICK d \in Desc : d = desc[q] /\ desc[p] = [d EXCEPT !.span = 0]
      BY <1>1, <2>2
    <3>3. [[d EXCEPT !.span = 0] EXCEPT !.gen = g] = [[d EXCEPT !.gen = g] EXCEPT !.span = 0]
      BY <3>2 DEF Desc
    <3>4. QED
      BY <2>2, <3>1, <3>2, <3>3
  <2>5. CASE q \notin Moved
    BY <1>3, <2>2, <2>3, <2>5
  <2>6. QED
    BY <2>2, <2>4, <2>5
<1>9. QED
  BY <1>7, <1>8 DEF RunSound, Span

-----------------------------------------------------------------------------
(* Steps of a pass.                                                        *)

\* The early release takes all pages of a run or, where RunsListed holds after
\* it, none.
LEMMA EarlyRunsAreWhole ==
  ASSUME IInv, NEW live \in SUBSET Objects,
         NEW dropped, dropped = ZeroLive(live),
         \A h \in PagesIn("G0") \ dropped :
           desc[h].kind = "large" /\ desc[h].span > 0 => Span(h) \cap dropped = {},
         NEW h \in Page, desc[h].span > 0, NEW q \in Span(h)
  PROVE  (q \in dropped) <=> (h \in dropped)
<1>1. /\ h \in Span(h) /\ q \in Page /\ GenOf(q) = GenOf(h)
      /\ desc[q].kind = desc[h].kind
      /\ q # h => desc[q].span = 0
  BY RunIs
<1>2. CASE desc[h].kind # "large"
  <2>1. h \in Int /\ PageSound(h) /\ desc[h].kind \in Kind
    <3>1. PageSound(h)
      BY DEF IInv, TableSound
    <3>2. desc[h] \in Desc /\ h \in Int
      BY DEF IInv, TypeOK, Desc, Page
    <3>3. GenOf(h) # "Free"
      BY RunIs
    <3>4. QED
      BY <1>2, <3>1, <3>2, <3>3 DEF PageSound, Desc
  <2>2. desc[h].span = 1
    BY <2>1 DEF PageSound
  <2>3. QED
    BY <2>1, <2>2 DEF Span
<1>3. CASE desc[h].kind = "large"
  <2>1. ASSUME h \in dropped, q # h PROVE q \in dropped
    <3>1. q \in PagesIn("G0")
      BY <1>1, <2>1 DEF ZeroLive, PagesIn
    <3>2. \A i \in Offset : starts[q][i] = 0
      <4>1. PageSound(q) /\ desc[q].kind = "large" /\ desc[q].span = 0
        BY <1>1, <1>3, <2>1 DEF IInv, TableSound
      <4>2. QED
        BY <4>1 DEF PageSound
    <3>3. \A o \in Objects : o[1] # q
      BY <3>2 DEF Objects, StartAt
    <3>4. QED
      BY <3>1, <3>3 DEF ZeroLive
  <2>2. ASSUME q \in dropped PROVE h \in dropped
    <3>1. h \in PagesIn("G0")
      BY <1>1, <2>2 DEF ZeroLive, PagesIn
    <3>2. QED
      BY <1>3, <2>2, <3>1
  <2>3. QED
    BY <2>1, <2>2
<1>4. QED
  BY <1>2, <1>3

\* evacuate_with_roots up to its chunks, and the release of pages that seem dead
\* before it.
LEMMA BeginPassKeeps ==
  ASSUME IInv, NEW from \in Generation, NEW dest \in Generation,
         NEW early \in BOOLEAN, early => from = "G0",
         BeginPass(from, dest, early), RunsListed'
  PROVE  IInv' /\ Untouched
<1>1. PICK keep \in SUBSET ObjectsOf(PagesIn(from)),
           live \in SUBSET ObjectsOf(PagesIn(from)) :
        LET dropped == IF early THEN ZeroLive(keep \cup live) ELSE {} IN
        /\ pass = None
        /\ \A b \in Buffer : tlab[b] = EmptyTlab
        /\ pass' = [from |-> from, dest |-> dest,
                    rest |-> PagesIn(from) \ dropped, chunk |-> {},
                    keep |-> keep, copy |-> {o \in live : ~LargeObject(o)}]
        /\ desc' = [p \in Page |-> IF p \in dropped THEN FreeDesc(FALSE) ELSE desc[p]]
        /\ freeList' = freeList \o Ascending(dropped)
        /\ region' = [r \in Region |-> IF r[1] = from THEN NoPage ELSE region[r]]
        /\ UNCHANGED <<committed, starts, body, tlab, poisoned>>
  BY DEF BeginPass, memoryVars
<1>2. PICK dropped, rest, copy :
        /\ dropped = IF early THEN ZeroLive(keep \cup live) ELSE {}
        /\ rest = PagesIn(from) \ dropped
        /\ copy = {o \in live : ~LargeObject(o)}
  OBVIOUS
<1>3. /\ \A b \in Buffer : tlab[b] = EmptyTlab
      /\ pass' = [from |-> from, dest |-> dest, rest |-> rest, chunk |-> {},
                  keep |-> keep, copy |-> copy]
      /\ desc' = [p \in Page |-> IF p \in dropped THEN FreeDesc(FALSE) ELSE desc[p]]
      /\ freeList' = freeList \o Ascending(dropped)
      /\ region' = [r \in Region |-> IF r[1] = from THEN NoPage ELSE region[r]]
      /\ UNCHANGED <<committed, starts, body, tlab, poisoned>>
  BY <1>1, <1>2
<1>4. /\ keep \subseteq Objects /\ copy \subseteq Objects
      /\ \A o \in keep : o[1] \in PagesIn(from) \ dropped
      /\ dropped \subseteq PagesIn(from) /\ dropped \subseteq Page /\ rest \subseteq Page
  BY <1>2 DEF ObjectsOf, PagesIn, ZeroLive
<1>5. /\ desc \in [Page -> Desc] /\ freeList \in Seq(Page)
      /\ region \in [Region -> RegionDesc]
  BY DEF IInv, TypeOK, Desc
<1>6. /\ \A p \in Page : p \in dropped => desc'[p] = FreeDesc(FALSE)
      /\ \A p \in Page : p \notin dropped => desc'[p] = desc[p]
      /\ desc' \in [Page -> Desc]
  <2>1. FreeDesc(FALSE) \in Desc
    BY TlabsAssumption DEF FreeDesc, Desc
  <2>2. QED
    BY <1>3, <1>5, <2>1
<1>7. freeList' \in Seq(Page)
  <2>1. dropped \in SUBSET Int /\ IsFiniteSet(dropped)
    BY <1>4, PagesAreFinite
  <2>2. Ascending(dropped) \in Seq(Page)
    BY <1>4, <2>1, AscendingLists
  <2>3. QED
    BY <1>3, <1>5, <2>2
<1>8. /\ \A r \in Region : region'[r] = IF r[1] = from THEN NoPage ELSE region[r]
      /\ region' \in [Region -> RegionDesc]
  <2>1. NoPage \in RegionDesc
    BY TlabsAssumption DEF NoPage, RegionDesc
  <2>2. QED
    BY <1>3, <1>5, <2>1
<1>9. pass' \in Pass
  <2>1. keep \subseteq Page \X Offset /\ copy \subseteq Page \X Offset
    BY <1>4 DEF Objects
  <2>2. QED
    BY <1>3, <1>4, <2>1 DEF Pass
<1>10. TypeOK'
  BY <1>3, <1>6, <1>7, <1>8, <1>9 DEF IInv, TypeOK, Desc, Pass
<1>11. \A p : Reserved(p)' = {}
  BY <1>3 DEF Reserved, Held, EmptyTlab
<1>12. ASSUME NEW p \in Page PROVE PageSound(p)'
  <2>1. CASE p \in dropped
    BY <1>6, <1>11, <2>1 DEF PageSound, GenOf, FreeDesc, Kind
  <2>2. CASE p \notin dropped
    BY <1>3, <1>6, <1>11, <2>2, PageStays DEF IInv, TableSound
  <2>3. QED
    BY <2>1, <2>2
<1>13. ASSUME NEW p \in Page PROVE RunSound(p)'
  <2>1. ASSUME NEW h \in Page, desc[h].span > 0, NEW q \in Span(h)
        PROVE  (q \in dropped) <=> (h \in dropped)
    <3>1. CASE early
      <4>1. dropped = ZeroLive(keep \cup live) /\ keep \cup live \in SUBSET Objects
        BY <1>2, <3>1 DEF ObjectsOf
      <4>2. ASSUME NEW k \in PagesIn("G0") \ dropped,
                   desc[k].kind = "large", desc[k].span > 0
            PROVE  Span(k) \cap dropped = {}
        <5>1. k \in rest /\ k \in Page /\ k \notin dropped
          BY <1>2, <3>1, <4>2 DEF PagesIn
        <5>2. pass' # None /\ pass'.rest = rest
          <6>1. pass'.rest = rest
            BY <1>3
          <6>2. QED
            BY <1>9, <6>1, TlabsAssumption
        <5>3. LargeHead(k)' /\ RunOf(k)' = RunOf(k)
          BY <1>6, <4>2, <5>1 DEF LargeHead, RunOf
        <5>4. RunOf(k) \subseteq rest
          BY <5>1, <5>2, <5>3 DEF RunsListed
        <5>5. Span(k) \subseteq rest
          BY <4>2, <5>1, <5>4, RunIs
        <5>6. QED
          BY <1>2, <5>5
      <4>3. QED
        BY <2>1, <4>1, <4>2, EarlyRunsAreWhole
    <3>2. CASE ~early
      BY <1>2, <3>2
    <3>3. QED
      BY <3>1, <3>2
  <2>2. \A q \in Page : q \in dropped => desc'[q].kind # "large"
    BY <1>6 DEF FreeDesc
  <2>3. QED
    BY <1>6, <2>1, <2>2, RunsKept
<1>14. ASSUME NEW r \in Region, region'[r].page # None
       PROVE  /\ r[1] # from /\ region'[r] = region[r]
              /\ region[r].page \in Page /\ GenOf(region[r].page) = r[1]
              /\ desc'[region[r].page] = desc[region[r].page]
  <2>1. r[1] # from /\ region'[r] = region[r]
    BY <1>8, <1>14 DEF NoPage
  <2>2. region[r].page \in Page /\ GenOf(region[r].page) = r[1]
    BY <1>5, <1>14, <2>1 DEF RegionDesc, IInv, TableSound, RegionSound
  <2>3. region[r].page \notin dropped
    BY <1>4, <2>1, <2>2 DEF PagesIn
  <2>4. QED
    BY <1>6, <2>1, <2>2, <2>3
<1>15. ASSUME NEW r \in Region PROVE RegionSound(r)'
  BY <1>14 DEF RegionSound, IInv, TableSound, GenOf
<1>16. BuffersSound'
  BY <1>3 DEF IInv, BuffersSound, Held
<1>17. PassSound'
  <2>1. /\ pass'.from = from /\ pass'.rest = rest /\ pass'.chunk = {}
        /\ pass'.keep = keep
    BY <1>3
  <2>2. ASSUME NEW r \in Region PROVE region'[r].page \notin rest
    <3>1. None \notin rest
      <4>1. None \notin Page
        BY TlabsAssumption DEF Page
      <4>2. QED
        BY <1>4, <4>1
    <3>2. region'[r].page # None => region'[r].page \notin rest
      BY <1>2, <1>14 DEF PagesIn
    <3>3. QED
      BY <3>1, <3>2
  <2>3. \A p \in rest : GenOf(p)' = from /\ GenOf(p)' # "Free"
    BY <1>2, <1>6 DEF PagesIn, GenOf, Generation
  <2>4. ASSUME NEW o \in keep PROVE o \in Objects'
    <3>1. o \in Page \X Offset /\ StartAt(o[1], o[2]) /\ desc'[o[1]] = desc[o[1]]
      BY <1>4, <1>6 DEF Objects, PagesIn
    <3>2. QED
      BY <1>3, <3>1 DEF Objects, StartAt, GenOf
  <2>5. (Sources = {})' /\ RunsUncut'
    BY <2>1 DEF Sources, RunsUncut
  <2>6. QED
    BY <1>3, <1>9, <2>1, <2>2, <2>3, <2>4, <2>5 DEF PassSound
<1>18. Untouched
  BY <1>3 DEF Untouched
<1>19. QED
  BY <1>10, <1>12, <1>13, <1>15, <1>16, <1>17, <1>18 DEF IInv, TableSound

\* A step that only changes pass leaves the table and the objects alone.
LEMMA PassStepKeeps ==
  ASSUME IInv, UNCHANGED <<desc, freeList, region, committed, starts, body, tlab>>,
         pass' \in {None} \cup Pass, poisoned' \in BOOLEAN, PassSound'
  PROVE  IInv' /\ Untouched
<1>1. TypeOK'
  BY DEF IInv, TypeOK, Pass
<1>2. ASSUME NEW p \in Page PROVE PageSound(p)'
  <2>1. Reserved(p)' = Reserved(p)
    BY DEF Reserved, Held
  <2>2. QED
    BY <2>1, PageStays DEF IInv, TableSound
<1>3. BuffersSound' /\ Untouched
  BY DEF IInv, BuffersSound, Held, Untouched
<1>4. QED
  BY <1>1, <1>2, <1>3, SameTable DEF IInv, TableSound

\* The pages of the next chunk are in use, and no run of theirs is cut.
LEMMA PickChunkKeeps ==
  ASSUME IInv, PickChunk, RunsUncut'
  PROVE  IInv' /\ Untouched
<1>1. PICK chunk \in SUBSET pass.rest :
        /\ pass' = [pass EXCEPT !.rest = @ \ chunk, !.chunk = chunk]
        /\ UNCHANGED <<desc, freeList, region, committed, starts, body, tlab, poisoned>>
        /\ pass # None /\ pass.chunk = {}
  BY DEF PickChunk, tableVars, memoryVars
<1>2. pass \in Pass /\ PassSound
  BY <1>1 DEF IInv, PassSound
<1>3. /\ pass' \in Pass /\ pass'.rest = pass.rest \ chunk /\ pass'.chunk = chunk
      /\ pass'.from = pass.from /\ pass'.keep = pass.keep
  BY <1>1, <1>2 DEF Pass
<1>4. Objects' = Objects
  BY <1>1 DEF Objects, StartAt, GenOf
<1>5. (CopiesLater' \/ Sources' # {}) => CopiesLater
  <2>1. pass'.copy = pass.copy
    BY <1>1, <1>2 DEF Pass
  <2>2. QED
    BY <1>3, <2>1 DEF CopiesLater, Sources
<1>6. PassSound'
  <2>1. CopiesLater => \A p \in pass.rest : GenOf(p)' # "Free"
    BY <1>1, <1>2 DEF PassSound, GenOf
  <2>2. \A p \in pass'.rest \cup pass'.chunk : p \in pass.rest /\ desc'[p] = desc[p]
    BY <1>1, <1>3
  <2>3. QED
    BY <1>1, <1>2, <1>3, <1>4, <1>5, <2>1, <2>2 DEF PassSound, GenOf
<1>7. QED
  BY <1>1, <1>3, <1>6, PassStepKeeps DEF IInv, TypeOK

\* A copy without a place poisons the heap.
LEMMA MidEvacOomKeeps ==
  ASSUME IInv, MidEvacOom
  PROVE  IInv' /\ Untouched
BY PassStepKeeps DEF MidEvacOom, PassSound, tableVars, memoryVars

\* A page that cannot be committed is off the free list, and that is all.
LEMMA RefusalKeeps ==
  ASSUME IInv, Refusal
  PROVE  IInv' /\ Untouched
<1>1. ASSUME NEW r, NEW n, CommitRefused(r, n), UNCHANGED tlab,
             pass' \in {pass, None}, poisoned' \in BOOLEAN
      PROVE  IInv' /\ Untouched
  <2>1. /\ UNCHANGED <<desc, region, committed, starts, body, tlab>>
        /\ freeList' = AfterPop /\ PagesIn("Free") # {}
    BY <1>1 DEF CommitRefused, memoryVars
  <2>2. freeList' \in Seq(Page)
    BY <2>1, AcquiresFree DEF IInv
  <2>3. TypeOK'
    BY <1>1, <2>1, <2>2 DEF IInv, TypeOK
  <2>4. ASSUME NEW p \in Page PROVE PageSound(p)'
    <3>1. Reserved(p)' = Reserved(p)
      BY <2>1 DEF Reserved, Held
    <3>2. QED
      BY <2>1, <3>1, PageStays DEF IInv, TableSound
  <2>5. ASSUME NEW p \in Page PROVE RunSound(p)'
    BY <2>1 DEF IInv, TableSound, RunSound, Span
  <2>6. ASSUME NEW q \in Region PROVE RegionSound(q)'
    BY <2>1 DEF IInv, TableSound, RegionSound, GenOf
  <2>7. BuffersSound' /\ Untouched
    BY <2>1 DEF IInv, BuffersSound, Held, Untouched
  <2>8. PassSound'
    <3>1. CASE pass' = None
      BY <3>1 DEF PassSound
    <3>2. CASE pass' = pass
      BY <2>1, <3>2 DEF IInv, PassSound, Objects, StartAt, GenOf, LargeObject,
                        Sources, RunsUncut, CopiesLater, LargeHead, HasPins, RunOf
    <3>3. QED
      BY <1>1, <3>1, <3>2
  <2>9. QED
    BY <2>3, <2>4, <2>5, <2>6, <2>7, <2>8 DEF IInv, TableSound
<1>2. poisoned \in BOOLEAN
  BY DEF IInv, TypeOK
<1>3. ASSUME NEW m, NEW r, AllocMissRefused(m, r) PROVE IInv' /\ Untouched
  BY <1>1, <1>2, <1>3 DEF AllocMissRefused
<1>4. ASSUME NEW m, TakeSlabRefused(m) PROVE IInv' /\ Untouched
  BY <1>1, <1>2, <1>4 DEF TakeSlabRefused
<1>5. ASSUME NEW n \in LargeSpans, AllocLargeRefused(n, 0) PROVE IInv' /\ Untouched
  <2>1. PICK p : p = Least(FreeRuns(n)) /\ FreeRuns(n) # {} /\ Claimed(p, n, 0)
    BY <1>5 DEF AllocLargeRefused
  <2>2. p \in Int /\ n # 0
    BY <2>1, FreeRunIs, TlabsAssumption DEF IInv, Page
  <2>3. p .. p + 0 - 1 = {}
    BY <2>2
  <2>4. /\ desc \in [Page -> Desc] /\ starts \in [Page -> StartBits]
        /\ body \in [Page -> Contents]
    BY DEF IInv, TypeOK, Desc, StartBits, Contents
  <2>5. UNCHANGED <<desc, starts, body, committed>>
    BY <2>1, <2>2, <2>3, <2>4 DEF Claimed
  <2>6. UNCHANGED <<freeList, region, tlab, pass, poisoned>>
    BY <2>1 DEF Claimed
  <2>7. PassSound'
    BY <2>5, <2>6 DEF IInv, PassSound, Objects, StartAt, GenOf, LargeObject,
                      Sources, RunsUncut, CopiesLater, LargeHead, HasPins, RunOf
  <2>8. pass' \in {None} \cup Pass /\ poisoned' \in BOOLEAN
    BY <2>6 DEF IInv, TypeOK, Pass
  <2>9. QED
    BY <2>5, <2>6, <2>7, <2>8, PassStepKeeps
<1>6. ASSUME CopyRefused PROVE IInv' /\ Untouched
  BY <1>1, <1>6 DEF CopyRefused
<1>7. QED
  BY <1>3, <1>4, <1>5, <1>6 DEF Refusal

\* When all chunks are done the pass is over.
LEMMA EndPassKeeps ==
  ASSUME IInv, EndPass
  PROVE  IInv' /\ Untouched
BY PassStepKeeps DEF EndPass, PassSound, IInv, TypeOK, tableVars, memoryVars

\* The cells of an object are on its page, below words_used, and no buffer's.
LEMMA ExtentIs ==
  ASSUME IInv, NEW o \in Objects
  PROVE  /\ o[2] \in Extent(o[1], o[2])
         /\ \A i \in Extent(o[1], o[2]) :
              i \in Offset /\ i < desc[o[1]].used /\ i \notin Reserved(o[1])
<1>1. PICK p, k, n : p = o[1] /\ k = o[2] /\ n = SizeAt(p, k)
  OBVIOUS
<1>2. /\ p \in Page /\ k \in Offset /\ starts[p][k] \in {1, 3}
      /\ desc[p].kind \in Kind \cup {"large"}
      /\ desc[p].kind = "large" => k = 0
  BY <1>1, ObjectIs
<1>3. PageSound(p) /\ desc[p] \in Desc /\ body[p] \in Contents /\ starts[p] \in StartBits
  BY <1>2 DEF IInv, TableSound, TypeOK, Desc, Contents, StartBits
<1>4. /\ PageCells \in Nat \ {0} /\ k \in Int /\ k >= 0
      /\ desc[p].used \in 0 .. PageCells
  BY <1>2, <1>3, TlabsAssumption DEF Offset, Desc
<1>5. CASE desc[p].kind = "large"
  <2>1. n = PageCells /\ k = 0 /\ desc[p].used = PageCells /\ Reserved(p) = {}
    BY <1>1, <1>2, <1>3, <1>5 DEF SizeAt, PageSound, Kind
  <2>2. QED
    BY <1>1, <1>4, <2>1 DEF Extent, Offset
<1>6. CASE desc[p].kind # "large"
  <2>1. Sound(desc[p].used, starts[p], body[p], Reserved(p))
    BY <1>2, <1>3, <1>6 DEF PageSound
  <2>2. n = Cells(starts[p], body[p], k)
    BY <1>1, <1>6 DEF SizeAt, Cells
  <2>3. n \in Int
    BY <1>2, <1>3, <1>4, <2>2 DEF Cells, Contents
  <2>4. n >= 1 /\ k + n <= desc[p].used
    BY <1>2, <2>1, <2>2 DEF Sound
  <2>5. \A j \in Reserved(p) : j \in Int /\ (j < k \/ k + n <= j)
    <3>1. \A j \in Reserved(p) : j < k \/ k + n <= j
      BY <1>2, <2>1, <2>2 DEF Sound
    <3>2. Reserved(p) \subseteq Int
      BY DEF Reserved, Offset
    <3>3. QED
      BY <3>1, <3>2
  <2>6. ASSUME NEW i \in k .. k + n - 1
        PROVE  i \in Offset /\ i < desc[p].used /\ i \notin Reserved(p)
    BY <1>4, <2>3, <2>4, <2>5 DEF Offset
  <2>7. Extent(p, k) = k .. k + n - 1 /\ k \in k .. k + n - 1
    BY <1>1, <1>4, <2>3, <2>4 DEF Extent
  <2>8. QED
    BY <1>1, <2>6, <2>7
<1>7. QED
  BY <1>5, <1>6

\* The copies are made in the order of their addresses.
LEMMA NextCopyIs ==
  ASSUME Sources # {}
  PROVE  NextCopy \in Sources
<1>1. PICK C : C = Sources
  OBVIOUS
<1>2. C \subseteq Page \X Offset
  BY <1>1 DEF Sources, Objects
<1>3. PICK P : P = {o[1] : o \in C}
  OBVIOUS
<1>4. P \in SUBSET Page /\ P # {}
  BY <1>1, <1>2, <1>3
<1>5. PICK p : p = Least(P)
  OBVIOUS
<1>6. p \in P /\ \A q \in P : p <= q
  <2>1. P \in SUBSET Int /\ IsFiniteSet(P)
    BY <1>4, PagesAreFinite
  <2>2. QED
    BY <1>4, <1>5, <2>1, LeastIs
<1>7. PICK I : I = {i \in Offset : <<p, i>> \in C}
  OBVIOUS
<1>8. I \in SUBSET Int /\ IsFiniteSet(I) /\ I # {}
  <2>1. IsFiniteSet(Offset) /\ Offset \subseteq Int
    <3>1. 0 \in Int /\ PageCells - 1 \in Int
      BY TlabsAssumption
    <3>2. QED
      BY <3>1, FS_Interval DEF Offset
  <2>2. IsFiniteSet(I) /\ I \in SUBSET Int
    BY <1>7, <2>1, FS_Subset
  <2>3. PICK o \in C : o[1] = p
    BY <1>3, <1>6
  <2>4. o = <<p, o[2]>> /\ o[2] \in Offset
    BY <1>2, <2>3, PairIs
  <2>5. QED
    BY <1>7, <2>2, <2>3, <2>4
<1>9. PICK i : i = Least(I)
  OBVIOUS
<1>10. i \in I /\ \A j \in I : i <= j
  BY <1>8, <1>9, LeastIs
<1>11. <<p, i>> \in C /\ p \in Int /\ P \subseteq Int
  BY <1>4, <1>6, <1>7, <1>10, PagesAreFinite
<1>12. ASSUME NEW q \in C PROVE p < q[1] \/ (p = q[1] /\ i <= q[2])
  <2>1. q = <<q[1], q[2]>> /\ q[2] \in Offset /\ q[1] \in P /\ q[1] \in Int
    BY <1>2, <1>3, <1>11, PairIs
  <2>2. p <= q[1]
    BY <1>6, <2>1
  <2>3. p = q[1] => i <= q[2]
    BY <1>7, <1>10, <2>1
  <2>4. QED
    BY <1>11, <2>1, <2>2, <2>3
<1>13. PICK first \in C : first[1] = p /\ first[2] = i
  BY <1>11
<1>14. \A q \in C : first[1] < q[1] \/ (first[1] = q[1] /\ first[2] <= q[2])
  BY <1>12, <1>13
<1>15. QED
  BY <1>1, <1>14 DEF NextCopy

\* The size and start bits of a small object are fit to be allocated again.
LEMMA CopyFits ==
  ASSUME IInv, pass # None, NEW o \in Sources
  PROVE  /\ SizeAt(o[1], o[2]) \in 1 .. PageCells
         /\ starts[o[1]][o[2]] \in {1, 3}
         /\ starts[o[1]][o[2]] = 3 => SizeAt(o[1], o[2]) = 2
         /\ CopyRegion(o) \in Region
<1>1. PICK p, i : p = o[1] /\ i = o[2]
  OBVIOUS
<1>2. o \in Objects /\ desc[o[1]].kind # "large" /\ pass.dest \in Generation
  BY DEF IInv, PassSound, Sources, LargeObject, Pass
<1>3. /\ p \in Page /\ i \in Offset /\ starts[p][i] \in {1, 3}
      /\ desc[p].kind \in Kind
  BY <1>1, <1>2, ObjectIs
<1>4. /\ Sound(desc[p].used, starts[p], body[p], Reserved(p))
      /\ desc \in [Page -> Desc] /\ body[p] \in Contents
  BY <1>3 DEF IInv, TableSound, PageSound, TypeOK, Desc, Contents
<1>5. SizeAt(p, i) = Cells(starts[p], body[p], i)
  BY <1>1, <1>2 DEF SizeAt, Cells
<1>6. /\ desc[p].used \in 0 .. PageCells /\ PageCells \in Nat /\ i \in Int /\ i >= 0
      /\ Cells(starts[p], body[p], i) \in Int
  BY <1>3, <1>4, TlabsAssumption DEF Desc, Offset, Contents, Cells
<1>7. /\ Cells(starts[p], body[p], i) >= 1
      /\ i + Cells(starts[p], body[p], i) <= desc[p].used
  BY <1>3, <1>4 DEF Sound
<1>8. SizeAt(p, i) \in 1 .. PageCells
  BY <1>5, <1>6, <1>7
<1>9. starts[p][i] = 3 => SizeAt(p, i) = 2
  BY <1>5 DEF Cells
<1>10. CopyRegion(o) \in Region
  BY <1>2 DEF CopyRegion, Region, Kind
<1>11. QED
  BY <1>1, <1>3, <1>8, <1>9, <1>10

\* An object is copied to where the destination generation has room.
LEMMA CopyObjectKeeps ==
  ASSUME IInv, CopyObject
  PROVE  IInv' /\ Untouched
<1>1. PICK o, r, n, pair :
        /\ o = NextCopy /\ r = CopyRegion(o) /\ n = SizeAt(o[1], o[2])
        /\ pair = starts[o[1]][o[2]]
  OBVIOUS
<1>2. /\ pass # None /\ o \in Sources /\ Sources # {}
      /\ RegionAlloc(r, n, pair)
      /\ pass' = [pass EXCEPT !.copy = @ \ {o}]
      /\ UNCHANGED <<tlab, poisoned>>
  BY <1>1, NextCopyIs DEF CopyObject
<1>3. r \in Region /\ n \in 1 .. PageCells /\ pair \in {1, 3} /\ (pair = 3 => n = 2)
  BY <1>1, <1>2, CopyFits
<1>4. PICK p, at : p = PageFor(r, n) /\ at = OffsetFor(r, n)
  OBVIOUS
<1>5. Carve(r, n, n) /\ (Fits(r, n) \/ PagesIn("Free") # {})
  BY <1>2 DEF RegionAlloc, Carve
<1>6. /\ p \in Page /\ at \in 0 .. PageCells
      /\ \A t \in Region \ {r} : region[t].page # p
      /\ GenOf(p) = "Free" \/ (Fits(r, n) /\ desc[p].used = at)
      /\ p \notin pass.rest \cup pass.chunk
  BY <1>2, <1>3, <1>4, <1>5, CarvePlace
<1>7. /\ n \in n .. PageCells /\ n \in Int /\ at \in Int /\ PageCells \in Nat
      /\ at + n <= PageCells
  <2>1. n \in n .. PageCells /\ n \in Int /\ at \in Int /\ PageCells \in Nat
    BY <1>3, <1>6, TlabsAssumption
  <2>2. Fits(r, n) => at + n <= PageCells
    BY <1>4 DEF Fits, OffsetFor
  <2>3. ~Fits(r, n) => at = 0
    BY <1>4 DEF OffsetFor
  <2>4. QED
    BY <1>3, <2>1, <2>2, <2>3
<1>8. Written(r, n, n, pair) /\ OffsetFor(r, n) + n <= PageCells
  BY <1>2, <1>4, <1>7 DEF RegionAlloc, Written
<1>9. /\ starts' \in [Page -> StartBits] /\ body' \in [Page -> Contents]
      /\ \A q \in Page \ {p} : starts'[q] = starts[q] /\ body'[q] = body[q]
      /\ \A T : T \subseteq Reserved(p) \cup at + n .. at + n - 1 =>
           Sound(at + n, starts'[p], body'[p], T)
      /\ GenOf(p) # "Free" => \A i \in Offset : i < at =>
           starts'[p][i] = starts[p][i] /\ body'[p][i] = body[p][i]
  <2>1. PICK slab : slab = n
    OBVIOUS
  <2>2. slab \in n .. PageCells /\ Written(r, n, slab, pair) /\ IInv
    BY <1>7, <1>8, <2>1
  <2>3. /\ starts' \in [Page -> StartBits] /\ body' \in [Page -> Contents]
        /\ \A q \in Page \ {p} : starts'[q] = starts[q] /\ body'[q] = body[q]
        /\ \A T : T \subseteq Reserved(p) \cup at + n .. at + slab - 1 =>
             Sound(at + slab, starts'[p], body'[p], T)
        /\ GenOf(p) # "Free" => \A i \in Offset : i < at =>
             starts'[p][i] = starts[p][i] /\ body'[p][i] = body[p][i]
    BY <1>3, <1>4, <2>2, CarveWrites
  <2>4. QED
    BY <2>1, <2>3
<1>10. /\ desc' = [desc EXCEPT ![p] = SmallDesc(r, at + n)]
       /\ desc' \in [Page -> Desc] /\ freeList' \in Seq(Page)
       /\ region' \in [Region -> RegionDesc]
       /\ committed' = committed \cup {p} /\ committed' \subseteq Page
       /\ \A t \in Region : RegionSound(t)'
       /\ \A t \in Region : region'[t].page \in {p, region[t].page}
       /\ \A q \in Page : RunSound(q)'
  BY <1>3, <1>4, <1>5, <1>7, <1>8, CarveKeeps
<1>11. desc \in [Page -> Desc]
  BY DEF IInv, TypeOK, Desc
<1>12. /\ desc'[p] = SmallDesc(r, at + n)
       /\ \A q \in Page \ {p} : desc'[q] = desc[q]
  BY <1>6, <1>10, <1>11
<1>13. /\ pass \in Pass /\ pass' \in Pass
       /\ pass'.rest = pass.rest /\ pass'.chunk = pass.chunk
       /\ pass'.from = pass.from /\ pass'.keep = pass.keep
  <2>1. pass \in Pass
    BY <1>2 DEF IInv, PassSound
  <2>2. QED
    BY <1>2, <2>1 DEF Pass
<1>14. \A b \in Buffer : tlab[b] = EmptyTlab /\ tlab'[b] = EmptyTlab
  BY <1>2 DEF IInv, PassSound
<1>15. \A q : Reserved(q) = {} /\ Reserved(q)' = {}
  BY <1>14 DEF Reserved, Held, EmptyTlab
<1>16. ASSUME NEW q \in Page PROVE PageSound(q)'
  <2>1. CASE q = p
    <3>1. Sound(at + n, starts'[p], body'[p], Reserved(p)')
      BY <1>9, <1>15
    <3>2. r[1] \in Generation /\ r[2] \in Kind
      BY <1>3, PairIs DEF Region
    <3>3. QED
      BY <1>10, <1>12, <2>1, <3>1, <3>2 DEF PageSound, GenOf, SmallDesc, Generation, Kind
  <2>2. CASE q # p
    <3>1. PageSound(q) /\ Reserved(q)' \subseteq Reserved(q)
      BY <1>15 DEF IInv, TableSound
    <3>2. /\ desc'[q] = desc[q] /\ (q \in committed => q \in committed')
          /\ starts'[q] = starts[q] /\ body'[q] = body[q]
      BY <1>9, <1>10, <1>12, <2>2
    <3>3. QED
      BY <3>1, <3>2, PageStays
  <2>3. QED
    BY <2>1, <2>2
<1>17. BuffersSound'
  BY <1>2 DEF IInv, BuffersSound, Held
<1>18. PassSound'
  <2>1. PICK pages : pages = pass.rest \cup pass.chunk
    OBVIOUS
  <2>2. /\ pages \subseteq Page /\ p \notin pages
        /\ \A t \in Region : region[t].page \notin pages
        /\ \A q \in pages : GenOf(q) # "Free"
        /\ \A q \in pages : desc[q].span > 0 => GenOf(q) = pass.from
        /\ pass.rest \cap pass.chunk = {} /\ pass.keep \subseteq Objects /\ RunsUncut
    BY <1>2, <1>6, <1>13, <2>1 DEF IInv, PassSound, Pass
  <2>3. \A q \in pages : desc'[q] = desc[q]
    BY <1>12, <2>2
  <2>4. \A t \in Region : region'[t].page \notin pages
    BY <1>10, <2>2
  <2>5. ASSUME NEW q \in pass.keep PROVE q \in Objects'
    <3>1. /\ q \in Objects /\ q[1] \in Page /\ q[2] \in Offset /\ q \in Page \X Offset
          /\ GenOf(q[1]) # "Free" /\ starts[q[1]][q[2]] # 0
      BY <2>2, ObjectIs
    <3>2. q[2] < desc[q[1]].used
      BY <3>1, ExtentIs
    <3>3. /\ GenOf(q[1])' # "Free"
          /\ starts'[q[1]][q[2]] = starts[q[1]][q[2]]
      <4>1. CASE q[1] = p
        <5>1. GenOf(p)' = r[1] /\ r[1] # "Free"
          BY <1>3, <1>12, PairIs DEF GenOf, SmallDesc, Region, Generation
        <5>2. QED
          BY <1>6, <1>9, <3>1, <3>2, <4>1, <5>1
      <4>2. CASE q[1] # p
        BY <1>9, <1>12, <3>1, <4>2 DEF GenOf
      <4>3. QED
        BY <4>1, <4>2
    <3>4. QED
      BY <3>1, <3>3 DEF Objects, StartAt
  <2>6. RunsUncut'
    BY <1>2, <1>13, <2>1, <2>2, <2>3 DEF RunsUncut, CopiesLater, LargeHead, HasPins, RunOf
  <2>7. QED
    BY <1>13, <1>14, <2>1, <2>2, <2>3, <2>4, <2>5, <2>6 DEF PassSound, GenOf
<1>19. Untouched
  BY <1>6, <1>9 DEF Untouched
<1>20. TypeOK'
  BY <1>2, <1>9, <1>10, <1>13 DEF IInv, TypeOK, Desc, StartBits, Contents, Pass
<1>21. QED
  BY <1>10, <1>20, <1>16, <1>17, <1>18, <1>19 DEF IInv, TableSound

\* Objects are wiped from a page no buffer is on.
LEMMA PruneIsSound ==
  ASSUME NEW used \in 0 .. PageCells,
         NEW s \in StartBits, NEW c \in Contents, Sound(used, s, c, {}),
         NEW s2, NEW c2,
         \A i \in Offset : s2[i] = 0 \/ (s2[i] = s[i] /\ c2[i] = c[i]),
         \A i \in Offset : c2[i] = 0 \/ c2[i] = c[i]
  PROVE  Sound(used, s2, c2, {})
<1>1. \A i \in Offset : s2[i] # 0 => s[i] # 0 /\ Cells(s2, c2, i) = Cells(s, c, i)
  BY DEF Cells
<1>2. QED
  BY <1>1 DEF Sound

\* What ObjectsStay says of a step.
ObjectsKept ==
  \A o \in {q \in Objects : Staying(q)} :
    /\ starts'[o[1]][o[2]] = starts[o[1]][o[2]]
    /\ \A i \in Extent(o[1], o[2]) : body'[o[1]][i] = body[o[1]][i]

\* The page phase3_reclaim is at.
LEMMA ReclaimingIs ==
  ASSUME IInv, NEW p, Reclaiming(p)
  PROVE  /\ pass # None /\ pass \in Pass /\ p \in pass.chunk /\ p \in Page
         /\ Sources = {}
         /\ pass'.from = pass.from /\ pass'.rest = pass.rest
         /\ pass'.chunk = pass.chunk \ {p} /\ pass'.keep = pass.keep
         /\ pass'.copy = {o \in pass.copy : o[1] \in pass.rest}
         /\ pass' \in Pass
         /\ UNCHANGED <<region, tlab, poisoned>>
<1>1. /\ pass # None /\ pass.chunk # {} /\ p = Least(pass.chunk) /\ Sources = {}
      /\ pass' = [pass EXCEPT !.chunk = @ \ {p},
                              !.copy = {o \in @ : o[1] \in pass.rest}]
      /\ UNCHANGED <<region, tlab, poisoned>>
  BY DEF Reclaiming
<1>2. pass \in Pass
  BY <1>1 DEF IInv, PassSound
<1>3. p \in pass.chunk /\ p \in Page
  <2>1. pass.chunk \in SUBSET Page
    BY <1>2 DEF Pass
  <2>2. pass.chunk \in SUBSET Int /\ IsFiniteSet(pass.chunk)
    BY <2>1, PagesAreFinite
  <2>3. p \in pass.chunk
    BY <1>1, <2>2, LeastIs
  <2>4. QED
    BY <2>1, <2>3
<1>4. /\ pass'.from = pass.from /\ pass'.rest = pass.rest
      /\ pass'.chunk = pass.chunk \ {p} /\ pass'.keep = pass.keep
      /\ pass'.copy = {o \in pass.copy : o[1] \in pass.rest}
      /\ pass' \in Pass
  BY <1>1, <1>2 DEF Pass
<1>5. QED
  BY <1>1, <1>2, <1>3, <1>4

\* What the pass has left is sound after a page is reclaimed that changes at most
\* the pages of the run it heads.
LEMMA ReclaimedPass ==
  ASSUME IInv, NEW p, Reclaiming(p),
         CopiesLater => \A q \in pass.rest : GenOf(q)' # "Free",
         \A q \in Page \ {p} : desc'[q].span > 0 =>
           /\ desc'[q].kind = desc[q].kind /\ desc'[q].span = desc[q].span
           /\ GenOf(q)' = GenOf(q),
         pass.keep \subseteq Objects'
  PROVE  PassSound'
<1>1. /\ pass # None /\ p \in pass.chunk /\ p \in Page
      /\ pass'.from = pass.from /\ pass'.rest = pass.rest
      /\ pass'.chunk = pass.chunk \ {p} /\ pass'.keep = pass.keep
      /\ pass'.copy = {o \in pass.copy : o[1] \in pass.rest}
      /\ pass' \in Pass /\ pass \in Pass
      /\ UNCHANGED <<region, tlab, poisoned>>
  BY ReclaimingIs
<1>2. /\ \A b \in Buffer : tlab[b] = EmptyTlab
      /\ pass.rest \cap pass.chunk = {}
      /\ \A r \in Region : region[r].page \notin pass.rest \cup pass.chunk
      /\ \A q \in pass.rest \cup pass.chunk : desc[q].span > 0 => GenOf(q) = pass.from
      /\ RunsUncut
  BY <1>1 DEF IInv, PassSound
<1>3. Sources' = {}
  BY <1>1, <1>2 DEF Sources
<1>4. \A q \in pass.rest \cup (pass.chunk \ {p}) : q \in Page \ {p}
  BY <1>1, <1>2 DEF Pass
<1>5. \A q \in pass.rest \cup (pass.chunk \ {p}) :
        desc'[q].span > 0 => GenOf(q)' = pass.from
  BY <1>2, <1>4
<1>6. CopiesLater' => CopiesLater
  BY <1>1 DEF CopiesLater
<1>7. RunsUncut'
  <2> SUFFICES ASSUME NEW q \in pass.chunk \ {p}, LargeHead(q)', ~HasPins(q)',
                      CopiesLater
               PROVE  RunOf(q)' \cap pass.rest = {}
    BY <1>1, <1>6 DEF RunsUncut
  <2>1. desc'[q].kind = desc[q].kind /\ desc'[q].span = desc[q].span
    BY <1>4 DEF LargeHead
  <2>2. LargeHead(q) /\ ~HasPins(q) /\ RunOf(q)' = RunOf(q)
    BY <1>1, <2>1 DEF LargeHead, HasPins, RunOf
  <2>3. QED
    BY <1>1, <1>2, <2>2 DEF RunsUncut
<1>8. QED
  BY <1>1, <1>2, <1>3, <1>5, <1>6, <1>7 DEF PassSound

\* Nothing of the page is in use, or a run the head of which decides about it.
LEMMA SkipPageKeeps ==
  ASSUME IInv, NEW p, SkipPage(p)
  PROVE  IInv' /\ Untouched
<1>1. /\ Reclaiming(p)
      /\ UNCHANGED <<desc, freeList, region, committed, starts, body, tlab, poisoned>>
      /\ pass # None /\ pass' \in Pass /\ pass \in Pass
  BY ReclaimingIs DEF SkipPage, memoryVars, Reclaiming
<1>2. Objects' = Objects
  BY <1>1 DEF Objects, StartAt, GenOf
<1>3. PassSound'
  <2>1. /\ pass.keep \subseteq Objects
        /\ CopiesLater => \A q \in pass.rest : GenOf(q) # "Free"
    BY <1>1 DEF IInv, PassSound
  <2>2. QED
    BY <1>1, <1>2, <2>1, ReclaimedPass DEF GenOf
<1>4. QED
  BY <1>1, <1>3, PassStepKeeps DEF IInv, TypeOK

\* A run is released whole, and nothing else; no pinned object was on it.
LEMMA ReleaseKeeps ==
  ASSUME IInv, NEW p, Reclaiming(p), desc[p].span > 0, ~HasPins(p),
         Release(Span(p)),
         committed' \subseteq committed,
         \A q \in committed \ Span(p) : q \in committed'
  PROVE  IInv' /\ ObjectsKept
<1>1. /\ pass # None /\ pass \in Pass /\ p \in pass.chunk /\ p \in Page
      /\ pass' \in Pass
      /\ UNCHANGED <<region, tlab, poisoned>>
  BY ReclaimingIs
<1>2. /\ pass.rest \cap pass.chunk = {} /\ pass.keep \subseteq Objects /\ RunsUncut
      /\ \A b \in Buffer : tlab[b] = EmptyTlab
      /\ \A r \in Region : region[r].page \notin pass.chunk
      /\ CopiesLater => \A q \in pass.rest : GenOf(q) # "Free"
      /\ GenOf(p) = pass.from
  BY <1>1 DEF IInv, PassSound
<1>3. /\ desc \in [Page -> Desc] /\ starts \in [Page -> StartBits]
      /\ body \in [Page -> Contents] /\ freeList \in Seq(Page)
      /\ region \in [Region -> RegionDesc] /\ committed \subseteq Page
      /\ \A q \in Page : PageSound(q)
  BY DEF IInv, TypeOK, Desc, StartBits, Contents, TableSound
<1>4. PICK gone : gone = Span(p)
  OBVIOUS
<1>5. /\ RunOf(p) = gone /\ p \in gone
      /\ \A q \in gone : q \in Page /\ (q # p => desc[q].span = 0)
  BY <1>1, <1>4, RunIs
<1>6. /\ \A q \in gone : /\ desc'[q] = FreeDesc(TRUE)
                         /\ starts'[q] = Blank /\ body'[q] = Blank
      /\ \A q \in Page : q \notin gone =>
           desc'[q] = desc[q] /\ starts'[q] = starts[q] /\ body'[q] = body[q]
      /\ desc' \in [Page -> Desc] /\ starts' \in [Page -> StartBits]
      /\ body' \in [Page -> Contents]
  <2>1. FreeDesc(TRUE) \in Desc
    BY TlabsAssumption DEF FreeDesc, Desc
  <2>2. /\ desc' = [q \in Page |-> IF q \in gone THEN FreeDesc(TRUE) ELSE desc[q]]
        /\ starts' = [q \in Page |-> IF q \in gone THEN Blank ELSE starts[q]]
        /\ body' = [q \in Page |-> IF q \in gone THEN Blank ELSE body[q]]
    BY <1>4 DEF Release, ReleasedBody
  <2>3. QED
    BY <1>3, <1>5, <2>1, <2>2, BlankIsSound
<1>7. freeList' \in Seq(Page)
  <2>1. gone \in SUBSET Page
    BY <1>5
  <2>2. gone \in SUBSET Int /\ IsFiniteSet(gone)
    BY <2>1, PagesAreFinite
  <2>3. Ascending(gone) \in Seq(Page)
    BY <2>1, <2>2, AscendingLists
  <2>4. QED
    BY <1>3, <1>4, <2>3 DEF Release
<1>8. TypeOK'
  BY <1>1, <1>3, <1>6, <1>7
     DEF IInv, TypeOK, Desc, StartBits, Contents, Pass
<1>9. \A q : Reserved(q) = {} /\ Reserved(q)' = {}
  BY <1>1, <1>2 DEF Reserved, Held, EmptyTlab
<1>10. ASSUME NEW q \in Page PROVE PageSound(q)'
  <2>1. CASE q \in gone
    BY <1>6, <1>9, <2>1 DEF PageSound, GenOf, FreeDesc, Kind
  <2>2. CASE q \notin gone
    <3>1. PageSound(q) /\ Reserved(q)' \subseteq Reserved(q)
      BY <1>3, <1>9
    <3>2. /\ desc'[q] = desc[q] /\ starts'[q] = starts[q] /\ body'[q] = body[q]
          /\ q \in committed => q \in committed'
      BY <1>4, <1>6, <2>2
    <3>3. QED
      BY <3>1, <3>2, PageStays
  <2>3. QED
    BY <2>1, <2>2
<1>11. ASSUME NEW q \in Page PROVE RunSound(q)'
  <2>1. \A h \in Page : desc[h].span > 0 => \A k \in Span(h) :
          (k \in gone) <=> (h \in gone)
    BY <1>1, <1>4, RunInRun
  <2>2. \A k \in Page : k \in gone => desc'[k].kind # "large"
    BY <1>6 DEF FreeDesc
  <2>3. QED
    BY <1>6, <2>1, <2>2, RunsKept
<1>12. ASSUME NEW r \in Region PROVE RegionSound(r)'
  <2> SUFFICES ASSUME region[r].page # None
               PROVE  desc'[region[r].page] = desc[region[r].page]
    BY <1>1 DEF RegionSound, IInv, TableSound, GenOf
  <2>1. PICK q : q = region[r].page
    OBVIOUS
  <2>2. q \in Page /\ desc[q].kind \in Kind
    <3>1. r[2] \in Kind
      BY PairIs DEF Region
    <3>2. QED
      BY <1>3, <2>1, <3>1 DEF RegionDesc, IInv, TableSound, RegionSound
  <2>3. desc[q].span = 1 /\ q # p
    BY <1>1, <1>2, <1>3, <2>1, <2>2 DEF PageSound
  <2>4. QED
    BY <1>5, <1>6, <2>1, <2>2, <2>3
<1>13. ASSUME NEW o \in Objects, o[1] \in gone
       PROVE  o \notin pass.keep /\ ~Staying(o)
  <2>1. o[1] = p
    BY <1>5, <1>13, ObjectIs
  <2>2. QED
    BY <1>1, <1>2, <2>1 DEF HasPins, Staying
<1>14. PassSound'
  <2>1. CopiesLater => gone \cap pass.rest = {}
    <3>1. CASE desc[p].kind = "large"
      BY <1>1, <1>2, <1>5, <3>1 DEF RunsUncut, LargeHead
    <3>2. CASE desc[p].kind # "large"
      <4>1. desc[p].kind \in Kind
        <5>1. desc[p] \in Desc /\ PageSound(p) /\ GenOf(p) # "Free"
          BY <1>1, <1>3, RunIs
        <5>2. QED
          BY <3>2, <5>1 DEF PageSound, Desc
      <4>2. desc[p].span = 1 /\ p \in Int
        BY <1>1, <1>3, <4>1 DEF PageSound, Page
      <4>3. gone = {p}
        BY <1>4, <4>2 DEF Span
      <4>4. QED
        BY <1>1, <1>2, <4>3
    <3>3. QED
      BY <3>1, <3>2
  <2>2. CopiesLater => \A q \in pass.rest : GenOf(q)' # "Free"
    <3>1. CopiesLater => \A q \in pass.rest : q \in Page /\ q \notin gone
      BY <1>1, <2>1 DEF Pass
    <3>2. QED
      BY <1>2, <1>6, <3>1 DEF GenOf
  <2>3. \A q \in Page \ {p} : desc'[q].span > 0 =>
          /\ desc'[q].kind = desc[q].kind /\ desc'[q].span = desc[q].span
          /\ GenOf(q)' = GenOf(q)
    <3>1. \A q \in gone : ~(desc'[q].span > 0)
      BY <1>6 DEF FreeDesc
    <3>2. QED
      BY <1>6, <3>1 DEF GenOf
  <2>4. ASSUME NEW o \in pass.keep PROVE o \in Objects'
    <3>1. o \in Objects /\ o[1] \notin gone
      BY <1>2, <1>13
    <3>2. o \in Page \X Offset /\ o[1] \in Page /\ StartAt(o[1], o[2])
      BY <3>1, ObjectIs DEF Objects
    <3>3. QED
      BY <1>6, <3>1, <3>2 DEF Objects, StartAt, GenOf
  <2>5. QED
    BY <2>2, <2>3, <2>4, ReclaimedPass
<1>15. BuffersSound'
  BY <1>1 DEF IInv, BuffersSound, Held
<1>16. ObjectsKept
  <2> SUFFICES ASSUME NEW o \in Objects, Staying(o)
               PROVE  starts'[o[1]] = starts[o[1]] /\ body'[o[1]] = body[o[1]]
    BY DEF ObjectsKept
  <2>1. o[1] \in Page /\ o[1] \notin gone
    BY <1>13, ObjectIs
  <2>2. QED
    BY <1>6, <2>1
<1>17. QED
  BY <1>8, <1>10, <1>11, <1>12, <1>14, <1>15, <1>16 DEF IInv, TableSound

\* release of a dead Large run, which goes back to the OS, and of a page no pin
\* is on.
LEMMA ReleasesKeep ==
  ASSUME IInv, NEW p, ReleaseRun(p) \/ ReleasePage(p)
  PROVE  IInv' /\ ObjectsKept
<1>1. Reclaiming(p) /\ ~HasPins(p)
  BY DEF ReleaseRun, ReleasePage
<1>2. /\ p \in Page /\ PageSound(p) /\ desc[p] \in Desc /\ p \in Int
  BY <1>1, ReclaimingIs DEF IInv, TableSound, TypeOK, Desc, Page
<1>3. CASE ReleaseRun(p)
  <2>1. desc[p].span > 0
    BY <1>3 DEF ReleaseRun, LargeHead
  <2>2. RunOf(p) = Span(p)
    BY <1>2, <2>1, RunIs
  <2>3. Release(Span(p)) /\ committed' = committed \ Span(p)
    BY <1>3, <2>2 DEF ReleaseRun
  <2>4. QED
    BY <1>1, <2>1, <2>3, ReleaseKeeps
<1>4. CASE ReleasePage(p)
  <2>1. desc[p].kind \in Kind
    BY <1>2, <1>4 DEF ReleasePage, SmallInUse, PageSound, Desc
  <2>2. desc[p].span = 1
    BY <1>2, <2>1 DEF PageSound
  <2>3. Span(p) = {p}
    BY <1>2, <2>2 DEF Span
  <2>4. Release(Span(p)) /\ committed' = committed
    BY <1>4, <2>3 DEF ReleasePage
  <2>5. QED
    BY <1>1, <2>2, <2>4, ReleaseKeeps
<1>5. QED
  BY <1>3, <1>4

\* A run changes generation in place: a Large one as it is, a small page with
\* its pinned objects only.
LEMMA FlipKeeps ==
  ASSUME IInv, NEW p, Reclaiming(p), desc[p].span > 0,
         UNCHANGED <<freeList, committed>>,
         \A q \in Span(p) : desc'[q] = [desc[q] EXCEPT !.gen = pass.dest],
         \A q \in Page : q \notin Span(p) =>
           desc'[q] = desc[q] /\ starts'[q] = starts[q] /\ body'[q] = body[q],
         desc' \in [Page -> Desc], starts' \in [Page -> StartBits],
         body' \in [Page -> Contents],
         desc[p].kind = "large" =>
           \A q \in Span(p) : \A i \in Offset :
             starts'[q][i] = starts[q][i] /\ body'[q][i] = body[q][i],
         \A i \in Offset : starts'[p][i] \in {0, starts[p][i]},
         \A i \in Offset : body'[p][i] \in {0, body[p][i]},
         \A i \in Offset : starts'[p][i] # 0 => body'[p][i] = body[p][i],
         \A o \in pass.keep : o[1] = p =>
           /\ starts'[p][o[2]] = starts[p][o[2]]
           /\ \A i \in Extent(p, o[2]) : body'[p][i] = body[p][i]
  PROVE  IInv' /\ ObjectsKept
<1>1. /\ pass # None /\ pass \in Pass /\ p \in pass.chunk /\ p \in Page
      /\ pass' \in Pass
      /\ UNCHANGED <<region, tlab, poisoned>>
  BY ReclaimingIs
<1>2. /\ pass.keep \subseteq Objects /\ pass.dest \in Generation
      /\ \A b \in Buffer : tlab[b] = EmptyTlab
      /\ \A r \in Region : region[r].page \notin pass.chunk
      /\ CopiesLater => \A q \in pass.rest : GenOf(q) # "Free"
      /\ GenOf(p) = pass.from
  BY <1>1 DEF IInv, PassSound, Pass
<1>3. /\ desc \in [Page -> Desc] /\ starts \in [Page -> StartBits]
      /\ body \in [Page -> Contents] /\ region \in [Region -> RegionDesc]
      /\ \A q \in Page : PageSound(q)
  BY DEF IInv, TypeOK, Desc, StartBits, Contents, TableSound
<1>4. PICK run, g : run = Span(p) /\ g = pass.dest
  OBVIOUS
<1>5. /\ p \in run
      /\ \A q \in run : /\ q \in Page /\ desc[q].kind = desc[p].kind
                        /\ GenOf(q) # "Free"
                        /\ q # p => desc[q].span = 0
  BY <1>1, <1>4, RunIs
<1>6. ASSUME NEW q \in run
      PROVE  /\ GenOf(q)' = g /\ g # "Free"
             /\ desc'[q].kind = desc[q].kind /\ desc'[q].span = desc[q].span
             /\ desc'[q].used = desc[q].used /\ desc'[q].zeroed = desc[q].zeroed
  <2>1. desc[q] \in Desc /\ desc'[q] = [desc[q] EXCEPT !.gen = g]
    BY <1>3, <1>4, <1>5
  <2>2. g # "Free"
    BY <1>2, <1>4 DEF Generation
  <2>3. QED
    BY <2>1, <2>2 DEF Desc, GenOf
<1>7. TypeOK'
  BY <1>1 DEF IInv, TypeOK, Desc, StartBits, Contents, Pass
<1>8. \A q : Reserved(q) = {} /\ Reserved(q)' = {}
  BY <1>1, <1>2 DEF Reserved, Held, EmptyTlab
<1>9. ASSUME desc[p].kind \in Kind
      PROVE  Sound(desc[p].used, starts'[p], body'[p], {})
  <2>1. /\ Sound(desc[p].used, starts[p], body[p], {})
        /\ desc[p].used \in 0 .. PageCells
    BY <1>1, <1>3, <1>8, <1>9 DEF PageSound, Desc
  <2>2. starts[p] \in StartBits /\ body[p] \in Contents
    BY <1>1, <1>3
  <2>3. \A i \in Offset :
          starts'[p][i] = 0 \/ (starts'[p][i] = starts[p][i] /\ body'[p][i] = body[p][i])
    OBVIOUS
  <2>4. \A i \in Offset : body'[p][i] = 0 \/ body'[p][i] = body[p][i]
    OBVIOUS
  <2>5. QED
    BY <2>1, <2>2, <2>3, <2>4, PruneIsSound
<1>10. ASSUME NEW q \in Page PROVE PageSound(q)'
  <2>1. CASE q \in run
    <3>1. PageSound(q) /\ GenOf(q) # "Free" /\ desc[q].kind = desc[p].kind
      BY <1>3, <1>5, <2>1
    <3>2. /\ GenOf(q)' # "Free" /\ desc'[q].kind # "free" /\ q \in committed'
          /\ ~desc'[q].zeroed
      BY <1>6, <2>1, <3>1 DEF PageSound
    <3>3. desc[q].kind \in Kind => q = p
      BY <1>5, <2>1, <3>1 DEF PageSound
    <3>4. desc[q].kind \in Kind =>
            desc'[q].span = 1 /\ Sound(desc'[q].used, starts'[q], body'[q], {})
      BY <1>6, <1>9, <2>1, <3>1, <3>3 DEF PageSound
    <3>5. desc[q].kind = "large" =>
            \A i \in Offset : (starts'[q][i] # 0) <=> (i = 0 /\ desc[q].span > 0)
      BY <1>4, <2>1, <3>1 DEF PageSound
    <3>6. QED
      BY <1>6, <1>8, <2>1, <3>1, <3>2, <3>4, <3>5 DEF PageSound
  <2>2. CASE q \notin run
    <3>1. PageSound(q) /\ Reserved(q)' \subseteq Reserved(q)
      BY <1>3, <1>8
    <3>2. /\ desc'[q] = desc[q] /\ starts'[q] = starts[q] /\ body'[q] = body[q]
          /\ q \in committed => q \in committed'
      BY <1>4, <2>2
    <3>3. QED
      BY <3>1, <3>2, PageStays
  <2>3. QED
    BY <2>1, <2>2
<1>11. ASSUME NEW q \in Page PROVE RunSound(q)'
  <2>1. PICK gone : gone = {}
    OBVIOUS
  <2>2. \A h \in Page : desc[h].span > 0 => \A k \in Span(h) :
          ((k \in gone) <=> (h \in gone)) /\ ((k \in run) <=> (h \in run))
    BY <1>1, <1>4, <2>1, RunInRun
  <2>3. \A k \in Page : k \in gone => desc'[k].kind # "large"
    BY <2>1
  <2>4. \A k \in Page : k \notin gone /\ k \in run => desc'[k] = [desc[k] EXCEPT !.gen = g]
    BY <1>4
  <2>5. \A k \in Page : k \notin gone /\ k \notin run => desc'[k] = desc[k]
    BY <1>4
  <2>6. QED
    BY <2>2, <2>3, <2>4, <2>5, RunsKept
<1>12. ASSUME NEW r \in Region PROVE RegionSound(r)'
  <2> SUFFICES ASSUME region[r].page # None
               PROVE  desc'[region[r].page] = desc[region[r].page]
    BY <1>1 DEF RegionSound, IInv, TableSound, GenOf
  <2>1. PICK q : q = region[r].page
    OBVIOUS
  <2>2. q \in Page /\ desc[q].kind \in Kind
    <3>1. r[2] \in Kind
      BY PairIs DEF Region
    <3>2. QED
      BY <1>3, <2>1, <3>1 DEF RegionDesc, IInv, TableSound, RegionSound
  <2>3. desc[q].span = 1 /\ q # p
    BY <1>1, <1>2, <1>3, <2>1, <2>2 DEF PageSound
  <2>4. q \notin run
    BY <1>5, <2>3
  <2>5. QED
    BY <1>4, <2>1, <2>2, <2>4
<1>13. ASSUME NEW o \in Objects
       PROVE  /\ o[1] \in Page /\ o[2] \in Offset /\ o \in Page \X Offset
              /\ GenOf(o[1]) # "Free" /\ starts[o[1]][o[2]] # 0
              /\ o[1] \in run => o[1] = p
  BY <1>5, ObjectIs
<1>14. \A o \in pass.keep : starts'[o[1]][o[2]] = starts[o[1]][o[2]]
  BY <1>2, <1>4, <1>13
<1>15. PassSound'
  <2>1. CopiesLater => \A q \in pass.rest : GenOf(q)' # "Free"
    <3>1. \A q \in pass.rest : q \in Page
      BY <1>1 DEF Pass
    <3>2. QED
      BY <1>2, <1>4, <1>6, <3>1 DEF GenOf
  <2>2. \A q \in Page \ {p} : desc'[q].span > 0 =>
          /\ desc'[q].kind = desc[q].kind /\ desc'[q].span = desc[q].span
          /\ GenOf(q)' = GenOf(q)
    <3>1. \A q \in run \ {p} : ~(desc'[q].span > 0)
      BY <1>5, <1>6
    <3>2. QED
      BY <1>4, <3>1 DEF GenOf
  <2>3. ASSUME NEW o \in pass.keep PROVE o \in Objects'
    <3>1. o \in Page \X Offset /\ GenOf(o[1]) # "Free" /\ starts[o[1]][o[2]] # 0
      BY <1>2, <1>13
    <3>2. GenOf(o[1])' # "Free"
      BY <1>2, <1>4, <1>6, <1>13, <3>1 DEF GenOf
    <3>3. QED
      BY <1>14, <3>1, <3>2 DEF Objects, StartAt
  <2>4. QED
    BY <2>1, <2>2, <2>3, ReclaimedPass
<1>16. BuffersSound'
  BY <1>1 DEF IInv, BuffersSound, Held
<1>17. ObjectsKept
  <2> SUFFICES ASSUME NEW o \in Objects, Staying(o)
               PROVE  /\ starts'[o[1]][o[2]] = starts[o[1]][o[2]]
                      /\ \A i \in Extent(o[1], o[2]) : body'[o[1]][i] = body[o[1]][i]
    BY DEF ObjectsKept
  <2>1. CASE o[1] \in run
    <3>1. o[1] = p /\ o \in pass.keep
      BY <1>1, <1>2, <1>13, <2>1 DEF Staying
    <3>2. QED
      BY <3>1
  <2>2. CASE o[1] \notin run
    BY <1>4, <1>13, <2>2
  <2>3. QED
    BY <2>1, <2>2
<1>18. QED
  BY <1>7, <1>10, <1>11, <1>12, <1>15, <1>16, <1>17 DEF IInv, TableSound

\* A pinned Large run changes generation; its later pages had no start bits.
LEMMA FlipRunKeeps ==
  ASSUME IInv, NEW p, FlipRun(p)
  PROVE  IInv' /\ ObjectsKept
<1>1. Reclaiming(p) /\ desc[p].kind = "large" /\ desc[p].span > 0
  BY DEF FlipRun, LargeHead
<1>2. p \in Page /\ pass.dest \in Generation
  BY <1>1, ReclaimingIs DEF Pass
<1>3. PICK run, g : run = Span(p) /\ g = pass.dest
  OBVIOUS
<1>4. /\ RunOf(p) = run
      /\ \A q \in run : /\ q \in Page /\ desc[q].kind = "large"
                        /\ q # p => desc[q].span = 0
  BY <1>1, <1>2, <1>3, RunIs
<1>5. /\ desc \in [Page -> Desc] /\ starts \in [Page -> StartBits]
      /\ body \in [Page -> Contents]
      /\ \A q \in Page : PageSound(q)
  BY DEF IInv, TypeOK, Desc, StartBits, Contents, TableSound
<1>6. /\ desc' = [q \in Page |-> IF q \in run THEN [desc[q] EXCEPT !.gen = g] ELSE desc[q]]
      /\ starts' = [q \in Page |-> IF q \in run \ {p} THEN Blank ELSE starts[q]]
      /\ UNCHANGED <<freeList, committed, body>>
  BY <1>3, <1>4 DEF FlipRun
<1>7. /\ \A q \in run : desc'[q] = [desc[q] EXCEPT !.gen = g]
      /\ \A q \in Page : q \notin run => desc'[q] = desc[q] /\ starts'[q] = starts[q]
      /\ desc' \in [Page -> Desc] /\ starts' \in [Page -> StartBits]
  <2>1. \A q \in Page : [desc[q] EXCEPT !.gen = g] \in Desc
    <3>1. \A d \in Desc : [d EXCEPT !.gen = g] \in Desc
      BY <1>2, <1>3 DEF Desc
    <3>2. QED
      BY <1>5, <3>1
  <2>2. QED
    BY <1>4, <1>5, <1>6, <2>1, BlankIsSound
<1>8. ASSUME NEW q \in run, NEW i \in Offset PROVE starts'[q][i] = starts[q][i]
  <2>1. CASE q = p
    BY <1>2, <1>6, <2>1
  <2>2. CASE q # p
    <3>1. starts[q][i] = 0
      BY <1>4, <1>5, <2>2 DEF PageSound
    <3>2. starts'[q] = Blank
      BY <1>4, <1>6, <2>2
    <3>3. QED
      BY <3>1, <3>2 DEF Blank
  <2>3. QED
    BY <2>1, <2>2
<1>9. \A o \in pass.keep : o[1] = p => starts'[p][o[2]] = starts[p][o[2]]
  BY <1>2, <1>6
<1>10. /\ \A i \in Offset : starts'[p][i] \in {0, starts[p][i]}
       /\ \A i \in Offset : body'[p][i] \in {0, body[p][i]}
  BY <1>2, <1>6
<1>11. QED
  BY <1>1, <1>3, <1>5, <1>6, <1>7, <1>8, <1>9, <1>10, FlipKeeps

\* A small page with pins changes generation: what is pinned stays.
LEMMA FlipPageKeeps ==
  ASSUME IInv, NEW p, FlipPage(p)
  PROVE  IInv' /\ ObjectsKept
<1>1. /\ Reclaiming(p) /\ SmallInUse(p)
      /\ desc' = [desc EXCEPT ![p].gen = pass.dest]
      /\ starts' = [starts EXCEPT ![p] =
           [i \in Offset |-> IF <<p, i>> \in pass.keep THEN @[i] ELSE 0]]
      /\ body' = [body EXCEPT ![p] =
           [i \in Offset |-> IF i \in Pinned(p) THEN @[i] ELSE 0]]
      /\ UNCHANGED <<freeList, committed>>
  BY DEF FlipPage
<1>2. /\ p \in Page /\ p \in Int /\ pass.dest \in Generation
      /\ pass.keep \subseteq Objects
  BY <1>1, ReclaimingIs DEF Pass, Page, IInv, PassSound
<1>3. /\ desc \in [Page -> Desc] /\ starts \in [Page -> StartBits]
      /\ body \in [Page -> Contents] /\ PageSound(p)
  BY <1>2 DEF IInv, TypeOK, Desc, StartBits, Contents, TableSound
<1>4. desc[p].kind \in Kind /\ desc[p].kind # "large"
  BY <1>1, <1>2, <1>3 DEF SmallInUse, PageSound, Desc
<1>5. desc[p].span = 1
  BY <1>3, <1>4 DEF PageSound
<1>6. Span(p) = {p}
  BY <1>2, <1>5 DEF Span
<1>7. /\ desc'[p] = [desc[p] EXCEPT !.gen = pass.dest] /\ desc' \in [Page -> Desc]
      /\ \A q \in Page : q # p => desc'[q] = desc[q]
  <2>1. PICK g \in Generation : g = pass.dest
    BY <1>2
  <2>2. \A d \in Desc : [d EXCEPT !.gen = g] \in Desc
    BY DEF Desc
  <2>3. desc' = [desc EXCEPT ![p] = [desc[p] EXCEPT !.gen = g]]
    BY <1>1, <2>1
  <2>4. [desc[p] EXCEPT !.gen = g] \in Desc
    BY <1>2, <1>3, <2>2
  <2>5. QED
    BY <1>2, <1>3, <2>1, <2>3, <2>4
<1>8. /\ \A i \in Offset : starts'[p][i] = IF <<p, i>> \in pass.keep THEN starts[p][i] ELSE 0
      /\ \A q \in Page : q # p => starts'[q] = starts[q]
      /\ starts' \in [Page -> StartBits]
  <2>1. [i \in Offset |-> IF <<p, i>> \in pass.keep THEN starts[p][i] ELSE 0] \in StartBits
    BY <1>2, <1>3 DEF StartBits
  <2>2. QED
    BY <1>1, <1>2, <1>3, <2>1
<1>9. /\ \A i \in Offset : body'[p][i] = IF i \in Pinned(p) THEN body[p][i] ELSE 0
      /\ \A q \in Page : q # p => body'[q] = body[q]
      /\ body' \in [Page -> Contents]
  <2>1. [i \in Offset |-> IF i \in Pinned(p) THEN body[p][i] ELSE 0] \in Contents
    BY <1>2, <1>3, TlabsAssumption DEF Contents
  <2>2. QED
    BY <1>1, <1>2, <1>3, <2>1
<1>10. ASSUME NEW o \in pass.keep, o[1] = p
       PROVE  /\ starts'[p][o[2]] = starts[p][o[2]]
              /\ \A i \in Extent(p, o[2]) : body'[p][i] = body[p][i]
              /\ o[2] \in Pinned(p)
  <2>1. o = <<p, o[2]>> /\ o[2] \in Offset /\ o[2] \in Extent(p, o[2])
    BY <1>2, <1>10, ObjectIs, ExtentIs
  <2>2. \A i \in Extent(p, o[2]) : i \in Pinned(p)
    BY <1>10 DEF Pinned
  <2>3. \A i \in Extent(p, o[2]) : i \in Offset
    BY <1>2, <1>10, ExtentIs
  <2>4. QED
    BY <1>8, <1>9, <2>1, <2>2, <2>3
<1>11. ASSUME NEW i \in Offset, starts'[p][i] # 0 PROVE body'[p][i] = body[p][i]
  <2>1. PICK o \in pass.keep : o[1] = p /\ o[2] = i
    BY <1>8, <1>11
  <2>2. i \in Pinned(p)
    BY <1>10, <2>1
  <2>3. QED
    BY <1>9, <2>2
<1>12. /\ \A i \in Offset : starts'[p][i] \in {0, starts[p][i]}
       /\ \A i \in Offset : body'[p][i] \in {0, body[p][i]}
  BY <1>8, <1>9
<1>13. /\ \A q \in Span(p) : desc'[q] = [desc[q] EXCEPT !.gen = pass.dest]
       /\ \A q \in Page : q \notin Span(p) =>
            desc'[q] = desc[q] /\ starts'[q] = starts[q] /\ body'[q] = body[q]
  BY <1>6, <1>7, <1>8, <1>9
<1>14. \A o \in pass.keep : o[1] = p =>
         /\ starts'[p][o[2]] = starts[p][o[2]]
         /\ \A i \in Extent(p, o[2]) : body'[p][i] = body[p][i]
  BY <1>10
<1>15. desc[p].span > 0 /\ desc' \in [Page -> Desc] /\ starts' \in [Page -> StartBits]
       /\ body' \in [Page -> Contents]
  BY <1>5, <1>7, <1>8, <1>9
<1>16. QED
  BY <1>1, <1>4, <1>11, <1>12, <1>13, <1>14, <1>15, FlipKeeps

-----------------------------------------------------------------------------
(* The invariant holds.                                                    *)

\* A step that changes nothing in finished cells changes no object.
LEMMA UntouchedKeeps ==
  ASSUME IInv, Untouched
  PROVE  ObjectsKept
<1>1. ASSUME NEW o \in Objects
      PROVE  /\ starts'[o[1]][o[2]] = starts[o[1]][o[2]]
             /\ \A i \in Extent(o[1], o[2]) : body'[o[1]][i] = body[o[1]][i]
  <2>1. o[1] \in Page /\ GenOf(o[1]) # "Free"
    BY ObjectIs
  <2>2. o[2] \in Extent(o[1], o[2])
    BY ExtentIs
  <2>3. \A i \in Extent(o[1], o[2]) :
          i \in Offset /\ i < desc[o[1]].used /\ i \notin Reserved(o[1])
    BY ExtentIs
  <2>4. QED
    BY <2>1, <2>2, <2>3 DEF Untouched
<1>2. QED
  BY <1>1 DEF ObjectsKept

\* An empty heap is sound.
LEMMA InitInv == Init => IInv
<1> SUFFICES ASSUME Init PROVE IInv
  OBVIOUS
<1>1. /\ \A p \in Page : desc[p] = FreeDesc(FALSE)
      /\ \A r \in Region : region[r] = NoPage
      /\ \A b \in Buffer : tlab[b] = EmptyTlab
      /\ pass = None
  BY DEF Init
<1>2. NPages \in Nat /\ PageCells \in Nat /\ InitialTlab \in 1 .. MaxTlab
  BY TlabsAssumption
<1>3. TypeOK
  <2>1. FreeDesc(FALSE) \in Desc /\ NoPage \in RegionDesc /\ EmptyTlab \in Tlab
    BY <1>2 DEF FreeDesc, Desc, NoPage, RegionDesc, EmptyTlab, Tlab
  <2>2. [i \in 1 .. NPages |-> NPages - i] \in Seq(Page)
    BY <1>2 DEF Page
  <2>3. QED
    BY <2>1, <2>2, BlankIsSound
       DEF Init, TypeOK, Desc, Tlab, StartBits, Contents
<1>4. \A p : Reserved(p) = {}
  BY <1>1 DEF Reserved, Held, EmptyTlab
<1>5. \A p \in Page : PageSound(p) /\ RunSound(p)
  BY <1>1, <1>4 DEF PageSound, RunSound, GenOf, FreeDesc, Kind
<1>6. \A r \in Region : RegionSound(r)
  BY <1>1 DEF RegionSound, NoPage
<1>7. BuffersSound /\ PassSound
  BY <1>1 DEF BuffersSound, PassSound, Held, EmptyTlab
<1>8. QED
  BY <1>3, <1>5, <1>6, <1>7 DEF IInv, TableSound

\* Who uses buffers.
LEMMA UsesAre ==
  ASSUME NEW b \in Uses
  PROVE  /\ b \in Buffer /\ b = <<b[1], b[2]>> /\ b[1] \in Mutator
         /\ b[2] # SlabBuffer => b[2] \in Region
<1>1. b \in Buffer
  BY TlabsAssumption
<1>2. QED
  BY <1>1, PairIs DEF Buffer, Use

\* Every step keeps the invariant and the objects.
LEMMA NextInv ==
  ASSUME IInv, UncutNext
  PROVE  IInv' /\ ObjectsKept
<1>1. ASSUME NEW b \in Uses PROVE b[1] \in Mutator /\ (b[2] # SlabBuffer => b[2] \in Region)
  BY UsesAre
<1>2. ASSUME NEW b \in Uses, b[2] # SlabBuffer, AllocHit(b[1], b[2])
      PROVE  IInv' /\ Untouched
  BY <1>1, <1>2, AllocHitKeeps
<1>3. ASSUME NEW b \in Uses, b[2] # SlabBuffer, AllocMiss(b[1], b[2])
      PROVE  IInv' /\ Untouched
  BY <1>1, <1>3, AllocMissKeeps
<1>4. ASSUME NEW m \in Mutator, TakeSlab(m) \/ SlabBump(m) \/ Flush(m)
      PROVE  IInv' /\ Untouched
  BY <1>4, TakeSlabKeeps, SlabBumpKeeps, FlushKeeps
<1>5. ASSUME AllocLarge \/ CopyObject \/ MidEvacOom \/ EndPass
      PROVE  IInv' /\ Untouched
  BY <1>5, AllocLargeKeeps, CopyObjectKeeps, MidEvacOomKeeps, EndPassKeeps
<1>6. ASSUME NEW e \in Evacuations, BeginPass(e[1], e[2], e[3]), pass = None => RunsListed'
      PROVE  IInv' /\ Untouched
  <2>1. PICK from, dest, early : from = e[1] /\ dest = e[2] /\ early = e[3]
    OBVIOUS
  <2>2. from \in Generation /\ dest \in Generation /\ early \in BOOLEAN
    <3>1. e \in Generation \X Generation \X BOOLEAN
      BY TlabsAssumption
    <3>2. QED
      BY <2>1, <3>1
  <2>3. early => from = "G0"
    <3>1. e[2] = "G0" \/ e[3] => e[1] = "G0"
      BY TlabsAssumption
    <3>2. QED
      BY <2>1, <3>1
  <2>4. BeginPass(from, dest, early)
    BY <1>6, <2>1
  <2>5. RunsListed'
    BY <1>6, <2>4 DEF BeginPass
  <2>6. QED
    BY <2>2, <2>3, <2>4, <2>5, BeginPassKeeps
<1>7. ASSUME PickChunk, RunsUncut' PROVE IInv' /\ Untouched
  BY <1>7, PickChunkKeeps
<1>8. ASSUME NEW p \in Page, Reclaim(p) PROVE IInv' /\ ObjectsKept
  <2>1. CASE SkipPage(p)
    BY <2>1, SkipPageKeeps, UntouchedKeeps
  <2>2. CASE FlipRun(p)
    BY <2>2, FlipRunKeeps
  <2>3. CASE ReleaseRun(p) \/ ReleasePage(p)
    BY <2>3, ReleasesKeep
  <2>4. CASE FlipPage(p)
    BY <2>4, FlipPageKeeps
  <2>5. QED
    BY <1>8, <2>1, <2>2, <2>3, <2>4 DEF Reclaim
<1>9. QED
  BY <1>1, <1>2, <1>3, <1>4, <1>5, <1>6, <1>7, <1>8, RefusalKeeps, UntouchedKeeps
     DEF UncutNext, Step

\* So does a step of the rest of the world.
LEMMA StutterInv == IInv /\ UNCHANGED vars => IInv' /\ ObjectsKept
<1> SUFFICES ASSUME IInv, UNCHANGED vars PROVE IInv' /\ ObjectsKept
  OBVIOUS
<1>1. /\ UNCHANGED <<desc, freeList, region, committed>>
      /\ UNCHANGED <<starts, body, tlab, pass, poisoned>>
  BY DEF vars, tableVars, memoryVars
<1>2. TypeOK'
  BY <1>1 DEF IInv, TypeOK
<1>3. ASSUME NEW p \in Page PROVE PageSound(p)'
  <2>1. Reserved(p)' = Reserved(p)
    BY <1>1 DEF Reserved, Held
  <2>2. QED
    BY <1>1, <2>1, PageStays DEF IInv, TableSound
<1>4. BuffersSound'
  BY <1>1 DEF IInv, BuffersSound, Held
<1>5. PassSound'
  BY <1>1 DEF IInv, PassSound, Objects, StartAt, GenOf, LargeObject, Sources,
              RunsUncut, CopiesLater, LargeHead, HasPins, RunOf
<1>6. ObjectsKept
  BY <1>1 DEF ObjectsKept
<1>7. QED
  BY <1>1, <1>2, <1>3, <1>4, <1>5, <1>6, SameTable DEF IInv, TableSound

\* The invariant the other theorems rest on: every page is sound as a table of
\* objects, buffers and regions, in every state, as long as no Large run is torn
\* by a chunk, by an early release or by a refusal in the middle of it.
THEOREM TlabsInvariance ==
  UncutSpec => []IInv
<1>1. IInv /\ [UncutNext]_vars => IInv'
  BY NextInv, StutterInv
<1>2. QED
  BY InitInv, <1>1, PTL DEF UncutSpec

\* Every variable of Tlabs keeps its shape: no words_used, region or buffer
\* runs past the end of a page, and the free list never names a page that is
\* not there.
THEOREM TypeCorrect ==
  UncutSpec => []TypeOK
<1>1. IInv => TypeOK
  BY DEF IInv
<1>2. UncutSpec => []IInv
  BY TlabsInvariance
<1>3. QED
  BY <1>1, <1>2, PTL

\* Objects stay as they are while the world runs, and pinned ones, copies and
\* those of other generations during a pass: no buffer, slab, Large run or
\* reclaim writes into one.
THEOREM NoObjectChanges ==
  UncutSpec => ObjectsStay
<1>1. IInv /\ [UncutNext]_vars => [ObjectsKept]_vars
  BY NextInv
<1>2. UncutSpec => []IInv
  BY TlabsInvariance
<1>3. QED
  BY <1>1, <1>2, PTL DEF UncutSpec, ObjectsStay, ObjectsKept

\* words_used covers every object, whatever buffers were dropped.
THEOREM WatermarkHolds ==
  UncutSpec => []WatermarkCovers
<1>1. IInv => WatermarkCovers
  BY ExtentIs DEF WatermarkCovers
<1>2. UncutSpec => []IInv
  BY TlabsInvariance
<1>3. QED
  BY <1>1, <1>2, PTL

\* The n_span of a Large head can be trusted by phase3_reclaim, as long as no
\* step tears a run.
THEOREM LargeRunsAreWhole ==
  UncutSpec => []RunsWhole
<1>1. ASSUME IInv PROVE RunsWhole
  <2>1. ASSUME NEW p \in Page, desc[p].kind = "large"
        PROVE  /\ RunSound(p) /\ PageSound(p) /\ GenOf(p) # "Free"
               /\ desc[p].span > 0 => StartAt(p, 0)
    <3>1. RunSound(p) /\ PageSound(p)
      BY <1>1 DEF IInv, TableSound
    <3>2. GenOf(p) # "Free"
      BY <2>1, <3>1 DEF PageSound
    <3>3. 0 \in Offset
      BY TlabsAssumption DEF Offset
    <3>4. desc[p].span > 0 => starts[p][0] # 0
      BY <2>1, <3>1, <3>3 DEF PageSound
    <3>5. QED
      BY <3>1, <3>2, <3>4 DEF StartAt
  <2>2. QED
    BY <2>1 DEF RunsWhole, RunSound, Span
<1>2. UncutSpec => []IInv
  BY TlabsInvariance
<1>3. QED
  BY <1>1, <1>2, PTL

\* Where no Large object has a second page, no step tears one, and what is shown
\* of UncutSpec holds of Spec.
THEOREM OnePageRunsAreUncut ==
  ASSUME LargeSpans \subseteq {1}
  PROVE  Spec => UncutSpec
<1>1. ASSUME IInv, PickChunk PROVE RunsUncut'
  <2>1. PICK chunk :
          /\ pass' = [pass EXCEPT !.rest = @ \ chunk, !.chunk = chunk]
          /\ pass # None /\ chunk \subseteq pass.rest /\ UNCHANGED desc
    BY <1>1 DEF PickChunk, tableVars
  <2>2. pass \in Pass
    BY <1>1, <2>1 DEF IInv, PassSound
  <2>3. pass'.rest = pass.rest \ chunk /\ pass'.chunk = chunk
    BY <2>1, <2>2 DEF Pass
  <2>4. ASSUME NEW p \in chunk, LargeHead(p) PROVE RunOf(p) = {p}
    <3>1. p \in Page /\ desc[p].span > 0
      BY <2>1, <2>2, <2>4 DEF Pass, LargeHead
    <3>2. QED
      BY <1>1, <3>1, RunIs, RunsOfOnePage
  <2>5. \A p : LargeHead(p)' = LargeHead(p) /\ RunOf(p)' = RunOf(p)
    BY <2>1 DEF LargeHead, RunOf
  <2>6. QED
    BY <2>3, <2>4, <2>5 DEF RunsUncut
<1>2. ASSUME IInv, Step, pass = None PROVE RunsListed'
  <2>1. CASE \E e \in Evacuations : BeginPass(e[1], e[2], e[3])
    <3>0. PICK e \in Evacuations : BeginPass(e[1], e[2], e[3])
      BY <2>1
    <3>1. PICK keep \in SUBSET ObjectsOf(PagesIn(e[1])),
               live \in SUBSET ObjectsOf(PagesIn(e[1])) :
            LET dropped == IF e[3] THEN ZeroLive(keep \cup live) ELSE {} IN
            /\ pass' = [from |-> e[1], dest |-> e[2], rest |-> PagesIn(e[1]) \ dropped,
                        chunk |-> {}, keep |-> keep,
                        copy |-> {o \in live : ~LargeObject(o)}]
            /\ desc' = [p \in Page |-> IF p \in dropped THEN FreeDesc(FALSE) ELSE desc[p]]
      BY <3>0 DEF BeginPass
    <3>2. PICK dropped : dropped = IF e[3] THEN ZeroLive(keep \cup live) ELSE {}
      OBVIOUS
    <3>3. /\ pass'.rest = PagesIn(e[1]) \ dropped
          /\ desc' = [p \in Page |-> IF p \in dropped THEN FreeDesc(FALSE) ELSE desc[p]]
      BY <3>1, <3>2
    <3>4. ASSUME NEW p \in PagesIn(e[1]) \ dropped, LargeHead(p)' PROVE RunOf(p)' = {p}
      <4>1. p \in Page /\ desc'[p] = desc[p]
        BY <3>3, <3>4 DEF PagesIn
      <4>2. LargeHead(p) /\ RunOf(p)' = RunOf(p)
        BY <3>4, <4>1 DEF LargeHead, RunOf
      <4>3. QED
        BY <1>2, <4>1, <4>2, RunIs, RunsOfOnePage DEF LargeHead
    <3>5. QED
      BY <3>3, <3>4 DEF RunsListed
  <2>2. CASE ~(\E e \in Evacuations : BeginPass(e[1], e[2], e[3]))
    <3>1. UNCHANGED pass
      <4>1. ASSUME NEW m, NEW r, AllocHit(m, r) \/ AllocMiss(m, r) PROVE UNCHANGED pass
        <5>1. CASE AllocHit(m, r)
          BY <5>1 DEF AllocHit, Bump
        <5>2. CASE AllocMiss(m, r)
          BY <5>2 DEF AllocMiss
        <5>3. QED
          BY <4>1, <5>1, <5>2
      <4>2. \A m : TakeSlab(m) \/ SlabBump(m) \/ Flush(m) => UNCHANGED pass
        BY DEF TakeSlab, SlabBump, Bump, Flush, Flushed
      <4>3. AllocLarge => UNCHANGED pass
        BY DEF AllocLarge, Claimed
      <4>4. ~CopyObject /\ ~MidEvacOom /\ ~EndPass /\ \A p : ~Reclaim(p)
        BY <1>2 DEF CopyObject, MidEvacOom, EndPass, Reclaim, Reclaiming,
                    SkipPage, FlipRun, ReleaseRun, FlipPage, ReleasePage
      <4>5. QED
        BY <1>2, <2>2, <4>1, <4>2, <4>3, <4>4 DEF Step
    <3>2. QED
      BY <1>2, <3>1 DEF RunsListed
  <2>3. QED
    BY <2>1, <2>2
<1>3. ~TearingRefusal
  <2>1. ASSUME NEW n \in LargeSpans PROVE 1 .. n - 1 = {}
    <3>1. n = 1
      OBVIOUS
    <3>2. QED
      BY <3>1
  <2>2. QED
    BY <2>1 DEF TearingRefusal
<1>4. IInv /\ [Next]_vars => IInv' /\ [UncutNext]_vars
  BY <1>1, <1>2, <1>3, NextInv, StutterInv DEF Next, UncutNext
<1>5. QED
  BY InitInv, <1>4, PTL DEF Spec, UncutSpec

-----------------------------------------------------------------------------
(* Who may write a cell.                                                   *)

HeldBy(b, p, i) == tlab[b].page = p /\ i \in Held(b)
OpenTo(r, p, i) == region[r].page = p /\ i \in region[r].offset .. PageCells - 1
Covers(k, p, i) == StartAt(p, k) /\ i \in Extent(p, k)
Continues(h, p) == LargeHead(h) /\ p \in RunOf(h) \ {h}

\* A cell a buffer or a region may hand out is on a page in use, zero, and in
\* no object.
LEMMA UnwrittenIs ==
  ASSUME IInv, NEW p \in Page, NEW i \in Offset,
         \/ \E b \in Buffer : HeldBy(b, p, i)
         \/ \E r \in Region : OpenTo(r, p, i)
  PROVE  /\ GenOf(p) # "Free" /\ desc[p].kind \in Kind
         /\ starts[p][i] = 0 /\ body[p][i] = 0
         /\ (\E b \in Buffer : HeldBy(b, p, i)) => i < desc[p].used
         /\ (\E r \in Region : OpenTo(r, p, i)) => ~(i < desc[p].used)
<1>1. /\ PageSound(p) /\ desc \in [Page -> Desc] /\ region \in [Region -> RegionDesc]
      /\ i \in Int /\ p # None
  <2>1. /\ PageSound(p) /\ desc \in [Page -> Desc] /\ region \in [Region -> RegionDesc]
    BY DEF IInv, TableSound, TypeOK, Desc
  <2>2. i \in Int /\ p # None
    BY TlabsAssumption DEF Offset, Page
  <2>3. QED
    BY <2>1, <2>2
<1>2. /\ PageCells \in Int /\ desc[p].used \in Int
  BY <1>1, TlabsAssumption DEF Desc
<1>3. ASSUME NEW r \in Region, OpenTo(r, p, i)
      PROVE  desc[p].kind \in Kind /\ ~(i < desc[p].used)
  <2>1. /\ desc[p].kind = r[2] /\ desc[p].used = region[r].offset
        /\ i \in region[r].offset .. PageCells - 1
    BY <1>1, <1>3 DEF IInv, TableSound, RegionSound, OpenTo
  <2>2. r[2] \in Kind
    BY PairIs DEF Region
  <2>3. QED
    BY <1>1, <1>2, <2>1, <2>2
<1>4. ASSUME NEW b \in Buffer, HeldBy(b, p, i) PROVE i \in Reserved(p)
  BY <1>4 DEF HeldBy, Reserved
<1>5. i \in Reserved(p) => desc[p].kind \in Kind
  BY <1>1 DEF PageSound
<1>6. desc[p].kind \in Kind
  BY <1>3, <1>4, <1>5
<1>7. Sound(desc[p].used, starts[p], body[p], Reserved(p))
  BY <1>1, <1>6 DEF PageSound
<1>8. i \in Reserved(p) => i < desc[p].used
  BY <1>1, <1>2, <1>7 DEF Sound
<1>9. i \in Reserved(p) \/ i >= desc[p].used
  BY <1>1, <1>2, <1>3, <1>4
<1>10. starts[p][i] = 0 /\ body[p][i] = 0
  BY <1>7, <1>9 DEF Sound
<1>11. GenOf(p) # "Free"
  BY <1>1, <1>6 DEF PageSound, Kind
<1>12. QED
  BY <1>3, <1>4, <1>6, <1>8, <1>10, <1>11

\* A cell is in one object at most, and then in no buffer and no region.
LEMMA WrittenIs ==
  ASSUME IInv, NEW p \in Page, NEW i \in Offset, NEW k \in Offset, Covers(k, p, i)
  PROVE  /\ GenOf(p) # "Free"
         /\ i < desc[p].used /\ i \notin Reserved(p)
         /\ \A j \in Offset : Covers(j, p, i) => j = k
<1>1. ASSUME NEW j \in Offset, Covers(j, p, i)
      PROVE  /\ <<p, j>> \in Objects /\ i \in Extent(p, j)
             /\ GenOf(p) # "Free" /\ starts[p][j] # 0
             /\ i < desc[p].used /\ i \notin Reserved(p)
             /\ desc[p].kind \in Kind \cup {"large"}
             /\ desc[p].kind = "large" => j = 0
  <2>1. PICK o \in Objects : o[1] = p /\ o[2] = j /\ o = <<p, j>>
    BY <1>1 DEF Covers, Objects
  <2>2. i \in Extent(p, j) /\ GenOf(p) # "Free" /\ starts[p][j] # 0
    BY <1>1 DEF Covers, StartAt
  <2>3. QED
    BY <2>1, <2>2, ExtentIs, ObjectIs
<1>2. ASSUME NEW j \in Offset, Covers(j, p, i), NEW m \in Offset, Covers(m, p, i), j < m
      PROVE  FALSE
  <2>1. /\ starts[p][j] # 0 /\ starts[p][m] # 0
        /\ i \in Extent(p, j) /\ i \in Extent(p, m)
        /\ desc[p].kind \in Kind \cup {"large"}
        /\ desc[p].kind = "large" => j = 0 /\ m = 0
    BY <1>1, <1>2
  <2>2. j \in Int /\ m \in Int /\ i \in Int
    BY DEF Offset
  <2>3. desc[p].kind # "large"
    BY <1>2, <2>1, <2>2
  <2>4. Sound(desc[p].used, starts[p], body[p], Reserved(p))
    BY <2>1, <2>3 DEF IInv, TableSound, PageSound
  <2>5. body[p] \in Contents /\ Cells(starts[p], body[p], j) \in Int
    BY TlabsAssumption DEF IInv, TypeOK, Contents, Cells
  <2>6. SizeAt(p, j) = Cells(starts[p], body[p], j) /\ SizeAt(p, m) = Cells(starts[p], body[p], m)
    BY <2>3 DEF SizeAt, Cells
  <2>7. Cells(starts[p], body[p], m) \in Int
    BY <2>5, TlabsAssumption DEF Contents, Cells
  <2>8. j + Cells(starts[p], body[p], j) <= m
    BY <1>2, <2>1, <2>4 DEF Sound
  <2>9. i < j + Cells(starts[p], body[p], j) /\ m <= i
    BY <2>1, <2>2, <2>5, <2>6, <2>7 DEF Extent
  <2>10. QED
    BY <2>2, <2>5, <2>8, <2>9
<1>3. ASSUME NEW j \in Offset, Covers(j, p, i) PROVE j = k
  <2>1. j \in Int /\ k \in Int
    BY DEF Offset
  <2>2. ~(j < k) /\ ~(k < j)
    BY <1>2, <1>3
  <2>3. QED
    BY <2>1, <2>2
<1>4. QED
  BY <1>1, <1>3

\* The owners of a cell, by kind.
LEMMA OwnersAre ==
  ASSUME NEW p, NEW i
  PROVE  Owners(p, i) = {<<"buffer", b>> : b \in {c \in Uses : HeldBy(c, p, i)}}
                        \cup {<<"region", r>> : r \in {q \in Region : OpenTo(q, p, i)}}
                        \cup {<<"object", j>> : j \in {k \in Offset : Covers(k, p, i)}}
                        \cup {<<"run", h>> : h \in {q \in Page : Continues(q, p)}}
BY DEF Owners, HeldBy, OpenTo, Covers, Held, Continues

\* The later pages of a run are in one run, and nobody else's.
LEMMA ContinuationIs ==
  ASSUME IInv, NEW p \in Page, NEW i \in Offset, NEW h \in Page, Continues(h, p)
  PROVE  /\ GenOf(p) # "Free"
         /\ \A k \in Page : Continues(k, p) => k = h
         /\ ~(\E b \in Buffer : HeldBy(b, p, i))
         /\ ~(\E r \in Region : OpenTo(r, p, i))
         /\ ~(\E k \in Offset : Covers(k, p, i))
<1>1. ASSUME NEW k \in Page, Continues(k, p)
      PROVE  desc[k].kind = "large" /\ desc[k].span > 0 /\ p \in Span(k) /\ p # k
  BY <1>1, RunIs DEF Continues, LargeHead
<1>2. /\ GenOf(p) # "Free" /\ desc[p].kind = "large" /\ desc[p].span = 0
  BY <1>1, RunIs
<1>3. \A k \in Page : Continues(k, p) => k = h
  BY <1>1, OneRun
<1>4. desc[p].kind \notin Kind
  BY <1>2 DEF Kind
<1>5. ~(\E k \in Offset : Covers(k, p, i))
  <2>1. \A k \in Offset : starts[p][k] = 0
    BY <1>2 DEF IInv, TableSound, PageSound
  <2>2. QED
    BY <2>1 DEF Covers, StartAt
<1>6. QED
  BY <1>2, <1>3, <1>4, <1>5, UnwrittenIs

\* What has not been handed out, or handed out and not written, reads as zero
\* and carries no start bit.
THEOREM HandedOutZero ==
  UncutSpec => []HandsOutZeros
<1>1. ASSUME IInv PROVE HandsOutZeros
  <2>1. ASSUME NEW b \in Uses, NEW i \in Held(b)
        PROVE  body[tlab[b].page][i] = 0 /\ starts[tlab[b].page][i] = 0
    <3>1. b \in Buffer
      BY UsesAre
    <3>2. tlab[b].page \in Page
      BY <1>1, <2>1, <3>1 DEF IInv, BuffersSound
    <3>3. i \in Offset
      <4>1. tlab[b].cursor \in 0 .. PageCells /\ tlab[b].end \in 0 .. PageCells
        BY <1>1, <3>1 DEF IInv, TypeOK
      <4>2. QED
        BY <2>1, <4>1, TlabsAssumption DEF Held, Offset
    <3>4. HeldBy(b, tlab[b].page, i)
      BY <2>1 DEF HeldBy
    <3>5. QED
      BY <1>1, <3>1, <3>2, <3>3, <3>4, UnwrittenIs
  <2>2. ASSUME NEW r \in Region, region[r].page # None,
               NEW i \in region[r].offset .. PageCells - 1
        PROVE  body[region[r].page][i] = 0 /\ starts[region[r].page][i] = 0
    <3>1. region[r] \in RegionDesc
      BY <1>1 DEF IInv, TypeOK
    <3>2. region[r].page \in Page /\ i \in Offset
      BY <2>2, <3>1, TlabsAssumption DEF RegionDesc, Offset
    <3>3. OpenTo(r, region[r].page, i)
      BY DEF OpenTo
    <3>4. QED
      BY <1>1, <3>2, <3>3, UnwrittenIs
  <2>3. QED
    BY <2>1, <2>2 DEF HandsOutZeros, Held
<1>2. IInv => HandsOutZeros
  BY <1>1
<1>3. UncutSpec => []IInv
  BY TlabsInvariance
<1>4. QED
  BY <1>2, <1>3, PTL

\* No cell is handed out twice: the buffers of all mutators, the regions, the
\* objects and the later pages of runs are disjoint and on committed pages in
\* use.
THEOREM NoCellTwice ==
  UncutSpec => []OneOwner
<1>1. ASSUME IInv, NEW p \in Page, NEW i \in Offset
      PROVE  /\ Cardinality(Owners(p, i)) <= 1
             /\ Owners(p, i) # {} => p \in committed /\ GenOf(p) # "Free"
  <2>1. ASSUME NEW b \in Buffer, HeldBy(b, p, i), NEW c \in Buffer, HeldBy(c, p, i)
        PROVE  b = c
    BY <1>1, <2>1 DEF IInv, BuffersSound, HeldBy
  <2>2. ASSUME NEW r \in Region, OpenTo(r, p, i), NEW t \in Region, OpenTo(t, p, i)
        PROVE  r = t
    <3>1. p # None
      BY TlabsAssumption DEF Page
    <3>2. GenOf(p) = r[1] /\ desc[p].kind = r[2] /\ GenOf(p) = t[1] /\ desc[p].kind = t[2]
      BY <1>1, <2>2, <3>1 DEF IInv, TableSound, RegionSound, OpenTo
    <3>3. r = <<r[1], r[2]>> /\ t = <<t[1], t[2]>>
      BY PairIs DEF Region
    <3>4. QED
      BY <3>2, <3>3
  <2>3. ~((\E b \in Buffer : HeldBy(b, p, i)) /\ (\E r \in Region : OpenTo(r, p, i)))
    BY <1>1, UnwrittenIs
  <2>4. ASSUME NEW k \in Offset, Covers(k, p, i)
        PROVE  /\ ~(\E b \in Buffer : HeldBy(b, p, i))
               /\ ~(\E r \in Region : OpenTo(r, p, i))
               /\ \A j \in Offset : Covers(j, p, i) => j = k
    <3>1. i < desc[p].used /\ i \notin Reserved(p)
      BY <1>1, <2>4, WrittenIs
    <3>2. ~(\E b \in Buffer : HeldBy(b, p, i))
      BY <3>1 DEF HeldBy, Reserved
    <3>3. ~(\E r \in Region : OpenTo(r, p, i))
      BY <1>1, <3>1, UnwrittenIs
    <3>4. QED
      BY <1>1, <2>4, <3>2, <3>3, WrittenIs
  <2>5. \A x, y \in Owners(p, i) : x = y
    <3>1. ASSUME NEW h \in Page, Continues(h, p)
          PROVE  /\ \A k \in Page : Continues(k, p) => k = h
                 /\ ~(\E b \in Buffer : HeldBy(b, p, i))
                 /\ ~(\E r \in Region : OpenTo(r, p, i))
                 /\ ~(\E k \in Offset : Covers(k, p, i))
      BY <1>1, <3>1, ContinuationIs
    <3>2. QED
      BY <2>1, <2>2, <2>3, <2>4, <3>1, UsesAre, OwnersAre
  <2>6. Cardinality(Owners(p, i)) <= 1
    <3>1. CASE Owners(p, i) = {}
      BY <3>1, FS_EmptySet
    <3>2. CASE Owners(p, i) # {}
      <4>1. PICK x \in Owners(p, i) : Owners(p, i) = {x}
        BY <2>5, <3>2
      <4>2. Cardinality({x}) = 1
        BY FS_Singleton
      <4>3. QED
        BY <4>1, <4>2
    <3>3. QED
      BY <3>1, <3>2
  <2>7. Owners(p, i) # {} => GenOf(p) # "Free"
    <3>1. Owners(p, i) # {} => \/ \E b \in Buffer : HeldBy(b, p, i)
                               \/ \E r \in Region : OpenTo(r, p, i)
                               \/ \E k \in Offset : Covers(k, p, i)
                               \/ \E h \in Page : Continues(h, p)
      BY UsesAre, OwnersAre
    <3>2. QED
      BY <1>1, <3>1, UnwrittenIs, WrittenIs, ContinuationIs
  <2>8. GenOf(p) # "Free" => p \in committed
    BY <1>1 DEF IInv, TableSound, PageSound
  <2>9. QED
    BY <2>6, <2>7, <2>8
<1>2. IInv => OneOwner
  BY <1>1 DEF OneOwner
<1>3. UncutSpec => []IInv
  BY TlabsInvariance
<1>4. QED
  BY <1>2, <1>3, PTL

-----------------------------------------------------------------------------
(* The cap of the young generation.                                        *)

\* Pages of generation g after a slab has been carved from region r.
LEMMA CarvedPages ==
  ASSUME IInv, NEW r \in Region, NEW n \in 1 .. PageCells, NEW slab, Carve(r, n, slab)
  PROVE  \/ PagesIn("G0")' = PagesIn("G0")
         \/ ~Fits(r, n) /\ r[1] = "G0" /\ \E p \in Page : PagesIn("G0")' = PagesIn("G0") \cup {p}
<1>1. PICK p, at : p = PageFor(r, n) /\ at = OffsetFor(r, n)
  OBVIOUS
<1>2. Fits(r, n) \/ PagesIn("Free") # {}
  BY DEF Carve
<1>3. /\ p \in Page
      /\ \/ GenOf(p) = "Free" /\ ~Fits(r, n)
         \/ GenOf(p) = r[1]
  BY <1>1, <1>2, CarvePlace
<1>4. desc' = [desc EXCEPT ![p] = SmallDesc(r, at + slab)] /\ desc \in [Page -> Desc]
  BY <1>1 DEF Carve, IInv, TypeOK, Desc
<1>5. GenOf(p)' = r[1] /\ \A q \in Page \ {p} : GenOf(q)' = GenOf(q)
  BY <1>3, <1>4 DEF GenOf, SmallDesc
<1>6. CASE r[1] = "G0" /\ ~Fits(r, n)
  <2>1. PagesIn("G0")' = PagesIn("G0") \cup {p}
    BY <1>3, <1>5, <1>6 DEF PagesIn
  <2>2. QED
    BY <1>3, <1>6, <2>1
<1>7. CASE r[1] # "G0" \/ Fits(r, n)
  <2>1. GenOf(p) = "G0" <=> r[1] = "G0"
    BY <1>1, <1>3, <1>7, CarvePlace
  <2>2. PagesIn("G0")' = PagesIn("G0")
    BY <1>3, <1>5, <2>1 DEF PagesIn
  <2>3. QED
    BY <2>2
<1>8. QED
  BY <1>6, <1>7

\* One page more is one page more.
LEMMA OneMorePage ==
  ASSUME NEW S \in SUBSET Page, NEW p \in Page
  PROVE  Cardinality(S \cup {p}) <= Cardinality(S) + 1
<1>1. IsFiniteSet(S) /\ Cardinality(S) \in Nat
  BY PagesAreFinite
<1>2. QED
  BY <1>1, FS_AddElement

\* A run of n pages is at most n pages more.
LEMMA RunMorePages ==
  ASSUME NEW S \in SUBSET Page, NEW p \in Int, NEW n \in Nat \ {0}, NEW T \in SUBSET Page,
         T \subseteq S \cup p .. p + n - 1
  PROVE  Cardinality(T) <= Cardinality(S) + n
<1>1. PICK R : R = p .. p + n - 1
  OBVIOUS
<1>2. IsFiniteSet(R) /\ Cardinality(R) = n
  <2>1. p + n - 1 \in Int /\ p <= p + n - 1
    OBVIOUS
  <2>2. IsFiniteSet(R) /\ Cardinality(R) = (p + n - 1) - p + 1
    BY <1>1, <2>1, FS_Interval
  <2>3. QED
    BY <2>2
<1>3. IsFiniteSet(S) /\ Cardinality(S) \in Nat
  BY PagesAreFinite
<1>4. PICK U : U = S \cup R
  OBVIOUS
<1>5. /\ IsFiniteSet(U) /\ IsFiniteSet(S \cap R)
      /\ Cardinality(U) = Cardinality(S) + Cardinality(R) - Cardinality(S \cap R)
  BY <1>2, <1>3, <1>4, FS_Union, FS_Intersection
<1>6. Cardinality(S \cap R) \in Nat
  BY <1>5, FS_CardinalityType
<1>7. Cardinality(T) <= Cardinality(U)
  BY <1>1, <1>4, <1>5, FS_Subset
<1>8. Cardinality(U) <= Cardinality(S) + n
  BY <1>2, <1>3, <1>5, <1>6
<1>9. Cardinality(T) \in Nat /\ Cardinality(U) \in Nat
  BY <1>5, FS_CardinalityType, PagesAreFinite
<1>10. QED
  BY <1>3, <1>7, <1>8, <1>9

\* Outside a pass the young generation grows only as far as its cap, whether by
\* a buffer, a slab or a Large run.
THEOREM YoungCapped ==
  UncutSpec => YoungWithinCap
<1> DEFINE G == PagesIn("G0")
           Capped == pass = None /\ Cardinality(G') > Cardinality(G)
                       => Cardinality(G') <= YoungPageCap
<1>1. ASSUME IInv, UncutNext, pass = None PROVE Capped
  <2>1. /\ G \in SUBSET Page /\ G' \in SUBSET Page /\ Cardinality(G) \in Nat
        /\ Cardinality(G') \in Nat /\ YoungPageCap \in Nat
    <3>1. G \in SUBSET Page /\ G' \in SUBSET Page
      BY DEF PagesIn
    <3>2. QED
      BY <3>1, PagesAreFinite, TlabsAssumption
  <2>2. ASSUME NEW r \in Region, NEW n \in 1 .. PageCells, NEW slab, Carve(r, n, slab),
               ~Fits(r, n) /\ r[1] = "G0" => UnderCap(1)
        PROVE  Capped
    <3>1. CASE G' = G
      BY <2>1, <3>1
    <3>2. CASE UnderCap(1) /\ \E p \in Page : G' = G \cup {p}
      <4>1. Cardinality(G') <= Cardinality(G) + 1
        BY <2>1, <3>2, OneMorePage
      <4>2. QED
        BY <2>1, <3>2, <4>1 DEF UnderCap
    <3>3. QED
      BY <1>1, <2>2, <3>1, <3>2, CarvedPages
  <2>3. ASSUME NEW m \in Mutator, NEW r \in Region, AllocMiss(m, r) PROVE Capped
    <3>1. PICK n \in SizesOf(r[2]) :
            /\ Carve(r, n, Slab(<<m, r>>, r, n))
            /\ ~Fits(r, n) /\ r[1] = "G0" => UnderCap(1)
      BY <2>3 DEF AllocMiss
    <3>2. n \in 1 .. PageCells
      BY PairIs, Requests DEF Region
    <3>3. QED
      BY <2>2, <3>1, <3>2
  <2>4. ASSUME NEW m \in Mutator, TakeSlab(m) PROVE Capped
    <3>1. PICK r : r = RegionOf(SlabBuffer)
      OBVIOUS
    <3>2. r \in Region
      BY <3>1 DEF RegionOf, Region, Generation, Kind
    <3>3. PICK n \in SlabSizes : Carve(r, n, n) /\ (Fits(r, n) \/ UnderCap(1))
      BY <2>4, <3>1 DEF TakeSlab
    <3>4. n \in 1 .. PageCells
      BY TlabsAssumption
    <3>5. QED
      BY <2>2, <3>2, <3>3, <3>4
  <2>5. ASSUME AllocLarge PROVE Capped
    <3>1. PICK n \in LargeSpans :
            /\ UnderCap(n) /\ FreeRuns(n) # {}
            /\ Claimed(Least(FreeRuns(n)), n, n)
      BY <2>5 DEF AllocLarge
    <3>2. PICK p : p = Least(FreeRuns(n))
      OBVIOUS
    <3>3. p \in Int /\ n \in Nat \ {0} /\ NPages \in Nat
      BY <1>1, <3>1, <3>2, FreeRunIs, TlabsAssumption DEF IInv, Page
    <3>4. \A q \in Page : q \notin p .. p + n - 1 => desc'[q] = desc[q]
      BY <3>1, <3>2 DEF Claimed
    <3>5. G' \subseteq G \cup p .. p + n - 1
      BY <3>4 DEF PagesIn, GenOf
    <3>6. Cardinality(G') <= Cardinality(G) + n
      BY <2>1, <3>3, <3>5, RunMorePages
    <3>7. QED
      BY <2>1, <3>1, <3>3, <3>6 DEF UnderCap
  <2>6. ASSUME NEW from, NEW dest, NEW early, BeginPass(from, dest, early)
        PROVE  Capped
    <3>1. \A q \in Page : desc'[q] = desc[q] \/ desc'[q] = FreeDesc(FALSE)
      BY <2>6 DEF BeginPass
    <3>2. G' \subseteq G
      BY <3>1 DEF PagesIn, GenOf, FreeDesc
    <3>3. Cardinality(G') <= Cardinality(G)
      BY <2>1, <3>2, PagesAreFinite, FS_Subset
    <3>4. QED
      BY <2>1, <3>3
  <2>7. ASSUME UNCHANGED desc PROVE Capped
    BY <2>1, <2>7 DEF PagesIn, GenOf
  <2>8. ASSUME NEW m \in Mutator, NEW r, AllocHit(m, r) \/ SlabBump(m) \/ Flush(m)
        PROVE  UNCHANGED desc
    BY <2>8 DEF AllocHit, SlabBump, Bump, Flush, Flushed, tableVars
  <2>9. /\ ~CopyObject /\ ~MidEvacOom /\ ~PickChunk /\ ~EndPass
        /\ \A p : ~Reclaim(p)
    BY <1>1 DEF CopyObject, MidEvacOom, PickChunk, EndPass, Reclaim, Reclaiming,
                SkipPage, FlipRun, ReleaseRun, FlipPage, ReleasePage
  <2>10. \A b \in Uses : b[1] \in Mutator /\ (b[2] # SlabBuffer => b[2] \in Region)
    BY UsesAre
  <2>11. ASSUME Refusal PROVE UNCHANGED desc
    <3>1. ASSUME NEW m, NEW r, AllocMissRefused(m, r) \/ TakeSlabRefused(m) \/ CopyRefused
          PROVE  UNCHANGED desc
      BY <3>1 DEF AllocMissRefused, TakeSlabRefused, CopyRefused, CommitRefused
    <3>2. ASSUME NEW n \in LargeSpans, AllocLargeRefused(n, 0) PROVE UNCHANGED desc
      <4>1. PICK p : p = Least(FreeRuns(n)) /\ FreeRuns(n) # {} /\ Claimed(p, n, 0)
        BY <3>2 DEF AllocLargeRefused
      <4>2. p \in Int
        BY <1>1, <4>1, FreeRunIs DEF IInv, Page
      <4>3. p .. p + 0 - 1 = {}
        BY <4>2
      <4>4. desc \in [Page -> Desc]
        BY <1>1 DEF IInv, TypeOK, Desc
      <4>5. QED
        BY <4>1, <4>3, <4>4 DEF Claimed
    <3>3. QED
      BY <2>11, <3>1, <3>2 DEF Refusal
  <2>12. QED
    BY <1>1, <2>3, <2>4, <2>5, <2>6, <2>7, <2>8, <2>9, <2>10, <2>11 DEF UncutNext, Step
<1>2. IInv /\ [UncutNext]_vars => [Capped]_vars
  BY <1>1
<1>3. UncutSpec => []IInv
  BY TlabsInvariance
<1>4. QED
  BY <1>2, <1>3, PTL DEF UncutSpec, YoungWithinCap
=============================================================================
