---------------------------- MODULE HeapImplements ----------------------------
(***************************************************************************)
(* PageHeap keeps the promise of ManagedHeap: each step of the client is a *)
(* step of ManagedHeap, and a step of a collection changes nothing that a  *)
(* client sees.  And a full collection leaves no garbage.  The hypotheses  *)
(* are those of HeapPointerProofs.                                         *)
(***************************************************************************)
EXTENDS HeapPointerProofs

\* Names of objects and of nothing tell them apart, and so do those of holders.
NamesApart ==
  /\ IsFiniteSet(Id) /\ Null \notin Id
  /\ Root \cap (Static \cup Stack \cup Handle) = {}
  /\ Static \cap (Stack \cup Handle) = {}
  /\ Stack \cap Handle = {}

-----------------------------------------------------------------------------
(* ManagedHeap: what is live.                                              *)

\* Holders and pointers with names of objects, or with none.
Named(h, l) ==
  /\ \A x \in Holder : h[x] \in Id \cup {Null}
  /\ \A e \in l : e[2] \in Id \cup {Null}

\* A set that holds what holders name and what its members point at.
ClosedUnder(T, h, l) ==
  /\ \A x \in Holder : h[x] # Null => h[x] \in T
  /\ \A e \in l : e[1] \in T /\ e[2] # Null => e[2] \in T

\* Live is the least of them.
LEMMA LiveIs ==
  ASSUME IsFiniteSet(Id), NEW h, NEW l, Named(h, l)
  PROVE  /\ Promise!Live(h, l) \subseteq Id
         /\ ClosedUnder(Promise!Live(h, l), h, l)
         /\ \A T : ClosedUnder(T, h, l) => Promise!Live(h, l) \subseteq T
<1> DEFINE n == Cardinality(Id)
           first == {h[x] : x \in Holder} \ {Null}
           step(S) == {e[2] : e \in {d \in l : d[1] \in S}} \ {Null}
           more == [W \in SUBSET Id |-> step(W)]
           Chain(f) == f = [k \in 0 .. n |-> IF k = 0 THEN first
                                            ELSE f[k - 1] \cup step(f[k - 1])]
<1>1. n \in Nat /\ IsFiniteSet(Id)
  BY FS_CardinalityType
<1>2. first \in SUBSET Id /\ \A S : step(S) \in SUBSET Id
  BY DEF Named
<1>3. \A S, T : S \subseteq T => step(S) \subseteq step(T)
  OBVIOUS
<1>4. Promise!Live(h, l) = LET f == CHOOSE f : Chain(f) IN f[n]
  <2>1. Promise!Cardinality(Id) = Cardinality(Id)
    BY DEF Promise!Cardinality, Cardinality
  <2>2. QED
    BY <2>1 DEF Promise!Live
<1>5. \A T : ClosedUnder(T, h, l) <=> first \subseteq T /\ step(T) \subseteq T
  BY DEF ClosedUnder
<1> HIDE DEF first, step, n
<1>6. more \in [SUBSET Id -> SUBSET Id] /\ \A W \in SUBSET Id : more[W] = step(W)
  BY <1>2
<1> HIDE DEF more
<1>7. Growth(n, Id, first, more)
  BY <1>1, <1>2, <1>6 DEF Growth
<1>8. \E f : Chain(f)
  <2>1. PICK f : Grown(f, n, Id, first, more)
    BY <1>7, GrowthExists
  <2>2. \A k \in 0 .. n : f[k] = IF k = 0 THEN first ELSE f[k - 1] \cup step(f[k - 1])
    <3> USE DEF Grown
    <3> SUFFICES ASSUME NEW k \in 0 .. n, k # 0 PROVE f[k] = f[k - 1] \cup step(f[k - 1])
      BY <2>1
    <3>1. k - 1 \in 0 .. n
      BY <1>1
    <3>2. f[k - 1] \in SUBSET Id
      BY <2>1, <3>1
    <3>3. QED
      BY <1>6, <2>1, <3>2
  <2>3. f = [k \in 0 .. n |-> f[k]]
    BY <2>1 DEF Grown
  <2>4. QED
    BY <2>2, <2>3
<1>9. PICK f : Chain(f) /\ Promise!Live(h, l) = f[n]
  <2> HIDE DEF Chain
  <2>1. QED
    BY <1>4, <1>8
<1>10. Grows(f, n, Id, first, more)
  <2>1. \A k \in 0 .. n : f[k] = IF k = 0 THEN first ELSE f[k - 1] \cup step(f[k - 1])
    BY <1>9
  <2>2. f[0] = first
    <3>1. 0 \in 0 .. n
      BY <1>1
    <3>2. QED
      BY <2>1, <3>1
  <2>3. ASSUME NEW k \in Nat, k + 1 <= n, f[k] \in SUBSET Id
        PROVE  f[k + 1] = f[k] \cup more[f[k]]
    <3>1. k + 1 \in 0 .. n /\ (k + 1) - 1 = k /\ k + 1 # 0
      BY <1>1, <2>3
    <3>2. f[k + 1] = f[k] \cup step(f[k])
      BY <2>1, <3>1
    <3>3. QED
      BY <1>6, <2>3, <3>2
  <2>4. QED
    BY <2>2, <2>3 DEF Grows
<1>11. /\ first \subseteq f[n] /\ f[n] \subseteq Id /\ more[f[n]] \subseteq f[n]
       /\ \A T : /\ first \subseteq T
                 /\ \A W \in SUBSET Id : W \subseteq T => more[W] \subseteq T
                 => f[n] \subseteq T
  <2>1. Cardinality(Id) <= n
    BY <1>1 DEF n
  <2>2. QED
    BY <1>1, <1>7, <1>10, <2>1, GrowthEnds
<1>12. ASSUME NEW T, first \subseteq T, step(T) \subseteq T
       PROVE  f[n] \subseteq T
  <2>1. ASSUME NEW W \in SUBSET Id, W \subseteq T PROVE more[W] \subseteq T
    BY <1>3, <1>6, <1>12, <2>1
  <2>2. QED
    BY <1>11, <1>12, <2>1
<1>13. step(f[n]) \subseteq f[n]
  BY <1>6, <1>11
<1>14. Promise!Live(h, l) = f[n]
  BY <1>9
<1>15. first \subseteq f[n] /\ f[n] \subseteq Id
  BY <1>11
<1>16. \A T : first \subseteq T /\ step(T) \subseteq T => f[n] \subseteq T
  BY <1>12
<1>17. QED
  BY <1>5, <1>13, <1>14, <1>15, <1>16

\* The pointers of what is live.
Remaining(h, l) == {e \in l : e[1] \in Promise!Live(h, l)}

\* Pointers of what is not live make no difference.
LEMMA LiveAgrees ==
  ASSUME IsFiniteSet(Id), NEW h, NEW L, Named(h, L), NEW l \in SUBSET L,
         \A e \in L : e[1] \in Promise!Live(h, l) => e \in l
  PROVE  /\ Promise!Live(h, L) = Promise!Live(h, l)
         /\ Remaining(h, L) = Remaining(h, l)
<1>1. Named(h, l)
  BY DEF Named
<1>2. ClosedUnder(Promise!Live(h, l), h, L)
  BY <1>1, LiveIs DEF ClosedUnder
<1>3. ClosedUnder(Promise!Live(h, L), h, l)
  BY LiveIs DEF ClosedUnder
<1>4. Promise!Live(h, L) = Promise!Live(h, l)
  BY <1>1, <1>2, <1>3, LiveIs
<1>5. QED
  BY <1>4 DEF Remaining


-----------------------------------------------------------------------------
(* Identities.                                                             *)

\* No two objects are the same one.
IdInv == \A a, b \in Objects :
  IsObject(a) /\ IsObject(b) /\ cell[a].id = cell[b].id => a = b

\* Objects that stay, or go, stay apart.
LEMMA IdStays ==
  ASSUME IdInv,
         \A a \in Objects' : cell'[a].tag = "object" =>
            a \in Objects /\ IsObject(a) /\ cell'[a].id = cell[a].id
  PROVE  IdInv'
<1> SUFFICES ASSUME NEW a \in Objects', NEW b \in Objects',
                    cell'[a].tag = "object", cell'[b].tag = "object", cell'[a].id = cell'[b].id
             PROVE  a = b
  BY DEF IdInv, IsObject
<1>1. QED
  BY DEF IdInv

\* So they do while their contents stay and no page in use comes to them.
LEMMA IdUnmoved ==
  ASSUME IdInv, MemoryTyped, UNCHANGED <<cell, starts>>,
         \A p \in Page : desc'[p].gen # "Free" => desc[p].gen # "Free"
  PROVE  IdInv'
<1>1. \A a \in Objects' : a \in Objects
  BY PageOfIn DEF Objects, GenOf, PageOf, MemoryTyped
<1>2. QED
  BY <1>1, IdStays DEF IsObject

\* Setting pins changes no generation.
LEMMA PinsKeepGen ==
  ASSUME TableTyped, NEW S,
         desc' = [p \in Page |-> IF p \in S THEN [desc[p] EXCEPT !.pins = TRUE] ELSE desc[p]]
  PROVE  \A p \in Page : desc'[p].gen = desc[p].gen
BY DEF TableTyped, Desc

\* The client makes objects unlike any in the heap.
LEMMA IdClient ==
  ASSUME NoLarge, Sound, Sound', IdInv, Client
  PROVE  IdInv'
<1> USE DEF Sound, CycleInv, TypeInv
<1>1. CASE \E r \in Root, i \in Id \ Present, w \in Values : Alloc(r, i, w)
  <2>1. PICK r \in Root, i \in Id \ Present, w \in Values : Alloc(r, i, w)
    BY <1>1
  <2>2. /\ Claim("G0") /\ CanPlace("G0") /\ "G0" \in Generation
        /\ starts' = StartsWithNext("G0")
        /\ cell' = CellsWithNext("G0", Object(i, w))
        /\ phase = "idle"
    BY <2>1 DEF Alloc, CanPlace, Generation, Idle
  <2>3. \A g \in Generation : Exclusive(g)
    BY <2>2 DEF RegionInv, Handed
  <2>4. PICK n \in Addr :
          /\ n = NextSlot("G0") /\ n \notin Objects /\ Objects' = Objects \cup {n}
          /\ \A a \in Objects : CellsWithNext("G0", Object(i, w))[a] = cell[a]
    BY <2>2, <2>3, ObjectPlaced
  <2>5. cell'[n] = Object(i, w) /\ cell'[n].id = i /\ \A a \in Objects : cell'[a] = cell[a]
    BY <2>2, <2>4 DEF CellsWithNext, Object
  <2>6. \A a \in Objects : IsObject(a) => cell[a].id # i
    BY DEF Present
  <2>7. ASSUME NEW a \in Objects', NEW b \in Objects',
               cell'[a].tag = "object", cell'[b].tag = "object", cell'[a].id = cell'[b].id
        PROVE  a = b
    BY <2>4, <2>5, <2>6, <2>7 DEF IdInv, IsObject
  <2>8. QED
    BY <2>7 DEF IdInv, IsObject
<1>2. CASE \E r \in Root, i \in Id, w \in Values : AllocLarge(r, i, w)
  BY <1>2, ShapeLarge DEF AllocLarge
<1>3. CASE \E r \in Root, w \in Values : Store(r, w)
  <2>1. PICK r \in Root, w \in Values : Store(r, w)
    BY <1>3
  <2>2. /\ cell' = [cell EXCEPT ![root[r]] = [cell[root[r]] EXCEPT !.ptr = w]]
        /\ UNCHANGED <<desc, starts>>
    BY <2>1 DEF Store, tableVars
  <2>3. Objects' = Objects
    BY <2>2 DEF Objects, GenOf, PageOf
  <2>4. ASSUME NEW a \in Objects, cell'[a].tag = "object"
        PROVE  IsObject(a) /\ cell'[a].id = cell[a].id
    <3>1. a \in Addr /\ cell \in [Addr -> Contents]
      BY ObjectsAre DEF MemoryTyped
    <3>2. CASE a = root[r]
      <4>1. cell'[a] = [cell[a] EXCEPT !.ptr = w]
        BY <2>2, <3>1, <3>2
      <4>2. IsObject(a)
        BY <2>4, <3>1, <4>1, TagKept DEF IsObject
      <4>3. QED
        BY <3>1, <4>1, <4>2, PointerStored
    <3>3. CASE a # root[r]
      BY <2>2, <2>4, <3>1, <3>3 DEF IsObject
    <3>4. QED
      BY <3>2, <3>3
  <2>5. QED
    BY <2>3, <2>4, IdStays
<1>4. CASE \/ \E r \in Root, w \in Loadable : SetRoot(r, w)
           \/ \E s \in Static, w \in Values : StoreStatic(s, w)
           \/ \E s \in Stack, w \in Values : Spill(s, w)
           \/ \E h \in Handle : Unpin(h) \/ \E w \in Values \ {Null} : Pin(h, w)
  <2>1. UNCHANGED <<desc, cell, starts>>
    BY <1>4 DEF SetRoot, StoreStatic, Spill, Unpin, Pin, heapVars, tableVars
  <2>2. QED
    BY <2>1, IdUnmoved
<1>5. QED
  BY <1>1, <1>2, <1>3, <1>4 DEF Client

\* The collector moves objects, and takes some away; it makes none.
LEMMA IdStep ==
  ASSUME NoLarge, NoGaps, OneChunk, Sound, Sound', PointerInv, IdInv, [Next]_vars
  PROVE  IdInv'
<1> USE DEF Sound, CycleInv, TypeInv
<1>1. CASE UNCHANGED vars
  BY <1>1, IdUnmoved DEF vars, heapVars, tableVars
<1>2. CASE Client
  BY <1>2, IdClient
<1>3. CASE StartMinor \/ StartMajor \/ StartFull
  <2>1. PICK gens :
          /\ UNCHANGED <<cell, starts>>
          /\ desc' = [p \in Page |->
                        IF p \in {q \in Page : \E a \in StackPins(gens) : PageOf(a) = q}
                          THEN [desc[p] EXCEPT !.pins = TRUE] ELSE desc[p]]
    BY <1>3 DEF StartMinor, StartMajor, StartFull, Begin
  <2>2. \A p \in Page : desc'[p].gen = desc[p].gen
    BY <2>1, PinsKeepGen
  <2>3. QED
    BY <2>1, <2>2, IdUnmoved
<1>4. CASE MarkMinorWithStatic \/ BeginPass \/ PickChunk \/ MidEvacOom
  BY <1>4, IdUnmoved DEF MarkMinorWithStatic, BeginPass, PickChunk, MidEvacOom, heapVars, tableVars
<1>5. CASE CollectMinorWithStatic
  <2>1. UNCHANGED <<cell, starts>>
    BY <1>5 DEF CollectMinorWithStatic
  <2>2. \A p \in Page : desc'[p].gen # "Free" => desc[p].gen # "Free"
    <3> DEFINE pins == StackPins({"G0", "G1"})
               live == Closure(marks \cup pins \cup Pointers(pins))
               drained == IF premarked THEN ZeroLive(live) ELSE {}
               P == {PageOf(a) : a \in pins}
    <3>1. desc' = [p \in Page |->
                     CASE p \in drained -> FreeDesc
                       [] p \in P -> [desc[p] EXCEPT !.pins = TRUE]
                       [] OTHER -> desc[p]]
      BY <1>5 DEF CollectMinorWithStatic
    <3> HIDE DEF drained, P
    <3>2. QED
      BY <3>1 DEF FreeDesc, TableTyped, Desc
  <2>3. QED
    BY <2>1, <2>2, IdUnmoved
<1>6. CASE Mark
  <2>1. UNCHANGED <<cell, starts>> /\ \A p \in Page : desc'[p].gen = desc[p].gen
    BY <1>6, PinsKeepGen DEF Mark
  <2>2. QED
    BY <2>1, IdUnmoved
<1>7. CASE EndCycle
  <2>1. UNCHANGED <<cell, starts>> /\ \A p \in Page : desc'[p].gen = desc[p].gen
    BY <1>7 DEF EndCycle, TableTyped, Desc
  <2>2. QED
    BY <2>1, IdUnmoved
<1>8. CASE CopyObject
  <2>1. PICK src \in Objects, dst \in Addr :
          /\ IsObject(src) /\ dst \notin Objects
          /\ Objects' = Objects \cup {dst}
          /\ cell'[src] = Forward(dst) /\ cell'[dst] = cell[src]
          /\ \A a \in Objects : a # src => cell'[a] = cell[a]
    BY <1>8, CopyMoves
  <2>2. cell'[src].tag # "object"
    BY <2>1 DEF Forward
  <2>3. ASSUME NEW a \in Objects', NEW b \in Objects',
               cell'[a].tag = "object", cell'[b].tag = "object", cell'[a].id = cell'[b].id
        PROVE  a = b
    BY <2>1, <2>2, <2>3 DEF IdInv, IsObject
  <2>4. QED
    BY <2>3 DEF IdInv, IsObject
<1>9. CASE Rewrite
  <2>1. \A a \in Objects' : a \in Objects /\ a \in Addr /\ cell'[a].tag = cell[a].tag
    BY <1>9, RewriteFollows
  <2>2. ASSUME NEW a \in Objects', IsObject(a) PROVE cell'[a].id = cell[a].id
    <3>1. cell'[a] = IF a \in Rewritten /\ IsObject(a)
                       THEN [cell[a] EXCEPT !.ptr = Followed(cell[a].ptr)] ELSE cell[a]
      BY <1>9, <2>1 DEF Rewrite
    <3>2. QED
      BY <2>1, <2>2, <3>1, PointerStored
  <2>3. QED
    BY <2>1, <2>2, IdStays DEF IsObject
<1>10. CASE Reclaim
  <2>1. \A a \in Objects' : a \in Objects /\ cell'[a] = cell[a]
    BY <1>10, ReclaimLeaves
  <2>2. QED
    BY <2>1, IdStays DEF IsObject
<1>11. QED
  BY <1>1, <1>2, <1>3, <1>4, <1>5, <1>6, <1>7, <1>8, <1>9, <1>10 DEF Next, Collector

-----------------------------------------------------------------------------
(* Names of words, and what the client reaches.                            *)

Sane == Sound /\ PointerInv /\ IdInv

\* Objects in use, copies and not their sources.
Real == {a \in Kept : IsObject(a)}

\* A word names the object that it leads to.
Clear(w) ==
  IF w = Null THEN NameOf(w) = Null
  ELSE Meant(w) \in Real /\ NameOf(w) = cell[Meant(w)].id /\ NameOf(w) \in Id

\* Every word that leads to what is kept has a name.
LEMMA ClearNow == Sane => \A w : Safe(w) => Clear(w)
<1> SUFFICES ASSUME Sane, NEW w, Safe(w) PROVE Clear(w)
  OBVIOUS
<1> USE DEF Sane, Sound, CycleInv, TypeInv
<1>1. CASE w = Null
  BY <1>1 DEF Clear, NameOf
<1>2. CASE w # Null
  <2>1. w \in Objects /\ w \in Kept
    BY <1>2 DEF Safe, Kept
  <2>2. Meant(w) \in Objects /\ IsObject(Meant(w)) /\ Meant(w) \in Kept
    <3>1. CASE IsForward(w)
      <4>1. Looping /\ Meant(w) = cell[w].to
        BY <1>2, <2>1, <3>1 DEF ObjectInv, ForwardInv, Busy, Looping, Meant, IsObject, IsForward
      <4>2. /\ cell[w].to \in Objects /\ IsObject(cell[w].to)
            /\ PageOf(cell[w].to) \notin Unmoved
        BY <2>1, <3>1 DEF PointerInv, FollowInv
      <4>3. QED
        BY <4>1, <4>2 DEF Kept, Doomed
    <3>2. CASE ~IsForward(w)
      BY <2>1, <3>2 DEF Meant, ObjectInv, ForwardInv
    <3>3. QED
      BY <3>1, <3>2
  <2>3. NameOf(w) = cell[Meant(w)].id
    BY <1>2, <2>2 DEF NameOf
  <2>4. cell[Meant(w)].id \in Id
    <3> DEFINE m == Meant(w)
    <3>1. m \in Addr /\ IsObject(m)
      BY <2>2, ObjectsAre
    <3> HIDE DEF m
    <3>2. cell[m].id \in Id
      BY <3>1, ContentsAre
    <3>3. QED
      BY <3>2 DEF m
  <2>5. QED
    BY <1>2, <2>2, <2>3, <2>4 DEF Clear, Real
<1>3. QED
  BY <1>1, <1>2

\* Whatever a holder or an object in use holds does.
LEMMA HeldNow ==
  Sane => /\ \A x \in Holder : Safe(WordOf(x))
          /\ \A a \in Real : Safe(cell[a].ptr)
          /\ \A a, b \in Real : cell[a].id = cell[b].id => a = b
          /\ \A a \in Real : a \in Addr /\ a \in Objects /\ cell[a].id \in Id
<1> SUFFICES ASSUME Sane
             PROVE  /\ \A x \in Holder : Safe(WordOf(x))
                    /\ \A a \in Real : Safe(cell[a].ptr)
                    /\ \A a, b \in Real : cell[a].id = cell[b].id => a = b
                    /\ \A a \in Real : a \in Addr /\ a \in Objects /\ cell[a].id \in Id
  OBVIOUS
<1> USE DEF Sane, Sound, CycleInv, TypeInv
<1>1. \A x \in Holder : WordOf(x) \in HeldWords
  BY DEF Holder, WordOf, HeldWords, ImageOf, HoldersTyped
<1>2. \A a \in Real : a \in Objects /\ IsObject(a)
  BY DEF Real, Kept
<1>3. \A a \in Real : a \in Addr /\ cell[a].id \in Id
  BY <1>2, ObjectsAre, ContentsAre
<1>4. QED
  BY <1>1, <1>2, <1>3 DEF PointerInv, KeptInv, IdInv, Real

\* A set with every object that holders lead to or its members lead to.
Reaches(T) ==
  /\ \A x \in Holder : WordOf(x) # Null => Meant(WordOf(x)) \in T
  /\ \A a \in T : IsObject(a) /\ cell[a].ptr # Null => Meant(cell[a].ptr) \in T

\* There are no more objects in use than identities.
LEMMA RealIsFinite ==
  ASSUME IsFiniteSet(Id), Sane
  PROVE  IsFiniteSet(Real) /\ Cardinality(Real) <= Cardinality(Id)
<1> DEFINE f == [a \in Real |-> cell[a].id]
<1>1. f \in Injection(Real, Id)
  BY HeldNow DEF Injection, IsInjective
<1>2. QED
  BY <1>1, FS_Injection

\* What the client reaches is the least such set, and all of it is in use.
LEMMA ReachedNowIs ==
  ASSUME IsFiniteSet(Id)
  PROVE  Sane => /\ ReachedNow \subseteq Real
                 /\ Reaches(ReachedNow)
                 /\ \A T : Reaches(T) => ReachedNow \subseteq T
<1> SUFFICES ASSUME Sane
             PROVE  /\ ReachedNow \subseteq Real
                    /\ Reaches(ReachedNow)
                    /\ \A T : Reaches(T) => ReachedNow \subseteq T
  OBVIOUS
<1> DEFINE n == Cardinality(Id)
           meant(words) == {Meant(w) : w \in words \ {Null}}
           first == meant({WordOf(x) : x \in Holder})
           follow(S) == meant(Pointers(S))
           more == [W \in SUBSET Real |-> follow(W)]
           Chain(f) == f = [k \in 0 .. n |-> IF k = 0 THEN first
                                            ELSE f[k - 1] \cup follow(f[k - 1])]
<1>1. n \in Nat /\ IsFiniteSet(Real) /\ Cardinality(Real) <= n
  BY FS_CardinalityType, RealIsFinite
<1>2. \A w : Safe(w) /\ w # Null => Meant(w) \in Real
  BY ClearNow DEF Clear
<1>3. first \in SUBSET Real
  BY <1>2, HeldNow
<1>4. \A S \in SUBSET Real : follow(S) \in SUBSET Real
  BY <1>2, HeldNow DEF Pointers
<1>5. ReachedNow = LET f == CHOOSE f : Chain(f) IN f[n]
  BY DEF ReachedNow, Leads
<1>6. \A S, T : S \subseteq T => follow(S) \subseteq follow(T)
  BY DEF Pointers
<1>7. \A T : Reaches(T) <=> first \subseteq T /\ follow(T) \subseteq T
  BY DEF Reaches, Pointers
<1> HIDE DEF first, follow, n, meant
<1>8. more \in [SUBSET Real -> SUBSET Real] /\ \A W \in SUBSET Real : more[W] = follow(W)
  BY <1>4
<1> HIDE DEF more
<1>9. Growth(n, Real, first, more)
  BY <1>1, <1>3, <1>8 DEF Growth
<1>10. \E f : Chain(f)
  <2>1. PICK f : Grown(f, n, Real, first, more)
    BY <1>9, GrowthExists
  <2>2. \A k \in 0 .. n : f[k] = IF k = 0 THEN first ELSE f[k - 1] \cup follow(f[k - 1])
    <3> USE DEF Grown
    <3> SUFFICES ASSUME NEW k \in 0 .. n, k # 0 PROVE f[k] = f[k - 1] \cup follow(f[k - 1])
      BY <2>1
    <3>1. k - 1 \in 0 .. n
      BY <1>1
    <3>2. f[k - 1] \in SUBSET Real
      BY <2>1, <3>1
    <3>3. QED
      BY <1>8, <2>1, <3>2
  <2>3. f = [k \in 0 .. n |-> f[k]]
    BY <2>1 DEF Grown
  <2>4. QED
    BY <2>2, <2>3
<1>11. PICK f : Chain(f) /\ ReachedNow = f[n]
  <2> HIDE DEF Chain
  <2>1. QED
    BY <1>5, <1>10
<1>12. Grows(f, n, Real, first, more)
  <2>1. \A k \in 0 .. n : f[k] = IF k = 0 THEN first ELSE f[k - 1] \cup follow(f[k - 1])
    BY <1>11
  <2>2. f[0] = first
    <3>1. 0 \in 0 .. n
      BY <1>1
    <3>2. QED
      BY <2>1, <3>1
  <2>3. ASSUME NEW k \in Nat, k + 1 <= n, f[k] \in SUBSET Real
        PROVE  f[k + 1] = f[k] \cup more[f[k]]
    <3>1. k + 1 \in 0 .. n /\ (k + 1) - 1 = k /\ k + 1 # 0
      BY <1>1, <2>3
    <3>2. f[k + 1] = f[k] \cup follow(f[k])
      BY <2>1, <3>1
    <3>3. QED
      BY <1>8, <2>3, <3>2
  <2>4. QED
    BY <2>2, <2>3 DEF Grows
<1>13. /\ first \subseteq f[n] /\ f[n] \subseteq Real /\ more[f[n]] \subseteq f[n]
       /\ \A T : /\ first \subseteq T
                 /\ \A W \in SUBSET Real : W \subseteq T => more[W] \subseteq T
                 => f[n] \subseteq T
  BY <1>1, <1>9, <1>12, GrowthEnds
<1>14. ASSUME NEW T, first \subseteq T, follow(T) \subseteq T
       PROVE  f[n] \subseteq T
  <2>1. ASSUME NEW W \in SUBSET Real, W \subseteq T PROVE more[W] \subseteq T
    BY <1>6, <1>8, <1>14, <2>1
  <2>2. QED
    BY <1>13, <1>14, <2>1
<1>15. follow(f[n]) \subseteq f[n]
  BY <1>8, <1>13
<1>16. ReachedNow = f[n] /\ first \subseteq f[n] /\ f[n] \subseteq Real
  BY <1>11, <1>13
<1>17. \A T : first \subseteq T /\ follow(T) \subseteq T => f[n] \subseteq T
  BY <1>14
<1>18. QED
  BY <1>7, <1>15, <1>16, <1>17

-----------------------------------------------------------------------------
(* Links.                                                                  *)

\* What a holder names, and what an object in use points at.
Held == [x \in Holder |-> NameOf(WordOf(x))]
LinkOf(a) == <<cell[a].id, NameOf(cell[a].ptr)>>
KeptLinks == {LinkOf(a) : a \in Real}
ReachedIds == {cell[a].id : a \in ReachedNow}

\* What holders hold and objects point at has names.
LEMMA LinksNamed ==
  Sane => /\ Named(Held, KeptLinks)
          /\ \A e, f \in KeptLinks : e[1] = f[1] => e = f
<1> SUFFICES ASSUME Sane
             PROVE  /\ Named(Held, KeptLinks)
                    /\ \A e, f \in KeptLinks : e[1] = f[1] => e = f
  OBVIOUS
<1>1. \A w : Safe(w) => NameOf(w) \in Id \cup {Null}
  BY ClearNow DEF Clear
<1>2. Named(Held, KeptLinks)
  BY <1>1, HeldNow DEF Named, Held, KeptLinks, LinkOf
<1>3. \A a, b \in Real : LinkOf(a)[1] = LinkOf(b)[1] => a = b
  BY HeldNow DEF LinkOf
<1>4. QED
  BY <1>2, <1>3 DEF KeptLinks

\* What is live is what is reached, by the links of what is reached and any
\* others in use.
LEMMA LiveIsReached ==
  ASSUME NamesApart, Sane, NEW l \in SUBSET KeptLinks, Links \subseteq l
  PROVE  Promise!Live(Held, l) = ReachedIds
<1> DEFINE live == Promise!Live(Held, l)
<1>1. /\ ReachedNow \subseteq Real /\ Reaches(ReachedNow)
      /\ \A T : Reaches(T) => ReachedNow \subseteq T
  BY ReachedNowIs DEF NamesApart
<1>2. /\ \A x \in Holder : Clear(WordOf(x))
      /\ \A a \in Real : Clear(cell[a].ptr)
  BY ClearNow, HeldNow
<1>3. /\ ClosedUnder(live, Held, l)
      /\ \A T : ClosedUnder(T, Held, l) => live \subseteq T
  <2>1. Named(Held, l)
    BY LinksNamed DEF Named
  <2>2. QED
    BY <2>1, LiveIs DEF NamesApart
<1> HIDE DEF live
<1>4. \A a \in ReachedNow : IsObject(a) /\ LinkOf(a) \in Links
  BY <1>1 DEF Links, LinkOf, Real
<1>5. ClosedUnder(ReachedIds, Held, l)
  <2>1. ASSUME NEW x \in Holder, Held[x] # Null PROVE Held[x] \in ReachedIds
    <3>1. WordOf(x) # Null
      BY <1>2, <2>1 DEF Held, Clear
    <3>2. Meant(WordOf(x)) \in ReachedNow /\ Held[x] = cell[Meant(WordOf(x))].id
      BY <1>1, <1>2, <3>1 DEF Reaches, Held, Clear
    <3>3. QED
      BY <3>2 DEF ReachedIds
  <2>2. ASSUME NEW e \in l, e[1] \in ReachedIds, e[2] # Null PROVE e[2] \in ReachedIds
    <3>1. PICK a \in Real : e = LinkOf(a)
      BY DEF KeptLinks
    <3>2. PICK b \in ReachedNow : cell[b].id = cell[a].id
      BY <2>2, <3>1 DEF ReachedIds, LinkOf
    <3>3. a \in ReachedNow /\ IsObject(a)
      BY <1>1, <1>4, <3>2, HeldNow
    <3>4. cell[a].ptr # Null /\ e[2] = cell[Meant(cell[a].ptr)].id
      BY <1>2, <2>2, <3>1 DEF LinkOf, Clear
    <3>5. Meant(cell[a].ptr) \in ReachedNow
      BY <1>1, <3>3, <3>4 DEF Reaches
    <3>6. QED
      BY <3>4, <3>5 DEF ReachedIds
  <2>3. QED
    BY <2>1, <2>2 DEF ClosedUnder
<1> DEFINE T == {a \in ReachedNow : cell[a].id \in live}
<1>6. Reaches(T)
  <2>1. ASSUME NEW x \in Holder, WordOf(x) # Null PROVE Meant(WordOf(x)) \in T
    <3>1. Held[x] = cell[Meant(WordOf(x))].id /\ Held[x] # Null
      BY <1>2, <2>1 DEF Held, Clear, NamesApart
    <3>2. QED
      BY <1>1, <1>3, <2>1, <3>1 DEF Reaches, ClosedUnder
  <2>2. ASSUME NEW a \in T, cell[a].ptr # Null PROVE Meant(cell[a].ptr) \in T
    <3>1. LinkOf(a) \in l /\ LinkOf(a)[1] = cell[a].id /\ LinkOf(a)[2] = NameOf(cell[a].ptr)
      BY <1>4 DEF LinkOf
    <3>2. NameOf(cell[a].ptr) = cell[Meant(cell[a].ptr)].id /\ NameOf(cell[a].ptr) # Null
      BY <1>1, <1>2, <2>2 DEF Clear, NamesApart
    <3>3. cell[Meant(cell[a].ptr)].id \in live
      BY <1>3, <3>1, <3>2 DEF ClosedUnder
    <3>4. QED
      BY <1>1, <1>4, <2>2, <3>3 DEF Reaches
  <2>3. QED
    BY <2>1, <2>2 DEF Reaches
<1>7. live \subseteq ReachedIds
  BY <1>3, <1>5
<1>8. ReachedIds \subseteq live
  BY <1>1, <1>6 DEF ReachedIds
<1>9. QED
  BY <1>7, <1>8 DEF live

\* What the client sees of the links in use.
LEMMA LinksAre ==
  ASSUME NamesApart
  PROVE  Sane => /\ Links \subseteq KeptLinks
                 /\ Links = Remaining(Held, KeptLinks)
                 /\ Promise!Live(Held, KeptLinks) = ReachedIds
                 /\ Promise!Live(Held, Links) = ReachedIds
<1> SUFFICES ASSUME Sane
             PROVE  /\ Links \subseteq KeptLinks
                    /\ Links = Remaining(Held, KeptLinks)
                    /\ Promise!Live(Held, KeptLinks) = ReachedIds
                    /\ Promise!Live(Held, Links) = ReachedIds
  OBVIOUS
<1>1. ReachedNow \subseteq Real
  BY ReachedNowIs DEF NamesApart
<1>2. Links = {LinkOf(a) : a \in ReachedNow}
  BY <1>1 DEF Links, LinkOf, Real
<1>3. Links \subseteq KeptLinks
  BY <1>1, <1>2 DEF KeptLinks
<1>4. Promise!Live(Held, KeptLinks) = ReachedIds /\ Promise!Live(Held, Links) = ReachedIds
  BY <1>3, LiveIsReached
<1>5. ASSUME NEW e \in KeptLinks PROVE e[1] \in ReachedIds <=> e \in Links
  <2>1. PICK a \in Real : e = LinkOf(a)
    BY DEF KeptLinks
  <2>2. e[1] = cell[a].id
    BY <2>1 DEF LinkOf
  <2>3. e[1] \in ReachedIds <=> a \in ReachedNow
    BY <1>1, <2>2, HeldNow DEF ReachedIds
  <2>4. e \in Links => a \in ReachedNow
    <3> SUFFICES ASSUME NEW b \in ReachedNow, e = LinkOf(b) PROVE a \in ReachedNow
      BY <1>2
    <3>1. cell[b].id = cell[a].id
      BY <2>1 DEF LinkOf
    <3>2. QED
      BY <1>1, <3>1, HeldNow
  <2>5. QED
    BY <1>2, <2>1, <2>3, <2>4
<1>6. QED
  BY <1>3, <1>4, <1>5 DEF Remaining

\* What the client sees of a heap, in terms of the objects in use.
Seen ==
  /\ \A w : Safe(w) => Clear(w)
  /\ \A x \in Holder : Safe(WordOf(x))
  /\ \A a \in Real : Safe(cell[a].ptr)
  /\ ReachedNow \subseteq Real /\ Reaches(ReachedNow)
  /\ \A T : Reaches(T) => ReachedNow \subseteq T
  /\ Named(Held, KeptLinks)
  /\ \A e, f \in KeptLinks : e[1] = f[1] => e = f
  /\ Links \subseteq KeptLinks
  /\ Links = Remaining(Held, KeptLinks)
  /\ Promise!Live(Held, KeptLinks) = ReachedIds
  /\ Promise!Live(Held, Links) = ReachedIds
  /\ \A i \in ReachedIds : \E e \in KeptLinks : e[1] = i

\* It follows from the invariants.
LEMMA SeenNow == NamesApart /\ Sane => Seen
<1> SUFFICES ASSUME NamesApart, Sane PROVE Seen
  OBVIOUS
<1>1. /\ ReachedNow \subseteq Real /\ Reaches(ReachedNow)
      /\ \A T : Reaches(T) => ReachedNow \subseteq T
  BY ReachedNowIs DEF NamesApart
<1>2. /\ Links \subseteq KeptLinks
      /\ Links = Remaining(Held, KeptLinks)
      /\ Promise!Live(Held, KeptLinks) = ReachedIds
      /\ Promise!Live(Held, Links) = ReachedIds
  BY LinksAre
<1>3. \A i \in ReachedIds : \E e \in KeptLinks : e[1] = i
  <2>1. \A a \in ReachedNow : LinkOf(a) \in KeptLinks
    BY <1>1 DEF KeptLinks
  <2>2. \A a : LinkOf(a)[1] = cell[a].id
    BY DEF LinkOf
  <2>3. QED
    BY <2>1, <2>2 DEF ReachedIds
<1>4. QED
  BY <1>1, <1>2, <1>3, ClearNow, HeldNow, LinksNamed DEF Seen

\* ... after a step.
LEMMA SeenNext == NamesApart /\ Sane' => Seen'
<1>1. (NamesApart /\ Sane)' => Seen'
  BY SeenNow, PTL
<1>2. QED
  BY <1>1 DEF NamesApart

\* A step that changes no name and adds no link is no step to the client.
LEMMA LinksStay ==
  ASSUME NamesApart, Sane, Sane', Held' = Held, KeptLinks' \subseteq KeptLinks
  PROVE  Links' = Links
<1>1. Seen /\ Seen'
  BY SeenNow, SeenNext
<1>2. /\ Links = Remaining(Held, KeptLinks)
      /\ Named(Held, KeptLinks)
      /\ \A e, f \in KeptLinks : e[1] = f[1] => e = f
  BY <1>1 DEF Seen
<1>3. PICK h, l : /\ h = Held' /\ l = KeptLinks' /\ Links' = Remaining(h, l)
                  /\ \A i \in Promise!Live(h, l) : \E e \in l : e[1] = i
  BY <1>1 DEF Seen
<1>4. l \in SUBSET KeptLinks /\ h = Held
  BY <1>3
<1>5. \A e \in KeptLinks : e[1] \in Promise!Live(Held, l) => e \in l
  BY <1>2, <1>3, <1>4
<1>6. Remaining(Held, KeptLinks) = Remaining(Held, l)
  BY <1>2, <1>4, <1>5, LiveAgrees DEF NamesApart
<1>7. QED
  BY <1>2, <1>3, <1>4, <1>6

-----------------------------------------------------------------------------
(* The collector.                                                          *)

\* A step that writes neither objects nor holders.
LEMMA NothingWritten ==
  ASSUME NamesApart, Sane, Sane', UNCHANGED <<cell, root, static, stack, handle>>
  PROVE  Held' = Held /\ Links' = Links
<1>1. Seen /\ Seen'
  BY SeenNow, SeenNext
<1>2. /\ \A x : WordOf(x)' = WordOf(x)
      /\ \A w : Meant(w)' = Meant(w)
      /\ \A a : IsObject(a)' <=> IsObject(a)
  BY DEF WordOf, Meant, IsForward, IsObject
<1>3. ASSUME NEW w, Safe(w), Safe(w)' PROVE NameOf(w)' = NameOf(w)
  <2>1. Clear(w) /\ Clear(w)'
    BY <1>1, <1>3 DEF Seen
  <2>2. QED
    BY <1>2, <2>1 DEF Clear
<1>4. Held' = Held
  <2>1. ASSUME NEW x \in Holder PROVE NameOf(WordOf(x))' = NameOf(WordOf(x))
    <3>1. PICK w : w = WordOf(x) /\ Safe(w)
      BY <1>1 DEF Seen
    <3>2. Safe(w)'
      BY <1>1, <1>2, <3>1 DEF Seen, Safe
    <3>3. QED
      BY <1>2, <1>3, <3>1, <3>2 DEF NameOf
  <2>2. QED
    BY <2>1 DEF Held, Holder
<1>5. \A T : Reaches(T)' <=> Reaches(T)
  BY DEF Reaches, Meant, WordOf, IsForward, IsObject
<1>6. ReachedNow' = ReachedNow
  <2>1. PICK T : T = ReachedNow' /\ Reaches(T)'
    BY <1>1 DEF Seen, Reaches
  <2>2. ReachedNow \subseteq T
    BY <1>1, <1>5, <2>1 DEF Seen
  <2>3. Reaches(ReachedNow) /\ \A S : Reaches(S)' => ReachedNow' \subseteq S
    BY <1>1 DEF Seen
  <2>4. ReachedNow' \subseteq ReachedNow
    BY <1>5, <2>3
  <2>5. QED
    BY <2>1, <2>2, <2>4
<1>7. \A a \in ReachedNow : NameOf(cell[a].ptr)' = NameOf(cell[a].ptr)
  <2> SUFFICES ASSUME NEW a \in ReachedNow PROVE NameOf(cell[a].ptr)' = NameOf(cell[a].ptr)
    OBVIOUS
  <2>1. PICK w : w = cell[a].ptr /\ Safe(w)
    BY <1>1 DEF Seen
  <2>2. Safe(w)'
    <3>1. a \in Real'
      BY <1>1, <1>6 DEF Seen
    <3>2. QED
      BY <1>1, <2>1, <3>1 DEF Seen, Safe
  <2>3. QED
    BY <1>3, <2>1, <2>2 DEF NameOf
<1>8. Links' = Links
  BY <1>2, <1>6, <1>7 DEF Links
<1>9. QED
  BY <1>4, <1>8

\* A step under which every word keeps its name.
LEMMA NamesKept ==
  ASSUME NamesApart, Sane, Sane',
         \A x \in Holder : \E v, w : /\ v = WordOf(x) /\ w = WordOf(x)'
                                     /\ NameOf(w)' = NameOf(v),
         \A a \in Real' : \E b \in Real : \E v, w :
            /\ v = cell[b].ptr /\ w = cell'[a].ptr
            /\ cell'[a].id = cell[b].id /\ NameOf(w)' = NameOf(v)
  PROVE  Held' = Held /\ Links' = Links
<1>1. Held' = Held
  BY DEF Held, Holder
<1>2. KeptLinks' \subseteq KeptLinks
  <2> SUFFICES ASSUME NEW a \in Real' PROVE LinkOf(a)' \in KeptLinks
    BY DEF KeptLinks
  <2>1. PICK b \in Real : \E v, w : /\ v = cell[b].ptr /\ w = cell'[a].ptr
                                    /\ cell'[a].id = cell[b].id /\ NameOf(w)' = NameOf(v)
    OBVIOUS
  <2>2. PICK v, w : /\ v = cell[b].ptr /\ w = cell'[a].ptr
                    /\ cell'[a].id = cell[b].id /\ NameOf(w)' = NameOf(v)
    BY <2>1
  <2>3. LinkOf(a)' = <<cell'[a].id, NameOf(w)'>>
    BY <2>2 DEF LinkOf
  <2>4. LinkOf(b) = <<cell[b].id, NameOf(v)>>
    BY <2>2 DEF LinkOf
  <2>5. QED
    BY <2>2, <2>3, <2>4 DEF KeptLinks
<1>3. QED
  BY <1>1, <1>2, LinksStay

\* A copy takes over its source's name, and the marker leads there.
LEMMA CopyHidden ==
  ASSUME NamesApart, Sane, Sane', CopyObject
  PROVE  /\ Held' = Held /\ Links' = Links
         /\ \A a \in Real' : \E b \in Real : cell'[a].id = cell[b].id
<1> USE DEF Sane
<1>1. Seen /\ Seen'
  BY SeenNow, SeenNext
<1>2. PICK src \in Objects, dst \in Addr :
        /\ IsObject(src) /\ src \in marks /\ PageOf(src) \in Unmoved
        /\ dst \notin Objects /\ Objects' = Objects \cup {dst}
        /\ cell'[src] = Forward(dst) /\ cell'[dst] = cell[src]
        /\ \A a \in Objects : a # src => cell'[a] = cell[a]
        /\ PageOf(dst) \notin Unmoved
        /\ Looping /\ Looping' /\ Unmoved' = Unmoved
  BY CopyMoves
<1>3. UNCHANGED <<root, static, stack, handle, marks>>
  BY DEF CopyObject, evacVars, holderVars, loopVars
<1>4. Kept' = Kept \cup {dst}
  BY <1>2, <1>3 DEF Kept, Doomed, PageOf
<1>5. src \in Real
  BY <1>2 DEF Real, Kept
<1>6. \A a \in Real' : a = dst \/ (a \in Real /\ a # src)
  BY <1>2, <1>4 DEF Real, Kept, IsObject, Forward
<1>7. ASSUME NEW w, Safe(w) PROVE NameOf(w)' = NameOf(w)
  <2>1. Clear(w) /\ Clear(w)'
    <3>1. Safe(w)'
      BY <1>4, <1>7 DEF Safe
    <3>2. QED
      BY <1>1, <1>7, <3>1 DEF Seen
  <2>2. CASE w = Null
    BY <2>1, <2>2 DEF Clear
  <2>3. CASE w = src /\ w # Null
    <3>1. Meant(w) = src /\ Meant(w)' = dst
      BY <1>2, <2>3 DEF Meant, IsForward, IsObject, Forward
    <3>2. QED
      BY <1>2, <2>1, <2>3, <3>1 DEF Clear
  <2>4. CASE w # src /\ w # Null
    <3>1. w \in Objects /\ cell'[w] = cell[w]
      BY <1>2, <1>7, <2>4 DEF Safe, Kept
    <3>2. Meant(w)' = Meant(w)
      BY <3>1 DEF Meant, IsForward
    <3>3. Meant(w) \in Objects /\ Meant(w) # src
      <4>1. CASE IsForward(w)
        <5>1. Meant(w) = cell[w].to /\ PageOf(cell[w].to) \notin Unmoved
              /\ cell[w].to \in Objects
          BY <2>4, <3>1, <4>1 DEF Meant, PointerInv, FollowInv
        <5>2. QED
          BY <1>2, <5>1
      <4>2. CASE ~IsForward(w)
        BY <2>4, <3>1, <4>2 DEF Meant
      <4>3. QED
        BY <4>1, <4>2
    <3>4. cell'[Meant(w)] = cell[Meant(w)]
      BY <1>2, <3>3
    <3>5. QED
      BY <2>1, <2>4, <3>2, <3>4 DEF Clear
  <2>5. QED
    BY <2>2, <2>3, <2>4
<1>8. \A x \in Holder : \E v, w : /\ v = WordOf(x) /\ w = WordOf(x)'
                                  /\ NameOf(w)' = NameOf(v)
  <2>1. \A x : WordOf(x)' = WordOf(x)
    BY <1>3 DEF WordOf
  <2>2. QED
    BY <1>1, <1>7, <2>1 DEF Seen
<1>9. ASSUME NEW a \in Real'
      PROVE  \E b \in Real : \E v, w :
               /\ v = cell[b].ptr /\ w = cell'[a].ptr
               /\ cell'[a].id = cell[b].id /\ NameOf(w)' = NameOf(v)
  <2>1. PICK b \in Real : cell'[a] = cell[b]
    BY <1>2, <1>5, <1>6, HeldNow
  <2>2. Safe(cell[b].ptr)
    BY <1>1 DEF Seen
  <2>3. QED
    BY <1>7, <2>1, <2>2
<1>10. QED
  BY <1>8, <1>9, NamesKept

\* Phase 2 puts for each word another that leads to the same object.
LEMMA RewriteHidden ==
  ASSUME NoLarge, NoGaps, OneChunk, NamesApart, Sane, Sane', Rewrite
  PROVE  /\ Held' = Held /\ Links' = Links
         /\ \A a \in Real' : \E b \in Real : cell'[a].id = cell[b].id
<1> USE DEF Sane
<1>1. Seen /\ Seen'
  BY SeenNow, SeenNext
<1>2. /\ phase = "copy" /\ Kept' = Kept
      /\ \A a \in Objects : cell'[a].tag = cell[a].tag
      /\ \A a \in Kept : IsObject(a) => /\ cell'[a].ptr = Followed(cell[a].ptr)
                                        /\ cell'[a].id = cell[a].id
                                        /\ Safe(cell[a].ptr)
      /\ \A r \in Root : Safe(root[r]) /\ root'[r] = Followed(root[r])
      /\ \A x \in Static : Safe(static[x]) /\ static'[x] = Followed(static[x])
      /\ \A w \in ImageOf(stack) \cup ImageOf(handle) : w = Null \/ (w \in Kept /\ IsObject(w))
  BY RewriteFollows
<1>3. UNCHANGED <<stack, handle>>
  BY DEF Rewrite
<1>4. \A a \in Kept : a \in Objects /\ (IsObject(a)' <=> IsObject(a))
  BY <1>2 DEF Kept, IsObject
<1>5. ASSUME NEW w, w = Null \/ (w \in Kept /\ IsObject(w))
      PROVE  NameOf(w)' = IF w = Null THEN Null ELSE cell[w].id
  <2>1. Clear(w)'
    <3>1. Safe(w)'
      BY <1>2, <1>5 DEF Safe
    <3>2. QED
      BY <1>1, <3>1 DEF Seen
  <2>2. w # Null => Meant(w)' = w
    BY <1>4, <1>5 DEF Meant, IsForward, IsObject
  <2>3. w # Null => cell'[w].id = cell[w].id
    BY <1>2, <1>5
  <2>4. QED
    BY <2>1, <2>2, <2>3 DEF Clear
<1>6. ASSUME NEW v, Safe(v)
      PROVE  \E w : w = Followed(v) /\ NameOf(w)' = NameOf(v)
  <2>1. PICK w : w = Followed(v)
    OBVIOUS
  <2>2. w = Null \/ (w \in Kept /\ IsObject(w))
    BY <1>2, <1>6, <2>1, FollowedTo
  <2>3. NameOf(v) = IF w = Null THEN Null ELSE cell[w].id
    <3>1. Clear(v)
      BY <1>1, <1>6 DEF Seen
    <3>2. v = Null => w = Null
      BY <1>2, <1>6, <2>1, FollowedTo
    <3>3. v # Null => w # Null /\ Meant(v) = w
      BY <1>2, <1>6, <2>1, FollowedTo DEF Meant
    <3>4. QED
      BY <3>1, <3>2, <3>3 DEF Clear
  <2>4. NameOf(w)' = NameOf(v)
    BY <1>5, <2>2, <2>3
  <2>5. QED
    BY <2>1, <2>4
<1>7. ASSUME NEW x \in Holder
      PROVE  \E v, w : v = WordOf(x) /\ w = WordOf(x)' /\ NameOf(w)' = NameOf(v)
  <2>1. CASE x \in Root \/ x \in Static
    <3>1. Safe(WordOf(x)) /\ WordOf(x)' = Followed(WordOf(x))
      BY <1>2, <2>1 DEF WordOf
    <3>2. QED
      BY <1>6, <3>1
  <2>2. CASE x \notin Root /\ x \notin Static
    <3>1. WordOf(x) \in ImageOf(stack) \cup ImageOf(handle) /\ WordOf(x)' = WordOf(x)
      BY <1>3, <2>2 DEF WordOf, Holder, ImageOf, Sound, CycleInv, TypeInv, HoldersTyped
    <3>2. PICK w : w = WordOf(x) /\ (w = Null \/ (w \in Kept /\ IsObject(w)))
      BY <1>2, <3>1
    <3>3. NameOf(w) = IF w = Null THEN Null ELSE cell[w].id
      BY <3>2 DEF NameOf, Meant, IsForward, IsObject, Kept
    <3>4. QED
      BY <1>5, <3>1, <3>2, <3>3
  <2>3. QED
    BY <2>1, <2>2
<1>8. ASSUME NEW a \in Real'
      PROVE  \E b \in Real : \E v, w :
               /\ v = cell[b].ptr /\ w = cell'[a].ptr
               /\ cell'[a].id = cell[b].id /\ NameOf(w)' = NameOf(v)
  <2>1. a \in Real /\ a \in Kept /\ IsObject(a)
    BY <1>2, <1>4 DEF Real
  <2>2. QED
    BY <1>2, <1>6, <2>1
<1>9. QED
  BY <1>7, <1>8, NamesKept

\* Phase 3 takes away nothing that a word leads to.
LEMMA ReclaimHidden ==
  ASSUME NoLarge, NamesApart, Sane, Sane', Reclaim
  PROVE  /\ Held' = Held /\ Links' = Links
         /\ \A a \in Real' : \E b \in Real : cell'[a].id = cell[b].id
<1> USE DEF Sane
<1>1. Seen /\ Seen'
  BY SeenNow, SeenNext
<1>2. /\ \A a \in Objects' : a \in Objects /\ cell'[a] = cell[a]
      /\ \A a : a \in Kept' <=> a \in Kept /\ (PageOf(a) \in chunk => a \in pinned)
  BY ReclaimLeaves
<1>3. UNCHANGED <<root, static, stack, handle>> /\ phase = "reclaim"
  BY DEF Reclaim, holderVars
<1>4. /\ \A a \in Kept : IsObject(a) => Still(cell[a].ptr)
      /\ \A a \in Kept : IsObject(a) /\ PageOf(a) \in chunk => a \in pinned
      /\ \A w \in HeldWords : Still(w)
  BY <1>3 DEF PointerInv, RewrittenInv
<1>5. ASSUME NEW w, Still(w) PROVE NameOf(w)' = NameOf(w)
  <2>1. CASE w = Null
    BY <2>1 DEF NameOf
  <2>2. CASE w # Null
    <3>1. w \in Kept /\ IsObject(w) /\ w \in Kept'
      BY <1>2, <1>4, <1>5, <2>2 DEF Still
    <3>2. cell'[w] = cell[w]
      BY <1>2, <3>1 DEF Kept
    <3>3. Meant(w) = w /\ Meant(w)' = w
      BY <3>1, <3>2 DEF Meant, IsForward, IsObject
    <3>4. Clear(w) /\ Clear(w)'
      BY <1>1, <3>1 DEF Seen, Safe
    <3>5. QED
      BY <2>2, <3>2, <3>3, <3>4 DEF Clear
  <2>3. QED
    BY <2>1, <2>2
<1>6. ASSUME NEW x \in Holder
      PROVE  \E v, w : v = WordOf(x) /\ w = WordOf(x)' /\ NameOf(w)' = NameOf(v)
  <2>1. WordOf(x)' = WordOf(x)
    BY <1>3 DEF WordOf
  <2>2. WordOf(x) \in HeldWords
    BY DEF Holder, WordOf, HeldWords, ImageOf, Sound, CycleInv, TypeInv, HoldersTyped
  <2>3. QED
    BY <1>4, <1>5, <2>1, <2>2
<1>7. ASSUME NEW a \in Real'
      PROVE  \E b \in Real : \E v, w :
               /\ v = cell[b].ptr /\ w = cell'[a].ptr
               /\ cell'[a].id = cell[b].id /\ NameOf(w)' = NameOf(v)
  <2>1. a \in Real /\ cell'[a] = cell[a]
    BY <1>2 DEF Real, Kept, IsObject
  <2>2. Still(cell[a].ptr)
    BY <1>4, <2>1 DEF Real
  <2>3. QED
    BY <1>5, <2>1, <2>2
<1>8. QED
  BY <1>6, <1>7, NamesKept

\* A step of a collection is no step to the client.
LEMMA CollectionHidden ==
  ASSUME NoLarge, NoGaps, OneChunk, NamesApart, Sane, Sane', [Next]_vars, ~Client
  PROVE  Held' = Held /\ Links' = Links
<1>1. CASE UNCHANGED vars
  <2>1. UNCHANGED <<cell, root, static, stack, handle>>
    BY <1>1 DEF vars, heapVars, evacVars, holderVars
  <2>2. QED
    BY <2>1, NothingWritten
<1>2. CASE StartMinor \/ StartMajor \/ StartFull
  <2>1. UNCHANGED <<cell, root, static, stack, handle>>
    BY <1>2 DEF StartMinor, StartMajor, StartFull, Begin, holderVars
  <2>2. QED
    BY <2>1, NothingWritten
<1>3. CASE MarkMinorWithStatic \/ CollectMinorWithStatic
  <2>1. UNCHANGED <<cell, root, static, stack, handle>>
    BY <1>3 DEF MarkMinorWithStatic, CollectMinorWithStatic, heapVars, holderVars
  <2>2. QED
    BY <2>1, NothingWritten
<1>4. CASE BeginPass \/ Mark \/ PickChunk \/ MidEvacOom \/ EndCycle
  <2>1. UNCHANGED <<cell, root, static, stack, handle>>
    BY <1>4 DEF BeginPass, Mark, PickChunk, MidEvacOom, EndCycle, heapVars, holderVars
  <2>2. QED
    BY <2>1, NothingWritten
<1>5. CASE CopyObject
  BY <1>5, CopyHidden
<1>6. CASE Rewrite
  BY <1>6, RewriteHidden
<1>7. CASE Reclaim
  BY <1>7, ReclaimHidden
<1>8. QED
  BY <1>1, <1>2, <1>3, <1>4, <1>5, <1>6, <1>7 DEF Next, Collector

-----------------------------------------------------------------------------
(* The client.                                                             *)

\* The links that the client is left with are those of the objects in use that
\* it reaches, whatever other objects there are.
LEMMA BecomesNext ==
  ASSUME NamesApart, Sane', NEW h, h = Held', NEW l, l \subseteq KeptLinks',
         NEW T, ClosedUnder(T, h, l), \A e \in KeptLinks' : e[1] \in T => e \in l
  PROVE  Links' = Remaining(h, l)
<1>1. Seen'
  BY SeenNext
<1>2. PICK k : k = KeptLinks' /\ Links' = Remaining(h, k) /\ Named(h, k)
  BY <1>1 DEF Seen, Named, Holder
<1>3. l \in SUBSET k /\ Named(h, l)
  BY <1>2 DEF Named
<1>4. Promise!Live(h, l) \subseteq T
  BY <1>3, LiveIs DEF NamesApart
<1>5. Remaining(h, k) = Remaining(h, l)
  BY <1>2, <1>3, <1>4, LiveAgrees DEF NamesApart
<1>6. QED
  BY <1>2, <1>5

\* What is reached before the step: links in use from there are seen, and lead
\* there.
LEMMA ReachedLinks ==
  ASSUME NamesApart, Sane
  PROVE  /\ ClosedUnder(ReachedIds, Held, Links)
         /\ \A e \in KeptLinks : e[1] \in ReachedIds <=> e \in Links
         /\ Links \subseteq KeptLinks
         /\ Promise!Reachable = ReachedIds
         /\ Held \in [Holder -> Id \cup {Null}]
         /\ \A x \in Holder : Held[x] # Null => Held[x] \in ReachedIds
<1>1. Seen
  BY SeenNow
<1>2. Named(Held, Links)
  BY <1>1 DEF Seen, Named
<1>3. ClosedUnder(ReachedIds, Held, Links)
  BY <1>1, <1>2, LiveIs DEF Seen, NamesApart
<1>4. Promise!Reachable = Promise!Live(Held, Links)
  BY DEF Promise!Reachable, Held
<1>5. Held \in [Holder -> Id \cup {Null}]
  BY <1>1 DEF Seen, Named, Held
<1>6. QED
  BY <1>1, <1>3, <1>4, <1>5 DEF Seen, Remaining, ClosedUnder

\* A holder comes to name another object that is reached, or none.
LEMMA MoveSeen ==
  ASSUME NamesApart, Sane, Sane', NEW x \in Holder, NEW v \in ReachedIds \cup {Null},
         Held' = [Held EXCEPT ![x] = v], KeptLinks' = KeptLinks
  PROVE  Promise!Move(x, v)
<1> DEFINE h == [Held EXCEPT ![x] = v]
<1>1. ClosedUnder(ReachedIds, h, Links)
  BY ReachedLinks DEF ClosedUnder
<1>2. Links' = Remaining(h, Links)
  BY <1>1, ReachedLinks, BecomesNext
<1>3. QED
  BY <1>2, ReachedLinks DEF Promise!Move, Promise!Become, Held, Remaining

\* A holder comes to name a new object.
LEMMA NewSeen ==
  ASSUME NamesApart, Sane, Sane', NEW x \in Holder, NEW i \in Id,
         NEW y \in Holder, NEW v \in {Held[y], Null},
         \A e \in KeptLinks : e[1] # i,
         \A a \in ReachedNow : cell[a].id # i,
         Held' = [Held EXCEPT ![x] = i], KeptLinks' = KeptLinks \cup {<<i, v>>}
  PROVE  Promise!New(x, i)
<1> DEFINE h == [Held EXCEPT ![x] = i]
           l == Links \cup {<<i, v>>}
<1>1. ClosedUnder(ReachedIds \cup {i}, h, l)
  <2>1. \A e \in l : e \in Links \/ e = <<i, v>>
    OBVIOUS
  <2>2. \A e \in Links : e[1] # i
    BY ReachedLinks
  <2>3. QED
    BY <2>1, <2>2, ReachedLinks DEF ClosedUnder
<1>2. l \subseteq KeptLinks'
  BY ReachedLinks
<1>3. \A e \in KeptLinks' : e[1] \in ReachedIds \cup {i} => e \in l
  BY ReachedLinks
<1>4. Links' = Remaining(h, l)
  BY <1>1, <1>2, <1>3, BecomesNext
<1>5. i \notin ReachedIds
  BY DEF ReachedIds
<1>6. i \notin Promise!Reachable
  BY <1>5, ReachedLinks
<1>7. v \in {Held[z] : z \in Holder} \cup {Null}
  OBVIOUS
<1>8. Links' = {e \in l : e[1] \in Promise!Live(h, l)}
  BY <1>4 DEF Remaining
<1>9. QED
  BY <1>6, <1>7, <1>8 DEF Promise!New, Promise!Become, Held

\* An object that a holder names comes to point at another that a holder names,
\* or at none.
LEMMA LinkSeen ==
  ASSUME NamesApart, Sane, Sane', NEW x \in Holder, NEW y \in Holder,
         NEW v \in {Held[y], Null}, Held[x] # Null, Held' = Held,
         KeptLinks' = {e \in KeptLinks : e[1] # Held[x]} \cup {<<Held[x], v>>}
  PROVE  Promise!Link(x)
<1> DEFINE l == {e \in Links : e[1] # Held[x]} \cup {<<Held[x], v>>}
<1>1. ClosedUnder(ReachedIds, Held, l)
  <2>1. \A e \in l : e \in Links \/ e = <<Held[x], v>>
    OBVIOUS
  <2>2. QED
    BY <2>1, ReachedLinks DEF ClosedUnder
<1>2. l \subseteq KeptLinks'
  BY ReachedLinks
<1>3. \A e \in KeptLinks' : e[1] \in ReachedIds => e \in l
  BY ReachedLinks
<1>4. Links' = Remaining(Held, l)
  BY <1>1, <1>2, <1>3, BecomesNext
<1>5. QED
  BY <1>4 DEF Promise!Link, Promise!Become, Held, Remaining

\* Between collections every word leads to the object at its address.
Plain ==
  /\ Real = Objects
  /\ \A w : w \in Objects => /\ w \in Addr /\ IsObject(w)
                             /\ NameOf(w) = cell[w].id /\ NameOf(w) \in Id
                             /\ cell[w].ptr = Null \/ cell[w].ptr \in Objects
  /\ NameOf(Null) = Null /\ Null \notin Objects
  /\ \A w \in HeldWords : w = Null \/ w \in Objects
  /\ \A x \in Holder : WordOf(x) \in HeldWords
  /\ \A w \in Loadable : /\ w = Null \/ w \in Objects
                         /\ NameOf(w) \in ReachedIds \cup {Null}
  /\ \A w \in Values : w = Null \/ \E r \in Root : w = root[r] /\ NameOf(w) = Held[r]
  /\ \A r \in Root : root[r] # Null => root[r] \in Objects /\ Held[r] = cell[root[r]].id

LEMMA PlainNow == NamesApart /\ Sane /\ phase = "idle" => Plain
<1> SUFFICES ASSUME NamesApart, Sane, phase = "idle" PROVE Plain
  OBVIOUS
<1> USE DEF Sane, Sound, CycleInv, TypeInv
<1>1. Rest /\ ~Busy /\ \A a \in Objects : IsObject(a)
  BY RestIs DEF Busy, ObjectInv, ForwardInv
<1>2. Real = Objects
  BY <1>1 DEF Real, Kept, Doomed, Looping
<1>3. Seen
  BY SeenNow
<1>4. ASSUME NEW w \in Objects
      PROVE  /\ w \in Addr /\ IsObject(w) /\ w # Null /\ Meant(w) = w
             /\ NameOf(w) = cell[w].id /\ NameOf(w) \in Id
             /\ cell[w].ptr = Null \/ cell[w].ptr \in Objects
  <2>1. w \in Addr /\ IsObject(w) /\ w # Null
    BY <1>1, <1>4, ObjectsAre, PageTableAssumption DEF Addr
  <2>2. Meant(w) = w
    BY <2>1 DEF Meant, IsForward, IsObject
  <2>3. w \in Kept
    BY <1>2, <1>4 DEF Real
  <2>4. Clear(w)
    BY <1>3, <2>3 DEF Seen, Safe
  <2>5. QED
    BY <1>1, <1>4, <2>1, <2>2, <2>4 DEF Rest, Clear
<1>5. NameOf(Null) = Null /\ Null \notin Objects
  BY <1>4 DEF NameOf
<1>6. \A w \in HeldWords : w = Null \/ w \in Objects
  BY <1>1 DEF Rest
<1>7. \A x \in Holder : WordOf(x) \in HeldWords
  BY DEF Holder, WordOf, HeldWords, ImageOf, HoldersTyped
<1>8. Reaches(ReachedNow) /\ ReachedNow \subseteq Objects
  BY <1>2, <1>3 DEF Seen
<1>9. \A x \in Holder : WordOf(x) # Null => WordOf(x) \in ReachedNow
  BY <1>4, <1>6, <1>7, <1>8 DEF Reaches
<1>10. ASSUME NEW w \in HeldWords, w # Null PROVE w \in ReachedNow
  <2>1. \E x \in Holder : WordOf(x) = w
    BY <1>10 DEF NamesApart, Holder, WordOf, HeldWords, ImageOf, HoldersTyped
  <2>2. QED
    BY <1>9, <1>10, <2>1
<1>11. ASSUME NEW w \in Loadable
       PROVE  (w = Null \/ w \in Objects) /\ NameOf(w) \in ReachedIds \cup {Null}
  <2>1. w = Null \/ w \in ReachedNow
    <3>1. CASE w \in HeldWords \cup {Null}
      BY <1>10, <3>1
    <3>2. CASE w \in Pointers(ImageOf(root) \ {Null})
      <4>1. PICK a \in ImageOf(root) \ {Null} : w = cell[a].ptr
        BY <3>2 DEF Pointers
      <4>2. a \in ReachedNow
        BY <1>10, <4>1 DEF HeldWords
      <4>3. QED
        BY <1>4, <1>8, <4>1, <4>2 DEF Reaches
    <3>3. QED
      BY <1>11, <3>1, <3>2 DEF Loadable, Values, HeldWords
  <2>2. QED
    BY <1>4, <1>5, <1>8, <2>1 DEF ReachedIds
<1>12. ASSUME NEW r \in Root PROVE WordOf(r) = root[r] /\ Held[r] = NameOf(root[r]) /\ root[r] \in HeldWords
  <2>1. WordOf(r) = root[r]
    BY DEF WordOf
  <2>2. QED
    BY <1>7, <2>1 DEF Held, Holder
<1>13. \A w \in Values : w = Null \/ \E r \in Root : w = root[r] /\ NameOf(w) = Held[r]
  BY <1>12 DEF Values, ImageOf, HoldersTyped
<1>14. QED
  BY <1>2, <1>4, <1>5, <1>6, <1>7, <1>11, <1>12, <1>13 DEF Plain

\* ... after a step.
LEMMA PlainNext == NamesApart /\ Sane' /\ phase' = "idle" => Plain'
<1>1. (NamesApart /\ Sane /\ phase = "idle")' => Plain'
  BY PlainNow, PTL
<1>2. QED
  BY <1>1 DEF NamesApart

\* Objects keep their names as long as they keep their identities.
LEMMA NamesStay ==
  ASSUME Plain, Plain', Objects \subseteq Objects',
         \A a \in Objects : cell'[a].id = cell[a].id
  PROVE  /\ \A w : w = Null \/ w \in Objects => NameOf(w)' = NameOf(w)
         /\ \A e : e \in KeptLinks <=>
              \E a \in Objects : e = <<cell[a].id, NameOf(cell[a].ptr)>>
         /\ \A e : e \in KeptLinks' <=>
              \E a \in Objects' : \E w : /\ w = cell'[a].ptr
                                         /\ e = <<cell'[a].id, NameOf(w)'>>
<1>1. \A w : w = Null \/ w \in Objects => NameOf(w)' = NameOf(w)
  BY DEF Plain
<1>2. \A e : e \in KeptLinks <=>
        \E a \in Objects : e = <<cell[a].id, NameOf(cell[a].ptr)>>
  BY DEF KeptLinks, LinkOf, Plain
<1>3. Real' = Objects'
  BY DEF Plain
<1>4. \A e : e \in KeptLinks' <=>
        \E a \in Objects' : \E w : w = cell'[a].ptr /\ e = <<cell'[a].id, NameOf(w)'>>
  BY <1>3 DEF KeptLinks, LinkOf
<1>5. QED
  BY <1>1, <1>2, <1>4

\* One holder comes to hold a word that the client could load.
LEMMA HolderSet ==
  ASSUME NamesApart, Sane, Sane', phase = "idle", phase' = "idle",
         UNCHANGED <<desc, cell, starts>>,
         NEW x \in Holder, NEW w \in Loadable, WordOf(x)' = w,
         \A y \in Holder : y # x => WordOf(y)' = WordOf(y)
  PROVE  Promise!Next
<1>1. Plain /\ Plain'
  BY PlainNow, PlainNext
<1>2. Objects' = Objects
  BY DEF Objects, GenOf, PageOf
<1>3. \A u : u = Null \/ u \in Objects => NameOf(u)' = NameOf(u)
  BY <1>1, <1>2, NamesStay
<1>4. w = Null \/ w \in Objects
  BY <1>1 DEF Plain
<1>5. PICK v \in ReachedIds \cup {Null} : v = NameOf(w) /\ v = NameOf(w)'
  BY <1>1, <1>3, <1>4 DEF Plain
<1>6. \A y \in Holder : y # x => NameOf(WordOf(y))' = NameOf(WordOf(y))
  <2> SUFFICES ASSUME NEW y \in Holder, y # x
               PROVE  NameOf(WordOf(y))' = NameOf(WordOf(y))
    OBVIOUS
  <2>1. PICK u : u = WordOf(y) /\ u = WordOf(y)' /\ (u = Null \/ u \in Objects)
    BY <1>1 DEF Plain
  <2>2. NameOf(u)' = NameOf(u)
    BY <1>3, <2>1
  <2>3. QED
    BY <2>1, <2>2
<1>7. Held' = [Held EXCEPT ![x] = v]
  BY <1>5, <1>6 DEF Held, Holder
<1>8. KeptLinks' = KeptLinks
  <2>1. \A a \in Objects : cell[a].ptr = Null \/ cell[a].ptr \in Objects
    BY <1>1 DEF Plain
  <2>2. \A e : e \in KeptLinks' <=> e \in KeptLinks
    BY <1>1, <1>2, <1>3, <2>1, NamesStay
  <2>3. QED
    BY <2>2
<1>9. Promise!Move(x, v)
  BY <1>7, <1>8, MoveSeen
<1>10. ReachedIds \subseteq Id
  BY ReachedNowIs, HeldNow DEF NamesApart, ReachedIds
<1>11. QED
  BY <1>9, <1>10 DEF Promise!Next

\* A store into an object.
LEMMA StoreSeen ==
  ASSUME NamesApart, Sane, Sane', NEW r \in Root, NEW w \in Values, Store(r, w)
  PROVE  Promise!Next
<1>1. /\ phase = "idle" /\ phase' = "idle" /\ root[r] # Null
      /\ cell' = [cell EXCEPT ![root[r]] = [cell[root[r]] EXCEPT !.ptr = w]]
      /\ UNCHANGED <<desc, starts, root, static, stack, handle>>
  BY DEF Store, Idle, tableVars, holderVars, collectorVars
<1>2. Plain /\ Plain'
  BY <1>1, PlainNow, PlainNext
<1>3. Objects' = Objects
  BY <1>1 DEF Objects, GenOf, PageOf
<1>4. PICK b \in Objects : b = root[r] /\ b \in Addr /\ Held[r] = cell[b].id
  BY <1>1, <1>2 DEF Plain
<1>5. /\ cell'[b].ptr = w /\ cell'[b].id = cell[b].id
      /\ \A a \in Objects : a # b => cell'[a] = cell[a]
  <2>1. MemoryTyped /\ cell \in [Addr -> Contents] /\ IsObject(b)
    BY <1>2, <1>4 DEF Plain, Sane, Sound, CycleInv, TypeInv, MemoryTyped
  <2>2. cell'[b] = [cell[b] EXCEPT !.ptr = w]
    BY <1>1, <1>4, <2>1
  <2>3. QED
    BY <1>1, <1>4, <2>1, <2>2, PointerStored
<1>6. \A a \in Objects : cell'[a].id = cell[a].id
  BY <1>5
<1>7. \A u : u = Null \/ u \in Objects => NameOf(u)' = NameOf(u)
  BY <1>2, <1>3, <1>6, NamesStay
<1>8. \A x \in Holder : NameOf(WordOf(x))' = NameOf(WordOf(x))
  <2> SUFFICES ASSUME NEW x \in Holder PROVE NameOf(WordOf(x))' = NameOf(WordOf(x))
    OBVIOUS
  <2>1. PICK u : u = WordOf(x) /\ (u = Null \/ u \in Objects)
    BY <1>2 DEF Plain
  <2>2. u = WordOf(x)'
    BY <1>1, <2>1 DEF WordOf
  <2>3. QED
    BY <1>7, <2>1, <2>2
<1>9. Held' = Held
  BY <1>8 DEF Held, Holder
<1>10. PICK v : v = NameOf(w) /\ v = NameOf(w)'
  BY <1>2, <1>7 DEF Plain
<1>11. PICK y \in Holder : v \in {Held[y], Null}
  <2>1. r \in Holder /\ Root \subseteq Holder
    BY DEF Holder
  <2>2. CASE w = Null
    <3>1. v = Null
      BY <1>2, <1>10, <2>2 DEF Plain
    <3>2. QED
      BY <2>1, <3>1
  <2>3. CASE w # Null
    <3>1. PICK s \in Root : w = root[s] /\ NameOf(w) = Held[s]
      BY <1>2, <2>3 DEF Plain
    <3>2. QED
      BY <1>10, <2>1, <3>1
  <2>4. QED
    BY <2>2, <2>3
<1>12. KeptLinks' = {e \in KeptLinks : e[1] # Held[r]} \cup {<<Held[r], v>>}
  <2>1. /\ \A a \in Objects : cell[a].ptr = Null \/ cell[a].ptr \in Objects
        /\ \A a \in Objects : cell[a].id = cell[b].id => a = b
    BY <1>2 DEF Plain, Sane, IdInv
  <2>2. ASSUME NEW e
        PROVE  e \in KeptLinks' <=> (e \in KeptLinks /\ e[1] # Held[r]) \/ e = <<Held[r], v>>
    <3>1. e \in KeptLinks' <=>
            \E a \in Objects : \E u : u = cell'[a].ptr /\ e = <<cell'[a].id, NameOf(u)'>>
      BY <1>2, <1>3, <1>6, NamesStay
    <3>2. (\E u : u = cell'[b].ptr /\ e = <<cell'[b].id, NameOf(u)'>>) <=> e = <<Held[r], v>>
      BY <1>4, <1>5, <1>10
    <3>3. \A a \in Objects : a # b =>
            ((\E u : u = cell'[a].ptr /\ e = <<cell'[a].id, NameOf(u)'>>)
               <=> e = <<cell[a].id, NameOf(cell[a].ptr)>>)
      BY <1>5, <1>7, <2>1
    <3>4. e \in KeptLinks <=> \E a \in Objects : e = <<cell[a].id, NameOf(cell[a].ptr)>>
      BY <1>2, <1>3, <1>6, NamesStay
    <3>5. \A a \in Objects : e = <<cell[a].id, NameOf(cell[a].ptr)>> => (e[1] # Held[r] <=> a # b)
      BY <1>4, <2>1
    <3>6. QED
      BY <3>1, <3>2, <3>3, <3>4, <3>5
  <2>3. QED
    BY <2>2
<1>13. Held[r] # Null /\ r \in Holder
  BY <1>2, <1>4 DEF Plain, NamesApart, Holder
<1>14. Promise!Link(r)
  BY <1>9, <1>11, <1>12, <1>13, LinkSeen
<1>15. QED
  BY <1>13, <1>14 DEF Promise!Next

\* A new object, in a slot where there was none.
LEMMA AllocSeen ==
  ASSUME NamesApart, Sane, Sane', NEW r \in Root, NEW i \in Id \ Present,
         NEW w \in Values, Alloc(r, i, w)
  PROVE  Promise!Next
<1> USE DEF Sane, Sound, CycleInv, TypeInv
<1>1. /\ phase = "idle" /\ phase' = "idle"
      /\ Claim("G0") /\ CanPlace("G0") /\ "G0" \in Generation
      /\ starts' = StartsWithNext("G0")
      /\ cell' = CellsWithNext("G0", Object(i, w))
      /\ root' = [root EXCEPT ![r] = NextSlot("G0")]
      /\ UNCHANGED <<static, stack, handle>>
  BY DEF Alloc, CanPlace, Generation, Idle, collectorVars
<1>2. Plain /\ Plain'
  BY <1>1, PlainNow, PlainNext
<1>3. \A g \in Generation : Exclusive(g)
  BY <1>1 DEF RegionInv, Handed
<1>4. PICK n \in Addr :
        /\ n = NextSlot("G0") /\ n \notin Objects /\ Objects' = Objects \cup {n}
        /\ \A a \in Objects : CellsWithNext("G0", Object(i, w))[a] = cell[a]
  BY <1>1, <1>3, ObjectPlaced
<1>5. /\ cell'[n].id = i /\ cell'[n].ptr = w
      /\ \A a \in Objects : cell'[a] = cell[a]
  BY <1>1, <1>4 DEF CellsWithNext, Object
<1>6. Objects \subseteq Objects' /\ \A a \in Objects : cell'[a].id = cell[a].id
  BY <1>4, <1>5
<1>7. \A u : u = Null \/ u \in Objects => NameOf(u)' = NameOf(u)
  BY <1>2, <1>6, NamesStay
<1>8. NameOf(n)' = i
  BY <1>2, <1>4, <1>5 DEF Plain
<1>9. root'[r] = n /\ \A s \in Root : s # r => root'[s] = root[s]
  BY <1>1, <1>4 DEF HoldersTyped
<1>10. \A x \in Holder : WordOf(x)' = IF x = r THEN n ELSE WordOf(x)
  BY <1>1, <1>9 DEF WordOf, NamesApart, Holder
<1>11. ASSUME NEW x \in Holder
       PROVE  NameOf(WordOf(x))' = IF x = r THEN i ELSE NameOf(WordOf(x))
  <2>1. CASE x = r
    BY <1>8, <1>10, <2>1
  <2>2. CASE x # r
    <3>1. PICK u : u = WordOf(x) /\ u = WordOf(x)' /\ (u = Null \/ u \in Objects)
      BY <1>2, <1>10, <2>2 DEF Plain
    <3>2. NameOf(u)' = NameOf(u)
      BY <1>7, <3>1
    <3>3. QED
      BY <2>2, <3>1, <3>2
  <2>3. QED
    BY <2>1, <2>2
<1>12. r \in Holder /\ Held' = [Held EXCEPT ![r] = i]
  BY <1>11 DEF Held, Holder
<1>13. PICK v : v = NameOf(w) /\ v = NameOf(w)'
  BY <1>2, <1>7 DEF Plain
<1>14. PICK y \in Holder : v \in {Held[y], Null}
  <2>1. CASE w = Null
    <3>1. v = Null
      BY <1>2, <1>13, <2>1 DEF Plain
    <3>2. QED
      BY <1>12, <3>1
  <2>2. CASE w # Null
    <3>1. PICK s \in Root : w = root[s] /\ NameOf(w) = Held[s]
      BY <1>2, <2>2 DEF Plain
    <3>2. s \in Holder
      BY DEF Holder
    <3>3. QED
      BY <1>13, <3>1, <3>2
  <2>3. QED
    BY <2>1, <2>2
<1>15. /\ \A a \in Objects : cell[a].id # i
       /\ \A a \in Objects : cell[a].ptr = Null \/ cell[a].ptr \in Objects
  BY <1>2 DEF Plain, Present
<1>16. \A e : e \in KeptLinks <=> \E a \in Objects : e = <<cell[a].id, NameOf(cell[a].ptr)>>
  BY <1>2, <1>6, NamesStay
<1>17. KeptLinks' = KeptLinks \cup {<<i, v>>}
  <2>1. ASSUME NEW e
        PROVE  e \in KeptLinks' <=> e \in KeptLinks \/ e = <<i, v>>
    <3>1. e \in KeptLinks' <=>
            \E a \in Objects' : \E u : u = cell'[a].ptr /\ e = <<cell'[a].id, NameOf(u)'>>
      BY <1>2, <1>6, NamesStay
    <3>2. (\E u : u = cell'[n].ptr /\ e = <<cell'[n].id, NameOf(u)'>>) <=> e = <<i, v>>
      BY <1>5, <1>13
    <3>3. \A a \in Objects :
            ((\E u : u = cell'[a].ptr /\ e = <<cell'[a].id, NameOf(u)'>>)
               <=> e = <<cell[a].id, NameOf(cell[a].ptr)>>)
      BY <1>5, <1>7, <1>15
    <3>4. QED
      BY <1>4, <1>16, <3>1, <3>2, <3>3
  <2>2. QED
    BY <2>1
<1>18. \A e \in KeptLinks : e[1] # i
  BY <1>15, <1>16
<1>19. \A a \in ReachedNow : cell[a].id # i
  BY <1>2, <1>15, SeenNow DEF Seen, Plain
<1>20. Promise!New(r, i)
  BY <1>12, <1>14, <1>17, <1>18, <1>19, NewSeen
<1>21. QED
  BY <1>12, <1>20 DEF Promise!Next

\* What the client does is what the promise lets it do.
LEMMA ClientSeen ==
  ASSUME NoLarge, NamesApart, Sane, Sane', Client
  PROVE  Promise!Next
<1> USE DEF Sane, Sound, CycleInv, TypeInv
<1>1. CASE \E r \in Root, i \in Id \ Present, w \in Values : Alloc(r, i, w)
  BY <1>1, AllocSeen
<1>2. CASE \E r \in Root, i \in Id, w \in Values : AllocLarge(r, i, w)
  BY <1>2, ShapeLarge DEF AllocLarge
<1>3. CASE \E r \in Root, w \in Values : Store(r, w)
  BY <1>3, StoreSeen
<1>4. CASE \E r \in Root, w \in Loadable : SetRoot(r, w)
  <2>1. PICK r \in Root, w \in Loadable : SetRoot(r, w)
    BY <1>4
  <2>2. /\ phase = "idle" /\ phase' = "idle" /\ UNCHANGED <<desc, cell, starts>>
        /\ root' = [root EXCEPT ![r] = w] /\ UNCHANGED <<static, stack, handle>>
    BY <2>1 DEF SetRoot, Idle, heapVars, tableVars, collectorVars
  <2>3. /\ r \in Holder /\ WordOf(r)' = w
        /\ \A y \in Holder : y # r => WordOf(y)' = WordOf(y)
    BY <2>2 DEF Holder, WordOf, HoldersTyped
  <2>4. QED
    BY <2>2, <2>3, HolderSet
<1>5. CASE \E s \in Static, w \in Values : StoreStatic(s, w)
  <2>1. PICK s \in Static, w \in Values : StoreStatic(s, w)
    BY <1>5
  <2>2. /\ phase = "idle" /\ phase' = "idle" /\ UNCHANGED <<desc, cell, starts>>
        /\ static' = [static EXCEPT ![s] = w] /\ UNCHANGED <<root, stack, handle>>
    BY <2>1 DEF StoreStatic, Idle, heapVars, tableVars, collectorVars
  <2>3. /\ s \in Holder /\ WordOf(s)' = w
        /\ \A y \in Holder : y # s => WordOf(y)' = WordOf(y)
    BY <2>2 DEF Holder, WordOf, HoldersTyped, NamesApart
  <2>4. w \in Loadable
    BY DEF Loadable
  <2>5. QED
    BY <2>2, <2>3, <2>4, HolderSet
<1>6. CASE \E s \in Stack, w \in Values : Spill(s, w)
  <2>1. PICK s \in Stack, w \in Values : Spill(s, w)
    BY <1>6
  <2>2. /\ phase = "idle" /\ phase' = "idle" /\ UNCHANGED <<desc, cell, starts>>
        /\ stack' = [stack EXCEPT ![s] = w] /\ UNCHANGED <<root, static, handle>>
    BY <2>1 DEF Spill, Idle, heapVars, tableVars, collectorVars
  <2>3. /\ s \in Holder /\ WordOf(s)' = w
        /\ \A y \in Holder : y # s => WordOf(y)' = WordOf(y)
    BY <2>2 DEF Holder, WordOf, HoldersTyped, NamesApart
  <2>4. w \in Loadable
    BY DEF Loadable
  <2>5. QED
    BY <2>2, <2>3, <2>4, HolderSet
<1>7. ASSUME NEW h \in Handle, NEW w \in Values,
             Idle, handle' = [handle EXCEPT ![h] = w],
             UNCHANGED <<heapVars, root, static, stack, collectorVars>>
      PROVE  Promise!Next
  <2>1. /\ phase = "idle" /\ phase' = "idle" /\ UNCHANGED <<desc, cell, starts>>
        /\ UNCHANGED <<root, static, stack>>
    BY <1>7 DEF Idle, heapVars, tableVars, collectorVars
  <2>2. /\ h \in Holder /\ WordOf(h)' = w
        /\ \A y \in Holder : y # h => WordOf(y)' = WordOf(y)
    BY <1>7, <2>1 DEF Holder, WordOf, HoldersTyped, NamesApart
  <2>3. w \in Loadable
    BY DEF Loadable
  <2>4. QED
    BY <2>1, <2>2, <2>3, HolderSet
<1>8. CASE \E h \in Handle : Unpin(h) \/ \E w \in Values \ {Null} : Pin(h, w)
  <2>1. PICK h \in Handle : Unpin(h) \/ \E w \in Values \ {Null} : Pin(h, w)
    BY <1>8
  <2>2. Null \in Values
    BY DEF Values
  <2>3. QED
    BY <1>7, <2>1, <2>2 DEF Unpin, Pin
<1>9. QED
  BY <1>1, <1>2, <1>3, <1>4, <1>5, <1>6, <1>8 DEF Client

-----------------------------------------------------------------------------
(* The refinement.                                                         *)

\* An empty heap.
LEMMA NothingYet ==
  ASSUME NamesApart, Init
  PROVE  Objects = {} /\ IdInv /\ (Sane => Promise!Init)
<1>1. Objects = {} /\ phase = "idle"
  BY DEF Init, TableInit, Objects
<1>2. IdInv
  BY <1>1 DEF IdInv
<1>3. ASSUME Sane PROVE Promise!Init
  <2>1. Seen /\ Plain
    BY <1>1, <1>3, SeenNow, PlainNow
  <2>2. KeptLinks = {} /\ Links = {}
    BY <1>1, <2>1 DEF KeptLinks, Plain, Seen
  <2>3. \A x \in Holder : WordOf(x) = Null
    BY <1>1, <2>1 DEF Plain
  <2>4. \A x \in Holder : NameOf(WordOf(x)) = Null
    BY <2>1, <2>3 DEF Plain
  <2>5. QED
    BY <2>2, <2>4 DEF Promise!Init
<1>4. QED
  BY <1>1, <1>2, <1>3

\* No object is ever there twice: a copy takes the place of its source.
LEMMA SaneAlways ==
  ASSUME NoLarge, PinsKnown, NoGaps, NamesApart
  PROVE  Spec /\ []OneChunk => []Sane
<1>1. Init => IdInv
  BY NothingYet
<1>2. /\ Sound /\ Sound' /\ PointerInv /\ OneChunk /\ IdInv /\ [Next]_vars
      => IdInv'
  BY IdStep
<1>3. Spec => []Sound
  BY SoundAlways
<1>4. Spec /\ []OneChunk => []PointerInv
  BY PointersKept
<1>5. Spec /\ []OneChunk => []IdInv
  BY <1>1, <1>2, <1>3, <1>4, PTL DEF Spec
<1>6. Sound /\ PointerInv /\ IdInv => Sane
  BY DEF Sane
<1>7. QED
  BY <1>3, <1>4, <1>5, <1>6, PTL

\* Every step is one that ManagedHeap allows, or none.
LEMMA StepSeen ==
  ASSUME NoLarge, NoGaps, NamesApart, OneChunk, Sane, Sane', [Next]_vars
  PROVE  [Promise!Next]_(Promise!vars)
<1>1. CASE Client
  BY <1>1, ClientSeen
<1>2. CASE ~Client
  <2>1. Held' = Held /\ Links' = Links
    BY <1>2, CollectionHidden
  <2>2. QED
    BY <2>1 DEF Promise!vars, Held
<1>3. QED
  BY <1>1, <1>2

\* Whatever the size of the heap, what is pinned, and the collections that run
\* when: the client sees its objects with the identity and the pointer that it
\* gave them for as long as it can reach them, and a step of a collection, with
\* copies half made and references half rewritten, shows it nothing, as long as
\* every promotion has room in one chunk.
THEOREM HeapKeepsPromise ==
  ASSUME NoLarge, PinsKnown, NoGaps, NamesApart
  PROVE  Spec /\ []OneChunk => ImplementsManagedHeap
<1>1. Init /\ Sane => Promise!Init
  BY NothingYet
<1>2. OneChunk /\ Sane /\ Sane' /\ [Next]_vars => [Promise!Next]_(Promise!vars)
  BY StepSeen
<1>3. Spec /\ []OneChunk => []Sane
  BY SaneAlways
<1>4. QED
  BY <1>1, <1>2, <1>3, PTL DEF Spec, ImplementsManagedHeap, Promise!Spec

-----------------------------------------------------------------------------
(* What a full collection leaves.                                          *)

\* Start bits are those of objects, and what is pinned is named by a stack word
\* or a handle.
Tidy ==
  /\ starts \subseteq Objects
  /\ pinned \subseteq ImageOf(stack) \cup ImageOf(handle)

\* A step that takes no page out of use and pins nothing leaves them so.
LEMMA TidyStays ==
  ASSUME Tidy, MemoryTyped, UNCHANGED starts,
         \A p \in Page : desc'[p].gen = "Free" => desc[p].gen = "Free",
         pinned' \subseteq ImageOf(stack') \cup ImageOf(handle')
  PROVE  Tidy'
<1>1. \A a \in starts : a \in Addr /\ PageOf(a) \in Page /\ desc[PageOf(a)].gen # "Free"
  BY ObjectsAre DEF Tidy
<1>2. starts' \subseteq Objects'
  BY <1>1 DEF Objects, GenOf, PageOf
<1>3. QED
  BY <1>2 DEF Tidy, ImageOf

\* A slot taken in a region gets the only new start bit.
LEMMA TidyPlaced ==
  ASSUME Sound, Sound', Tidy, ~Handed, NEW g \in Generation, CanPlace(g), Claim(g),
         starts' = StartsWithNext(g)
  PROVE  starts' \subseteq Objects'
<1> USE DEF Sound, CycleInv, TypeInv
<1>1. \A h \in Generation : Exclusive(h)
  BY DEF RegionInv
<1>2. Objects' = Objects \cup {NextSlot(g)}
  BY <1>1, ObjectPlaced
<1>3. starts' \subseteq starts \cup {NextSlot(g)}
  BY DEF StartsWithNext
<1>4. QED
  BY <1>2, <1>3 DEF Tidy

\* Phase 3 clears the start bits of the pages that it releases.
LEMMA TidyReclaim ==
  ASSUME NoLarge, Sound, PointerInv, Tidy, Reclaim
  PROVE  Tidy'
<1> USE DEF Sound, CycleInv, TypeInv
<1>1. /\ \A p \in chunk : GenOf(p) = from /\ p \in Page
      /\ \A p \in Page : p \notin chunk => desc'[p].gen = desc[p].gen
      /\ \A p \in SmallFlips : desc'[p].gen = dest /\ p \in chunk
  BY ReclaimLeaves
<1>2. UNCHANGED <<pinned, stack, handle>> /\ dest \in Generation /\ from \in Generation
  BY DEF Reclaim, holderVars, PassTyped
<1>3. LargeFlips = {}
  BY <1>1 DEF LargeFlips, IsLargeHead, Shape, KindInv
<1>4. \A p \in chunk : desc[p].kind = "small"
  BY <1>1, <1>2 DEF Shape, KindInv, GenOf, Generation, TableTyped, Desc
<1>5. ASSUME NEW a \in starts' PROVE a \in Objects'
  <2>1. \/ a \in starts /\ PageOf(a) \notin Released \cup Flipped
        \/ a \in pinned /\ PageOf(a) \in SmallFlips
    BY <1>3, <1>5 DEF Reclaim
  <2>2. a \in Addr /\ PageOf(a) \in Page /\ desc[PageOf(a)].gen # "Free"
    BY <2>1, ObjectsAre DEF Tidy, ObjectInv, PinInv
  <2>3. PageOf(a) \in chunk => PageOf(a) \in SmallFlips
    BY <1>4, <2>1 DEF Released, Flipped, SmallFlips
  <2>4. desc'[PageOf(a)].gen # "Free"
    BY <1>1, <1>2, <2>2, <2>3 DEF Generation
  <2>5. QED
    BY <1>5, <2>4 DEF Objects, GenOf, PageOf
<1>6. QED
  BY <1>2, <1>5 DEF Tidy, ImageOf

\* Every step of a client without cycles with static words.
LEMMA TidyStep ==
  ASSUME NoLarge, NoStatic, Sound, Sound', PointerInv, Tidy, [Next]_vars
  PROVE  Tidy'
<1> USE DEF Sound, CycleInv, TypeInv
<1>1. CASE UNCHANGED vars
  <2>1. UNCHANGED <<desc, starts, pinned, stack, handle>>
    BY <1>1 DEF vars, heapVars, tableVars, evacVars, holderVars
  <2>2. QED
    BY <2>1, TidyStays DEF Tidy, ImageOf
<1>2. CASE Client
  <2>1. pinned = {} /\ pinned' = {} /\ phase = "idle"
    BY <1>2 DEF Client, Alloc, AllocLarge, Store, SetRoot, StoreStatic, Spill, Pin, Unpin,
                Idle, collectorVars, ObjectInv, PinInv
  <2>2. CASE \E r \in Root, i \in Id, w \in Values : Alloc(r, i, w)
    <3>1. Claim("G0") /\ CanPlace("G0") /\ "G0" \in Generation /\ starts' = StartsWithNext("G0")
      BY <2>2 DEF Alloc, CanPlace, Generation
    <3>2. ~Handed
      BY <2>1 DEF Handed
    <3>3. QED
      BY <2>1, <3>1, <3>2, TidyPlaced DEF Tidy
  <2>3. CASE UNCHANGED <<desc, starts>>
    BY <2>1, <2>3, TidyStays
  <2>4. CASE \E r \in Root, i \in Id, w \in Values : AllocLarge(r, i, w)
    BY <2>4, ShapeLarge DEF AllocLarge
  <2>5. QED
    BY <1>2, <2>2, <2>3, <2>4 DEF Client, Store, SetRoot, StoreStatic, Spill, Pin, Unpin,
                                  heapVars, tableVars
<1>3. CASE StartMinor \/ StartMajor \/ StartFull
  <2>1. PICK gens :
          /\ UNCHANGED <<starts, stack, handle>> /\ pinned' = StackPins(gens)
          /\ desc' = [p \in Page |->
                        IF p \in {q \in Page : \E a \in StackPins(gens) : PageOf(a) = q}
                          THEN [desc[p] EXCEPT !.pins = TRUE] ELSE desc[p]]
    BY <1>3 DEF StartMinor, StartMajor, StartFull, Begin, holderVars
  <2>2. \A p \in Page : desc'[p].gen = desc[p].gen
    BY <2>1, PinsKeepGen
  <2>3. QED
    BY <2>1, <2>2, TidyStays DEF StackPins
<1>4. CASE MarkMinorWithStatic \/ CollectMinorWithStatic
  BY <1>4 DEF NoStatic, MarkMinorWithStatic, CollectMinorWithStatic
<1>5. CASE BeginPass \/ PickChunk \/ MidEvacOom \/ Rewrite
  <2>1. UNCHANGED <<desc, starts, pinned, stack, handle>>
    BY <1>5 DEF BeginPass, PickChunk, MidEvacOom, Rewrite, heapVars, tableVars, holderVars
  <2>2. QED
    BY <2>1, TidyStays DEF Tidy, ImageOf
<1>6. CASE Mark
  <2>1. UNCHANGED <<starts, stack, handle>> /\ \A p \in Page : desc'[p].gen = desc[p].gen
    BY <1>6, PinsKeepGen DEF Mark, holderVars
  <2>2. pinned' \subseteq ImageOf(stack) \cup ImageOf(handle)
    <3>1. pinned' = pinned \cup MarkedLarge \cup FoldedPins
      BY <1>6 DEF Mark, PinSet
    <3>2. MarkedLarge = {} /\ FoldedPins \subseteq ImageOf(handle)
      BY MarkPins DEF ExplicitPins
    <3>3. QED
      BY <3>1, <3>2 DEF Tidy
  <2>3. QED
    BY <2>1, <2>2, TidyStays
<1>7. CASE CopyObject
  <2>1. Claim(dest) /\ CanPlace(dest) /\ starts' = StartsWithNext(dest) /\ dest \in Generation
        /\ UNCHANGED <<pinned, stack, handle>> /\ ~Handed
    BY <1>7 DEF CopyObject, evacVars, holderVars, PassTyped, Handed
  <2>2. QED
    BY <2>1, TidyPlaced DEF Tidy, ImageOf
<1>8. CASE Reclaim
  BY <1>8, TidyReclaim
<1>9. CASE EndCycle
  <2>1. UNCHANGED <<starts, stack, handle>> /\ pinned' = {}
        /\ \A p \in Page : desc'[p].gen = desc[p].gen
    BY <1>9 DEF EndCycle, TableTyped, Desc
  <2>2. QED
    BY <2>1, TidyStays
<1>10. QED
  BY <1>1, <1>2, <1>3, <1>4, <1>5, <1>6, <1>7, <1>8, <1>9 DEF Next, Collector

\* In the last pass of a full collection, which marks from what the client holds
\* alone, only what the client reaches is kept.
FullInv ==
  Looping /\ cycle = "full" /\ passes = <<>> =>
    \A a \in Real : cell[a].id \in ReachedIds

\* What the client reaches has the same names as long as it sees no change.
LEMMA ReachedStays ==
  ASSUME NamesApart, Sane, Sane', Held' = Held, Links' = Links
  PROVE  ReachedIds' = ReachedIds
<1>1. Seen /\ Seen'
  BY SeenNow, SeenNext
<1>2. PICK h, l : h = Held' /\ l = Links' /\ ReachedIds' = Promise!Live(h, l)
  BY <1>1 DEF Seen
<1>3. QED
  BY <1>1, <1>2 DEF Seen

\* It is what is reached of what is in use.
LEMMA ReachedByName ==
  NamesApart /\ Sane => \A a \in Real : cell[a].id \in ReachedIds <=> a \in ReachedNow
<1> SUFFICES ASSUME NamesApart, Sane, NEW a \in Real
             PROVE  cell[a].id \in ReachedIds <=> a \in ReachedNow
  OBVIOUS
<1>1. ReachedNow \subseteq Real
  BY ReachedNowIs DEF NamesApart
<1>2. QED
  BY <1>1, HeldNow DEF ReachedIds

\* A step within a pass that makes no object.
LEMMA FullStays ==
  ASSUME NamesApart, Sane, Sane', FullInv, Looping, UNCHANGED <<cycle, passes>>,
         Held' = Held, Links' = Links,
         \A a \in Real' : \E b \in Real : cell'[a].id = cell[b].id
  PROVE  FullInv'
<1>1. ReachedIds' = ReachedIds
  BY ReachedStays
<1>2. QED
  BY <1>1 DEF FullInv

\* The third pass of a full collection finds all objects in Tenured.
LEMMA LastPass ==
  ASSUME Sound, phase = "mark", cycle = "full", passes = <<>>
  PROVE  from = "Tenured" /\ ~scanning /\ PagesIn("G0") = {} /\ PagesIn("G1") = {}
<1> USE DEF Sound
<1>1. PICK k \in 0 .. Len(Plan) : Stage(k)
  BY DEF CycleInv, PlanInv
<1>2. Plan = FullPasses
  BY DEF Plan
<1>3. Len(FullPasses) = 3 /\ FullPasses \in Seq(PassType)
      /\ FullPasses[3] = Pass("Tenured", "Tenured", "none")
  <2>1. Plan \in Seq(PassType)
    BY PlanIs DEF PlanSound
  <2>2. QED
    BY <1>2, <2>1 DEF FullPasses
<1>4. k = 3
  <2> HIDE DEF FullPasses
  <2>1. SubSeq(FullPasses, k + 1, Len(FullPasses)) = <<>> /\ k \in 0 .. Len(FullPasses)
    BY <1>1, <1>2 DEF Stage
  <2>2. QED
    BY <1>3, <2>1, Suffix
<1>5. from = "Tenured" /\ ~scanning
  <2>1. k > 0
    BY <1>4
  <2>2. from = Plan[k].from /\ scanning = (Plan[k].scan # "none")
    BY <1>1, <2>1, Zenon DEF Stage
  <2>3. from = Pass("Tenured", "Tenured", "none").from
        /\ scanning = (Pass("Tenured", "Tenured", "none").scan # "none")
    BY <1>2, <1>3, <1>4, <2>2, Zenon
  <2>4. Pass("Tenured", "Tenured", "none").from = "Tenured"
        /\ Pass("Tenured", "Tenured", "none").scan = "none"
    BY DEF Pass
  <2>5. QED
    BY <2>3, <2>4, Zenon
<1>6. QED
  BY <1>5, YoungLeft DEF YoungEmptyBeforeCompaction

\* Its mark follows pointers from roots, static words and what is pinned, and no
\* others.
LEMMA FullMark ==
  ASSUME NoLarge, NoStatic, NamesApart, Sane, Sane', Tidy, Mark, UNCHANGED cycleVars,
         cycle = "full", passes = <<>>
  PROVE  \A a \in Real' : a \in ReachedNow /\ cell'[a] = cell[a] /\ a \in Real
<1> USE DEF Sane, Sound, CycleInv, TypeInv
<1>1. /\ phase = "mark" /\ phase' = "chunk" /\ marks' = ExtendedMark
      /\ UNCHANGED <<cell, starts>>
      /\ \A p \in Page : desc'[p].gen = desc[p].gen
  BY PinsKeepGen DEF Mark
<1>2. from = "Tenured" /\ ~scanning /\ PagesIn("G0") = {} /\ PagesIn("G1") = {}
  BY <1>1, LastPass
<1>3. ~premarked
  BY DEF PointerInv, MarkedInv, NoStatic
<1>4. /\ ~Busy /\ ~Looping /\ Looping' /\ Doomed = {} /\ Doomed' = PagesIn(from)
      /\ \A a \in Objects : IsObject(a) /\ ~IsForward(a)
  <2>1. ~Busy /\ ~Looping /\ Looping'
    BY <1>1 DEF Looping, Busy
  <2>2. QED
    BY <1>3, <2>1, MarkLists, NoMarkers DEF Doomed
<1>5. Objects' = Objects /\ Real = Objects
  BY <1>1, <1>4, ObjectsAre, ObjectsNext DEF Real, Kept
<1>6. \A a \in Objects : PageOf(a) \in PagesIn(from)
  BY <1>2, ObjectsAre DEF PagesIn, TableTyped, Desc, GenOf, Generation
<1>7. \A a \in Real' : a \in Objects /\ a \in marks'
  <2>1. \A a \in Real' : a \in Objects' /\ (PageOf(a) \in Doomed' => a \in marks')
    BY DEF Real, Kept, PageOf
  <2>2. QED
    BY <1>4, <1>5, <1>6, <2>1
<1> DEFINE T == ReachedNow
           seeds == InternalMark \cup PinSet \cup Pointers(PinSet \cap starts)
<1>8. /\ T \subseteq Objects
      /\ \A w \in HeldWords : w # Null => w \in T
      /\ \A w \in Pointers(T) : w # Null => w \in T
  <2>1. T \subseteq Real /\ Reaches(T)
    BY ReachedNowIs DEF NamesApart
  <2>2. \A w \in Objects : Meant(w) = w
    BY <1>4 DEF Meant
  <2>3. \A w : Safe(w) => w = Null \/ w \in Objects
    BY DEF Safe, Kept
  <2>4. \A w \in HeldWords : \E x \in Holder : WordOf(x) = w
    BY DEF NamesApart, Holder, WordOf, HeldWords, ImageOf, HoldersTyped
  <2>5. \A w \in HeldWords : w # Null => w \in T
    <3>1. \A w \in HeldWords : w = Null \/ w \in Objects
      BY <2>3, <2>4, HeldNow
    <3>2. QED
      BY <2>1, <2>2, <2>4, <3>1 DEF Reaches
  <2>6. ASSUME NEW w \in Pointers(T), w # Null PROVE w \in T
    <3>1. PICK a \in T : IsObject(a) /\ w = cell[a].ptr
      BY <2>6 DEF Pointers
    <3>2. w \in Objects
      <4>1. a \in Real
        BY <2>1, <3>1
      <4>2. Safe(cell[a].ptr)
        BY <4>1, HeldNow
      <4>3. QED
        BY <2>3, <2>6, <3>1, <4>2
    <3>3. QED
      BY <2>1, <2>2, <2>6, <3>1, <3>2 DEF Reaches
  <2>7. QED
    BY <1>5, <2>1, <2>5, <2>6
<1> HIDE DEF T
<1>9. Markable(Pointers(T)) \subseteq T
  BY <1>8 DEF Markable
<1>10. starts \subseteq Addr
  BY DEF MemoryTyped
<1>11. InternalMark \subseteq T
  <2>1. ScannedObjects = {}
    BY <1>2 DEF ScannedObjects, ScannedCards
  <2>2. InternalMark = Closure(VisitedWords \cup {})
    BY <1>3, <2>1 DEF InternalMark, Pointers
  <2>3. Markable(VisitedWords \cup {}) \subseteq T
    BY <1>8 DEF Markable, VisitedWords, HeldWords, ImageOf, HoldersTyped
  <2>4. QED
    BY <1>9, <1>10, <2>2, <2>3, ClosureIs
<1>12. PinSet \subseteq T
  <2>1. PinSet = pinned \cup ExplicitPins /\ PinSet \subseteq Objects
    BY MarkPins
  <2>2. \A a \in Objects : a # Null
    BY ObjectsAre, PageTableAssumption DEF Addr
  <2>3. QED
    BY <1>8, <2>1, <2>2 DEF Tidy, ExplicitPins, HeldWords
<1>13. Markable(seeds) \subseteq T
  <2>1. \A w \in Pointers(PinSet \cap starts) : w # Null => w \in T
    BY <1>8, <1>12 DEF Pointers
  <2>2. QED
    BY <1>11, <1>12, <2>1 DEF Markable
<1>14. marks' \subseteq T
  <2>1. marks' = Closure(seeds)
    BY <1>1 DEF ExtendedMark
  <2> HIDE DEF seeds
  <2>2. QED
    BY <1>9, <1>10, <1>13, <2>1, ClosureIs
<1>15. QED
  BY <1>1, <1>5, <1>7, <1>14 DEF T

\* ... and nothing else of a full collection makes an object that the client
\* does not reach.
LEMMA FullStep ==
  ASSUME NoLarge, NoStatic, NoGaps, OneChunk, NamesApart, Sane, Sane', Tidy, FullInv,
         [Next]_vars
  PROVE  FullInv'
<1> SUFFICES ASSUME Looping', cycle' = "full", passes' = <<>>
             PROVE  \A a \in Real' : cell'[a].id \in ReachedIds'
  BY DEF FullInv
<1>1. CASE UNCHANGED vars
  <2>1. Looping /\ UNCHANGED <<cell, starts, desc, cycle, passes, root, static, stack, handle>>
    BY <1>1 DEF vars, heapVars, tableVars, evacVars, holderVars, passVars, loopVars, cycleVars,
                Looping, Busy
  <2>2. Real' = Real
    BY <1>1 DEF Real, Kept, Doomed, Objects, Unmoved, Pending, IsObject, GenOf, PageOf, vars,
                heapVars, tableVars, evacVars, holderVars, passVars, loopVars, cycleVars,
                Looping, Busy
  <2>3. Held' = Held /\ Links' = Links
    BY <2>1, NothingWritten
  <2>4. FullInv'
    BY <2>1, <2>2, <2>3, FullStays
  <2>5. QED
    BY <2>4 DEF FullInv
<1>2. CASE Client
  <2>1. phase' = "idle"
    BY <1>2 DEF Client, Alloc, AllocLarge, Store, SetRoot, StoreStatic, Spill, Pin, Unpin,
                Idle, collectorVars
  <2>2. QED
    BY <2>1 DEF Looping, Busy
<1>3. CASE StartMinor \/ StartMajor \/ StartFull \/ BeginPass \/ EndCycle
  <2>1. phase' \in {"begin", "mark", "idle"}
    BY <1>3 DEF StartMinor, StartMajor, StartFull, Begin, BeginPass, EndCycle
  <2>2. QED
    BY <2>1 DEF Looping, Busy
<1>4. CASE MarkMinorWithStatic \/ CollectMinorWithStatic
  BY <1>4 DEF NoStatic, MarkMinorWithStatic, CollectMinorWithStatic
<1>5. CASE Mark /\ UNCHANGED cycleVars
  <2>1. cycle = "full" /\ passes = <<>> /\ UNCHANGED <<cell, root, static, stack, handle>>
    BY <1>5 DEF Mark, cycleVars, holderVars
  <2>2. ReachedIds' = ReachedIds
    BY <2>1, NothingWritten, ReachedStays
  <2>3. ASSUME NEW a \in Real' PROVE cell'[a].id \in ReachedIds
    <3>1. a \in ReachedNow /\ cell'[a] = cell[a]
      BY <1>5, <2>1, <2>3, FullMark
    <3>2. QED
      BY <3>1 DEF ReachedIds
  <2>4. QED
    BY <2>2, <2>3
<1>6. CASE (PickChunk \/ MidEvacOom) /\ UNCHANGED cycleVars
  <2>1. Looping /\ UNCHANGED <<cell, starts, desc, cycle, passes, marks, root, static, stack,
                               handle>>
    BY <1>6 DEF PickChunk, MidEvacOom, heapVars, tableVars, holderVars, passVars, loopVars,
                cycleVars, Looping, Busy
  <2>2. Unmoved' = Unmoved
    <3>1. CASE PickChunk
      BY <3>1, LoopPick DEF Sane, Sound, CycleInv, TypeInv
    <3>2. CASE MidEvacOom
      BY <3>2 DEF MidEvacOom, loopVars, Busy, Unmoved, Pending
    <3>3. QED
      BY <1>6, <3>1, <3>2
  <2>3. Real' = Real
    BY <2>1, <2>2 DEF Real, Kept, Doomed, Objects, IsObject, GenOf, PageOf
  <2>4. Held' = Held /\ Links' = Links
    BY <2>1, NothingWritten
  <2>5. FullInv'
    BY <2>1, <2>3, <2>4, FullStays
  <2>6. QED
    BY <2>5 DEF FullInv
<1>7. CASE (CopyObject \/ Rewrite \/ Reclaim) /\ UNCHANGED cycleVars
  <2>1. Looping /\ UNCHANGED <<cycle, passes>>
    BY <1>7 DEF CopyObject, Rewrite, Reclaim, cycleVars, Looping, Busy
  <2>2. /\ Held' = Held /\ Links' = Links
        /\ \A a \in Real' : \E b \in Real : cell'[a].id = cell[b].id
    BY <1>7, CopyHidden, RewriteHidden, ReclaimHidden
  <2>3. FullInv'
    BY <2>1, <2>2, FullStays
  <2>4. QED
    BY <2>3 DEF FullInv
<1>8. QED
  BY <1>1, <1>2, <1>3, <1>4, <1>5, <1>6, <1>7 DEF Next, Collector

\* At the end of a collection nothing is left but what the client reaches.
LEMMA FullEnds ==
  ASSUME NamesApart, Sane, Tidy, FullInv, EndCycle, cycle = "full"
  PROVE  starts \subseteq Reached
<1> USE DEF Sane, Sound, CycleInv, TypeInv
<1>1. phase = "chunk" /\ passes = <<>> /\ Unmoved = {}
  BY NonePending DEF EndCycle
<1>2. Looping /\ ~Busy /\ Doomed = {} /\ Kept = Objects
  BY <1>1 DEF Looping, Busy, Doomed, Kept
<1>3. /\ Real = Objects
      /\ \A a \in Objects : IsObject(a) /\ ~IsForward(a)
  BY <1>2, NoMarkers DEF Real
<1>4. \A w : Safe(w) => w = Null \/ (w \in Objects /\ Meant(w) = w)
  BY <1>2, <1>3 DEF Safe, Meant
<1>5. \A w \in HeldWords : w = Null \/ w \in Objects
  BY <1>4 DEF PointerInv, KeptInv
<1>6. \A a \in Objects : cell[a].ptr = Null \/ cell[a].ptr \in Objects
  BY <1>3, <1>4, HeldNow
<1>7. HeldWords \cup Pointers(Reached) \subseteq Reached \cup {Null} /\ Reached \subseteq Objects
  <2>1. HeldWords \ {Null} \subseteq Objects
    BY <1>5
  <2>2. IsFiniteSet(Objects) /\ Cardinality(Objects) <= Cardinality(Id)
    BY <1>3, RealIsFinite DEF NamesApart
  <2>3. IsFiniteSet(Id)
    BY DEF NamesApart
  <2>4. QED
    BY <1>6, <2>1, <2>2, <2>3, ReachedWithin
<1>8. Reaches(Reached)
  <2>1. \A x \in Holder : WordOf(x) \in HeldWords
    BY DEF NamesApart, Holder, WordOf, HeldWords, ImageOf, HoldersTyped
  <2>2. \A x \in Holder : WordOf(x) # Null => Meant(WordOf(x)) \in Reached
    BY <1>4, <1>5, <1>7, <2>1, HeldNow
  <2>3. ASSUME NEW a \in Reached, IsObject(a), cell[a].ptr # Null
        PROVE  Meant(cell[a].ptr) \in Reached
    <3>1. cell[a].ptr \in Pointers(Reached)
      BY <2>3 DEF Pointers
    <3>2. Safe(cell[a].ptr)
      BY <1>3, <1>7, HeldNow
    <3>3. QED
      BY <1>4, <1>7, <2>3, <3>1, <3>2
  <2>4. QED
    BY <2>2, <2>3 DEF Reaches
<1>9. ReachedNow \subseteq Reached
  BY <1>8, ReachedNowIs DEF NamesApart
<1>10. \A a \in Objects : a \in ReachedNow
  BY <1>1, <1>2, <1>3, ReachedByName DEF FullInv
<1>11. QED
  BY <1>9, <1>10 DEF Tidy

\* Nothing is there to be left in an empty heap.
LEMMA TidyInit == Init => Tidy /\ FullInv
BY DEF Init, TableInit, Tidy, FullInv, Looping, Busy

\* A full collection takes away all garbage, whatever dead objects of older
\* generations point at it and whatever cards they lie on: its last pass marks
\* from what the client holds alone, and nothing that it leaves is unreached.
THEOREM FullLeavesNoGarbage ==
  ASSUME NoLarge, NoStatic, NoGaps, NamesApart
  PROVE  Spec /\ []OneChunk => FullReclaims
<1>1. Init => Tidy /\ FullInv
  BY TidyInit
<1>2. OneChunk /\ Sane /\ Sane' /\ Tidy /\ FullInv /\ [Next]_vars => Tidy' /\ FullInv'
  BY TidyStep, FullStep DEF Sane
<1>3. Sane /\ Tidy /\ FullInv => (EndCycle /\ cycle = "full" => starts \subseteq Reached)
  BY FullEnds
<1>4. Spec /\ []OneChunk => []Sane
  BY SaneAlways DEF PinsKnown
<1>5. QED
  BY <1>1, <1>2, <1>3, <1>4, PTL DEF Spec, FullReclaims
=============================================================================
